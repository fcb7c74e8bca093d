------------------------- MODULE GenerationRun_proofs -------------------------
(***************************************************************************)
(* What can be relied on of the rows of the jobs table, of the progress    *)
(* bar that reads them and of the one directory in which every run for a   *)
(* story works, for any number of runs, frames, polls, reloads and faults: *)
(*   - RowsTellTheOutcome: a row that has settled says how its run ended;  *)
(*   - BarsEndOnTheOutcome: so does a bar that has stopped, however late   *)
(*     and in whatever order its answers came;                             *)
(*   - DraftsKeepTheirFilm: the newest draft keeps its own whole film      *)
(*     until another run begins to render;                                 *)
(*   - RunTypes: no count outgrows its frames, no file name is used twice; *)
(*   - FilmsAreTheirRunsOwn: a run that had the directory to itself films  *)
(*     its own clips and frames, and enough of them.                       *)
(* None of these is inductive.  The row needs to know what each stage of   *)
(* the run has promised so far (RowOf), the bar that answers still under   *)
(* way never contradict a settled row (BarInv), the film that two runs at  *)
(* work in the directory at once are both in `mixed`, that whoever is      *)
(* about to render finds its own index.html or that of a run it was mixed  *)
(* with, and that it has begun to since the newest draft (ShareInv).  The counts need what is still to be done of a plan    *)
(* (PlanInv), and the film what each stage of a run that is alone has got  *)
(* into the directory so far (OwnInv).                                     *)
(***************************************************************************)
EXTENDS JobPolling, FiniteSetTheorems, TLAPS

Labels == {"idle", "script", "narrate", "shoot", "render", "record", "finish", "fail", "over"}

(* As much of TypeOK as these proofs rest on.                              *)
RowType ==
    /\ pc \in [Run -> Labels]
    /\ stage \in [Run -> Stages]

(* What a stage of a run has promised to whoever reads its row.            *)
RowOf(r) ==
    /\ pc[r] \notin {"finish", "fail", "over"} => r \notin drafted
    /\ pc[r] = "finish" => r \in drafted
    /\ pc[r] = "fail" => r \notin drafted \ cut
    /\ pc[r] # "over" => stage[r] # "done" /\ r \notin error
    /\ pc[r] = "over" => /\ stage[r] = "done" <=> r \notin error
                         /\ stage[r] = "done" => r \in drafted
                         /\ r \in drafted \ cut => stage[r] = "done"

RowInv == RowType /\ \A r \in Tracked \ troubled : RowOf(r)

-----------------------------------------------------------------------------
(* What an action does to the row of a run.                                *)

(* _stage reports no stage that a settled row has.                         *)
LEMMA StagesBeforeTheLast ==
    ASSUME RowType, NEW q \in Run, NEW s \in Stages \ {"done"}, SetStage(q, s)
    PROVE  /\ stage' \in [Run -> Stages]
           /\ \A r \in Run : r # q => stage'[r] = stage[r]
           /\ stage[q] # "done" => stage'[q] # "done"
BY DEF RowType, SetStage, Fault

(* A step of a run before its draft keeps its row from being settled.      *)
LEMMA EarlySteps ==
    ASSUME RowType, NEW q \in Run,
           \/ Start(q) \/ StartFails(q) \/ Script(q) \/ Compile(q)
           \/ \E f \in 1..MaxFrames : Narrate(q, f) \/ NarrateFails(q, f) \/ BuildFrame(q, f)
           \/ WriteShot(q) \/ AcceptShot(q) \/ GiveUpShot(q) \/ FramesDone(q)
           \/ StageFails(q) \/ Render(q)
    PROVE  /\ pc' \in [Run -> Labels] /\ stage' \in [Run -> Stages]
           /\ \A r \in Run : r # q => pc'[r] = pc[r] /\ stage'[r] = stage[r]
           /\ pc[q] \notin {"finish", "fail", "over"}
           /\ pc'[q] \notin {"finish", "over"}
           /\ stage[q] # "done" => stage'[q] # "done"
           /\ UNCHANGED <<error, drafted, newest, cut, troubled>>
<1> USE DEF RowType, rowVars, draftVars, planVars, diskVars, historyVars, Goto, Stop
<1>1. CASE Start(q)
  <2>1. SetStage(q, "script")
    BY <1>1 DEF Start
  <2> HIDE DEF RowType
  <2>2. RowType
    OBVIOUS
  <2>3. /\ stage' \in [Run -> Stages]
        /\ \A r \in Run : r # q => stage'[r] = stage[r]
        /\ stage[q] # "done" => stage'[q] # "done"
    BY <2>1, <2>2, StagesBeforeTheLast DEF Stages
  <2> QED
    BY <1>1, <2>2, <2>3 DEF Start, RowType, Labels
<1>2. CASE StartFails(q)
  BY <1>2 DEF StartFails, Labels
<1>3. CASE Script(q)
  <2>1. CASE pc' = [pc EXCEPT ![q] = "narrate"] /\ SetStage(q, "narration")
    <3>1. /\ stage' \in [Run -> Stages]
          /\ \A r \in Run : r # q => stage'[r] = stage[r]
          /\ stage[q] # "done" => stage'[q] # "done"
      BY <2>1, StagesBeforeTheLast DEF Stages
    <3> QED
      BY <1>3, <2>1, <3>1 DEF Script, Labels
  <2>2. CASE pc' = [pc EXCEPT ![q] = "fail"] /\ UNCHANGED stage
    BY <1>3, <2>2 DEF Script, Labels
  <2> QED
    BY <1>3, <2>1, <2>2 DEF Script
<1>4. CASE Compile(q)
  <2>1. CASE pc' = [pc EXCEPT ![q] = "shoot"] /\ SetStage(q, "shots")
    <3>1. /\ stage' \in [Run -> Stages]
          /\ \A r \in Run : r # q => stage'[r] = stage[r]
          /\ stage[q] # "done" => stage'[q] # "done"
      BY <2>1, StagesBeforeTheLast DEF Stages
    <3> QED
      BY <1>4, <2>1, <3>1 DEF Compile, Labels
  <2>2. CASE pc' = [pc EXCEPT ![q] = "fail"] /\ UNCHANGED stage
    BY <1>4, <2>2 DEF Compile, Labels
  <2> QED
    BY <1>4, <2>1, <2>2 DEF Compile
<1>5. ASSUME NEW f \in 1..MaxFrames, Narrate(q, f) \/ BuildFrame(q, f)
      PROVE  pc[q] \in {"narrate", "shoot"} /\ UNCHANGED <<pc, stage, error, drafted, newest, cut, troubled>>
  BY <1>5 DEF Narrate, BuildFrame
<1>6. ASSUME NEW f \in 1..MaxFrames, NarrateFails(q, f)
      PROVE  /\ pc[q] = "narrate" /\ pc' = [pc EXCEPT ![q] = "fail"]
             /\ UNCHANGED <<stage, error, drafted, newest, cut, troubled>>
  BY <1>6 DEF NarrateFails
<1>7. CASE WriteShot(q) \/ AcceptShot(q) \/ GiveUpShot(q)
  BY <1>7 DEF WriteShot, AcceptShot, GiveUpShot
<1>8. CASE FramesDone(q)
  <2>1. CASE pc' = [pc EXCEPT ![q] = "render"] /\ SetStage(q, "render")
    <3>1. /\ stage' \in [Run -> Stages]
          /\ \A r \in Run : r # q => stage'[r] = stage[r]
          /\ stage[q] # "done" => stage'[q] # "done"
      BY <2>1, StagesBeforeTheLast DEF Stages
    <3> QED
      BY <1>8, <2>1, <3>1 DEF FramesDone, Labels
  <2>2. CASE pc' = [pc EXCEPT ![q] = "fail"] /\ UNCHANGED stage
    BY <1>8, <2>2 DEF FramesDone, Labels
  <2> QED
    BY <1>8, <2>1, <2>2 DEF FramesDone
<1>9. CASE StageFails(q)
  BY <1>9 DEF StageFails, Labels
<1>10. CASE Render(q)
  BY <1>10 DEF Render, Labels
<1> QED
  BY <1>1, <1>2, <1>3, <1>4, <1>5, <1>6, <1>7, <1>8, <1>9, <1>10 DEF Labels

(* Nothing but the end of the worker takes a run past its last promise:    *)
(* RowInv is inductive.                                                    *)
LEMMA RowInvInit == Init => RowInv
BY RunAssumption DEF Init, RowInv, RowType, RowOf, Labels, Stages

LEMMA RowInvNext ==
    ASSUME RowInv, [Next]_vars
    PROVE  RowInv'
<1> USE DEF rowVars, draftVars, planVars, diskVars, historyVars, Goto, Stop, Fault
<1>1. CASE \E q \in Run : \/ Start(q) \/ StartFails(q) \/ Script(q) \/ Compile(q)
                          \/ \E f \in 1..MaxFrames : Narrate(q, f) \/ NarrateFails(q, f) \/ BuildFrame(q, f)
                          \/ WriteShot(q) \/ AcceptShot(q) \/ GiveUpShot(q) \/ FramesDone(q)
                          \/ StageFails(q) \/ Render(q)
  <2>1. PICK q \in Run : /\ pc' \in [Run -> Labels] /\ stage' \in [Run -> Stages]
                         /\ \A r \in Run : r # q => pc'[r] = pc[r] /\ stage'[r] = stage[r]
                         /\ pc[q] \notin {"finish", "fail", "over"}
                         /\ pc'[q] \notin {"finish", "over"}
                         /\ stage[q] # "done" => stage'[q] # "done"
                         /\ UNCHANGED <<error, drafted, newest, cut, troubled>>
    BY <1>1, EarlySteps DEF RowInv
  <2>2. RowType'
    BY <2>1 DEF RowType
  <2>3. ASSUME NEW r \in Tracked \ troubled
        PROVE  RowOf(r)'
    <3>1. RowOf(r) /\ r \in Run
      BY RunAssumption DEF RowInv
    <3> QED
      BY <2>1, <3>1 DEF RowOf
  <2> QED
    BY <2>1, <2>2, <2>3 DEF RowInv
<1>2. ASSUME NEW q \in Run,
             RecordDraft(q) \/ RecordFails(q) \/ FinishJob(q) \/ FinishJobFails(q)
             \/ FailJob(q) \/ FailJobFails(q)
      PROVE  RowInv'
  <2>1. RowType'
    BY <1>2 DEF RowInv, RowType, RecordDraft, RecordFails, FinishJob, FinishJobFails, FailJob,
                FailJobFails, Labels, Stages
  <2>2. troubled \subseteq troubled'
    BY <1>2 DEF RecordDraft, RecordFails, FinishJob, FinishJobFails, FailJob, FailJobFails
  <2>3. ASSUME NEW r \in Tracked \ troubled'
        PROVE  RowOf(r)'
    <3>1. RowOf(r) /\ RowType /\ r \in Run /\ r \in Tracked
      BY <2>2, <2>3, RunAssumption DEF RowInv
    <3>2. CASE RecordDraft(q)
      BY <3>1, <3>2 DEF RowOf, RowType, RecordDraft
    <3>3. CASE RecordFails(q)
      BY <3>1, <3>3 DEF RowOf, RowType, RecordFails
    <3>4. CASE FinishJob(q)
      BY <3>1, <3>4 DEF RowOf, RowType, FinishJob
    <3>5. CASE FinishJobFails(q)
      BY <3>1, <3>5, <2>3 DEF RowOf, RowType, FinishJobFails
    <3>6. CASE FailJob(q)
      BY <3>1, <3>6 DEF RowOf, RowType, FailJob
    <3>7. CASE FailJobFails(q)
      BY <3>1, <3>7, <2>3 DEF RowOf, RowType, FailJobFails
    <3> QED
      BY <1>2, <3>2, <3>3, <3>4, <3>5, <3>6, <3>7
  <2> QED
    BY <2>1, <2>3 DEF RowInv
<1>3. CASE \/ \E q \in Run : \E f \in strays[q] : Stray(q, f)
           \/ \E q \in Run : Overwrite(q) \/ EndOrphan(q)
  BY <1>3 DEF RowInv, RowType, RowOf, Stray, Overwrite, EndOrphan
<1>4. CASE Die
  <2>1. /\ pc' \in [Run -> Labels]
        /\ \A r \in Run \ troubled' : pc'[r] = pc[r]
        /\ troubled \subseteq troubled'
        /\ UNCHANGED <<stage, error, drafted, cut>>
    BY <1>4 DEF RowInv, RowType, Die, InFlight, Labels
  <2> QED
    BY <2>1, RunAssumption DEF RowInv, RowType, RowOf
<1>5. CASE UNCHANGED vars
  BY <1>5 DEF RowInv, RowType, RowOf, vars
<1> QED
  BY <1>1, <1>2, <1>3, <1>4, <1>5 DEF Next, RunStep

(* A run in trouble stays in trouble.                                      *)
LEMMA TroubleStays ==
    ASSUME RowInv, [Next]_vars
    PROVE  troubled \subseteq troubled'
<1> USE DEF draftVars, historyVars
<1>1. CASE \E q \in Run : \/ Start(q) \/ StartFails(q) \/ Script(q) \/ Compile(q)
                          \/ \E f \in 1..MaxFrames : Narrate(q, f) \/ NarrateFails(q, f) \/ BuildFrame(q, f)
                          \/ WriteShot(q) \/ AcceptShot(q) \/ GiveUpShot(q) \/ FramesDone(q)
                          \/ StageFails(q) \/ Render(q)
  BY <1>1, EarlySteps DEF RowInv
<1>2. CASE \E q \in Run : RecordDraft(q) \/ RecordFails(q) \/ FinishJob(q) \/ FinishJobFails(q)
                          \/ FailJob(q) \/ FailJobFails(q)
  BY <1>2 DEF RecordDraft, RecordFails, FinishJob, FinishJobFails, FailJob, FailJobFails
<1>3. CASE \/ \E q \in Run : \E f \in strays[q] : Stray(q, f)
           \/ \E q \in Run : Overwrite(q) \/ EndOrphan(q)
           \/ Die \/ UNCHANGED vars
  BY <1>3 DEF Stray, Overwrite, EndOrphan, Die, vars
<1> QED
  BY <1>1, <1>2, <1>3 DEF Next, RunStep

(* A row that settled before stays as it is, as long as the run has no     *)
(* trouble: only a run that is over has a settled row.                     *)
LEMMA SettledRowsStay ==
    ASSUME RowInv, [Next]_vars, NEW r \in Tracked \ troubled', IsSettled(Row(r))
    PROVE  r \notin troubled /\ Row(r)' = Row(r)
<1> USE DEF rowVars, draftVars, planVars, diskVars, historyVars, Goto, Stop, Fault
<1>1. CASE \E q \in Run : \/ Start(q) \/ StartFails(q) \/ Script(q) \/ Compile(q)
                          \/ \E f \in 1..MaxFrames : Narrate(q, f) \/ NarrateFails(q, f) \/ BuildFrame(q, f)
                          \/ WriteShot(q) \/ AcceptShot(q) \/ GiveUpShot(q) \/ FramesDone(q)
                          \/ StageFails(q) \/ Render(q)
  <2>1. PICK q \in Run : /\ \A p \in Run : p # q => stage'[p] = stage[p]
                         /\ pc[q] # "over"
                         /\ UNCHANGED <<error, troubled>>
    BY <1>1, EarlySteps DEF RowInv
  <2> QED
    BY <2>1, RunAssumption DEF RowInv, RowOf, Row, IsSettled
<1>2. ASSUME NEW q \in Run,
             RecordDraft(q) \/ RecordFails(q) \/ FinishJob(q) \/ FinishJobFails(q)
             \/ FailJob(q) \/ FailJobFails(q)
      PROVE  r \notin troubled /\ Row(r)' = Row(r)
  <2>1. /\ pc[q] # "over"
        /\ stage' \in {stage, [stage EXCEPT ![q] = "done"]}
        /\ error' \in {error, error \cup {q}}
    BY <1>2 DEF RecordDraft, RecordFails, FinishJob, FinishJobFails, FailJob, FailJobFails
  <2>2. r \in Tracked \ troubled /\ r \in Run /\ RowType
    BY TroubleStays, RunAssumption DEF RowInv
  <2>3. pc[r] = "over"
    BY <2>2 DEF RowInv, RowOf, Row, IsSettled
  <2> QED
    BY <2>1, <2>2, <2>3 DEF Row, RowType
<1>3. CASE \/ \E q \in Run : \E f \in strays[q] : Stray(q, f)
           \/ \E q \in Run : Overwrite(q) \/ EndOrphan(q)
           \/ Die \/ UNCHANGED vars
  BY <1>3 DEF Stray, Overwrite, EndOrphan, Die, vars, Row
<1> QED
  BY <1>1, <1>2, <1>3 DEF Next, RunStep

-----------------------------------------------------------------------------
(* The row.                                                                *)

LEMMA RowInvTells == RowInv => RowTellsTheOutcome
BY DEF RowInv, RowOf, RowTellsTheOutcome

(* When a tracked run is over its row says what became of it: "done" if    *)
(* and only if there is a draft, else an error, unless the worker died or  *)
(* the row could not be written (jobs.py, routes.py youtube_job_start).    *)
THEOREM RowsTellTheOutcome == Spec => []RowTellsTheOutcome
BY RowInvInit, RowInvNext, RowInvTells, PTL DEF Spec

-----------------------------------------------------------------------------
(* The bar.                                                                *)

(* A page that watches nobody has asked nothing; an answer that says a run *)
(* is settled, and a bar that has stopped, say what its row says for good. *)
BarInv ==
    /\ watched \in Tracked \cup {Nobody}
    /\ watched = Nobody => ~stop /\ asked = {} /\ \A p \in Poll : answer[p] = NoAnswer
    /\ asked \subseteq Poll /\ answer = [p \in Poll |-> answer[p]]
    /\ watched \notin troubled =>
          /\ \A p \in Poll : IsSettled(answer[p]) => answer[p] = Row(watched)
          /\ stop => IsSettled(job) /\ job = Row(watched)

(* While the row stands still: what the page does.                         *)
LEMMA BarInvPage ==
    ASSUME BarInv, UNCHANGED vars,
           \/ \E r \in Run : Watch(r)
           \/ \E p \in Poll : Ask(p) \/ Serve(p) \/ Deliver(p) \/ Drop(p)
           \/ Reload
    PROVE  BarInv'
<1>0. UNCHANGED <<stage, error, troubled>> /\ \A r : Row(r)' = Row(r)
  BY DEF vars, rowVars, historyVars, Row
<1>1. ASSUME NEW r \in Run, Watch(r) PROVE BarInv'
  BY <1>0, <1>1, RunAssumption DEF Watch, BarInv, IsSettled
<1>2. ASSUME NEW p \in Poll, Ask(p) PROVE BarInv'
  BY <1>0, <1>2 DEF Ask, BarInv
<1>3. ASSUME NEW p \in Poll, Serve(p) PROVE BarInv'
  BY <1>0, <1>3 DEF Serve, BarInv
<1>4. ASSUME NEW p \in Poll, Deliver(p) PROVE BarInv'
  BY <1>0, <1>4 DEF Deliver, BarInv, IsSettled
<1>5. ASSUME NEW p \in Poll, Drop(p) PROVE BarInv'
  BY <1>0, <1>5 DEF Drop, BarInv, IsSettled
<1>6. CASE Reload
  BY <1>0, <1>6 DEF Reload, BarInv, IsSettled
<1> QED
  BY <1>1, <1>2, <1>3, <1>4, <1>5, <1>6

(* While the page stands still: what the runs do.                          *)
LEMMA BarInvRuns ==
    ASSUME RowInv, BarInv, [Next]_vars, UNCHANGED pollVars
    PROVE  BarInv'
<1>1. UNCHANGED <<watched, asked, answer, job, stop>>
  BY DEF pollVars
<1>2. CASE watched = Nobody
  BY <1>1, <1>2 DEF BarInv, IsSettled
<1>3. CASE watched \in Tracked \ troubled'
  <2>1. IsSettled(Row(watched)) => watched \notin troubled /\ Row(watched)' = Row(watched)
    BY <1>1, <1>3, SettledRowsStay
  <2>2. watched \notin troubled
    BY <1>3, TroubleStays
  <2> QED
    BY <1>1, <2>1, <2>2 DEF BarInv
<1>4. CASE watched \in Tracked /\ watched \in troubled'
  BY <1>1, <1>4 DEF BarInv
<1> QED
  BY <1>2, <1>3, <1>4 DEF BarInv

LEMMA BarInvTells == BarInv => EndsOnTheOutcome
BY DEF BarInv, EndsOnTheOutcome

(* A bar that has stopped shows how its run ended, and goes on doing so:   *)
(* no late, reordered or lost answer and no reload makes it tell anything  *)
(* else, unless the worker died or the row could not be written            *)
(* (FilmProgress.tsx, youtube_job_status in routes.py).                    *)
THEOREM BarsEndOnTheOutcome == PollSpec => []EndsOnTheOutcome
<1>1. PollInit => RowInv /\ BarInv
  BY RowInvInit DEF PollInit, BarInv, IsSettled
<1>2. RowInv /\ BarInv /\ [PollNext]_pollingVars => (RowInv /\ BarInv)'
  <2> SUFFICES ASSUME RowInv, BarInv, [PollNext]_pollingVars PROVE (RowInv /\ BarInv)'
    OBVIOUS
  <2>1. CASE [Next]_vars /\ UNCHANGED pollVars
    BY <2>1, RowInvNext, BarInvRuns
  <2>2. CASE /\ UNCHANGED vars
             /\ \/ \E r \in Run : Watch(r)
                \/ \E p \in Poll : Ask(p) \/ Serve(p) \/ Deliver(p) \/ Drop(p)
                \/ Reload
    BY <2>2, RowInvNext, BarInvPage
  <2> QED
    BY <2>1, <2>2 DEF PollNext, Watch, Ask, Serve, Deliver, Drop, Reload, pollingVars
<1> QED
  BY <1>1, <1>2, BarInvTells, PTL DEF PollSpec

-----------------------------------------------------------------------------
(* The film.                                                               *)

(* What is in a directory under the numbers of D.                          *)
At(files, D) == {x \in files : x.at \in D}
Unspoken == {c \in Clip : ~c.spoken /\ c.at \notin Mute}
Real == {p \in Page : p.kind = "real"}

(* The plan of a run: each frame still to be made, in the making or done,  *)
(* and none of those that are done counted twice.                          *)
Done(r) == (1..size[r]) \ (todo[r] \cup shooting[r])

PlanOf(r) ==
    /\ pc[r] \in {"idle", "script"} =>
          todo[r] = {} /\ shooting[r] = {} /\ silenced[r] = 0 /\ placeholders[r] = 0
    /\ pc[r] = "narrate" =>
          /\ todo[r] \subseteq 1..size[r] /\ shooting[r] = {} /\ placeholders[r] = 0
          /\ silenced[r] + Cardinality(todo[r]) <= size[r]
    /\ pc[r] = "shoot" =>
          /\ todo[r] \subseteq 1..size[r] /\ shooting[r] \subseteq (1..size[r]) \ todo[r]
          /\ \A f, g \in shooting[r] : f = g
          /\ placeholders[r] + Cardinality(todo[r]) + Cardinality(shooting[r]) <= size[r]

PlanType ==
    /\ size \in [Run -> 0..MaxFrames] /\ title \in [Run -> Title]
    /\ todo \in [Run -> SUBSET (1..MaxFrames)]
    /\ shooting \in [Run -> SUBSET (1..MaxFrames)]
    /\ silenced \in [Run -> 0..MaxFrames] /\ placeholders \in [Run -> 0..MaxFrames]

PlanInv == PlanType /\ \A r \in Run : PlanOf(r)

(* Clips that nobody waits for any more are those of a run that failed, a  *)
(* renderer that nobody waits for is that of a run that died.              *)
StraysInv ==
    /\ strays \in [Run -> SUBSET (1..MaxFrames)]
    /\ \A r \in Run : strays[r] # {} => pc[r] \in {"fail", "over"}
    /\ orphans \subseteq Run
    /\ \A r \in orphans : pc[r] = "over" /\ strays[r] = {}

(* What a run that has the directory to itself has got into it.            *)
Narrated(r) ==
    /\ \A c \in At(voice, Done(r)) : c.by = r
    /\ IsFiniteSet(At(voice, Done(r)))
    /\ Cardinality(At(voice, Done(r))) = Cardinality(Done(r))
    /\ Cardinality(At(voice, Done(r)) \cap Unspoken) <= silenced[r]

Compiled(r) ==
    /\ index = r
    /\ \A c \in voice : c.by = r /\ c.at <= size[r]
    /\ IsFiniteSet(voice) /\ Cardinality(voice) = size[r]
    /\ 100 * Cardinality(voice \cap Unspoken) <= MaxSilent * size[r]
    /\ \A p \in frames : p.title = title[r] /\ p.at <= size[r]

Shot(r) ==
    /\ \A p \in At(frames, Done(r)) : p.by = r /\ p.kind # "rejected"
    /\ IsFiniteSet(At(frames, Done(r)))
    /\ Cardinality(Done(r)) <= placeholders[r] + Cardinality(At(frames, Done(r)) \cap Real)

Filmed(r) ==
    /\ \A p \in frames : p.by = r /\ p.kind # "rejected"
    /\ Cardinality(frames \cap Real) >= MinVerified

OwnWork(r) ==
    /\ pc[r] = "narrate" => Narrated(r)
    /\ pc[r] = "shoot" \/ r \in Renderers => Compiled(r)
    /\ pc[r] = "shoot" => Shot(r)
    /\ r \in Renderers => Filmed(r)

OwnInv == \A r \in Run \ mixed : OwnWork(r)

-----------------------------------------------------------------------------
(* The directory W is V with c as its one file under the number f.         *)
Written(W, V, f, c) == c.at = f /\ W = (V \ At(V, {f})) \cup {c}

(* One file more under a number that had none that counts.                 *)
LEMMA OneMoreFile ==
    ASSUME NEW W, NEW V, NEW f, NEW c, Written(W, V, f, c),
           NEW D, f \notin D, IsFiniteSet(At(V, D)), NEW S
    PROVE  /\ At(W, D \cup {f}) = At(V, D) \cup {c}
           /\ IsFiniteSet(At(W, D \cup {f}))
           /\ Cardinality(At(W, D \cup {f})) = Cardinality(At(V, D)) + 1
           /\ c \in S => Cardinality(At(W, D \cup {f}) \cap S) = Cardinality(At(V, D) \cap S) + 1
           /\ c \notin S => Cardinality(At(W, D \cup {f}) \cap S) = Cardinality(At(V, D) \cap S)
           /\ Cardinality(At(V, D) \cap S) \in Nat
<1> DEFINE A == At(V, D)
           B == At(W, D \cup {f})
<1>1. B = A \cup {c} /\ c \notin A
  BY DEF At, Written
<1> HIDE DEF A, B
<1>2. IsFiniteSet(A)
  BY DEF A
<1>3. IsFiniteSet(A \cap S) /\ Cardinality(A \cap S) \in Nat
  BY <1>2, FS_Subset, FS_CardinalityType
<1>4. IsFiniteSet(B) /\ Cardinality(B) = Cardinality(A) + 1
  BY <1>1, <1>2, FS_AddElement
<1>5. ASSUME c \in S PROVE Cardinality(B \cap S) = Cardinality(A \cap S) + 1
  <2>1. B \cap S = (A \cap S) \cup {c} /\ c \notin A \cap S
    BY <1>1, <1>5
  <2> QED
    BY <1>3, <2>1, FS_AddElement
<1>6. ASSUME c \notin S PROVE B \cap S = A \cap S
  BY <1>1, <1>6
<1>7. c \notin S => Cardinality(B \cap S) = Cardinality(A \cap S)
  BY <1>6
<1> QED
  BY <1>1, <1>3, <1>4, <1>5, <1>7 DEF A, B

LEMMA FrameCount ==
    ASSUME NEW n \in Nat
    PROVE  Cardinality(1..n) = n
BY FS_Interval

(* The frames of a script, one taken out or one more done.                 *)
LEMMA FrameSets ==
    ASSUME NEW n \in Nat, NEW D \in SUBSET (1..n)
    PROVE  /\ IsFiniteSet(D) /\ Cardinality(D) \in 0..n
           /\ \A f \in D : /\ Cardinality(D \ {f}) = Cardinality(D) - 1
                            /\ Cardinality(D) >= 1
<1>1. IsFiniteSet(1..n) /\ Cardinality(1..n) = n
  BY FS_Interval
<1>2. IsFiniteSet(D) /\ Cardinality(D) <= n /\ Cardinality(D) \in Nat
  BY <1>1, FS_Subset, FS_CardinalityType
<1>3. ASSUME NEW f \in D
      PROVE  Cardinality(D \ {f}) = Cardinality(D) - 1 /\ Cardinality(D) >= 1
  <2>1. IsFiniteSet(D \ {f}) /\ Cardinality(D \ {f}) = Cardinality(D) - 1
    BY <1>2, FS_RemoveElement
  <2>2. Cardinality(D \ {f}) \in Nat
    BY <2>1, FS_CardinalityType
  <2> QED
    BY <1>2, <2>1, <2>2
<1> QED
  BY <1>2, <1>3

-----------------------------------------------------------------------------
(* The plan.                                                               *)

(* Only the run that moves changes its plan.                               *)
LEMMA OnePlanChanges ==
    ASSUME PlanInv, PlanType', NEW q \in Run, PlanOf(q)',
           \A r \in Run : r # q =>
               /\ pc'[r] = pc[r] /\ size'[r] = size[r] /\ todo'[r] = todo[r]
               /\ shooting'[r] = shooting[r] /\ silenced'[r] = silenced[r]
               /\ placeholders'[r] = placeholders[r]
    PROVE  PlanInv'
BY DEF PlanInv, PlanOf

(* A run starts, or moves where nothing is planned any more.               *)
LEMMA PlansStay ==
    ASSUME PlanInv, UNCHANGED planVars,
           \A r \in Run : \/ pc'[r] = pc[r]
                          \/ pc[r] = "idle" /\ pc'[r] = "script"
                          \/ pc'[r] \in {"render", "record", "finish", "fail", "over"}
    PROVE  PlanInv'
<1>1. UNCHANGED <<size, title, todo, shooting, silenced, placeholders>>
  BY DEF planVars
<1>2. PlanType'
  BY <1>1 DEF PlanInv, PlanType
<1>3. ASSUME NEW r \in Run PROVE PlanOf(r)'
  <2>1. PlanOf(r)
    BY DEF PlanInv
  <2>2. CASE pc'[r] = pc[r]
    BY <1>1, <2>1, <2>2 DEF PlanOf
  <2>3. CASE pc[r] = "idle" /\ pc'[r] = "script"
    BY <1>1, <2>1, <2>3 DEF PlanOf
  <2>4. CASE pc'[r] \in {"render", "record", "finish", "fail", "over"}
    BY <2>4 DEF PlanOf
  <2> QED
    BY <2>2, <2>3, <2>4
<1> QED
  BY <1>2, <1>3 DEF PlanInv

(* A run ends.                                                             *)
LEMMA PlansForgotten ==
    ASSUME RowType, PlanInv, NEW q \in Run, Forget(q), NEW l \in {"fail", "finish", "over"},
           pc' = [pc EXCEPT ![q] = l]
    PROVE  PlanInv'
<1>1. PlanType'
  BY RunAssumption DEF PlanInv, PlanType, Forget
<1>2. PlanOf(q)'
  BY DEF RowType, PlanOf
<1> QED
  BY <1>1, <1>2, OnePlanChanges DEF RowType, PlanInv, PlanType, Forget

(* The script is read: every frame is to be narrated.                      *)
LEMMA PlanScript ==
    ASSUME RowType, PlanInv, NEW q \in Run, NEW n \in MinScript..MaxFrames, NEW t \in Title,
           pc[q] = "script", pc' = [pc EXCEPT ![q] = "narrate"],
           size' = [size EXCEPT ![q] = n], title' = [title EXCEPT ![q] = t],
           todo' = [todo EXCEPT ![q] = 1..n], UNCHANGED <<shooting, silenced, placeholders>>
    PROVE  PlanInv'
<1>1. n \in Nat /\ n <= MaxFrames /\ MaxFrames \in Nat
  BY RunAssumption
<1>2. n \in 0..MaxFrames /\ 1..n \subseteq 1..MaxFrames
  BY <1>1
<1>3. Cardinality(1..n) = n
  BY <1>1, FrameCount
<1>4. PlanType'
  BY <1>2 DEF PlanInv, PlanType
<1>5. /\ size'[q] = n /\ todo'[q] = 1..n /\ shooting'[q] = {} /\ silenced'[q] = 0
      /\ placeholders'[q] = 0 /\ pc'[q] = "narrate"
  BY DEF RowType, PlanInv, PlanType, PlanOf
<1>6. PlanOf(q)'
  BY <1>1, <1>3, <1>5 DEF PlanOf
<1> QED
  BY <1>4, <1>6, OnePlanChanges DEF RowType, PlanInv, PlanType

(* A frame is narrated, spoken or not.                                     *)
LEMMA PlanNarrate ==
    ASSUME RowType, PlanInv, NEW q \in Run, NEW f \in todo[q], pc[q] = "narrate",
           todo' = [todo EXCEPT ![q] = @ \ {f}],
           silenced' \in {silenced, [silenced EXCEPT ![q] = @ + 1]},
           UNCHANGED <<pc, size, title, shooting, placeholders>>
    PROVE  PlanInv'
<1>1. /\ size[q] \in Nat /\ size[q] <= MaxFrames /\ MaxFrames \in Nat /\ silenced[q] \in Nat
      /\ todo[q] \subseteq 1..size[q] /\ shooting[q] = {} /\ placeholders[q] = 0
      /\ silenced[q] + Cardinality(todo[q]) <= size[q]
  BY RunAssumption DEF PlanInv, PlanType, PlanOf
<1>2. /\ Cardinality(todo[q]) \in Nat /\ Cardinality(todo[q]) >= 1
      /\ Cardinality(todo[q] \ {f}) = Cardinality(todo[q]) - 1
  BY <1>1, FrameSets
<1>3. /\ todo'[q] = todo[q] \ {f} /\ silenced'[q] \in {silenced[q], silenced[q] + 1}
      /\ todo' \in [Run -> SUBSET (1..MaxFrames)]
  BY DEF PlanInv, PlanType
<1>4. silenced'[q] + Cardinality(todo'[q]) <= size[q] /\ silenced'[q] \in 0..MaxFrames
  BY <1>1, <1>2, <1>3
<1>5. silenced' \in [Run -> 0..MaxFrames]
  BY <1>4 DEF PlanInv, PlanType
<1>6. PlanType'
  BY <1>3, <1>5 DEF PlanInv, PlanType
<1>7. PlanOf(q)'
  BY <1>1, <1>3, <1>4 DEF PlanOf
<1> QED
  BY <1>6, <1>7, OnePlanChanges DEF PlanInv, PlanType

(* The storyboard is compiled: every frame is to be shot.                  *)
LEMMA PlanCompile ==
    ASSUME RowType, PlanInv, NEW q \in Run, pc[q] = "narrate", pc' = [pc EXCEPT ![q] = "shoot"],
           todo' = [todo EXCEPT ![q] = 1..size[q]],
           UNCHANGED <<size, title, shooting, silenced, placeholders>>
    PROVE  PlanInv'
<1>1. /\ size[q] \in Nat /\ size[q] <= MaxFrames /\ MaxFrames \in Nat
      /\ shooting[q] = {} /\ placeholders[q] = 0
  BY RunAssumption DEF PlanInv, PlanType, PlanOf
<1>2. 1..size[q] \subseteq 1..MaxFrames
  BY <1>1
<1>3. Cardinality(1..size[q]) = size[q] /\ Cardinality({}) = 0
  BY <1>1, FrameCount, FS_EmptySet
<1>4. PlanType'
  BY <1>2 DEF PlanInv, PlanType
<1>5. todo'[q] = 1..size[q] /\ pc'[q] = "shoot"
  BY DEF RowType, PlanInv, PlanType
<1>6. PlanOf(q)'
  BY <1>1, <1>3, <1>5 DEF PlanOf
<1> QED
  BY <1>4, <1>6, OnePlanChanges DEF RowType, PlanInv, PlanType

(* A frame is built, or a shot taken up (made), verified or given up.      *)
LEMMA PlanShoot ==
    ASSUME RowType, PlanInv, NEW q \in Run, pc[q] = "shoot", NEW t, NEW s,
           t \subseteq todo[q], s \subseteq (1..size[q]) \ t, \A f, g \in s : f = g,
           todo' = [todo EXCEPT ![q] = t], shooting' = [shooting EXCEPT ![q] = s],
           placeholders' \in {placeholders, [placeholders EXCEPT ![q] = @ + 1]},
           placeholders'[q] + Cardinality(t) + Cardinality(s) <= size[q],
           UNCHANGED <<pc, size, title, silenced>>
    PROVE  PlanInv'
<1>1. /\ size[q] \in Nat /\ size[q] <= MaxFrames /\ MaxFrames \in Nat /\ placeholders[q] \in Nat
      /\ todo[q] \subseteq 1..size[q]
  BY RunAssumption DEF PlanInv, PlanType, PlanOf
<1>2. /\ todo'[q] = t /\ shooting'[q] = s
      /\ placeholders'[q] \in {placeholders[q], placeholders[q] + 1}
  BY DEF PlanInv, PlanType
<1>3. t \subseteq 1..size[q] /\ t \subseteq 1..MaxFrames /\ s \subseteq 1..MaxFrames
  BY <1>1
<1>4. Cardinality(t) \in Nat /\ Cardinality(s) \in Nat
  BY <1>1, <1>3, FrameSets
<1>5. placeholders'[q] \in 0..MaxFrames
  BY <1>1, <1>2, <1>4
<1>6. placeholders' \in [Run -> 0..MaxFrames]
  BY <1>5 DEF PlanInv, PlanType
<1>7. PlanType'
  BY <1>3, <1>6 DEF PlanInv, PlanType
<1>8. PlanOf(q)'
  BY <1>2, <1>3 DEF PlanOf
<1> QED
  BY <1>7, <1>8, OnePlanChanges DEF PlanInv, PlanType

LEMMA PlanInvInit == Init => PlanInv
<1>1. MaxFrames \in Nat
  BY RunAssumption
<1> QED
  BY <1>1 DEF Init, PlanInv, PlanType, PlanOf

(* BuildFrame, WriteShot, AcceptShot and GiveUpShot.                       *)
LEMMA PlanFrames ==
    ASSUME RowType, PlanInv, NEW q \in Run,
           \/ \E f \in 1..MaxFrames : BuildFrame(q, f)
           \/ WriteShot(q) \/ AcceptShot(q) \/ GiveUpShot(q)
    PROVE  PlanInv'
<1>0. /\ pc[q] = "shoot" /\ size[q] \in Nat /\ placeholders[q] \in Nat
      /\ todo[q] \subseteq 1..size[q] /\ shooting[q] \subseteq (1..size[q]) \ todo[q]
      /\ shooting[q] \subseteq 1..size[q] /\ \A f, g \in shooting[q] : f = g
      /\ placeholders[q] + Cardinality(todo[q]) + Cardinality(shooting[q]) <= size[q]
      /\ UNCHANGED <<pc, size, title, silenced>>
  BY DEF BuildFrame, WriteShot, AcceptShot, GiveUpShot, PlanInv, PlanType, PlanOf
<1>1. \A f \in todo[q] : /\ Cardinality(todo[q] \ {f}) = Cardinality(todo[q]) - 1
                         /\ Cardinality(todo[q]) >= 1
  BY <1>0, FrameSets
<1>2. /\ Cardinality(todo[q]) \in Nat /\ Cardinality(shooting[q]) \in Nat
      /\ shooting[q] # {} => Cardinality(shooting[q]) >= 1
  <2>1. Cardinality(todo[q]) \in Nat /\ Cardinality(shooting[q]) \in Nat
    BY <1>0, FrameSets
  <2>2. ASSUME NEW f \in shooting[q] PROVE Cardinality(shooting[q]) >= 1
    BY <1>0, FrameSets
  <2> QED
    BY <2>1, <2>2
<1>3. Cardinality({}) = 0
  BY FS_EmptySet
<1>4. /\ todo = [todo EXCEPT ![q] = todo[q]] /\ shooting = [shooting EXCEPT ![q] = shooting[q]]
      /\ placeholders \in [Run -> 0..MaxFrames]
  BY DEF PlanInv, PlanType
<1>5. ASSUME NEW f \in 1..MaxFrames, BuildFrame(q, f) PROVE PlanInv'
  <2>1. /\ f \in todo[q] /\ todo' = [todo EXCEPT ![q] = todo[q] \ {f}] /\ UNCHANGED shooting
        /\ placeholders' \in {placeholders, [placeholders EXCEPT ![q] = @ + 1]}
    BY <1>5 DEF BuildFrame
  <2>2. placeholders'[q] \in {placeholders[q], placeholders[q] + 1}
    BY <1>4, <2>1
  <2>3. placeholders'[q] + Cardinality(todo[q] \ {f}) + Cardinality(shooting[q]) <= size[q]
    BY <1>0, <1>1, <1>2, <2>1, <2>2
  <2>4. shooting' = [shooting EXCEPT ![q] = shooting[q]]
    BY <1>4, <2>1
  <2>5. todo[q] \ {f} \subseteq todo[q] /\ shooting[q] \subseteq (1..size[q]) \ (todo[q] \ {f})
    BY <1>0
  <2> QED
    BY <1>0, <2>1, <2>3, <2>4, <2>5, PlanShoot
<1>6. CASE WriteShot(q)
  <2>1. PICK f \in todo[q] : /\ todo' = [todo EXCEPT ![q] = todo[q] \ {f}]
                             /\ shooting' = [shooting EXCEPT ![q] = {f}]
    BY <1>6 DEF WriteShot
  <2>2. UNCHANGED placeholders /\ shooting[q] = {}
    BY <1>6 DEF WriteShot
  <2>3. Cardinality({f}) = 1 /\ Cardinality(shooting[q]) = 0
    BY <1>3, <2>2, FS_Singleton
  <2>4. placeholders'[q] + Cardinality(todo[q] \ {f}) + Cardinality({f}) <= size[q]
    <3>1. Cardinality(todo[q] \ {f}) = Cardinality(todo[q]) - 1
      BY <1>1
    <3>2. placeholders'[q] = placeholders[q]
      BY <2>2
    <3> QED
      BY <1>0, <1>2, <2>3, <3>1, <3>2
  <2>5. /\ todo[q] \ {f} \subseteq todo[q] /\ {f} \subseteq (1..size[q]) \ (todo[q] \ {f})
        /\ \A g, h \in {f} : g = h
    BY <1>0
  <2> QED
    BY <1>0, <2>1, <2>2, <2>4, <2>5, PlanShoot
<1>7. CASE AcceptShot(q) \/ GiveUpShot(q)
  <2> DEFINE none == {}
  <2>1. /\ shooting[q] # {} /\ UNCHANGED todo /\ shooting' = [shooting EXCEPT ![q] = none]
        /\ placeholders' \in {placeholders, [placeholders EXCEPT ![q] = @ + 1]}
    BY <1>7 DEF AcceptShot, GiveUpShot
  <2>2. placeholders'[q] \in {placeholders[q], placeholders[q] + 1}
    BY <1>4, <2>1
  <2>3. placeholders'[q] + Cardinality(todo[q]) + Cardinality(none) <= size[q]
    BY <1>0, <1>2, <1>3, <2>1, <2>2
  <2>4. todo' = [todo EXCEPT ![q] = todo[q]]
    BY <1>4, <2>1
  <2>5. none \subseteq (1..size[q]) \ todo[q] /\ todo[q] \subseteq todo[q] /\ \A f, g \in none : f = g
    OBVIOUS
  <2> HIDE DEF none
  <2> QED
    BY <1>0, <2>1, <2>3, <2>4, <2>5, PlanShoot
<1> QED
  BY <1>5, <1>6, <1>7

LEMMA PlanInvNext ==
    ASSUME RowType, PlanInv, [Next]_vars
    PROVE  PlanInv'
<1> USE DEF Goto, Stop
<1>1. ASSUME NEW q \in Run,
             \/ Start(q) \/ Render(q) \/ FinishJob(q) \/ FinishJobFails(q) \/ FailJob(q) \/ FailJobFails(q)
             \/ pc' = [pc EXCEPT ![q] = "render"] /\ UNCHANGED planVars
      PROVE  PlanInv'
  <2>1. /\ UNCHANGED planVars
        /\ \/ pc[q] = "idle" /\ pc' = [pc EXCEPT ![q] = "script"]
           \/ \E l \in {"render", "record", "over", "fail"} : pc' = [pc EXCEPT ![q] = l]
    BY <1>1 DEF Start, Render, FinishJob, FinishJobFails, FailJob, FailJobFails
  <2>2. \A r \in Run : \/ pc'[r] = pc[r]
                       \/ pc[r] = "idle" /\ pc'[r] = "script"
                       \/ pc'[r] \in {"render", "record", "finish", "fail", "over"}
    BY <2>1 DEF RowType
  <2> QED
    BY <2>1, <2>2, PlansStay
<1>2. ASSUME NEW q \in Run, NEW l \in {"fail", "finish", "over"}, pc' = [pc EXCEPT ![q] = l], Forget(q)
      PROVE  PlanInv'
  BY <1>2, PlansForgotten
<1>3. ASSUME NEW q \in Run,
             \/ StartFails(q) \/ \E f \in 1..MaxFrames : NarrateFails(q, f)
             \/ StageFails(q) \/ RecordDraft(q) \/ RecordFails(q)
      PROVE  PlanInv'
  BY <1>2, <1>3 DEF StartFails, NarrateFails, StageFails, RecordDraft, RecordFails
<1>4. ASSUME NEW q \in Run, Script(q) PROVE PlanInv'
  BY <1>2, <1>4, PlanScript DEF Script
<1>5. ASSUME NEW q \in Run, NEW f \in 1..MaxFrames, Narrate(q, f) PROVE PlanInv'
  BY <1>5, PlanNarrate DEF Narrate
<1>6. ASSUME NEW q \in Run, Compile(q) PROVE PlanInv'
  BY <1>2, <1>6, PlanCompile DEF Compile
<1>7. ASSUME NEW q \in Run,
             \/ \E f \in 1..MaxFrames : BuildFrame(q, f)
             \/ WriteShot(q) \/ AcceptShot(q) \/ GiveUpShot(q)
      PROVE  PlanInv'
  BY <1>7, PlanFrames
<1>8. ASSUME NEW q \in Run, FramesDone(q) PROVE PlanInv'
  BY <1>1, <1>2, <1>8 DEF FramesDone
<1>9. CASE \/ \E q \in Run : \E f \in strays[q] : Stray(q, f)
           \/ \E q \in Run : Overwrite(q) \/ EndOrphan(q)
           \/ UNCHANGED vars
  BY <1>9, PlansStay DEF Stray, Overwrite, EndOrphan, vars
<1>10. CASE Die
  <2>1. MaxFrames \in Nat
    BY RunAssumption
  <2>2. PlanType'
    BY <1>10, <2>1 DEF Die, PlanInv, PlanType
  <2>3. \A r \in Run : PlanOf(r)'
    BY <1>10 DEF Die, InFlight, PlanOf
  <2> QED
    BY <2>2, <2>3 DEF PlanInv
<1> QED
  BY <1>1, <1>3, <1>4, <1>5, <1>6, <1>7, <1>8, <1>9, <1>10 DEF Next, RunStep

-----------------------------------------------------------------------------
(* The types of the rest.                                                  *)

LEMMA StraysInvNext ==
    ASSUME RowType, PlanInv, StraysInv, [Next]_vars
    PROVE  StraysInv'
<1> USE DEF Goto, Stop
<1>1. ASSUME NEW q \in Run,
             \/ Start(q) \/ StartFails(q) \/ Script(q) \/ Compile(q) \/ FramesDone(q) \/ StageFails(q)
             \/ Render(q) \/ RecordDraft(q) \/ RecordFails(q)
             \/ FinishJob(q) \/ FinishJobFails(q) \/ FailJob(q) \/ FailJobFails(q)
      PROVE  StraysInv'
  <2>1. /\ UNCHANGED leftVars /\ pc' = [pc EXCEPT ![q] = pc'[q]]
        /\ pc[q] = "fail" => pc'[q] = "over"
        /\ pc[q] # "over"
    BY <1>1 DEF Start, StartFails, Script, Compile, FramesDone, StageFails, Render, RecordDraft,
                RecordFails, FinishJob, FinishJobFails, FailJob, FailJobFails, RowType
  <2> QED
    BY <2>1 DEF StraysInv, RowType, leftVars
<1>2. ASSUME NEW q \in Run, NEW f \in 1..MaxFrames, NarrateFails(q, f) PROVE StraysInv'
  <2>1. /\ strays' = [strays EXCEPT ![q] = todo[q] \ {f}] /\ pc' = [pc EXCEPT ![q] = "fail"]
        /\ todo[q] \subseteq 1..MaxFrames /\ UNCHANGED orphans /\ pc[q] = "narrate"
    BY <1>2 DEF NarrateFails, PlanInv, PlanType
  <2> QED
    BY <2>1 DEF StraysInv, RowType
<1>3. ASSUME NEW q \in Run, NEW f \in strays[q], Stray(q, f) PROVE StraysInv'
  BY <1>3 DEF Stray, StraysInv
<1>4. CASE \/ \E q \in Run : \/ \E f \in 1..MaxFrames : Narrate(q, f) \/ BuildFrame(q, f)
                             \/ WriteShot(q) \/ AcceptShot(q) \/ GiveUpShot(q)
                             \/ Overwrite(q) \/ EndOrphan(q)
           \/ UNCHANGED vars
  <2>1. UNCHANGED <<pc, strays>> /\ orphans' \subseteq orphans
    BY <1>4 DEF Narrate, BuildFrame, WriteShot, AcceptShot, GiveUpShot, Overwrite, EndOrphan, vars,
                leftVars
  <2> QED
    BY <2>1 DEF StraysInv
<1>5. CASE Die
  <2>1. /\ strays' = [r \in Run |-> {}] /\ orphans' \subseteq Renderers
        /\ \A r \in Run : pc[r] \in {"render", "over"} => pc'[r] = "over"
    BY <1>5 DEF Die, InFlight
  <2>2. \A r \in Renderers : r \in Run /\ pc[r] \in {"render", "over"}
    BY DEF Renderers, StraysInv
  <2> QED
    BY <2>1, <2>2 DEF StraysInv
<1> QED
  BY <1>1, <1>2, <1>3, <1>4, <1>5 DEF Next, RunStep

RestType ==
    /\ error \subseteq Tracked
    /\ drafted \subseteq Run /\ newest \in drafted \cup {Nobody}
    /\ index \in Run \cup {Nobody}
    /\ faults \in 0..MaxFaults
    /\ troubled \subseteq Run /\ cut \subseteq Run /\ mixed \subseteq Run /\ touched \subseteq Run

LEMMA FaultsStayFew ==
    ASSUME RestType, Fault \/ UNCHANGED faults
    PROVE  faults' \in 0..MaxFaults
BY RunAssumption DEF RestType, Fault

LEMMA RestTypeNext ==
    ASSUME StraysInv, RestType, [Next]_vars
    PROVE  RestType'
<1> USE DEF Goto, Stop, rowVars, draftVars, historyVars, diskVars
<1>1. ASSUME NEW q \in Run,
             \/ StartFails(q) \/ Script(q) \/ Compile(q)
             \/ \E f \in 1..MaxFrames : Narrate(q, f) \/ NarrateFails(q, f) \/ BuildFrame(q, f)
             \/ WriteShot(q) \/ AcceptShot(q) \/ GiveUpShot(q) \/ FramesDone(q) \/ StageFails(q)
             \/ Render(q) \/ FinishJob(q)
      PROVE  RestType'
  <2>1. /\ UNCHANGED <<error, drafted, newest, troubled, cut, mixed>>
        /\ index' \in {index, q} /\ touched' \in {touched, touched \cup {q}}
    BY <1>1 DEF StartFails, Script, Compile, Narrate, NarrateFails, BuildFrame, WriteShot, AcceptShot,
                GiveUpShot, FramesDone, StageFails, Render, FinishJob
  <2>2. Fault \/ UNCHANGED faults
    BY <1>1 DEF StartFails, Script, Compile, Narrate, NarrateFails, BuildFrame, WriteShot, AcceptShot,
                GiveUpShot, FramesDone, StageFails, Render, FinishJob, SetStage
  <2> QED
    BY <2>1, <2>2, FaultsStayFew DEF RestType
<1>2. ASSUME NEW q \in Run, Start(q) PROVE RestType'
  <2>1. /\ UNCHANGED <<error, drafted, newest, index, troubled, cut, touched>>
        /\ mixed' \in {mixed, mixed \cup Others \cup {q}}
    BY <1>2 DEF Start
  <2>2. Fault \/ UNCHANGED faults
    BY <1>2 DEF Start, SetStage
  <2>3. Others \subseteq Run
    BY DEF Others, Working, StraysInv
  <2> QED
    BY <2>1, <2>2, <2>3, FaultsStayFew DEF RestType
<1>3. ASSUME NEW q \in Run, RecordDraft(q) \/ RecordFails(q) PROVE RestType'
  <2>1. /\ UNCHANGED <<error, index, troubled, mixed>> /\ cut' \in {cut, cut \cup {q}}
        /\ touched' \in {touched, {}}
        /\ \/ UNCHANGED <<drafted, newest>>
           \/ drafted' = drafted \cup {q} /\ newest' = q
    BY <1>3 DEF RecordDraft, RecordFails
  <2>2. Fault \/ UNCHANGED faults
    BY <1>3 DEF RecordDraft, RecordFails
  <2> QED
    BY <2>1, <2>2, FaultsStayFew DEF RestType
<1>4. ASSUME NEW q \in Run, FinishJobFails(q) \/ FailJob(q) \/ FailJobFails(q) PROVE RestType'
  <2>1. /\ UNCHANGED <<drafted, newest, index, cut, mixed, touched>>
        /\ troubled' \in {troubled, troubled \cup {q}}
        /\ q \notin Tracked => UNCHANGED error
        /\ error' \in {error, error \cup {q}}
    BY <1>4 DEF FinishJobFails, FailJob, FailJobFails
  <2>2. Fault \/ UNCHANGED faults
    BY <1>4 DEF FinishJobFails, FailJob, FailJobFails
  <2> QED
    BY <2>1, <2>2, FaultsStayFew DEF RestType
<1>5. CASE \/ \E q \in Run : \E f \in strays[q] : Stray(q, f)
           \/ \E q \in Run : Overwrite(q) \/ EndOrphan(q)
           \/ UNCHANGED vars
  BY <1>5 DEF Stray, Overwrite, EndOrphan, vars, RestType
<1>6. CASE Die
  <2>1. /\ UNCHANGED <<error, drafted, newest, index, mixed, cut, touched>> /\ Fault
        /\ troubled' = troubled \cup InFlight
    BY <1>6 DEF Die
  <2> QED
    BY <2>1, FaultsStayFew DEF RestType, InFlight
<1> QED
  BY <1>1, <1>2, <1>3, <1>4, <1>5, <1>6 DEF Next, RunStep

(* There is one file to a name, before and after a file is written.        *)
VoiceType == voice \subseteq Clip /\ \A c, d \in voice : c.at = d.at => c = d
FramesType ==
    /\ frames \subseteq Page
    /\ \A p, q \in frames : p.at = q.at /\ p.title = q.title => p = q
VideoType ==
    /\ video.of \in Run \cup {Nobody}
    /\ video.voices \subseteq Clip /\ video.pictures \subseteq Page
DiskType == VoiceType /\ FramesType /\ VideoType

LEMMA OneClipToANumber ==
    ASSUME VoiceType, NEW q \in Run, NEW f \in 1..MaxFrames, NEW spoken \in BOOLEAN,
           WriteClip(q, f, spoken)
    PROVE  VoiceType'
<1> DEFINE c == [at |-> f, by |-> q, spoken |-> spoken]
<1>1. c \in Clip /\ c.at = f
  BY DEF Clip
<1>2. voice' = {x \in voice : x.at # f} \cup {c}
  BY DEF WriteClip, ClipAt
<1> HIDE DEF c
<1> QED
  BY <1>1, <1>2 DEF VoiceType

LEMMA OnePageToAName ==
    ASSUME FramesType, PlanType, NEW q \in Run, NEW f \in 1..MaxFrames, NEW kind \in Kind,
           WritePage(q, f, kind)
    PROVE  FramesType'
<1> DEFINE p == [at |-> f, title |-> title[q], by |-> q, kind |-> kind]
<1>1. p \in Page /\ p.at = f /\ p.title = title[q]
  BY DEF Page, PlanType
<1>2. frames' = {x \in frames : x.at # f \/ x.title # title[q]} \cup {p}
  BY DEF WritePage, PageAt
<1> HIDE DEF p
<1> QED
  BY <1>1, <1>2 DEF FramesType

(* Every attempt at a voiceover ends in a clip, and what fell back to      *)
(* silence is counted unless there was nothing to say.                     *)
LEMMA NarrateWritesAClip ==
    ASSUME NEW q \in Run, NEW f \in 1..MaxFrames, Narrate(q, f)
    PROVE  \E spoken \in BOOLEAN :
              /\ WriteClip(q, f, spoken)
              /\ \/ (spoken \/ f \in Mute) /\ UNCHANGED silenced
                 \/ silenced' = [silenced EXCEPT ![q] = @ + 1]
<1>1. CASE WriteClip(q, f, FALSE) /\ silenced' = [silenced EXCEPT ![q] = @ + 1]
  BY <1>1
<1>2. CASE /\ \E spoken \in {TRUE} \cup {FALSE : m \in {f} \cap Mute} : WriteClip(q, f, spoken)
           /\ UNCHANGED silenced
  <2>1. PICK spoken \in {TRUE} \cup {FALSE : m \in {f} \cap Mute} : WriteClip(q, f, spoken)
    BY <1>2
  <2>2. spoken \in BOOLEAN /\ (spoken \/ f \in Mute)
    OBVIOUS
  <2> QED
    BY <1>2, <2>1, <2>2
<1> QED
  BY <1>1, <1>2 DEF Narrate

LEMMA DiskTypeNext ==
    ASSUME PlanInv, StraysInv, RestType, DiskType, [Next]_vars
    PROVE  DiskType'
<1> USE DEF diskVars
<1>1. ASSUME NEW q \in Run, NEW f \in 1..MaxFrames, NEW spoken \in BOOLEAN, WriteClip(q, f, spoken),
             UNCHANGED <<frames, video>>
      PROVE  DiskType'
  <2>1. VoiceType'
    BY <1>1, OneClipToANumber DEF DiskType
  <2> QED
    BY <1>1, <2>1 DEF DiskType, FramesType, VideoType
<1>2. ASSUME NEW q \in Run, NEW f \in 1..MaxFrames, NEW kind \in Kind, WritePage(q, f, kind),
             UNCHANGED <<voice, video>>
      PROVE  DiskType'
  <2>1. FramesType'
    BY <1>2, OnePageToAName DEF DiskType, PlanInv
  <2> QED
    BY <1>2, <2>1 DEF DiskType, VoiceType, VideoType
<1>3. ASSUME voice' \subseteq voice, frames' \subseteq frames, UNCHANGED video
      PROVE  DiskType'
  BY <1>3 DEF DiskType, VoiceType, FramesType, VideoType
<1>4. ASSUME NEW q \in Run, NEW f \in 1..MaxFrames, Narrate(q, f) PROVE DiskType'
  <2>1. UNCHANGED <<frames, video>>
    BY <1>4 DEF Narrate
  <2> QED
    BY <1>1, <1>4, <2>1, NarrateWritesAClip
<1>5. ASSUME NEW q \in Run, NEW f \in strays[q], Stray(q, f) PROVE DiskType'
  <2>1. f \in 1..MaxFrames /\ UNCHANGED <<frames, video>>
    BY <1>5 DEF Stray, StraysInv
  <2> QED
    BY <1>1, <1>5, <2>1 DEF Stray
<1>6. ASSUME NEW q \in Run, Compile(q) PROVE DiskType'
  BY <1>3, <1>6 DEF Compile
<1>7. ASSUME NEW q \in Run,
             \/ \E f \in 1..MaxFrames : BuildFrame(q, f)
             \/ WriteShot(q) \/ AcceptShot(q)
      PROVE  DiskType'
  <2>1. UNCHANGED <<voice, video>>
    BY <1>7 DEF BuildFrame, WriteShot, AcceptShot
  <2>2. todo[q] \subseteq 1..MaxFrames /\ shooting[q] \subseteq 1..MaxFrames
    BY DEF PlanInv, PlanType
  <2>3. PICK f \in 1..MaxFrames, kind \in Kind : WritePage(q, f, kind)
    BY <1>7, <2>2 DEF BuildFrame, WriteShot, AcceptShot, Kind
  <2> QED
    BY <1>2, <2>1, <2>3
<1>8. ASSUME NEW q \in Run, GiveUpShot(q) PROVE DiskType'
  BY <1>3, <1>8 DEF GiveUpShot
<1>9. ASSUME NEW q \in Run, Render(q) \/ Overwrite(q) PROVE DiskType'
  <2>1. /\ UNCHANGED <<voice, frames>> /\ video'.of \in {index, Nobody}
        /\ video'.voices \subseteq voice /\ video'.pictures \subseteq frames
    BY <1>9 DEF Render, Overwrite, Rendering, NoFilm
  <2> QED
    BY <2>1 DEF RestType, DiskType, VoiceType, FramesType, VideoType
<1>10. CASE \/ \E q \in Run :
                 \/ Start(q) \/ StartFails(q) \/ Script(q) \/ \E f \in 1..MaxFrames : NarrateFails(q, f)
                 \/ FramesDone(q) \/ StageFails(q) \/ RecordDraft(q) \/ RecordFails(q)
                 \/ FinishJob(q) \/ FinishJobFails(q) \/ FailJob(q) \/ FailJobFails(q)
                 \/ EndOrphan(q)
            \/ Die \/ UNCHANGED vars
  <2>1. UNCHANGED diskVars
    BY <1>10 DEF Start, StartFails, Script, NarrateFails, FramesDone, StageFails, RecordDraft, RecordFails,
                 FinishJob, FinishJobFails, FailJob, FailJobFails, EndOrphan, Die, vars
  <2> QED
    BY <1>3, <2>1
<1> QED
  BY <1>4, <1>5, <1>6, <1>7, <1>8, <1>9, <1>10 DEF Next, RunStep
(* Everything a run, its row and its directory are made of.                *)
TypesInv == RowInv /\ PlanInv /\ StraysInv /\ RestType /\ DiskType

LEMMA TypesInvInit == Init => TypesInv
BY RowInvInit, PlanInvInit, RunAssumption
   DEF Init, TypesInv, StraysInv, RestType, DiskType, VoiceType, FramesType, VideoType, NoFilm

LEMMA TypesInvNext ==
    ASSUME TypesInv, [Next]_vars
    PROVE  TypesInv'
BY RowInvNext, PlanInvNext, StraysInvNext, RestTypeNext, DiskTypeNext DEF TypesInv, RowInv

(* Every variable of the runs stays in its type: no count outgrows the     *)
(* frames of a script, whatever fails in which order, and no two voice     *)
(* clips and no two frames of the directory have one name                  *)
(* (generate_youtube_video in youtube.py).                                 *)
THEOREM RunTypes == Spec => []TypeOK
<1>1. TypesInv => TypeOK
  BY DEF TypesInv, RowInv, RowType, PlanInv, PlanType, StraysInv, RestType, DiskType, VoiceType,
         FramesType, VideoType, TypeOK, Labels
<1> QED
  BY <1>1, TypesInvInit, TypesInvNext, PTL DEF Spec

-----------------------------------------------------------------------------
(* The directory.                                                          *)

(* Two runs that are at the directory at once know of it; whoever is about *)
(* to render, or still does, finds its own index.html or that of a run it  *)
(* was mixed with; who is about to record its draft has its own film,      *)
(* unless it was mixed with another; and whoever renders has begun to      *)
(* since the newest draft.                                                 *)
ShareInv ==
    /\ \A q, r \in Others : q # r => {q, r} \subseteq mixed
    /\ \A r \in Run : pc[r] = "shoot" \/ r \in Renderers => index = r \/ {index, r} \subseteq mixed
    /\ \A r \in Run \ mixed : pc[r] = "record" => video.of = r
    /\ newest \notin mixed => Renderers \subseteq touched
    /\ DraftKeepsItsFilm

LEMMA ShareInvInit == Init => ShareInv
BY DEF Init, ShareInv, Others, Working, Renderers, DraftKeepsItsFilm, NoFilm

(* A renderer is at the directory, and its run does nothing else.          *)
LEMMA RenderersAreOthers ==
    ASSUME TypesInv
    PROVE  \A r \in Renderers : r \in Run /\ r \in Others /\ pc[r] \in {"render", "over"}
BY DEF Renderers, Others, Working, TypesInv, StraysInv

(* Steps that start, stop or move a run without touching index.html, the   *)
(* film or the drafts, and do not end a recording.                         *)
LEMMA ShareInvQuietly ==
    ASSUME TypesInv, ShareInv, NEW q \in Run, UNCHANGED <<index, video, newest, mixed>>,
           touched \subseteq touched', orphans' \subseteq orphans, Others' \subseteq Others,
           \A r \in Run : r # q => pc'[r] = pc[r],
           \/ pc'[q] = pc[q]
           \/ /\ pc'[q] \notin {"shoot", "record"}
              /\ pc'[q] = "render" => pc[q] = "shoot" /\ q \in touched'
    PROVE  ShareInv'
<1>1. \A r \in Run : pc'[r] = "shoot" => pc[r] = "shoot"
  OBVIOUS
<1>2. \A r \in Run : pc'[r] = "record" => pc[r] = "record"
  OBVIOUS
<1>3. \A r \in Renderers' : r \in Renderers \/ (pc[r] = "shoot" /\ r \in touched')
  BY DEF Renderers
<1>4. newest' \notin mixed' => Renderers' \subseteq touched'
  BY <1>3 DEF ShareInv
<1>5. DraftKeepsItsFilm'
  BY DEF ShareInv, DraftKeepsItsFilm
<1> QED
  BY <1>1, <1>2, <1>3, <1>4, <1>5 DEF ShareInv

(* What a renderer leaves is its own, or of runs that overlapped, or only  *)
(* a part; if it is whole its run may record its draft.                    *)
LEMMA ShareInvRender ==
    ASSUME TypesInv, ShareInv, NEW q \in Renderers, video'.of \in {Nobody, index},
           UNCHANGED <<index, newest, mixed, touched, orphans>>,
           \/ UNCHANGED pc
           \/ /\ pc[q] = "render" /\ pc' = [pc EXCEPT ![q] = "record"] /\ video'.of = index
              /\ UNCHANGED strays,
           Others' \subseteq Others
    PROVE  ShareInv'
<1>1. q \in Run /\ q \in Others /\ pc[q] \in {"render", "over"}
  BY RenderersAreOthers
<1>2. index = q \/ {index, q} \subseteq mixed
  BY <1>1 DEF ShareInv
<1>3. /\ Renderers' \subseteq Renderers
      /\ \A r \in Run : pc'[r] = "shoot" => pc[r] = "shoot"
      /\ \A r \in Run : pc'[r] = "record" => (r = q /\ video'.of = index) \/ pc[r] = "record"
  BY <1>1 DEF Renderers, TypesInv, RowInv, RowType
<1>4. ASSUME NEW r \in Run \ mixed, pc'[r] = "record" PROVE video'.of = r
  <2>1. CASE r = q /\ video'.of = index
    BY <1>2, <2>1
  <2>2. CASE pc[r] = "record"
    <3>1. r \in Others /\ r # q
      BY <1>1, <2>2 DEF Others, Working
    <3> QED
      BY <1>1, <3>1 DEF ShareInv
  <2> QED
    BY <1>3, <1>4, <2>1, <2>2
<1>5. DraftKeepsItsFilm'
  BY <1>2 DEF ShareInv, DraftKeepsItsFilm
<1> QED
  BY <1>3, <1>4, <1>5 DEF ShareInv

LEMMA ShareInvNext ==
    ASSUME TypesInv, ShareInv, [Next]_vars
    PROVE  ShareInv'
<1> USE DEF rowVars, draftVars, planVars, diskVars, leftVars, historyVars, Goto, Stop
<1>0. pc \in [Run -> Labels] /\ orphans \subseteq Run /\ \A r \in orphans : pc[r] = "over"
  BY DEF TypesInv, RowInv, RowType, StraysInv
<1>1. ASSUME NEW q \in Run, Start(q) PROVE ShareInv'
  <2>1. /\ pc[q] = "idle" /\ pc' = [pc EXCEPT ![q] = "script"]
        /\ mixed' = IF Others = {} THEN mixed ELSE mixed \cup Others \cup {q}
        /\ UNCHANGED <<index, video, newest, touched, strays, orphans>>
    BY <1>1 DEF Start
  <2>2. Others' = Others \cup {q}
    BY <1>0, <2>1 DEF Others, Working
  <2>3. \A p, r \in Others' : p # r => {p, r} \subseteq mixed'
    BY <2>1, <2>2 DEF ShareInv
  <2>4. /\ \A r \in Run : pc'[r] \in {"shoot", "record"} => pc'[r] = pc[r]
        /\ Renderers' = Renderers /\ mixed \subseteq mixed'
    BY <1>0, <2>1 DEF Renderers
  <2>5. DraftKeepsItsFilm'
    BY <2>1, <2>4 DEF ShareInv, DraftKeepsItsFilm
  <2>6. \A r \in Run : pc'[r] = "shoot" \/ r \in Renderers' => index = r \/ {index, r} \subseteq mixed'
    BY <2>4 DEF ShareInv
  <2>7. newest \notin mixed' => Renderers' \subseteq touched
    BY <2>4 DEF ShareInv
  <2>8. \A r \in Run \ mixed' : pc'[r] = "record" => video.of = r
    BY <2>4 DEF ShareInv
  <2> QED
    BY <2>1, <2>3, <2>5, <2>6, <2>7, <2>8 DEF ShareInv
<1>2. ASSUME NEW q \in Run,
             \/ StartFails(q) \/ Script(q) \/ FramesDone(q) \/ StageFails(q)
             \/ FinishJob(q) \/ FinishJobFails(q) \/ FailJob(q) \/ FailJobFails(q)
      PROVE  ShareInv'
  <2>1. /\ UNCHANGED <<index, video, newest, mixed, strays, orphans>>
        /\ touched \subseteq touched'
        /\ pc' = [pc EXCEPT ![q] = pc'[q]]
        /\ \/ pc'[q] \in {"fail", "over"}
           \/ pc'[q] = "narrate" /\ pc[q] = "script"
           \/ pc'[q] = "render" /\ pc[q] = "shoot" /\ q \in touched'
    BY <1>0, <1>2 DEF StartFails, Script, FramesDone, StageFails, FinishJob, FinishJobFails, FailJob,
                      FailJobFails
  <2>2. \A r \in Run : r # q => pc'[r] = pc[r]
    BY <1>0, <2>1
  <2>3. Others' \subseteq Others
    BY <2>1, <2>2 DEF Others, Working
  <2> QED
    BY <2>1, <2>2, <2>3, ShareInvQuietly
<1>3. ASSUME NEW q \in Run, NEW f \in 1..MaxFrames, NarrateFails(q, f)
      PROVE  ShareInv'
  <2>1. /\ UNCHANGED <<index, video, newest, mixed, touched, orphans>>
        /\ pc[q] = "narrate" /\ pc' = [pc EXCEPT ![q] = "fail"]
        /\ strays' = [strays EXCEPT ![q] = todo[q] \ {f}]
    BY <1>3 DEF NarrateFails
  <2>2. /\ \A r \in Run : r # q => pc'[r] = pc[r] /\ strays'[r] = strays[r]
        /\ pc'[q] = "fail"
    BY <1>0, <2>1 DEF TypesInv, StraysInv
  <2>3. Others' \subseteq Others
    BY <2>1, <2>2 DEF Others, Working
  <2> QED
    BY <2>1, <2>2, <2>3, ShareInvQuietly
<1>4. CASE \/ \E q \in Run : \/ \E f \in 1..MaxFrames : Narrate(q, f) \/ BuildFrame(q, f)
                             \/ WriteShot(q) \/ AcceptShot(q) \/ GiveUpShot(q)
           \/ UNCHANGED vars
  <2>1. UNCHANGED <<pc, index, video, newest, mixed, touched, strays, orphans>>
    BY <1>4 DEF Narrate, BuildFrame, WriteShot, AcceptShot, GiveUpShot, vars
  <2> QED
    BY <2>1 DEF ShareInv, DraftKeepsItsFilm, Others, Working, Renderers
<1>5. ASSUME NEW q \in Run, NEW f \in strays[q], Stray(q, f)
      PROVE  ShareInv'
  <2>1. /\ UNCHANGED <<pc, index, video, newest, mixed, touched, orphans>>
        /\ strays' = [strays EXCEPT ![q] = @ \ {f}]
    BY <1>5 DEF Stray
  <2>2. \A r \in Run : strays'[r] \subseteq strays[r]
    BY <2>1 DEF TypesInv, StraysInv
  <2>3. Others' \subseteq Others
    BY <2>1, <2>2 DEF Others, Working
  <2> QED
    BY <2>1, <2>3, ShareInvQuietly
<1>6. ASSUME NEW q \in Run, Compile(q) PROVE ShareInv'
  <2>1. CASE index' = q /\ pc' = [pc EXCEPT ![q] = "shoot"]
    <3>1. UNCHANGED <<video, newest, mixed, touched, strays, orphans>> /\ pc[q] = "narrate"
      BY <1>6, <2>1 DEF Compile
    <3>2. Others' = Others /\ q \in Others /\ Renderers' = Renderers /\ q \notin Renderers
      BY <1>0, <2>1, <3>1 DEF Others, Working, Renderers
    <3>3. \A r \in Run : pc'[r] = "shoot" \/ r \in Renderers' => r = q \/ r \in Others
      <4>1. \A r \in Run : pc'[r] = "shoot" => r = q \/ pc[r] = "shoot"
        BY <1>0, <2>1
      <4> QED
        BY <3>2, <4>1, RenderersAreOthers DEF Others, Working
    <3>4. \A r \in Run : pc'[r] = "shoot" \/ r \in Renderers' => q = r \/ {q, r} \subseteq mixed
      BY <3>2, <3>3 DEF ShareInv
    <3>5. \A r \in Run : pc'[r] = "record" => pc[r] = "record"
      BY <1>0, <2>1
    <3>6. DraftKeepsItsFilm'
      BY <3>1 DEF ShareInv, DraftKeepsItsFilm
    <3> QED
      BY <2>1, <3>1, <3>2, <3>4, <3>5, <3>6 DEF ShareInv
  <2>2. CASE UNCHANGED index /\ pc' = [pc EXCEPT ![q] = "fail"]
    <3>1. UNCHANGED <<index, video, newest, mixed, touched, strays, orphans>> /\ pc[q] = "narrate"
      BY <1>6, <2>2 DEF Compile
    <3>2. pc'[q] = "fail" /\ \A r \in Run : r # q => pc'[r] = pc[r]
      BY <1>0, <2>2
    <3>3. Others' \subseteq Others
      BY <3>1, <3>2 DEF Others, Working
    <3> QED
      BY <3>1, <3>2, <3>3, ShareInvQuietly
  <2> QED
    BY <1>6, <2>1, <2>2 DEF Compile
<1>7. ASSUME NEW q \in Run, Render(q) \/ Overwrite(q) PROVE ShareInv'
  <2>1. /\ q \in Renderers /\ video'.of \in {Nobody, index}
        /\ UNCHANGED <<index, newest, mixed, touched, strays, orphans>>
        /\ \/ UNCHANGED pc
           \/ pc[q] = "render" /\ pc' = [pc EXCEPT ![q] = "record"] /\ video'.of = index
    BY <1>7 DEF Render, Overwrite, Rendering, NoFilm, Renderers
  <2>2. Others' \subseteq Others
    BY <1>0, <2>1 DEF Others, Working
  <2> QED
    BY <2>1, <2>2, ShareInvRender
<1>8. ASSUME NEW q \in Run, RecordDraft(q) \/ RecordFails(q) PROVE ShareInv'
  <2>1. /\ pc[q] = "record"
        /\ \/ pc' = [pc EXCEPT ![q] = "fail"] \/ pc' = [pc EXCEPT ![q] = "finish"]
           \/ pc' = [pc EXCEPT ![q] = "over"]
        /\ UNCHANGED <<index, video, mixed, strays, orphans>>
        /\ \/ newest' = q /\ touched' = {}
           \/ UNCHANGED <<newest, touched>>
    BY <1>8 DEF RecordDraft, RecordFails
  <2>2. /\ \A r \in Run : r # q => pc'[r] = pc[r]
        /\ pc'[q] \in {"fail", "finish", "over"}
    BY <1>0, <2>1
  <2>3. Others' \subseteq Others
    BY <2>1, <2>2 DEF Others, Working
  <2>4. CASE UNCHANGED <<newest, touched>>
    BY <2>1, <2>2, <2>3, <2>4, ShareInvQuietly
  <2>5. CASE newest' = q /\ touched' = {}
    <3>1. Renderers' = Renderers /\ q \notin Renderers /\ q \in Others
      BY <1>0, <2>1, <2>2 DEF Renderers, Others, Working
    <3>2. q \notin mixed => Renderers = {} /\ video.of = q
      <4>1. \A r \in Renderers : r \in Others /\ r # q
        BY <3>1, RenderersAreOthers
      <4> QED
        BY <2>1, <3>1, <4>1 DEF ShareInv
    <3>3. DraftKeepsItsFilm'
      BY <2>1, <2>5, <3>2 DEF DraftKeepsItsFilm
    <3>4. newest' \notin mixed' => Renderers' \subseteq touched'
      BY <2>1, <2>5, <3>1, <3>2
    <3>5. \A r \in Run : pc'[r] \in {"shoot", "record"} => pc[r] = pc'[r]
      BY <2>2
    <3>6. \A r \in Run : pc'[r] = "shoot" \/ r \in Renderers' => index' = r \/ {index', r} \subseteq mixed'
      BY <2>1, <3>1, <3>5 DEF ShareInv
    <3>7. \A r \in Run \ mixed' : pc'[r] = "record" => video'.of = r
      BY <2>1, <3>5 DEF ShareInv
    <3>8. \A p, r \in Others' : p # r => {p, r} \subseteq mixed'
      BY <2>1, <2>3 DEF ShareInv
    <3> QED
      BY <3>3, <3>4, <3>6, <3>7, <3>8 DEF ShareInv
  <2> QED
    BY <2>1, <2>4, <2>5
<1>9. ASSUME NEW q \in Run, EndOrphan(q) PROVE ShareInv'
  <2>1. /\ UNCHANGED <<pc, index, video, newest, mixed, touched, strays>>
        /\ orphans' \subseteq orphans
    BY <1>9 DEF EndOrphan
  <2>2. Others' \subseteq Others
    BY <2>1 DEF Others, Working
  <2> QED
    BY <2>1, <2>2, ShareInvQuietly
<1>10. CASE Die
  <2>1. /\ \A r \in Run : pc'[r] \in {"idle", "over"}
        /\ strays' = [r \in Run |-> {}] /\ orphans' \subseteq Renderers
        /\ UNCHANGED <<index, video, newest, mixed, touched>>
    BY <1>0, <1>10 DEF Die, InFlight, Labels
  <2>2. Others' = orphans' /\ Renderers' = orphans'
    BY <2>1 DEF Others, Working, Renderers
  <2>3. Others' \subseteq Others /\ Renderers' \subseteq Renderers
    BY <2>1, <2>2, RenderersAreOthers
  <2>4. DraftKeepsItsFilm'
    BY <2>1 DEF ShareInv, DraftKeepsItsFilm
  <2>5. \A r \in Run : pc'[r] \notin {"shoot", "record"}
    BY <2>1
  <2> QED
    BY <2>1, <2>3, <2>4, <2>5 DEF ShareInv
<1> QED
  BY <1>1, <1>2, <1>3, <1>4, <1>5, <1>6, <1>7, <1>8, <1>9, <1>10 DEF Next, RunStep

(* The video file every draft of the story names is the newest draft's own *)
(* film, whole, until another run begins to render, whatever is refused,   *)
(* fails or dies before; from then on it is a film of those that did, or   *)
(* of runs that overlapped, or a part - unless that draft's own run        *)
(* overlapped with another (generate_youtube_video in youtube.py).         *)
THEOREM DraftsKeepTheirFilm == Spec => []DraftKeepsItsFilm
<1>1. Init => TypesInv /\ ShareInv
  BY TypesInvInit, ShareInvInit
<1>2. TypesInv /\ ShareInv /\ [Next]_vars => (TypesInv /\ ShareInv)'
  BY TypesInvNext, ShareInvNext
<1>3. ShareInv => DraftKeepsItsFilm
  BY DEF ShareInv
<1> QED
  BY <1>1, <1>2, <1>3, PTL DEF Spec

-----------------------------------------------------------------------------
(* The work of a run that has the directory to itself.                     *)

LEMMA NoFrameDone ==
    ASSUME NEW r \in Run, size[r] \in Nat, todo[r] = 1..size[r]
    PROVE  Done(r) = {}
BY DEF Done

LEMMA NothingAtNone ==
    ASSUME NEW files, NEW S
    PROVE  /\ At(files, {}) = {} /\ IsFiniteSet(At(files, {}))
           /\ Cardinality(At(files, {})) = 0 /\ Cardinality(At(files, {}) \cap S) = 0
<1>1. At(files, {}) = {} /\ At(files, {}) \cap S = {}
  BY DEF At
<1> QED
  BY <1>1, FS_EmptySet

(* Who else would write into the directory of such a run shares it.        *)
LEMMA AloneAtWork ==
    ASSUME TypesInv, ShareInv, NEW r \in Run \ mixed,
           pc[r] \in {"narrate", "shoot"} \/ r \in Renderers
    PROVE  \A q \in Run \ {r} : q \notin Working /\ strays[q] = {}
BY RenderersAreOthers DEF ShareInv, Others, Working

(* A run that is not over renders if it waits for its renderer.            *)
LEMMA NoOrphanYet ==
    ASSUME TypesInv, NEW r \in Run, pc[r] # "over", UNCHANGED orphans
    PROVE  r \in Renderers' <=> pc'[r] = "render"
BY DEF TypesInv, StraysInv, Renderers

LEMMA OwnWorkStays ==
    ASSUME NEW r \in Run, OwnWork(r), UNCHANGED <<voice, frames, index>>,
           size'[r] = size[r], title'[r] = title[r], todo'[r] = todo[r], shooting'[r] = shooting[r],
           silenced'[r] = silenced[r], placeholders'[r] = placeholders[r],
           pc'[r] = pc[r] \/ pc'[r] \notin {"narrate", "shoot", "render"},
           orphans' \subseteq orphans
    PROVE  OwnWork(r)'
<1>0. r \in Renderers' => r \in Renderers
  BY DEF Renderers
<1>1. CASE pc'[r] = pc[r]
  <2>1. Done(r)' = Done(r)
    BY DEF Done
  <2>2. Narrated(r) => Narrated(r)'
    BY <2>1 DEF Narrated
  <2>3. Compiled(r) => Compiled(r)'
    BY DEF Compiled
  <2>4. Shot(r) => Shot(r)'
    BY <2>1 DEF Shot
  <2>5. Filmed(r) => Filmed(r)'
    BY DEF Filmed
  <2> QED
    BY <1>0, <1>1, <2>2, <2>3, <2>4, <2>5 DEF OwnWork
<1>2. CASE pc'[r] \notin {"narrate", "shoot", "render"}
  <2>1. Compiled(r) /\ Filmed(r) => Compiled(r)' /\ Filmed(r)'
    BY DEF Compiled, Filmed
  <2> QED
    BY <1>0, <1>2, <2>1 DEF OwnWork
<1> QED
  BY <1>1, <1>2

(* The script is read: no clip is there yet that counts.                   *)
LEMMA OwnScript ==
    ASSUME TypesInv, NEW r \in Run, Script(r)
    PROVE  OwnWork(r)'
<1>0. r \in Renderers' <=> pc'[r] = "render"
  <2>1. pc[r] = "script" /\ UNCHANGED orphans
    BY DEF Script, leftVars
  <2> QED
    BY <2>1, NoOrphanYet
<1>1. CASE pc' = [pc EXCEPT ![r] = "fail"]
  BY <1>0, <1>1 DEF TypesInv, RowInv, RowType, OwnWork
<1>2. CASE \E n \in MinScript..MaxFrames : /\ size' = [size EXCEPT ![r] = n]
                                           /\ todo' = [todo EXCEPT ![r] = 1..n]
                                           /\ UNCHANGED silenced
                                           /\ pc' = [pc EXCEPT ![r] = "narrate"]
  <2>1. PICK n \in MinScript..MaxFrames : /\ size' = [size EXCEPT ![r] = n]
                                          /\ todo' = [todo EXCEPT ![r] = 1..n]
    BY <1>2
  <2>2. size'[r] = n /\ todo'[r] = 1..n
    BY <2>1 DEF TypesInv, PlanInv, PlanType
  <2>3. Done(r)' = {}
    BY <2>2 DEF Done
  <2>4. silenced'[r] = 0
    BY <1>2 DEF Script, TypesInv, PlanInv, PlanOf
  <2>5. Narrated(r)'
    BY <2>3, <2>4, NothingAtNone, FS_EmptySet DEF Narrated
  <2>6. pc'[r] = "narrate"
    BY <1>2 DEF TypesInv, RowInv, RowType
  <2> QED
    BY <1>0, <2>5, <2>6 DEF OwnWork
<1> QED
  BY <1>1, <1>2 DEF Script, Stop, Goto

(* A frame is narrated.                                                    *)
LEMMA OwnNarrate ==
    ASSUME TypesInv, NEW r \in Run, OwnWork(r), NEW f \in 1..MaxFrames, Narrate(r, f)
    PROVE  OwnWork(r)'
<1>0. r \in Renderers' <=> pc'[r] = "render"
  <2>1. pc[r] = "narrate" /\ UNCHANGED orphans
    BY DEF Narrate, leftVars
  <2> QED
    BY <2>1, NoOrphanYet
<1> DEFINE D == Done(r)
<1>1. /\ pc[r] = "narrate" /\ f \in todo[r] /\ todo' = [todo EXCEPT ![r] = @ \ {f}]
      /\ UNCHANGED <<pc, size, shooting>>
  BY DEF Narrate
<1>2. /\ size[r] \in Nat /\ silenced[r] \in Nat
      /\ todo[r] \subseteq 1..size[r] /\ shooting[r] = {}
  BY <1>1 DEF TypesInv, PlanInv, PlanType, PlanOf
<1>3. todo'[r] = todo[r] \ {f}
  BY <1>1 DEF TypesInv, PlanInv, PlanType
<1>4. Done(r)' = D \cup {f} /\ f \notin D /\ D \in SUBSET (1..size[r])
  BY <1>1, <1>2, <1>3 DEF Done
<1>5. Cardinality(D \cup {f}) = Cardinality(D) + 1 /\ Cardinality(D) \in Nat
  <2>1. IsFiniteSet(D)
    BY <1>2, <1>4, FrameSets
  <2> QED
    BY <1>4, <2>1, FS_AddElement, FS_CardinalityType
<1>6. /\ \A c \in At(voice, D) : c.by = r
      /\ IsFiniteSet(At(voice, D))
      /\ Cardinality(At(voice, D)) = Cardinality(D)
      /\ Cardinality(At(voice, D) \cap Unspoken) <= silenced[r]
  BY <1>1 DEF OwnWork, Narrated
<1> HIDE DEF D
<1>7. PICK spoken \in BOOLEAN :
         /\ WriteClip(r, f, spoken)
         /\ \/ (spoken \/ f \in Mute) /\ UNCHANGED silenced
            \/ silenced' = [silenced EXCEPT ![r] = @ + 1]
  BY NarrateWritesAClip
<1> DEFINE c == [at |-> f, by |-> r, spoken |-> spoken]
<1>8. c.at = f /\ c.by = r /\ (c \in Unspoken => ~spoken /\ f \notin Mute)
  BY DEF Unspoken
<1>9. Written(voice', voice, f, c)
  BY <1>7 DEF WriteClip, ClipAt, At, Written
<1> HIDE DEF c
<1>10. /\ At(voice', D \cup {f}) = At(voice, D) \cup {c}
       /\ IsFiniteSet(At(voice', D \cup {f}))
       /\ Cardinality(At(voice', D \cup {f})) = Cardinality(At(voice, D)) + 1
       /\ c \in Unspoken => Cardinality(At(voice', D \cup {f}) \cap Unspoken)
                               = Cardinality(At(voice, D) \cap Unspoken) + 1
       /\ c \notin Unspoken => Cardinality(At(voice', D \cup {f}) \cap Unspoken)
                                  = Cardinality(At(voice, D) \cap Unspoken)
       /\ Cardinality(At(voice, D) \cap Unspoken) \in Nat
  BY <1>4, <1>6, <1>9, OneMoreFile
<1>11. Cardinality(At(voice', D \cup {f}) \cap Unspoken) <= silenced'[r]
  <2>1. CASE c \in Unspoken
    <3>1. silenced' = [silenced EXCEPT ![r] = @ + 1]
      BY <1>7, <1>8, <2>1
    <3>2. silenced'[r] = silenced[r] + 1
      BY <3>1 DEF TypesInv, PlanInv, PlanType
    <3> QED
      BY <1>2, <1>6, <1>10, <2>1, <3>2
  <2>2. CASE c \notin Unspoken
    <3>1. silenced'[r] \in {silenced[r], silenced[r] + 1}
      BY <1>7 DEF TypesInv, PlanInv, PlanType
    <3> QED
      BY <1>2, <1>6, <1>10, <2>2, <3>1
  <2> QED
    BY <2>1, <2>2
<1>12. Narrated(r)'
  BY <1>4, <1>5, <1>6, <1>8, <1>10, <1>11 DEF Narrated
<1> QED
  BY <1>0, <1>1, <1>12 DEF OwnWork

(* The storyboard is compiled: what is left is one clip to a frame, and    *)
(* no frame is there yet that counts.                                      *)
LEMMA OwnCompile ==
    ASSUME TypesInv, NEW r \in Run, OwnWork(r), Compile(r)
    PROVE  OwnWork(r)'
<1>0. r \in Renderers' <=> pc'[r] = "render"
  <2>1. pc[r] = "narrate" /\ UNCHANGED orphans
    BY DEF Compile, leftVars
  <2> QED
    BY <2>1, NoOrphanYet
<1>1. CASE pc' = [pc EXCEPT ![r] = "fail"]
  BY <1>0, <1>1 DEF TypesInv, RowInv, RowType, OwnWork
<1>2. CASE /\ ~TooMany(silenced[r], r, MaxSilent)
           /\ voice' = {c \in voice : c.at <= size[r]}
           /\ frames' = {p \in frames : p.at <= size[r] /\ p.title = title[r]}
           /\ index' = r
           /\ todo' = [todo EXCEPT ![r] = 1..size[r]]
           /\ UNCHANGED <<size, title, shooting, silenced, placeholders>>
           /\ pc' = [pc EXCEPT ![r] = "shoot"]
  <2>1. /\ pc[r] = "narrate" /\ todo[r] = {} /\ shooting[r] = {}
        /\ size[r] \in Nat /\ silenced[r] \in Nat /\ placeholders[r] = 0 /\ Narrated(r)
    BY DEF Compile, TypesInv, PlanInv, PlanType, PlanOf, OwnWork
  <2>2. Done(r) = 1..size[r]
    BY <2>1 DEF Done
  <2>3. \A c \in voice : c.at \in Nat /\ c.at >= 1
    BY RunAssumption DEF TypesInv, DiskType, VoiceType, Clip
  <2>4. voice' = At(voice, Done(r))
    BY <1>2, <2>1, <2>2, <2>3 DEF At
  <2>5. Cardinality(Done(r)) = size[r]
    <3>1. Cardinality(1..size[r]) = size[r]
      BY <2>1, FrameCount
    <3> QED
      BY <2>2, <3>1
  <2>6. /\ \A c \in voice' : c.by = r /\ c.at <= size[r]
        /\ IsFiniteSet(voice') /\ Cardinality(voice') = size[r]
        /\ Cardinality(voice' \cap Unspoken) <= silenced[r]
    BY <1>2, <2>1, <2>4, <2>5 DEF Narrated
  <2>7. MaxSilent \in Nat /\ ~(100 * silenced[r] > MaxSilent * size[r])
    BY <1>2, RunAssumption DEF TooMany
  <2>8. Cardinality(voice' \cap Unspoken) \in Nat
    BY <2>6, FS_Subset, FS_CardinalityType
  <2>9. 100 * Cardinality(voice' \cap Unspoken) <= MaxSilent * size[r]
    <3> DEFINE n == Cardinality(voice' \cap Unspoken)
               m == MaxSilent * size[r]
    <3>1. n \in Nat /\ n <= silenced[r]
      BY <2>6, <2>8
    <3>2. m \in Nat /\ 100 * silenced[r] <= m
      BY <2>1, <2>7
    <3> HIDE DEF n, m
    <3>3. 100 * n <= m
      BY <2>1, <3>1, <3>2
    <3> QED
      BY <3>3 DEF n, m
  <2>10. Compiled(r)'
    BY <1>2, <2>6, <2>9 DEF Compiled
  <2>11. Done(r)' = {}
    BY <1>2 DEF Done, TypesInv, PlanInv, PlanType
  <2>12. Shot(r)'
    <3>1. /\ At(frames', {}) = {} /\ IsFiniteSet(At(frames', {}))
          /\ Cardinality(At(frames', {}) \cap Real) = 0 /\ Cardinality({}) = 0
      BY NothingAtNone, FS_EmptySet
    <3>2. placeholders'[r] = 0
      BY <1>2, <2>1
    <3> QED
      BY <2>11, <3>1, <3>2 DEF Shot
  <2>13. pc'[r] = "shoot"
    BY <1>2 DEF TypesInv, RowInv, RowType
  <2> QED
    BY <1>0, <2>10, <2>12, <2>13 DEF OwnWork
<1> QED
  BY <1>1, <1>2 DEF Compile, Stop, Goto

(* A frame is done: it is real, or it is one of the placeholders.          *)
LEMMA OwnFrame ==
    ASSUME TypesInv, NEW r \in Run, OwnWork(r), NEW f \in 1..size[r], f \notin Done(r), pc[r] = "shoot",
           Done(r)' = Done(r) \cup {f}, NEW kind \in {"real", "placeholder"}, WritePage(r, f, kind),
           placeholders'[r] = IF kind = "real" THEN placeholders[r] ELSE placeholders[r] + 1,
           UNCHANGED <<pc, size, title, voice, index, orphans>>
    PROVE  OwnWork(r)'
<1>0. r \notin Renderers'
  BY NoOrphanYet
<1> DEFINE D == Done(r)
           p == [at |-> f, title |-> title[r], by |-> r, kind |-> kind]
<1>1. /\ size[r] \in Nat /\ placeholders[r] \in Nat /\ D \in SUBSET (1..size[r])
      /\ title[r] \in Title /\ f \in 1..MaxFrames
  BY RunAssumption DEF TypesInv, PlanInv, PlanType, Done
<1>2. Compiled(r) /\ Shot(r)
  BY DEF OwnWork
<1>3. /\ p.at = f /\ p.by = r /\ p.title = title[r] /\ p.kind # "rejected"
      /\ p \in Real <=> kind = "real"
  BY <1>1 DEF Real, Page, Kind
<1>4. PageAt(r, f) = At(frames, {f})
  BY <1>2 DEF PageAt, At, Compiled
<1>5. Written(frames', frames, f, p)
  BY <1>3, <1>4 DEF WritePage, Written
<1>6. f \notin D /\ Done(r)' = D \cup {f}
  OBVIOUS
<1> HIDE DEF p
<1>7. Compiled(r)'
  BY <1>2, <1>3, <1>5 DEF Compiled, Written
<1>8. /\ \A x \in At(frames, D) : x.by = r /\ x.kind # "rejected"
      /\ IsFiniteSet(At(frames, D))
      /\ Cardinality(D) <= placeholders[r] + Cardinality(At(frames, D) \cap Real)
  BY <1>2 DEF Shot
<1> HIDE DEF D
<1>9. Cardinality(D \cup {f}) = Cardinality(D) + 1 /\ Cardinality(D) \in Nat
  <2>1. IsFiniteSet(D)
    BY <1>1, FrameSets
  <2> QED
    BY <1>6, <2>1, FS_AddElement, FS_CardinalityType
<1>10. /\ At(frames', D \cup {f}) = At(frames, D) \cup {p}
       /\ IsFiniteSet(At(frames', D \cup {f}))
       /\ Cardinality(At(frames', D \cup {f})) = Cardinality(At(frames, D)) + 1
       /\ p \in Real => Cardinality(At(frames', D \cup {f}) \cap Real)
                           = Cardinality(At(frames, D) \cap Real) + 1
       /\ p \notin Real => Cardinality(At(frames', D \cup {f}) \cap Real)
                              = Cardinality(At(frames, D) \cap Real)
       /\ Cardinality(At(frames, D) \cap Real) \in Nat
  BY <1>5, <1>6, <1>8, OneMoreFile
<1>11. Cardinality(D \cup {f}) <= placeholders'[r] + Cardinality(At(frames', D \cup {f}) \cap Real)
  <2>1. CASE kind = "real"
    BY <1>1, <1>3, <1>8, <1>9, <1>10, <2>1
  <2>2. CASE kind # "real"
    BY <1>1, <1>3, <1>8, <1>9, <1>10, <2>2
  <2> QED
    BY <2>1, <2>2
<1>12. Shot(r)'
  BY <1>3, <1>6, <1>8, <1>10, <1>11 DEF Shot
<1> QED
  BY <1>0, <1>7, <1>12 DEF OwnWork

(* A shot is written to be looked at, under a number that does not count.  *)
LEMMA OwnWriteShot ==
    ASSUME TypesInv, NEW r \in Run, OwnWork(r), WriteShot(r)
    PROVE  OwnWork(r)'
<1>0. r \in Renderers' <=> pc'[r] = "render"
  <2>1. pc[r] = "shoot" /\ UNCHANGED orphans
    BY DEF WriteShot, leftVars
  <2> QED
    BY <2>1, NoOrphanYet
<1>1. PICK f \in todo[r] : /\ todo' = [todo EXCEPT ![r] = todo[r] \ {f}]
                           /\ shooting' = [shooting EXCEPT ![r] = {f}]
                           /\ WritePage(r, f, "rejected")
  BY DEF WriteShot
<1>2. /\ pc[r] = "shoot" /\ shooting[r] = {}
      /\ UNCHANGED <<pc, size, title, placeholders, voice, index>>
  BY DEF WriteShot
<1>3. todo[r] \subseteq 1..size[r] /\ Compiled(r) /\ Shot(r)
  BY <1>2 DEF TypesInv, PlanInv, PlanOf, OwnWork
<1>4. todo'[r] = todo[r] \ {f} /\ shooting'[r] = {f}
  BY <1>1 DEF TypesInv, PlanInv, PlanType
<1>5. Done(r)' = Done(r) /\ f \notin Done(r) /\ f <= size[r]
  BY <1>1, <1>2, <1>3, <1>4 DEF Done
<1> DEFINE p == [at |-> f, title |-> title[r], by |-> r, kind |-> "rejected"]
<1>6. p.at = f /\ p.title = title[r]
  OBVIOUS
<1>7. frames' = (frames \ PageAt(r, f)) \cup {p}
  BY <1>1 DEF WritePage
<1> HIDE DEF p
<1>8. Compiled(r)'
  BY <1>2, <1>3, <1>5, <1>6, <1>7 DEF Compiled
<1>9. At(frames', Done(r)) = At(frames, Done(r))
  BY <1>5, <1>6, <1>7 DEF At, PageAt
<1>10. Shot(r)'
  BY <1>2, <1>3, <1>5, <1>9 DEF Shot
<1> QED
  BY <1>0, <1>2, <1>8, <1>10 DEF OwnWork

(* A shot is given up: it is gone, and counted.                            *)
LEMMA OwnGiveUpShot ==
    ASSUME TypesInv, NEW r \in Run, OwnWork(r), GiveUpShot(r)
    PROVE  OwnWork(r)'
<1>0. r \in Renderers' <=> pc'[r] = "render"
  <2>1. pc[r] = "shoot" /\ UNCHANGED orphans
    BY DEF GiveUpShot, leftVars
  <2> QED
    BY <2>1, NoOrphanYet
<1> DEFINE D == Done(r)
<1>1. PICK f \in shooting[r] : frames' = frames \ PageAt(r, f)
  BY DEF GiveUpShot
<1>2. /\ pc[r] = "shoot" /\ shooting' = [shooting EXCEPT ![r] = {}]
      /\ placeholders' = [placeholders EXCEPT ![r] = @ + 1]
      /\ UNCHANGED <<pc, size, title, todo, voice, index>>
  BY DEF GiveUpShot
<1>3. /\ size[r] \in Nat /\ placeholders[r] \in Nat
      /\ shooting[r] \subseteq (1..size[r]) \ todo[r] /\ shooting[r] = {f}
      /\ Compiled(r) /\ Shot(r)
  BY <1>1, <1>2 DEF TypesInv, PlanInv, PlanType, PlanOf, OwnWork
<1>4. shooting'[r] = {} /\ placeholders'[r] = placeholders[r] + 1
  BY <1>2 DEF TypesInv, PlanInv, PlanType
<1>5. Done(r)' = D \cup {f} /\ f \notin D /\ D \in SUBSET (1..size[r])
  BY <1>2, <1>3, <1>4 DEF Done
<1>6. At(frames', D \cup {f}) = At(frames, D)
  BY <1>1, <1>3, <1>5 DEF At, PageAt, Compiled
<1>7. Compiled(r)'
  BY <1>1, <1>2, <1>3 DEF Compiled
<1>8. /\ \A x \in At(frames, D) : x.by = r /\ x.kind # "rejected"
      /\ IsFiniteSet(At(frames, D))
      /\ Cardinality(D) <= placeholders[r] + Cardinality(At(frames, D) \cap Real)
  BY <1>3 DEF Shot
<1> HIDE DEF D
<1>9. Cardinality(D \cup {f}) = Cardinality(D) + 1 /\ Cardinality(D) \in Nat
  <2>1. IsFiniteSet(D)
    BY <1>3, <1>5, FrameSets
  <2> QED
    BY <1>5, <2>1, FS_AddElement, FS_CardinalityType
<1>10. Cardinality(At(frames, D) \cap Real) \in Nat
  BY <1>8, FS_Subset, FS_CardinalityType
<1>11. Cardinality(D \cup {f}) <= placeholders'[r] + Cardinality(At(frames, D) \cap Real)
  BY <1>3, <1>4, <1>8, <1>9, <1>10
<1>12. Shot(r)'
  BY <1>5, <1>6, <1>8, <1>11 DEF Shot
<1> QED
  BY <1>0, <1>2, <1>7, <1>12 DEF OwnWork

LEMMA OwnBuildFrame ==
    ASSUME TypesInv, NEW r \in Run, OwnWork(r), NEW f \in 1..MaxFrames, BuildFrame(r, f)
    PROVE  OwnWork(r)'
<1>1. /\ pc[r] = "shoot" /\ f \in todo[r] /\ todo' = [todo EXCEPT ![r] = @ \ {f}]
      /\ UNCHANGED <<pc, size, title, shooting, voice, index, orphans>>
  BY DEF BuildFrame, leftVars
<1>2. todo[r] \subseteq 1..size[r] /\ shooting[r] \subseteq (1..size[r]) \ todo[r]
  BY <1>1 DEF TypesInv, PlanInv, PlanOf
<1>3. todo'[r] = todo[r] \ {f}
  BY <1>1 DEF TypesInv, PlanInv, PlanType
<1>4. f \in 1..size[r] /\ f \notin Done(r) /\ Done(r)' = Done(r) \cup {f}
  BY <1>1, <1>2, <1>3 DEF Done
<1>5. PICK kind \in {"real", "placeholder"} :
         /\ WritePage(r, f, kind)
         /\ placeholders'[r] = IF kind = "real" THEN placeholders[r] ELSE placeholders[r] + 1
  BY DEF BuildFrame, TypesInv, PlanInv, PlanType
<1> QED
  BY <1>1, <1>4, <1>5, OwnFrame

LEMMA OwnAcceptShot ==
    ASSUME TypesInv, NEW r \in Run, OwnWork(r), AcceptShot(r)
    PROVE  OwnWork(r)'
<1>1. PICK f \in shooting[r] : WritePage(r, f, "real")
  BY DEF AcceptShot
<1>2. /\ pc[r] = "shoot" /\ shooting' = [shooting EXCEPT ![r] = {}]
      /\ UNCHANGED <<pc, size, title, todo, placeholders, voice, index, orphans>>
  BY DEF AcceptShot, leftVars
<1>3. shooting[r] \subseteq (1..size[r]) \ todo[r] /\ shooting[r] = {f}
  BY <1>1, <1>2 DEF TypesInv, PlanInv, PlanOf
<1>4. shooting'[r] = {}
  BY <1>2 DEF TypesInv, PlanInv, PlanType
<1>5. f \in 1..size[r] /\ f \notin Done(r) /\ Done(r)' = Done(r) \cup {f}
  BY <1>2, <1>3, <1>4 DEF Done
<1> DEFINE kind == "real"
<1>6. /\ kind \in {"real", "placeholder"} /\ WritePage(r, f, kind)
      /\ placeholders'[r] = IF kind = "real" THEN placeholders[r] ELSE placeholders[r] + 1
  BY <1>1, <1>2
<1> HIDE DEF kind
<1> QED
  BY <1>2, <1>5, <1>6, OwnFrame

(* The guards have let the frames pass: enough of them are real.           *)
LEMMA OwnFramesDone ==
    ASSUME TypesInv, NEW r \in Run, OwnWork(r), FramesDone(r)
    PROVE  OwnWork(r)'
<1>0. r \in Renderers' <=> pc'[r] = "render"
  <2>1. pc[r] = "shoot" /\ UNCHANGED orphans
    BY DEF FramesDone, leftVars
  <2> QED
    BY <2>1, NoOrphanYet
<1>1. CASE pc' = [pc EXCEPT ![r] = "fail"]
  BY <1>0, <1>1 DEF TypesInv, RowInv, RowType, OwnWork
<1>2. CASE /\ ~(size[r] < placeholders[r] + MinVerified)
           /\ pc' = [pc EXCEPT ![r] = "render"] /\ UNCHANGED planVars
  <2>1. /\ pc[r] = "shoot" /\ todo[r] = {} /\ shooting[r] = {}
        /\ size[r] \in Nat /\ placeholders[r] \in Nat /\ MinVerified \in Nat
        /\ Compiled(r) /\ Shot(r) /\ UNCHANGED <<size, title, voice, frames, index>>
    BY <1>2, RunAssumption DEF FramesDone, planVars, diskVars, TypesInv, PlanInv, PlanType, OwnWork
  <2>2. Done(r) = 1..size[r]
    BY <2>1 DEF Done
  <2>3. \A p \in frames : p.at \in Nat /\ p.at >= 1
    BY RunAssumption DEF TypesInv, DiskType, FramesType, Page
  <2>4. At(frames, Done(r)) = frames
    BY <2>1, <2>2, <2>3 DEF At, Compiled
  <2>5. Cardinality(Done(r)) = size[r]
    <3>1. Cardinality(1..size[r]) = size[r]
      BY <2>1, FrameCount
    <3> QED
      BY <2>2, <3>1
  <2>6. /\ \A p \in frames : p.by = r /\ p.kind # "rejected"
        /\ IsFiniteSet(frames) /\ size[r] <= placeholders[r] + Cardinality(frames \cap Real)
    BY <2>1, <2>4, <2>5 DEF Shot
  <2>7. Cardinality(frames \cap Real) \in Nat
    BY <2>6, FS_Subset, FS_CardinalityType
  <2>8. Filmed(r)'
    BY <1>2, <2>1, <2>6, <2>7 DEF Filmed
  <2>9. Compiled(r)'
    BY <2>1 DEF Compiled
  <2>10. pc'[r] = "render"
    BY <1>2 DEF TypesInv, RowInv, RowType
  <2> QED
    BY <1>0, <2>8, <2>9, <2>10 DEF OwnWork
<1> QED
  BY <1>1, <1>2 DEF FramesDone, Stop, Goto

(* Who was mixed stays so; only a renderer changes the film.               *)
LEMMA OnlyRendersFilm ==
    ASSUME [Next]_vars
    PROVE  /\ mixed \subseteq mixed'
           /\ \/ UNCHANGED video
              \/ \E q \in Renderers : video' \in {NoFilm, Rendering} /\ UNCHANGED mixed
<1> USE DEF diskVars, historyVars
<1>1. ASSUME NEW q \in Run,
             \/ StartFails(q) \/ Script(q) \/ Compile(q)
             \/ \E f \in 1..MaxFrames : Narrate(q, f) \/ NarrateFails(q, f) \/ BuildFrame(q, f)
      PROVE  UNCHANGED <<mixed, video>>
  BY <1>1 DEF StartFails, Script, Compile, Narrate, NarrateFails, BuildFrame
<1>2. ASSUME NEW q \in Run,
             \/ WriteShot(q) \/ AcceptShot(q) \/ GiveUpShot(q) \/ FramesDone(q) \/ StageFails(q)
             \/ RecordDraft(q) \/ RecordFails(q)
             \/ FinishJob(q) \/ FinishJobFails(q) \/ FailJob(q) \/ FailJobFails(q)
      PROVE  UNCHANGED <<mixed, video>>
  BY <1>2 DEF WriteShot, AcceptShot, GiveUpShot, FramesDone, StageFails, RecordDraft, RecordFails,
              FinishJob, FinishJobFails, FailJob, FailJobFails
<1>3. ASSUME NEW q \in Run, Start(q) PROVE mixed \subseteq mixed' /\ UNCHANGED video
  BY <1>3 DEF Start
<1>4. ASSUME NEW q \in Run, Render(q) \/ Overwrite(q)
      PROVE  q \in Renderers /\ video' \in {NoFilm, Rendering} /\ UNCHANGED mixed
  BY <1>4 DEF Render, Overwrite, Renderers
<1>5. CASE \/ \E q \in Run : \E f \in strays[q] : Stray(q, f)
           \/ \E q \in Run : EndOrphan(q)
           \/ Die \/ UNCHANGED vars
  BY <1>5 DEF Stray, EndOrphan, Die, vars
<1> QED
  BY <1>1, <1>2, <1>3, <1>4, <1>5 DEF Next, RunStep

(* The run that works has the directory to itself, or is mixed.            *)
LEMMA OwnInvNext ==
    ASSUME TypesInv, ShareInv, OwnInv, [Next]_vars
    PROVE  OwnInv'
<1> USE DEF Goto, Stop, diskVars, planVars, leftVars, historyVars
<1>1. mixed \subseteq mixed'
  BY OnlyRendersFilm
<1>2. ASSUME NEW q \in Run,
             \/ Start(q) \/ StartFails(q) \/ Script(q) \/ \E f \in 1..MaxFrames : NarrateFails(q, f)
             \/ FramesDone(q) \/ StageFails(q) \/ Render(q) \/ RecordDraft(q) \/ RecordFails(q)
             \/ FinishJob(q) \/ FinishJobFails(q) \/ FailJob(q) \/ FailJobFails(q)
      PROVE  OwnInv'
  <2>1. /\ UNCHANGED <<voice, frames, index, orphans>>
        /\ pc[q] # "over" /\ pc' = [pc EXCEPT ![q] = pc'[q]]
        /\ pc'[q] \in {"narrate", "shoot", "render"} => Script(q) \/ FramesDone(q)
    BY <1>2 DEF Start, StartFails, Script, NarrateFails, FramesDone, StageFails, Render, RecordDraft,
                RecordFails, FinishJob, FinishJobFails, FailJob, FailJobFails, TypesInv, RowInv, RowType
  <2>2. \A r \in Run : r # q =>
            /\ pc'[r] = pc[r] /\ size'[r] = size[r] /\ title'[r] = title[r] /\ todo'[r] = todo[r]
            /\ shooting'[r] = shooting[r] /\ silenced'[r] = silenced[r]
            /\ placeholders'[r] = placeholders[r]
    BY <1>2 DEF Start, StartFails, Script, NarrateFails, FramesDone, StageFails, Render, RecordDraft,
                RecordFails, FinishJob, FinishJobFails, FailJob, FailJobFails, Forget,
                TypesInv, RowInv, RowType, PlanInv, PlanType
  <2>3. ASSUME NEW r \in Run \ mixed' PROVE OwnWork(r)'
    <3>1. r \in Run /\ OwnWork(r)
      BY <1>1 DEF OwnInv
    <3>2. CASE r # q
      BY <2>1, <2>2, <3>1, <3>2, OwnWorkStays
    <3>3. CASE r = q /\ pc'[q] \notin {"narrate", "shoot", "render"}
      BY <2>1, <3>3, NoOrphanYet DEF OwnWork
    <3>4. CASE r = q /\ (Script(q) \/ FramesDone(q))
      BY <3>1, <3>4, OwnScript, OwnFramesDone
    <3> QED
      BY <2>1, <3>2, <3>3, <3>4
  <2> QED
    BY <2>3 DEF OwnInv
<1>3. ASSUME NEW q \in Run,
             \/ \E f \in 1..MaxFrames : Narrate(q, f) \/ BuildFrame(q, f)
             \/ Compile(q) \/ WriteShot(q) \/ AcceptShot(q) \/ GiveUpShot(q)
      PROVE  OwnInv'
  <2>1. q \in Working /\ pc' = [pc EXCEPT ![q] = pc'[q]] /\ UNCHANGED orphans
    BY <1>3 DEF Narrate, BuildFrame, Compile, WriteShot, AcceptShot, GiveUpShot, Working,
                TypesInv, RowInv, RowType
  <2>2. ASSUME NEW r \in Run \ mixed' PROVE OwnWork(r)'
    <3>1. r \in Run \ mixed /\ OwnWork(r)
      BY <1>1 DEF OwnInv
    <3>2. CASE r # q
      <4>1. pc[r] \notin {"narrate", "shoot"} /\ r \notin Renderers
        BY <2>1, <3>1, <3>2, AloneAtWork
      <4>2. pc'[r] = pc[r] /\ r \notin Renderers'
        BY <2>1, <3>2, <4>1 DEF TypesInv, RowInv, RowType, Renderers
      <4> QED
        BY <4>1, <4>2 DEF OwnWork
    <3>3. CASE r = q
      BY <1>3, <3>1, <3>3, OwnNarrate, OwnBuildFrame, OwnCompile, OwnWriteShot, OwnAcceptShot,
         OwnGiveUpShot
    <3> QED
      BY <3>2, <3>3
  <2> QED
    BY <2>2 DEF OwnInv
<1>4. ASSUME NEW q \in Run, NEW f \in strays[q], Stray(q, f) PROVE OwnInv'
  <2>1. UNCHANGED <<pc, orphans>>
    BY <1>4 DEF Stray
  <2>2. ASSUME NEW r \in Run \ mixed' PROVE OwnWork(r)'
    <3>1. pc[r] \notin {"narrate", "shoot"} /\ r \notin Renderers
      <4>1. r \in Run \ mixed
        BY <1>1
      <4>2. r = q => pc[r] \in {"fail", "over"} /\ r \notin Renderers
        BY <1>4 DEF TypesInv, StraysInv, Renderers
      <4> QED
        BY <1>4, <4>1, <4>2, AloneAtWork
    <3> QED
      BY <2>1, <3>1 DEF OwnWork, Renderers
  <2> QED
    BY <2>2 DEF OwnInv
<1>5. CASE UNCHANGED vars \/ \E q \in Run : Overwrite(q) \/ EndOrphan(q)
  <2>1. /\ UNCHANGED <<pc, size, title, todo, shooting, silenced, placeholders, voice, frames, index>>
        /\ orphans' \subseteq orphans
    BY <1>5 DEF vars, Overwrite, EndOrphan
  <2> QED
    BY <1>1, <2>1, OwnWorkStays DEF OwnInv
<1>6. CASE Die
  <2>1. /\ \A r \in Run : pc'[r] \notin {"narrate", "shoot", "render"}
        /\ orphans' \subseteq Renderers
        /\ UNCHANGED <<size, title, voice, frames, index, mixed>>
    BY <1>6 DEF Die, InFlight
  <2>2. \A r \in Run : r \in Renderers' => r \in Renderers
    BY <2>1 DEF Renderers
  <2>3. ASSUME NEW r \in Run \ mixed', r \in Renderers' PROVE Compiled(r)' /\ Filmed(r)'
    <3>1. Compiled(r) /\ Filmed(r)
      BY <2>1, <2>2, <2>3 DEF OwnInv, OwnWork
    <3> QED
      BY <2>1, <3>1 DEF Compiled, Filmed
  <2> QED
    BY <2>1, <2>3 DEF OwnInv, OwnWork
<1> QED
  BY <1>2, <1>3, <1>4, <1>5, <1>6 DEF Next, RunStep

(* The renderer reads what the run has got into the directory.             *)
LEMMA RenderIsOwn ==
    ASSUME TypesInv, ShareInv, OwnInv, FilmIsItsRunsOwn, NEW q \in Renderers,
           video' = Rendering, UNCHANGED mixed
    PROVE  FilmIsItsRunsOwn'
<1>1. q \in Run
  BY RenderersAreOthers
<1> SUFFICES ASSUME index \in Run \ mixed PROVE FilmIsItsRunsOwn'
  BY DEF Rendering, FilmIsItsRunsOwn
<1>2. index = q /\ Compiled(q) /\ Filmed(q)
  BY <1>1 DEF ShareInv, OwnInv, OwnWork
<1>3. {c \in voice : c.at <= size[q]} = voice
  BY <1>2 DEF Compiled
<1>4. {p \in frames : p.at <= size[q] /\ p.title = title[q]} = frames
  BY <1>2 DEF Compiled
<1>5. Rendering = [of |-> q, size |-> size[q], voices |-> voice, pictures |-> frames]
  BY <1>2, <1>3, <1>4 DEF Rendering
<1>6. /\ video'.of = q /\ video'.size = size[q] /\ video'.voices = voice /\ video'.pictures = frames
  BY <1>1, <1>5
<1>7. {p \in frames : p.kind = "real"} = frames \cap Real
  BY DEF Real, TypesInv, DiskType, FramesType
<1>8. {c \in voice : ~c.spoken /\ c.at \notin Mute} = voice \cap Unspoken
  BY DEF Unspoken, TypesInv, DiskType, VoiceType
<1>9. /\ \A x \in voice \cup frames : x.by = q
      /\ \A p \in frames : p.kind # "rejected"
      /\ Cardinality(voice) = size[q]
      /\ Cardinality(frames \cap Real) >= MinVerified
      /\ 100 * Cardinality(voice \cap Unspoken) <= MaxSilent * size[q]
  BY <1>2 DEF Compiled, Filmed
<1> QED
  BY <1>6, <1>7, <1>8, <1>9 DEF FilmIsItsRunsOwn

LEMMA FilmNext ==
    ASSUME TypesInv, ShareInv, OwnInv, FilmIsItsRunsOwn, [Next]_vars
    PROVE  FilmIsItsRunsOwn'
<1>1. CASE UNCHANGED video /\ mixed \subseteq mixed'
  BY <1>1 DEF FilmIsItsRunsOwn
<1>2. ASSUME NEW q \in Renderers, video' = Rendering, UNCHANGED mixed PROVE FilmIsItsRunsOwn'
  BY <1>2, RenderIsOwn
<1>3. CASE video' = NoFilm
  BY <1>3, RunAssumption DEF NoFilm, FilmIsItsRunsOwn
<1> QED
  BY <1>1, <1>2, <1>3, OnlyRendersFilm

(* The film of a run that was alone in the story's directory is all its    *)
(* own, whatever earlier runs left behind and wherever they stopped: its   *)
(* clips, one to a frame, its frames, none a rejected shot, as many of     *)
(* them real and no more of them silent than the guards allow              *)
(* (generate_youtube_video, prune_stale_assets and the renders of          *)
(* youtube.py).                                                            *)
THEOREM FilmsAreTheirRunsOwn == Spec => []FilmIsItsRunsOwn
<1>1. Init => TypesInv /\ ShareInv /\ OwnInv /\ FilmIsItsRunsOwn
  <2> SUFFICES ASSUME Init PROVE TypesInv /\ ShareInv /\ OwnInv /\ FilmIsItsRunsOwn
    OBVIOUS
  <2>1. OwnInv /\ FilmIsItsRunsOwn
    BY RunAssumption DEF Init, OwnInv, OwnWork, FilmIsItsRunsOwn, Renderers, NoFilm
  <2> QED
    BY <2>1, TypesInvInit, ShareInvInit
<1>2. TypesInv /\ ShareInv /\ OwnInv /\ FilmIsItsRunsOwn /\ [Next]_vars
          => (TypesInv /\ ShareInv /\ OwnInv /\ FilmIsItsRunsOwn)'
  BY TypesInvNext, ShareInvNext, OwnInvNext, FilmNext DEF TypesInv, RowInv
<1> QED
  BY <1>1, <1>2, PTL DEF Spec
=============================================================================
