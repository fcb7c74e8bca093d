--------------------------- MODULE GenerationRun ----------------------------
(***************************************************************************)
(* Runs of generate_youtube_video (worker/app/youtube.py) for one story,   *)
(* all of which work in the story's one directory videos/story-<id>, and   *)
(* the rows of the jobs table that tell the GUI how they get on            *)
(* (worker/app/jobs.py, youtube_job_start in worker/app/routes.py).        *)
(*                                                                         *)
(* One action per await at which another run of the same story can get in. *)
(* Of the directory it keeps what a render reads: index.html, the voice    *)
(* clips and the frames, each with the run that wrote it.                  *)
(***************************************************************************)
EXTENDS Naturals, FiniteSets

CONSTANTS
    Run,             \* runs asked for by the GUI or the autopilot
    Nobody,
    Tracked,         \* those started by POST /youtube/jobs: each has a row in jobs
    Film,            \* those on the backend "three"
    MaxFrames,       \* bound on the frames of a script
    Mute,            \* positions of frames that a script may leave without voiceover
    Title,           \* titles the scenes of a script may have: they name its frame files
    MinScript,       \* MIN_SCRIPT_FRAMES
    MaxSilent,       \* MAX_SILENT_RATIO, in percent
    MaxPlaceholder,  \* MAX_PLACEHOLDER_RATIO, in percent
    MinVerified,     \* MIN_VERIFIED_FRAMES
    MaxFaults        \* bound on exceptions, lost updates and deaths

ASSUME RunAssumption ==
    /\ Nobody \notin Run /\ Tracked \subseteq Run /\ Film \subseteq Run
    /\ {MaxFrames, MaxSilent, MaxPlaceholder, MinVerified, MaxFaults} \subseteq Nat
    /\ MinScript \in Nat \ {0} /\ Mute \subseteq 1..MaxFrames
    /\ Title # {}

Stages == {"queued", "script", "narration", "world", "shots", "render", "done"}
Kind == {"real", "placeholder", "rejected"}

VARIABLES
    pc,
    size, title,       \* the run's storyboard: how many frames, under which title
    todo,              \* frames the current stage has still to make
    shooting,          \* 3D: the frame whose shot is being verified (at most one)
    silenced,          \* how many narrations fell back to silence
    placeholders,      \* how many frames fell back to a placeholder or have no shot
    stage, error,      \* columns of jobs; draft_id is set together with stage "done"
    drafted, newest,   \* runs that recorded a draft, and the last one to do so
    voice,             \* assets/voice/NN.mp3
    frames,            \* compositions/frames/*.html
    index,             \* whose index.html
    video,             \* renders/video.mp4, as what the render read
    strays,            \* voice clips that tasks of a failed run are still writing
    orphans,           \* runs whose renderer has outlived the worker
    faults,
    troubled,          \* history: runs that died or whose row could not be settled
    cut,               \* history: runs whose draft's insert raised
    mixed,             \* history: runs that were not alone in the directory
    touched            \* history: runs that began to render since the newest draft

planVars == <<size, title, todo, shooting, silenced, placeholders>>
rowVars == <<stage, error>>
draftVars == <<drafted, newest>>
diskVars == <<voice, frames, index, video>>
leftVars == <<strays, orphans>>
historyVars == <<troubled, cut, mixed, touched>>
vars == <<pc, planVars, rowVars, draftVars, diskVars, leftVars, faults, historyVars>>

(* No film, or only a part of one.                                         *)
NoFilm == [of |-> Nobody, size |-> 0, voices |-> {}, pictures |-> {}]

Init ==
    /\ pc = [r \in Run |-> "idle"]
    /\ size = [r \in Run |-> 0]
    /\ \E t \in Title : title = [r \in Run |-> t]
    /\ todo = [r \in Run |-> {}] /\ shooting = [r \in Run |-> {}]
    /\ silenced = [r \in Run |-> 0] /\ placeholders = [r \in Run |-> 0]
    /\ stage = [r \in Run |-> "queued"] /\ error = {}
    /\ drafted = {} /\ newest = Nobody
    /\ voice = {} /\ frames = {} /\ index = Nobody
    /\ video = NoFilm
    /\ strays = [r \in Run |-> {}] /\ orphans = {}
    /\ faults = 0
    /\ troubled = {} /\ cut = {} /\ mixed = {} /\ touched = {}

InFlight == {r \in Run : pc[r] \notin {"idle", "over"}}
Working == {r \in Run : pc[r] \in {"script", "narrate", "shoot", "render", "record"}}

Goto(r, label) == pc' = [pc EXCEPT ![r] = label]

(* Something raises, or an update is lost.                                 *)
Fault == faults < MaxFaults /\ faults' = faults + 1

(* _stage: nothing to report without a job; a failing update is logged.    *)
SetStage(r, s) ==
    IF r \in Tracked
    THEN \/ stage' = [stage EXCEPT ![r] = s] /\ UNCHANGED faults
         \/ Fault /\ UNCHANGED stage
    ELSE UNCHANGED <<stage, faults>>

(* Files are named by position (voice) or position and title (frames).     *)
ClipAt(f) == {c \in voice : c.at = f}
WriteClip(r, f, spoken) ==
    voice' = (voice \ ClipAt(f)) \cup {[at |-> f, by |-> r, spoken |-> spoken]}

PageAt(r, f) == {p \in frames : p.at = f /\ p.title = title[r]}
WritePage(r, f, kind) ==
    frames' = (frames \ PageAt(r, f)) \cup
                  {[at |-> f, title |-> title[r], by |-> r, kind |-> kind]}

(* The run's locals are gone; its storyboard stays known by the files.     *)
Forget(r) ==
    /\ todo' = [todo EXCEPT ![r] = {}]
    /\ shooting' = [shooting EXCEPT ![r] = {}]
    /\ silenced' = [silenced EXCEPT ![r] = 0]
    /\ placeholders' = [placeholders EXCEPT ![r] = 0]
    /\ UNCHANGED <<size, title>>

(* The run returned None (a guard, a missing story or script) or raised.   *)
Stop(r) == Goto(r, "fail") /\ Forget(r)

-----------------------------------------------------------------------------
(* Up to the storyboard.                                                   *)

(* Runs that have still something to do to the directory.                  *)
Others == Working \cup {q \in Run : strays[q] # {}} \cup orphans

(* create_job and create_task, or the call of generate_youtube_video by    *)
(* the blocking route or the autopilot.                                    *)
Start(r) ==
    /\ pc[r] = "idle"
    /\ mixed' = IF Others = {} THEN mixed ELSE mixed \cup Others \cup {r}
    /\ SetStage(r, "script")
    /\ Goto(r, "script")
    /\ UNCHANGED <<planVars, error, draftVars, diskVars, leftVars, troubled, cut, touched>>

(* No such channel or story: nothing is reported yet.                      *)
StartFails(r) ==
    /\ pc[r] = "idle"
    /\ Stop(r)
    /\ UNCHANGED <<rowVars, draftVars, diskVars, leftVars, faults, historyVars>>

(* STORYBOARD.md is written, its metadata is required, it is parsed.  A    *)
(* script without metadata raises, a short one is refused.                 *)
Script(r) ==
    /\ pc[r] = "script"
    /\ \/ Stop(r) /\ UNCHANGED <<stage, faults>>
       \/ \E n \in MinScript..MaxFrames, t \in Title :
             /\ size' = [size EXCEPT ![r] = n]
             /\ title' = [title EXCEPT ![r] = t]
             /\ todo' = [todo EXCEPT ![r] = 1..n]
             /\ UNCHANGED <<shooting, silenced, placeholders>>
             /\ SetStage(r, "narration")
             /\ Goto(r, "narrate")
    /\ UNCHANGED <<error, draftVars, diskVars, leftVars, historyVars>>

-----------------------------------------------------------------------------
(* Narration: one task per frame, in any order.                            *)

\* mutant: the silence is counted once per attempt, not once per frame
NarrateCountsAttempts(r, f) ==
    /\ pc[r] = "narrate" /\ f \in todo[r]
    /\ WriteClip(r, f, FALSE)
    /\ silenced' = [silenced EXCEPT ![r] = @ + 1]
    /\ todo' \in {todo, [todo EXCEPT ![r] = @ \ {f}]}
    /\ UNCHANGED <<pc, size, title, shooting, placeholders, rowVars, draftVars, frames,
                   index, video, leftVars, faults, historyVars>>

(* A clip is spoken; or a frame without voiceover gets silence, which is   *)
(* not counted; or all attempts failed and the silence is counted.         *)
Narrate(r, f) ==
    /\ pc[r] = "narrate" /\ f \in todo[r]
    /\ todo' = [todo EXCEPT ![r] = @ \ {f}]
    /\ \/ /\ \E spoken \in {TRUE} \cup {FALSE : m \in {f} \cap Mute} : WriteClip(r, f, spoken)
          /\ UNCHANGED silenced
       \/ /\ WriteClip(r, f, FALSE)
          /\ silenced' = [silenced EXCEPT ![r] = @ + 1]
    /\ UNCHANGED <<pc, size, title, shooting, placeholders, rowVars, draftVars, frames,
                   index, video, leftVars, faults, historyVars>>

(* A task raises (no ffmpeg to write the silence with): gather passes it   *)
(* on at once, and the other tasks keep running.                           *)
NarrateFails(r, f) ==
    /\ pc[r] = "narrate" /\ f \in todo[r]
    /\ Fault
    /\ strays' = [strays EXCEPT ![r] = todo[r] \ {f}]
    /\ Stop(r)
    /\ UNCHANGED <<rowVars, draftVars, diskVars, orphans, historyVars>>

Stray(r, f) ==
    /\ f \in strays[r]
    /\ strays' = [strays EXCEPT ![r] = @ \ {f}]
    /\ \E spoken \in BOOLEAN : WriteClip(r, f, spoken)
    /\ UNCHANGED <<pc, planVars, rowVars, draftVars, frames, index, video, orphans, faults,
                   historyVars>>

TooMany(count, r, percent) == 100 * count > percent * size[r]

(* The guard on silence; then, without an await, prune_stale_assets,       *)
(* attach_audio, assign_timing and index.html.                             *)
Compile(r) ==
    /\ pc[r] = "narrate" /\ todo[r] = {}
    /\ IF TooMany(silenced[r], r, MaxSilent)
       THEN Stop(r) /\ UNCHANGED <<stage, faults, diskVars>>
       ELSE /\ voice' = {c \in voice : c.at <= size[r]}
            /\ frames' = {p \in frames : p.at <= size[r] /\ p.title = title[r]}
            /\ index' = r
            /\ todo' = [todo EXCEPT ![r] = 1..size[r]]
            /\ SetStage(r, "shots")
            /\ Goto(r, "shoot")
            /\ UNCHANGED <<video, size, title, shooting, silenced, placeholders>>
    /\ UNCHANGED <<error, draftVars, leftVars, historyVars>>

-----------------------------------------------------------------------------
(* Frames.                                                                 *)

(* The 2D backends write a frame or a placeholder in its place.            *)
BuildFrame(r, f) ==
    /\ pc[r] = "shoot" /\ r \notin Film /\ f \in todo[r]
    /\ todo' = [todo EXCEPT ![r] = @ \ {f}]
    /\ \/ WritePage(r, f, "real") /\ UNCHANGED placeholders
       \/ WritePage(r, f, "placeholder") /\ placeholders' = [placeholders EXCEPT ![r] = @ + 1]
    /\ UNCHANGED <<pc, size, title, shooting, silenced, rowVars, draftVars, voice, index,
                   video, leftVars, faults, historyVars>>

(* The 3D backend writes a shot to look at it, frame after frame.          *)
WriteShot(r) ==
    /\ pc[r] = "shoot" /\ r \in Film /\ shooting[r] = {}
    /\ \E f \in todo[r] :
          /\ \A g \in todo[r] : f <= g
          /\ todo' = [todo EXCEPT ![r] = @ \ {f}]
          /\ shooting' = [shooting EXCEPT ![r] = {f}]
          /\ WritePage(r, f, "rejected")
    /\ UNCHANGED <<pc, size, title, silenced, placeholders, rowVars, draftVars, voice, index,
                   video, leftVars, faults, historyVars>>

AcceptShot(r) ==
    /\ pc[r] = "shoot"
    /\ \E f \in shooting[r] : WritePage(r, f, "real")
    /\ shooting' = [shooting EXCEPT ![r] = {}]
    /\ UNCHANGED <<pc, size, title, todo, silenced, placeholders, rowVars, draftVars, voice,
                   index, video, leftVars, faults, historyVars>>

\* mutant: the last rejected shot stays where it is
GiveUpLeavesTheShot(r) ==
    /\ pc[r] = "shoot" /\ shooting[r] # {}
    /\ shooting' = [shooting EXCEPT ![r] = {}]
    /\ placeholders' = [placeholders EXCEPT ![r] = @ + 1]
    /\ UNCHANGED <<pc, size, title, todo, silenced, rowVars, draftVars, diskVars, leftVars,
                   faults, historyVars>>

(* Every attempt was rejected: the file goes, "a substituted shot would    *)
(* render and validate exactly like a real one, and ship".                 *)
GiveUpShot(r) ==
    /\ pc[r] = "shoot"
    /\ \E f \in shooting[r] : frames' = frames \ PageAt(r, f)
    /\ shooting' = [shooting EXCEPT ![r] = {}]
    /\ placeholders' = [placeholders EXCEPT ![r] = @ + 1]
    /\ UNCHANGED <<pc, size, title, todo, silenced, rowVars, draftVars, voice, index, video,
                   leftVars, faults, historyVars>>

(* The guards on placeholders and on verified frames.                      *)
FramesDone(r) ==
    /\ pc[r] = "shoot" /\ todo[r] = {} /\ shooting[r] = {}
    /\ IF TooMany(placeholders[r], r, MaxPlaceholder) \/ size[r] < placeholders[r] + MinVerified
       THEN Stop(r) /\ UNCHANGED <<stage, faults, touched>>
       ELSE /\ SetStage(r, "render") /\ Goto(r, "render")
            /\ touched' = touched \cup {r}
            /\ UNCHANGED planVars
    /\ UNCHANGED <<error, draftVars, diskVars, leftVars, troubled, cut, mixed>>

(* A stage raises: before or after the narration's tasks, between two      *)
(* frames, or because the renderer failed (what is left of the film then   *)
(* is what Overwrite left).                                                *)
StageFails(r) ==
    /\ \/ pc[r] = "narrate" /\ todo[r] \in {{}, 1..size[r]}
       \/ pc[r] \in {"shoot", "render"}
    /\ Fault
    /\ Stop(r)
    /\ UNCHANGED <<rowVars, draftVars, diskVars, leftVars, historyVars>>

-----------------------------------------------------------------------------
(* The film and its draft.                                                 *)

(* The render reads whatever index.html names.                             *)
Rendering ==
    [of |-> index, size |-> size[index],
     voices |-> {c \in voice : c.at <= size[index]},
     pictures |-> {p \in frames : p.at <= size[index] /\ p.title = title[index]}]

(* The renderer is a process of its own, which a thread waits for: it is   *)
(* at work while its run waits, and may be when the worker has died.       *)
Renderers == {r \in Run : pc[r] = "render"} \cup orphans

(* It writes renders/video.mp4 itself, and may leave any stretch of it.    *)
Overwrite(r) ==
    /\ r \in Renderers
    /\ video' \in {NoFilm, Rendering}
    /\ UNCHANGED <<pc, planVars, rowVars, draftVars, voice, frames, index, leftVars, faults,
                   historyVars>>

EndOrphan(r) ==
    /\ r \in orphans
    /\ orphans' = orphans \ {r}
    /\ UNCHANGED <<pc, planVars, rowVars, draftVars, diskVars, strays, faults, historyVars>>

\* mutant: a failing render is only logged
RenderGoesOn(r) ==
    /\ pc[r] = "render"
    /\ video' \in {video, Rendering}
    /\ Goto(r, "record")
    /\ UNCHANGED <<planVars, rowVars, draftVars, voice, frames, index, leftVars, faults, historyVars>>

(* The renderer ended well: the film is whole.  upload.txt follows without *)
(* an await, the thumbnail (kept if there is one) may fail silently.       *)
Render(r) ==
    /\ pc[r] = "render"
    /\ video' = Rendering
    /\ Goto(r, "record")
    /\ UNCHANGED <<planVars, rowVars, draftVars, voice, frames, index, leftVars, faults, historyVars>>

RecordDraft(r) ==
    /\ pc[r] = "record"
    /\ drafted' = drafted \cup {r} /\ newest' = r
    /\ touched' = {}
    /\ Goto(r, IF r \in Tracked THEN "finish" ELSE "over")
    /\ Forget(r)
    /\ UNCHANGED <<rowVars, diskVars, leftVars, faults, troubled, cut, mixed>>

(* The insert raises, committed or not.                                    *)
RecordFails(r) ==
    /\ pc[r] = "record"
    /\ Fault
    /\ \/ UNCHANGED <<draftVars, touched>>
       \/ drafted' = drafted \cup {r} /\ newest' = r /\ touched' = {}
    /\ cut' = cut \cup {r}
    /\ Stop(r)
    /\ UNCHANGED <<rowVars, diskVars, leftVars, troubled, mixed>>

-----------------------------------------------------------------------------
(* The end of the background task.                                         *)

FinishJob(r) ==
    /\ pc[r] = "finish"
    /\ stage' = [stage EXCEPT ![r] = "done"]
    /\ Goto(r, "over")
    /\ UNCHANGED <<planVars, error, draftVars, diskVars, leftVars, faults, historyVars>>

(* finish_job raises, committed or not, and fail_job is called.            *)
FinishJobFails(r) ==
    /\ pc[r] = "finish"
    /\ Fault
    /\ stage' \in {stage, [stage EXCEPT ![r] = "done"]}
    /\ troubled' = troubled \cup {r}
    /\ Goto(r, "fail")
    /\ UNCHANGED <<planVars, error, draftVars, diskVars, leftVars, cut, mixed, touched>>

\* mutant: a run that returned None is forgotten
FailJobForgets(r) ==
    /\ pc[r] = "fail"
    /\ Goto(r, "over")
    /\ UNCHANGED <<planVars, rowVars, draftVars, diskVars, leftVars, faults, historyVars>>

\* mutant: a run that returned None is finished like any other
FailJobFinishes(r) ==
    /\ pc[r] = "fail"
    /\ stage' = [stage EXCEPT ![r] = "done"]
    /\ Goto(r, "over")
    /\ UNCHANGED <<planVars, error, draftVars, diskVars, leftVars, faults, historyVars>>

(* fail_job leaves the stage as it is.  Without a job the caller answers   *)
(* or logs.                                                                *)
FailJob(r) ==
    /\ pc[r] = "fail"
    /\ error' = IF r \in Tracked THEN error \cup {r} ELSE error
    /\ Goto(r, "over")
    /\ UNCHANGED <<planVars, stage, draftVars, diskVars, leftVars, faults, historyVars>>

FailJobFails(r) ==
    /\ pc[r] = "fail" /\ r \in Tracked
    /\ Fault
    /\ troubled' = troubled \cup {r}
    /\ Goto(r, "over")
    /\ UNCHANGED <<planVars, rowVars, draftVars, diskVars, leftVars, cut, mixed, touched>>

(* The worker dies: tasks are gone, rows and files stay, nobody resumes.   *)
(* A renderer may go on without it.                                        *)
Die ==
    /\ InFlight # {}
    /\ Fault
    /\ pc' = [r \in Run |-> IF r \in InFlight THEN "over" ELSE pc[r]]
    /\ todo' = [r \in Run |-> {}] /\ shooting' = [r \in Run |-> {}]
    /\ silenced' = [r \in Run |-> 0] /\ placeholders' = [r \in Run |-> 0]
    /\ strays' = [r \in Run |-> {}]
    /\ orphans' \in SUBSET Renderers
    /\ troubled' = troubled \cup InFlight
    /\ UNCHANGED <<size, title, rowVars, draftVars, diskVars, cut, mixed, touched>>

-----------------------------------------------------------------------------
RunStep(r) ==
    \/ Script(r) \/ Compile(r)
    \/ \E f \in 1..MaxFrames : Narrate(r, f) \/ NarrateFails(r, f) \/ BuildFrame(r, f)
    \/ WriteShot(r) \/ AcceptShot(r) \/ GiveUpShot(r) \/ FramesDone(r) \/ StageFails(r)
    \/ Render(r) \/ RecordDraft(r) \/ RecordFails(r)
    \/ FinishJob(r) \/ FinishJobFails(r) \/ FailJob(r) \/ FailJobFails(r)

Next ==
    \/ \E r \in Run : Start(r) \/ StartFails(r) \/ RunStep(r)
    \/ \E r \in Run : \E f \in strays[r] : Stray(r, f)
    \/ \E r \in Run : Overwrite(r) \/ EndOrphan(r)
    \/ Die

Spec == Init /\ [][Next]_vars

-----------------------------------------------------------------------------
Clip == [at : 1..MaxFrames, by : Run, spoken : BOOLEAN]
Page == [at : 1..MaxFrames, title : Title, by : Run, kind : Kind]

(* Every variable stays in its type, and there is one file to a name.      *)
TypeOK ==
    /\ pc \in [Run -> {"idle", "script", "narrate", "shoot", "render", "record", "finish",
                       "fail", "over"}]
    /\ size \in [Run -> 0..MaxFrames] /\ title \in [Run -> Title]
    /\ todo \in [Run -> SUBSET (1..MaxFrames)]
    /\ shooting \in [Run -> SUBSET (1..MaxFrames)]
    /\ silenced \in [Run -> 0..MaxFrames] /\ placeholders \in [Run -> 0..MaxFrames]
    /\ stage \in [Run -> Stages] /\ error \subseteq Tracked
    /\ drafted \subseteq Run /\ newest \in drafted \cup {Nobody}
    /\ voice \subseteq Clip /\ \A c, d \in voice : c.at = d.at => c = d
    /\ frames \subseteq Page
    /\ \A p, q \in frames : p.at = q.at /\ p.title = q.title => p = q
    /\ index \in Run \cup {Nobody}
    /\ video.of \in Run \cup {Nobody} /\ video.voices \subseteq Clip /\ video.pictures \subseteq Page
    /\ strays \in [Run -> SUBSET (1..MaxFrames)] /\ orphans \subseteq Run
    /\ faults \in 0..MaxFaults
    /\ troubled \subseteq Run /\ cut \subseteq Run /\ mixed \subseteq Run /\ touched \subseteq Run

(* The film of a run that was alone in the story's directory is all its    *)
(* own: each clip and each frame is of that run, none is a rejected shot,  *)
(* every frame has its clip, enough frames are real and no more than the   *)
(* guard allows lost their narration, whatever earlier runs left behind    *)
(* and wherever they stopped.                                              *)
FilmIsItsRunsOwn ==
    video.of \in Run \ mixed =>
        /\ \A x \in video.voices \cup video.pictures : x.by = video.of
        /\ \A p \in video.pictures : p.kind # "rejected"
        /\ Cardinality(video.voices) = video.size
        /\ Cardinality({p \in video.pictures : p.kind = "real"}) >= MinVerified
        /\ 100 * Cardinality({c \in video.voices : ~c.spoken /\ c.at \notin Mute})
              <= MaxSilent * video.size

(* The one video file that every draft of the story names is the newest    *)
(* draft's own film, whole, until another run begins to render; from then  *)
(* on it is a film of those that did, or of runs that overlapped, or only  *)
(* a part.  A run that is refused, fails or dies before its render costs   *)
(* no draft its film, and no draft is recorded over half a film - unless   *)
(* the draft's own run overlapped with another.                            *)
DraftKeepsItsFilm ==
    newest \notin mixed =>
        \/ video.of = newest
        \/ touched # {} /\ video.of \in touched \cup mixed \cup {Nobody}

(* When a tracked run is over its row says what became of it: "done" if    *)
(* and only if there is a draft, else an error - unless the process died   *)
(* or the row could not be written at the end.                             *)
RowTellsTheOutcome ==
    \A r \in Tracked \ troubled :
        pc[r] = "over" => /\ stage[r] = "done" <=> r \notin error
                          /\ stage[r] = "done" => r \in drafted
                          /\ r \in drafted \ cut => stage[r] = "done"
=============================================================================
