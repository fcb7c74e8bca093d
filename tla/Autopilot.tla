------------------------------ MODULE Autopilot ------------------------------
(***************************************************************************)
(* The autopilot (worker/app/ideation.py): once a day the newest stories of*)
(* the inbox are taken in turn and a film is made of each, by generate_    *)
(* youtube_video with the frames of FrameBackends.                         *)
(*                                                                         *)
(* What comes before and after the frames is one step each here: they are  *)
(* the matter of FilmTimeline and GenerationRun.                           *)
(***************************************************************************)
EXTENDS FrameBackends

CONSTANTS
    Story, NoStory,
    MaxDrafts,       \* AUTOPILOT_MAX_DRAFTS_PER_RUN
    Backend,         \* values of FRAME_BACKEND
    MinScript,       \* MIN_SCRIPT_FRAMES
    MinVerified,     \* MIN_VERIFIED_FRAMES
    MaxPlaceholder,  \* MAX_PLACEHOLDER_RATIO, in percent
    MaxFirings       \* bound on the firings of the job

ASSUME AutopilotAssumption ==
    /\ NoStory \notin Story
    /\ {MaxDrafts, MinVerified, MaxPlaceholder, MaxFirings} \subseteq Nat
    /\ MinScript \in Nat \ {0}

VARIABLES
    job,        \* where autopilot_job is
    inbox,      \* stories with status 'inbox', newest first
    hasChannel, \* stories with a channel_id
    picked,     \* stories of this firing still to look at, as they were read
    story,      \* the one a film is being made of
    backend,    \* FRAME_BACKEND of this process
    drafted,
    firings,
    wanted,     \* history: the picks of this firing that had a channel
    tried,      \* history: the stories generate_youtube_video was called for
    died        \* history: the worker died during this firing

storyVars == <<inbox, hasChannel>>
jobVars == <<job, picked, story>>
pastVars == <<drafted, firings, wanted, tried, died>>
vars == <<frameVars, storyVars, jobVars, backend, pastVars>>

Init ==
    /\ FramesInit
    /\ job = "idle" /\ inbox = <<>> /\ hasChannel = {}
    /\ picked = <<>> /\ story = NoStory
    /\ backend \in Backend
    /\ drafted = {} /\ firings = 0 /\ wanted = {} /\ tried = {} /\ died = FALSE

-----------------------------------------------------------------------------
(* Clustering opens a story without a channel, the GUI opens one with a    *)
(* channel; nothing takes a story out of the inbox.                        *)
NewStory(s) ==
    /\ \A n \in DOMAIN inbox : inbox[n] # s
    /\ inbox' = <<s>> \o inbox
    /\ hasChannel' \in {hasChannel, hasChannel \cup {s}}
    /\ UNCHANGED <<frameVars, jobVars, backend, pastVars>>

(* An operator gives a story its channel, by hand.                         *)
AssignChannel(s) ==
    /\ \E n \in DOMAIN inbox : inbox[n] = s
    /\ hasChannel' = hasChannel \cup {s}
    /\ UNCHANGED <<frameVars, inbox, jobVars, backend, pastVars>>

(* get_pending_stories, cut to the newest.                                 *)
Fire ==
    /\ job = "idle" /\ firings < MaxFirings
    /\ firings' = firings + 1
    /\ LET top == SubSeq(inbox, 1, IF Len(inbox) < MaxDrafts THEN Len(inbox) ELSE MaxDrafts)
       IN  /\ picked' = [n \in DOMAIN top |-> [story |-> top[n], channel |-> top[n] \in hasChannel]]
           /\ wanted' = {top[n] : n \in DOMAIN top} \cap hasChannel
    /\ tried' = {} /\ died' = FALSE
    /\ job' = "loop"
    /\ UNCHANGED <<frameVars, storyVars, story, backend, drafted>>

(* "Guessing one produces a toddler script in the finance voice": without  *)
(* a channel a story is skipped, and its place in the picks is used up.    *)
Skip ==
    /\ job = "loop" /\ picked # <<>> /\ ~Head(picked).channel
    /\ picked' = Tail(picked)
    /\ UNCHANGED <<frameVars, storyVars, job, story, backend, pastVars>>

Generate ==
    /\ job = "loop" /\ picked # <<>> /\ Head(picked).channel
    /\ story' = Head(picked).story
    /\ picked' = Tail(picked)
    /\ tried' = tried \cup {story'}
    /\ job' = "script"
    /\ UNCHANGED <<frameVars, storyVars, backend, drafted, firings, wanted, died>>

(* The call is over, with a draft, with None or with an exception of any   *)
(* kind: the job goes on.                                                  *)
NextStory == job' = "loop" /\ story' = NoStory /\ LeaveFrames

(* A broken channel, no script, too short a script, too much silence.      *)
FailsEarly ==
    /\ job = "script"
    /\ NextStory
    /\ UNCHANGED <<storyVars, picked, backend, pastVars>>

Compiled ==
    /\ job = "script"
    /\ \E n \in MinScript..MaxFrames : BeginFrames(n, backend)
    /\ job' = "frames"
    /\ UNCHANGED <<storyVars, picked, story, backend, pastVars>>

BuildStep ==
    /\ job = "frames"
    /\ FramesStep
    /\ UNCHANGED <<storyVars, jobVars, backend, pastVars>>

\* mutant: an exception of a generation ends the job
GenerationEndsTheJob ==
    /\ job = "frames" /\ build = "raised"
    /\ job' = "idle" /\ story' = NoStory /\ LeaveFrames
    /\ UNCHANGED <<storyVars, picked, backend, pastVars>>

GenerationRaises ==
    /\ job = "frames" /\ build = "raised"
    /\ NextStory
    /\ UNCHANGED <<storyVars, picked, backend, pastVars>>

(* The guards on placeholders and verified frames, then the render, which  *)
(* may fail too, and the draft.                                            *)
Verified == Len(page) - Cardinality(failed)
Publishable ==
    100 * Cardinality(failed) <= MaxPlaceholder * Len(page) /\ Verified >= MinVerified

FramesReturned ==
    /\ job = "frames" /\ build = "returned"
    /\ \/ Publishable /\ drafted' = drafted \cup {story}
       \/ UNCHANGED drafted
    /\ NextStory
    /\ UNCHANGED <<storyVars, picked, backend, firings, wanted, tried, died>>

JobDone ==
    /\ job = "loop" /\ picked = <<>>
    /\ job' = "idle"
    /\ UNCHANGED <<frameVars, storyVars, picked, story, backend, pastVars>>

(* A restart: the rest of the firing is lost.                              *)
Die ==
    /\ job # "idle"
    /\ job' = "idle" /\ picked' = <<>> /\ story' = NoStory
    /\ died' = TRUE
    /\ LeaveFrames
    /\ UNCHANGED <<storyVars, backend, drafted, firings, wanted, tried>>

-----------------------------------------------------------------------------
JobStep ==
    \/ Skip \/ Generate \/ FailsEarly \/ Compiled \/ BuildStep
    \/ GenerationRaises \/ FramesReturned \/ JobDone

Next ==
    \/ \E s \in Story : NewStory(s) \/ AssignChannel(s)
    \/ Fire \/ JobStep \/ Die

Spec == Init /\ [][Next]_vars

(* The event loop runs the job; calls of models return or raise.           *)
FairSpec == Spec /\ WF_vars(JobStep)

-----------------------------------------------------------------------------
(* Every variable stays in its type.                                       *)
TypeOK ==
    /\ FramesTypeOK
    /\ job \in {"idle", "loop", "script", "frames"}
    /\ inbox \in Seq(Story) /\ hasChannel \subseteq Story
    /\ picked \in Seq([story : Story, channel : BOOLEAN]) /\ Len(picked) <= MaxDrafts
    /\ story \in Story \cup {NoStory} /\ backend \in Backend
    /\ drafted \subseteq Story /\ firings \in 0..MaxFirings
    /\ wanted \subseteq Story /\ tried \subseteq Story /\ died \in BOOLEAN

(* A firing calls for a film of each story it picked that had a channel    *)
(* and of no other, whatever became of the ones before it (autopilot_job). *)
EveryPickIsTried ==
    /\ tried \subseteq wanted /\ drafted \subseteq hasChannel
    /\ job = "idle" /\ ~died => tried = wanted

(* What a backend returns are exactly the frames that are not real, each   *)
(* frame is settled once, and no rejected shot is left in its place:       *)
(* _build_frames keeps the promise of FrameBuilding.                       *)
ImplementsFrameBuilding == Building!Spec

(* A firing comes to an end, whatever the models answer.                   *)
EveryFiringEnds == job = "loop" ~> job = "idle"

(* "A frame always gets a shape, so callers can render unconditionally":   *)
(* the local backend never raises.                                         *)
FrameAlwaysShaped == backend = "local" /\ job = "frames" => build # "raised"
=============================================================================
