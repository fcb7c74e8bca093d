----------------------------- MODULE FilmTimeline -----------------------------
(***************************************************************************)
(* The first half of generate_youtube_video (worker/app/youtube.py): the   *)
(* script is asked for, parsed, spoken frame by frame and compiled into a  *)
(* timeline by Storyboard.  One film; how several share a directory is the *)
(* matter of GenerationRun.                                                *)
(*                                                                         *)
(* The voice service takes TtsLimit requests at a time from this worker    *)
(* and turns away what exceeds it; a run's gate bounds only its own.       *)
(***************************************************************************)
EXTENDS Storyboard

CONSTANTS
    SpokenLength,   \* lengths of spoken clips, in ticks
    TtsLimit,       \* requests the service takes in parallel
    TtsGate,        \* TTS_MAX_CONCURRENCY
    MaxOthers,      \* bound on the requests of other films at one time
    MaxSilent       \* MAX_SILENT_RATIO, in percent

(* A request that brings no sound fails: a clip of nothing is not there.   *)
ASSUME FilmAssumption ==
    /\ SpokenLength \subseteq Nat \ {0}
    /\ {TtsLimit, TtsGate, MaxOthers, MaxSilent} \subseteq Nat
    /\ TtsGate \in 1..TtsLimit

ScriptMaxAttempts == 4
TtsMaxAttempts == 4

VARIABLES
    calls,      \* calls made to the model for the script
    task,       \* of each frame's narration
    tries,      \* its attempts that are over
    spoken,     \* frames whose clip is speech
    silenced,   \* the slugs returned by _generate_frame_audio
    others,     \* requests of other films in progress
    refused,    \* history: frames the service refused for good
    crowded     \* history: another film has been speaking meanwhile

taskVars == <<task, tries, spoken, silenced>>
serviceVars == <<others, crowded>>
filmVars == <<calls, taskVars, serviceVars, refused>>
vars == <<boardVars, filmVars>>

Init ==
    /\ phase = "script"
    /\ BoardInit
    /\ calls = 0
    /\ task = [f \in Position |-> "asks"]
    /\ tries = [f \in Position |-> 0]
    /\ spoken = {} /\ silenced = {}
    /\ others = 0 /\ crowded = FALSE
    /\ refused = {}

Frames == DOMAIN board

-----------------------------------------------------------------------------
(* The script, from either provider.                                       *)

(* 429, 5xx or overloaded: waits and asks again, if there is an attempt    *)
(* left.                                                                   *)
CallOverloaded ==
    /\ phase = "script"
    /\ calls' = calls + 1
    /\ phase' = IF calls + 1 = ScriptMaxAttempts THEN "over" ELSE phase
    /\ UNCHANGED <<parseVars, clip, timingVars, taskVars, serviceVars, refused>>

(* Any other error of the model, no story to write about, a script without *)
(* a title or a description; or anything raises before index.html is       *)
(* written (no ffmpeg, no ffprobe, no disk).                               *)
Abort ==
    /\ phase \in {"script", "parse", "narrate", "measure", "place"}
    /\ phase' = "over"
    /\ UNCHANGED <<parseVars, clip, timingVars, filmVars>>

CallAnswered ==
    /\ phase = "script"
    /\ calls' = calls + 1
    /\ phase' = "parse"
    /\ UNCHANGED <<parseVars, clip, timingVars, taskVars, serviceVars, refused>>

Parse ==
    /\ \/ \E line \in Line :
             ReadHeading(line) \/ ReadDirection(line) \/ ReadOutside(line) \/ ReadField(line)
       \/ EndOfText("narrate")
    /\ UNCHANGED filmVars

-----------------------------------------------------------------------------
(* _generate_frame_audio: one task per frame.                              *)

Speaking == {f \in Frames : task[f] = "speaks"}

Becomes(f, state) == task' = [task EXCEPT ![f] = state]

WriteClip(f, ticks) == clip' = [clip EXCEPT ![f] = ticks]

(* Up to mp3 padding.                                                      *)
SilenceTicks == 40000
MuteTicks == 20000

(* Nothing to say: two seconds of silence, which nobody counts.            *)
Mute(f) ==
    /\ phase = "narrate" /\ task[f] = "asks" /\ board[f].voiceover = 0
    /\ Becomes(f, "done")
    /\ WriteClip(f, MuteTicks)
    /\ UNCHANGED <<phase, parseVars, timingVars, calls, tries, spoken, silenced, serviceVars,
                   refused>>

\* mutant: the gate is not waited for
SpeakUngated(f) ==
    /\ phase = "narrate" /\ task[f] = "asks" /\ board[f].voiceover # 0
    /\ Becomes(f, "speaks")
    /\ UNCHANGED <<boardVars, calls, tries, spoken, silenced, serviceVars, refused>>

(* async with gate.                                                        *)
Speak(f) ==
    /\ phase = "narrate" /\ task[f] = "asks" /\ board[f].voiceover # 0
    /\ Cardinality(Speaking) < TtsGate
    /\ Becomes(f, "speaks")
    /\ UNCHANGED <<boardVars, calls, tries, spoken, silenced, serviceVars, refused>>

Spoken(f) ==
    /\ phase = "narrate" /\ task[f] = "speaks"
    /\ Becomes(f, "done")
    /\ \E ticks \in SpokenLength : WriteClip(f, ticks)
    /\ spoken' = spoken \cup {f}
    /\ UNCHANGED <<phase, parseVars, timingVars, calls, tries, silenced, serviceVars, refused>>

(* Four seconds of silence in the place of the line.                       *)
Silence(f) ==
    /\ Becomes(f, "done")
    /\ WriteClip(f, SilenceTicks)
    /\ silenced' = silenced \cup {f}

(* 429: the service has more requests than it takes.  The pause is spent   *)
(* outside the gate.                                                       *)
TurnedAway(f) ==
    /\ phase = "narrate" /\ task[f] = "speaks"
    /\ Cardinality(Speaking) + others > TtsLimit
    /\ tries' = [tries EXCEPT ![f] = @ + 1]
    /\ IF tries[f] + 1 = TtsMaxAttempts
       THEN Silence(f)
       ELSE Becomes(f, "pauses") /\ UNCHANGED <<clip, silenced>>
    /\ UNCHANGED <<phase, parseVars, timingVars, calls, spoken, serviceVars, refused>>

PauseOver(f) ==
    /\ phase = "narrate" /\ task[f] = "pauses"
    /\ Becomes(f, "asks")
    /\ UNCHANGED <<boardVars, calls, tries, spoken, silenced, serviceVars, refused>>

\* mutant: the frame gets its silence, but is not counted
RefusedUncounted(f) ==
    /\ phase = "narrate" /\ task[f] = "speaks"
    /\ Becomes(f, "done") /\ WriteClip(f, SilenceTicks)
    /\ refused' = refused \cup {f}
    /\ UNCHANGED <<phase, parseVars, timingVars, calls, tries, spoken, silenced, serviceVars>>

\* mutant: whatever the service says, the line is tried again
RefusedIsRetried(f) ==
    /\ phase = "narrate" /\ task[f] = "speaks"
    /\ Becomes(f, "pauses")
    /\ refused' = refused \cup {f}
    /\ UNCHANGED <<boardVars, calls, tries, spoken, silenced, serviceVars>>

(* Any other error: no voice of that name, no connection.                  *)
Refused(f) ==
    /\ phase = "narrate" /\ task[f] = "speaks"
    /\ Silence(f)
    /\ refused' = refused \cup {f}
    /\ UNCHANGED <<phase, parseVars, timingVars, calls, tries, spoken, serviceVars>>

(* Another film of this worker speaks: it has a gate of its own.           *)
Other ==
    /\ phase = "narrate" /\ MaxOthers > 0
    /\ \E n \in 0..MaxOthers : n # others /\ others' = n
    /\ crowded' = TRUE
    /\ UNCHANGED <<boardVars, calls, taskVars, refused>>

(* The guard on silence.                                                   *)
Narrated ==
    /\ phase = "narrate" /\ \A f \in Frames : task[f] = "done"
    /\ phase' = IF 100 * Cardinality(silenced) > MaxSilent * Len(board) THEN "over" ELSE "measure"
    /\ UNCHANGED <<parseVars, clip, timingVars, filmVars>>

Compile == (Measure \/ AllMeasured \/ Place \/ Emit) /\ UNCHANGED filmVars

-----------------------------------------------------------------------------
TaskStep(f) ==
    Mute(f) \/ Speak(f) \/ Spoken(f) \/ TurnedAway(f) \/ PauseOver(f) \/ Refused(f)

Next ==
    \/ CallOverloaded \/ CallAnswered \/ Abort
    \/ Parse
    \/ \E f \in Frames : TaskStep(f)
    \/ Other
    \/ Narrated
    \/ Compile

Spec == Init /\ [][Next]_vars

(* Requests return or fail, pauses end and the loop of the worker goes on. *)
FairSpec ==
    /\ Spec
    /\ WF_vars(CallOverloaded \/ CallAnswered) /\ WF_vars(EndOfText("narrate") /\ UNCHANGED filmVars)
    /\ \A f \in Position : WF_vars(f \in Frames /\ TaskStep(f))
    /\ WF_vars(Narrated) /\ WF_vars(Compile)

-----------------------------------------------------------------------------
(* Every variable stays in its type, and a clip is there once its task is  *)
(* done.                                                                   *)
TypeOK ==
    /\ BoardTypeOK
    /\ phase \in {"script", "parse", "narrate", "measure", "place", "compiled", "over"}
    /\ calls \in 0..ScriptMaxAttempts
    /\ task \in [Position -> {"asks", "speaks", "pauses", "done"}]
    /\ tries \in [Position -> 0..TtsMaxAttempts]
    /\ spoken \subseteq Position /\ silenced \subseteq Position \ spoken
    /\ others \in 0..MaxOthers /\ crowded \in BOOLEAN /\ refused \subseteq Position

(* A film that is compiled has a clip for every frame, and of the lines it *)
(* had to speak no more than MAX_SILENT_RATIO of its frames are silent:    *)
(* every silent line was counted.                                          *)
EnoughIsSpoken ==
    phase \in {"measure", "place", "compiled"} =>
        LET lines == {f \in Frames : board[f].voiceover # 0}
        IN  /\ \A f \in Frames : clip[f] # 0
            /\ 100 * Cardinality(lines \ spoken) <= MaxSilent * Len(board)

(* Alone, a film never loses a line to its own haste: the gate keeps its   *)
(* requests within what the service takes, retries included, so that a     *)
(* silenced line is one the service refused for good.                      *)
NoLineLostToHaste == silenced \subseteq refused \/ crowded

(* A film gets through: its script is asked for a bounded number of times, *)
(* no frame waits at the gate for ever, and the timeline is complete or    *)
(* the run is over.                                                        *)
EveryFilmIsTimed == phase = "script" ~> phase \in {"compiled", "over"}
=============================================================================
