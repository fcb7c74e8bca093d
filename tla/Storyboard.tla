------------------------------ MODULE Storyboard ------------------------------
(***************************************************************************)
(* The storyboard compiler (worker/app/storyboard.py): STORYBOARD.md is    *)
(* read line by line into frames, then each frame is measured by its clip  *)
(* and laid on the timeline after the one before.                          *)
(*                                                                         *)
(* A line is what the parser tells apart; a value is the number of the     *)
(* line it was written on, and a duration is in ticks of 0.1 ms.  Heading  *)
(* numbers do not matter: frames are renumbered by position, which also    *)
(* names their files.                                                      *)
(***************************************************************************)
EXTENDS Integers, FiniteSets, Sequences

CONSTANTS
    None,
    MaxLines,     \* bound on the lines of a script
    Declared,     \* durations a script may declare, in ticks (0: "0s")
    PacingName,   \* values of "pacing:" in the frontmatter, known or not
    MinScript     \* MIN_SCRIPT_FRAMES

ASSUME BoardAssumption ==
    /\ MaxLines \in Nat /\ MinScript \in Nat
    /\ Declared \subseteq Nat /\ None \notin Nat

VARIABLES
    phase,
    text,      \* history: the lines read so far
    current,   \* the number of the frame being filled, or 0
    inDirection,
    direction, \* lines of the video's direction
    board,     \* the frames
    pacing,    \* as the frontmatter has it
    clip,      \* length of the file assets/voice/NN.mp3, 0 if there is none
    audio,     \* audio_duration; 0 stands for None too, the code treats both alike
    start, length, offset,
    at,        \* frames that attach_audio, then assign_timing, is through with
    cursor,
    index,     \* index.html: a scene and a voice for each frame
    total      \* its length

parseVars == <<text, current, inDirection, direction, board, pacing>>
timingVars == <<audio, start, length, offset, at, cursor, index, total>>
boardVars == <<phase, parseVars, clip, timingVars>>

Position == 1..MaxLines

BoardInit ==
    /\ text = <<>> /\ current = 0 /\ inDirection = FALSE /\ direction = {}
    /\ board = <<>>
    /\ pacing \in PacingName
    /\ clip = [f \in Position |-> 0]
    /\ audio = [f \in Position |-> 0]
    /\ start = [f \in Position |-> 0]
    /\ length = [f \in Position |-> 0]
    /\ offset = [f \in Position |-> 0]
    /\ at = 0 /\ cursor = 0
    /\ index = <<>> /\ total = 0

-----------------------------------------------------------------------------
(* parse_storyboard.                                                       *)

Line ==
    [kind : {"heading", "direction", "shot", "voiceover", "scene", "vague", "prose"}, ticks : {0}]
        \cup [kind : {"duration"}, ticks : Declared]

Blank == [voiceover |-> 0, scene |-> 0, shots |-> {}, declared |-> None]

\* mutant: a field that is already set is written over
FilledByTheLast(frame, line, number) ==
    CASE line.kind = "shot" -> [frame EXCEPT !.shots = @ \cup {number}]
      [] line.kind = "voiceover" -> [frame EXCEPT !.voiceover = number]
      [] line.kind = "scene" -> [frame EXCEPT !.scene = number]
      [] line.kind = "duration" -> [frame EXCEPT !.declared = line.ticks]
      [] OTHER -> frame

(* The first value of a field stays.  A "duration:" without a number leaves*)
(* the field empty, "0s" does not.                                         *)
Filled(frame, line, number) ==
    CASE line.kind = "shot" -> [frame EXCEPT !.shots = @ \cup {number}]
      [] line.kind = "voiceover" /\ frame.voiceover = 0 -> [frame EXCEPT !.voiceover = number]
      [] line.kind = "scene" /\ frame.scene = 0 -> [frame EXCEPT !.scene = number]
      [] line.kind = "duration" /\ frame.declared = None -> [frame EXCEPT !.declared = line.ticks]
      [] OTHER -> frame

Read(line) ==
    /\ phase = "parse" /\ Len(text) < MaxLines
    /\ text' = Append(text, line)
    /\ UNCHANGED <<phase, pacing, clip, timingVars>>

ReadHeading(line) ==
    /\ line.kind = "heading" /\ Read(line)
    /\ board' = Append(board, Blank)
    /\ current' = Len(board) + 1
    /\ inDirection' = FALSE
    /\ UNCHANGED direction

ReadDirection(line) ==
    /\ line.kind = "direction" /\ Read(line)
    /\ inDirection' = TRUE
    /\ current' = 0
    /\ UNCHANGED <<direction, board>>

ReadOutside(line) ==
    /\ line.kind \notin {"heading", "direction"} /\ current = 0 /\ Read(line)
    /\ direction' = IF inDirection THEN direction \cup {Len(text) + 1} ELSE direction
    /\ UNCHANGED <<current, inDirection, board>>

ReadField(line) ==
    /\ line.kind \notin {"heading", "direction"} /\ current # 0 /\ Read(line)
    /\ board' = [board EXCEPT ![current] = Filled(@, line, Len(text) + 1)]
    /\ UNCHANGED <<current, inDirection, direction>>

(* The text is at its end and its locals are gone; too short a script is   *)
(* refused.                                                                *)
EndOfText(next) ==
    /\ phase = "parse"
    /\ phase' = IF Len(board) < MinScript THEN "over" ELSE next
    /\ text' = <<>> /\ current' = 0 /\ inDirection' = FALSE
    /\ UNCHANGED <<direction, board, pacing, clip, timingVars>>

-----------------------------------------------------------------------------
(* Timing.                                                                 *)

PacingProfiles ==
    [explainer |-> [floor |-> 30000, lead |-> 2500, tail |-> 5000],
     news      |-> [floor |-> 20000, lead |-> 1500, tail |-> 3000],
     story     |-> [floor |-> 40000, lead |-> 4000, tail |-> 8000]]
DefaultPacing == "explainer"
FallbackFrameDuration == 40000

ResolvedPacing ==
    PacingProfiles[IF pacing \in DOMAIN PacingProfiles THEN pacing ELSE DefaultPacing]

AtLeast(a, b) == IF a < b THEN b ELSE a

\* mutant: the pause before the voice is forgotten
FrameDurationWithoutLead(f) ==
    AtLeast(IF audio[f] # 0 THEN audio[f] + ResolvedPacing.tail
            ELSE IF board[f].declared \in {None, 0} THEN FallbackFrameDuration
            ELSE board[f].declared,
            ResolvedPacing.floor)

(* resolve_frame_duration; exceeding the soft ceiling is only logged.      *)
FrameDuration(f) ==
    AtLeast(IF audio[f] # 0 THEN audio[f] + ResolvedPacing.lead + ResolvedPacing.tail
            ELSE IF board[f].declared \in {None, 0} THEN FallbackFrameDuration
            ELSE board[f].declared,
            ResolvedPacing.floor)

(* round(x, 3), whichever way a tie goes in floating point.                *)
Rounded(ticks) ==
    LET below == 10 * (ticks \div 10)
    IN  {r \in {below, below + 10} : r - ticks \in -5..5}

(* attach_audio, frame by frame: the probe may fail.                       *)
Measure ==
    /\ phase = "measure" /\ at < Len(board)
    /\ at' = at + 1
    /\ \E measured \in {0, clip[at + 1]} : audio' = [audio EXCEPT ![at + 1] = measured]
    /\ UNCHANGED <<phase, parseVars, clip, start, length, offset, cursor, index, total>>

AllMeasured ==
    /\ phase = "measure" /\ at = Len(board)
    /\ phase' = "place" /\ at' = 0
    /\ UNCHANGED <<parseVars, clip, audio, start, length, offset, cursor, index, total>>

\* mutant: the cursor moves by what was spoken, not by what is shown
PlaceByTheVoice ==
    /\ phase = "place" /\ at < Len(board)
    /\ at' = at + 1
    /\ \E shown \in Rounded(FrameDuration(at + 1)) :
          /\ length' = [length EXCEPT ![at + 1] = shown]
          /\ cursor' = cursor + audio[at + 1] + ResolvedPacing.lead + ResolvedPacing.tail
    /\ start' = [start EXCEPT ![at + 1] = cursor]
    /\ offset' = [offset EXCEPT ![at + 1] = IF audio[at + 1] # 0 THEN ResolvedPacing.lead ELSE 0]
    /\ UNCHANGED <<phase, parseVars, clip, audio, index, total>>

(* assign_timing, frame by frame.  The cursor adds up rounded durations,   *)
(* so rounding it again changes nothing.                                   *)
Place ==
    /\ phase = "place" /\ at < Len(board)
    /\ at' = at + 1
    /\ \E shown \in Rounded(FrameDuration(at + 1)) :
          /\ length' = [length EXCEPT ![at + 1] = shown]
          /\ cursor' = cursor + shown
    /\ start' = [start EXCEPT ![at + 1] = cursor]
    /\ offset' = [offset EXCEPT ![at + 1] = IF audio[at + 1] # 0 THEN ResolvedPacing.lead ELSE 0]
    /\ UNCHANGED <<phase, parseVars, clip, audio, index, total>>

(* voice_duration: an unmeasured voice is given its frame's length.        *)
VoiceDuration(f) == IF audio[f] # 0 THEN audio[f] ELSE length[f]

Element(f, heard) ==
    [start |-> start[f], length |-> length[f],
     voiceStart |-> start[f] + offset[f], voiceLength |-> heard]

(* render_index_html.  What it adds up is in whole milliseconds, so only a *)
(* voice's length is changed by rounding.                                  *)
Emit ==
    /\ phase = "place" /\ at = Len(board)
    /\ phase' = "compiled"
    /\ \E heard \in [1..at -> UNION {Rounded(VoiceDuration(f)) : f \in 1..at}] :
          /\ \A f \in 1..at : heard[f] \in Rounded(VoiceDuration(f))
          /\ index' = [f \in 1..at |-> Element(f, heard[f])]
    /\ total' = IF at = 0 THEN 0 ELSE start[at] + length[at]
    /\ UNCHANGED <<parseVars, clip, audio, start, length, offset, at, cursor>>

-----------------------------------------------------------------------------
Placed == IF phase \in {"place", "compiled"} THEN 1..at ELSE {}

BoardTypeOK ==
    /\ text \in Seq(Line) /\ Len(text) <= MaxLines
    /\ current \in 0..Len(board) /\ inDirection \in BOOLEAN
    /\ direction \subseteq Position
    /\ board \in Seq([voiceover : 0..MaxLines, scene : 0..MaxLines, shots : SUBSET Position,
                      declared : Declared \cup {None}])
    /\ Len(board) <= MaxLines
    /\ pacing \in PacingName
    /\ {clip, audio, start, length, offset} \subseteq [Position -> Nat]
    /\ at \in 0..Len(board) /\ cursor \in Nat
    /\ index \in Seq([start : Nat, length : Nat, voiceStart : Nat, voiceLength : Nat])
    /\ total \in Nat

(* What a frame should be, read off the whole text: its heading's block    *)
(* runs to the next heading or direction, and the first line of a kind     *)
(* counts.                                                                 *)
LinesOf(kinds) == {n \in 1..Len(text) : text[n].kind \in kinds}
Opener(n) ==
    LET before == {m \in LinesOf({"heading", "direction"}) : m < n}
    IN  IF before = {} THEN 0 ELSE CHOOSE m \in before : \A k \in before : k <= m
Block(h) == {n \in 1..Len(text) \ LinesOf({"heading", "direction"}) : Opener(n) = h}
FirstOf(lines) == IF lines = {} THEN 0 ELSE CHOOSE n \in lines : \A m \in lines : n <= m
Described(h) ==
    LET of(kind) == Block(h) \cap LinesOf({kind})
    IN  [voiceover |-> FirstOf(of("voiceover")), scene |-> FirstOf(of("scene")),
         shots |-> of("shot"),
         declared |-> IF of("duration") = {} THEN None ELSE text[FirstOf(of("duration"))].ticks]

(* At every line the frames are the headings so far in their order, each   *)
(* with the first voiceover, scene and duration and all the shots of its   *)
(* own block and of no other, and the direction is what was written under  *)
(* a direction heading (parse_storyboard).                                 *)
ParsedAsWritten ==
    phase = "parse" =>
        /\ Len(board) = Cardinality(LinesOf({"heading"}))
        /\ \A h \in LinesOf({"heading"}) :
              board[Cardinality({g \in LinesOf({"heading"}) : g <= h})] = Described(h)
        /\ direction = UNION {Block(h) : h \in LinesOf({"direction"})}

(* Frames follow each other without a gap or an overlap, none is too short *)
(* to be read, and the film is as long as they are (assign_timing).        *)
TimelineIsSeamless ==
    /\ \A f \in Placed :
          /\ f = 1 => start[f] = 0
          /\ f > 1 => start[f] = start[f - 1] + length[f - 1]
          /\ f = at => cursor = start[f] + length[f]
          /\ length[f] >= ResolvedPacing.floor
    /\ phase = "compiled" => total = cursor

(* On the page a voice is heard to its end within its frame, after the     *)
(* lead-in and with the pause after it but for the rounding of a           *)
(* millisecond, so that no two voices are ever heard at once.              *)
VoicesFitTheirFrames ==
    phase = "compiled" =>
        /\ Len(index) = Len(board)
        /\ \A f \in DOMAIN index :
              LET e == index[f]
                  pause == IF audio[f] # 0 THEN ResolvedPacing.tail - 10 ELSE 0
              IN  /\ audio[f] # 0 => e.voiceStart = e.start + ResolvedPacing.lead
                  /\ e.voiceStart + e.voiceLength + pause <= e.start + e.length
                  /\ f > 1 => index[f - 1].start + index[f - 1].length <= e.voiceStart
=============================================================================
