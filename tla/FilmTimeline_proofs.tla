------------------------- MODULE FilmTimeline_proofs -------------------------
(***************************************************************************)
(* What TLAPS proves of the storyboard compiler, for any script, any       *)
(* declared durations, any lengths of spoken clips and any pacing:         *)
(*   - Seamless, VoicesFit: frames follow each other without a gap and     *)
(*     every voice fits its frame;                                         *)
(*   - NothingLostToHaste, FilmsSpeak: no line is lost to the film's own   *)
(*     haste, and a compiled film speaks as many as the guard demands;     *)
(*   - ReadAsWritten: the parse is what the text says, at every line.      *)
(*                                                                         *)
(* The first two rest on what the code computed for each frame that is     *)
(* placed (TimelineInv): its length is a whole number of milliseconds, and *)
(* what rounding took from it is at most half of one.  The next two count  *)
(* who is at the gate and which lines were given up (NarrationInv).  The   *)
(* last needs to know what the parser remembers of the text behind it: its *)
(* last heading (ReadingInv).                                              *)
(***************************************************************************)
EXTENDS FilmTimeline, SequenceTheorems, FiniteSetTheorems, WellFoundedInduction, TLAPS

Frame == [voiceover : Nat, scene : Nat, shots : SUBSET Nat, declared : Declared \cup {None}]

-----------------------------------------------------------------------------
(* Operators.                                                              *)

(* Whatever the frontmatter says, the profile used is one of the three.    *)
LEMMA PacingType ==
    /\ ResolvedPacing.lead \in Nat /\ ResolvedPacing.tail \in Nat
    /\ ResolvedPacing.tail >= 10
    /\ \E q \in Nat : ResolvedPacing.floor = 10 * q
    /\ ResolvedPacing.floor \in Nat
<1>1. DOMAIN PacingProfiles = {"explainer", "news", "story"}
  BY DEF PacingProfiles
<1>2. \E name \in {"explainer", "news", "story"} : ResolvedPacing = PacingProfiles[name]
  BY <1>1 DEF ResolvedPacing, DefaultPacing
<1>3. CASE ResolvedPacing = PacingProfiles["explainer"]
  <2>1. ResolvedPacing = [floor |-> 30000, lead |-> 2500, tail |-> 5000]
    BY <1>3 DEF PacingProfiles
  <2>2. 30000 = 10 * 3000 /\ 3000 \in Nat
    OBVIOUS
  <2> QED
    BY <2>1, <2>2
<1>4. CASE ResolvedPacing = PacingProfiles["news"]
  <2>1. ResolvedPacing = [floor |-> 20000, lead |-> 1500, tail |-> 3000]
    BY <1>4 DEF PacingProfiles
  <2>2. 20000 = 10 * 2000 /\ 2000 \in Nat
    OBVIOUS
  <2> QED
    BY <2>1, <2>2
<1>5. CASE ResolvedPacing = PacingProfiles["story"]
  <2>1. ResolvedPacing = [floor |-> 40000, lead |-> 4000, tail |-> 8000]
    BY <1>5 DEF PacingProfiles
  <2>2. 40000 = 10 * 4000 /\ 4000 \in Nat
    OBVIOUS
  <2> QED
    BY <2>1, <2>2
<1> QED
  BY <1>2, <1>3, <1>4, <1>5

(* Rounding gives a whole number of milliseconds within half of one.       *)
LEMMA RoundedType ==
    ASSUME NEW ticks \in Nat, NEW r \in Rounded(ticks)
    PROVE  /\ r \in Nat
           /\ r >= ticks - 5 /\ r <= ticks + 5
           /\ \E q \in Nat : r = 10 * q
<1> DEFINE whole == ticks \div 10
<1>1. whole \in Nat
  OBVIOUS
<1>2. r \in {10 * whole, 10 * whole + 10} /\ r - ticks \in -5..5
  BY DEF Rounded
<1> HIDE DEF whole
<1>3. \E q \in {whole, whole + 1} : r = 10 * q
  BY <1>1, <1>2
<1>4. r \in Nat
  BY <1>1, <1>3
<1>5. r >= ticks - 5 /\ r <= ticks + 5
  BY <1>2, <1>4
<1> QED
  BY <1>1, <1>3, <1>4, <1>5

(* A whole number of milliseconds is not changed by rounding.              *)
LEMMA RoundedWhole ==
    ASSUME NEW q \in Nat, NEW r \in Rounded(10 * q)
    PROVE  r = 10 * q
<1>1. 10 * q \in Nat
  OBVIOUS
<1>2. PICK p \in Nat : r = 10 * p
  BY <1>1, RoundedType
<1>3. 10 * p >= 10 * q - 5 /\ 10 * p <= 10 * q + 5
  BY <1>1, <1>2, RoundedType
<1> QED
  BY <1>2, <1>3

(* Nor does rounding take anything from a floor that is one.               *)
LEMMA RoundedFloor ==
    ASSUME NEW q \in Nat, NEW ticks \in Nat, ticks >= 10 * q, NEW r \in Rounded(ticks)
    PROVE  r >= 10 * q
<1>1. PICK p \in Nat : r = 10 * p
  BY RoundedType
<1>2. 10 * p >= 10 * q - 5
  BY <1>1, RoundedType
<1> QED
  BY <1>1, <1>2

(* A frame is never shorter than the floor, nor than its voice with the    *)
(* pauses around it (resolve_frame_duration).                              *)
LEMMA FrameDurationType ==
    ASSUME NEW f, audio[f] \in Nat, board[f] \in Frame
    PROVE  /\ FrameDuration(f) \in Nat
           /\ FrameDuration(f) >= ResolvedPacing.floor
           /\ audio[f] # 0 =>
                 FrameDuration(f) >= audio[f] + ResolvedPacing.lead + ResolvedPacing.tail
<1> DEFINE wanted == IF audio[f] # 0 THEN audio[f] + ResolvedPacing.lead + ResolvedPacing.tail
                     ELSE IF board[f].declared \in {None, 0} THEN FallbackFrameDuration
                     ELSE board[f].declared
<1>1. wanted \in Nat
  <2>1. board[f].declared \notin {None, 0} => board[f].declared \in Nat
    BY BoardAssumption DEF Frame
  <2>2. audio[f] + ResolvedPacing.lead + ResolvedPacing.tail \in Nat
    BY PacingType
  <2> QED
    BY <2>1, <2>2 DEF FallbackFrameDuration
<1>2. FrameDuration(f) = AtLeast(wanted, ResolvedPacing.floor)
  BY DEF FrameDuration
<1>3. audio[f] # 0 => wanted = audio[f] + ResolvedPacing.lead + ResolvedPacing.tail
  OBVIOUS
<1> HIDE DEF wanted
<1> QED
  BY <1>1, <1>2, <1>3, PacingType DEF AtLeast

(* Filling in a field leaves a frame a frame.                              *)
LEMMA FilledType ==
    ASSUME NEW frame \in Frame, NEW line \in Line, NEW n \in Nat
    PROVE  Filled(frame, line, n) \in Frame
<1>1. line.kind = "duration" => line.ticks \in Declared
  BY DEF Line
<1>2. CASE line.kind = "shot"
  BY <1>2 DEF Filled, Frame
<1>3. CASE line.kind = "voiceover" /\ frame.voiceover = 0
  BY <1>3 DEF Filled, Frame
<1>4. CASE line.kind = "scene" /\ frame.scene = 0
  BY <1>4 DEF Filled, Frame
<1>5. CASE line.kind = "duration" /\ frame.declared = None
  BY <1>1, <1>5 DEF Filled, Frame
<1>6. CASE /\ line.kind # "shot" /\ ~(line.kind = "voiceover" /\ frame.voiceover = 0)
           /\ ~(line.kind = "scene" /\ frame.scene = 0)
           /\ ~(line.kind = "duration" /\ frame.declared = None)
  BY <1>6 DEF Filled
<1> QED
  BY <1>2, <1>3, <1>4, <1>5, <1>6

-----------------------------------------------------------------------------
(* The invariant.                                                          *)

(* The frames, while they are read and afterwards.                         *)
ReadInv ==
    /\ text \in Seq(Line) /\ board \in Seq(Frame)
    /\ Len(board) <= MaxLines
    /\ phase = "script" => text = <<>> /\ board = <<>> /\ current = 0
    /\ phase = "parse" =>
          Len(board) <= Len(text) /\ Len(text) <= MaxLines /\ current \in 0..Len(board)

Early == {"script", "parse", "narrate"}

ClockInv ==
    /\ clip \in [Position -> Nat] /\ audio \in [Position -> Nat]
    /\ start \in [Position -> Nat] /\ length \in [Position -> Nat]
    /\ offset \in [Position -> Nat]
    /\ at \in 0..Len(board) /\ cursor \in Nat
    /\ phase \in Early => at = 0
    /\ phase \in Early \cup {"measure"} => cursor = 0

(* What assign_timing computed for a frame.                                *)
PlacedWell(f) ==
    /\ f = 1 => start[f] = 0
    /\ f > 1 => start[f] = start[f - 1] + length[f - 1]
    /\ f = at => cursor = start[f] + length[f]
    /\ \E q \in Nat : length[f] = 10 * q
    /\ length[f] >= ResolvedPacing.floor
    /\ offset[f] = IF audio[f] # 0 THEN ResolvedPacing.lead ELSE 0
    /\ audio[f] # 0 => length[f] >= audio[f] + ResolvedPacing.lead + ResolvedPacing.tail - 5

PlacedInv ==
    /\ \A f \in Placed : PlacedWell(f)
    /\ phase \in {"place", "compiled"} /\ at = 0 => cursor = 0

PageInv == phase = "compiled" => total = cursor

TimelineInv == ReadInv /\ ClockInv /\ PlacedInv /\ PageInv /\ VoicesFitTheirFrames

-----------------------------------------------------------------------------
(* The steps.                                                              *)

LEMMA InitInv == Init => TimelineInv
<1> SUFFICES ASSUME Init PROVE TimelineInv
  OBVIOUS
<1>1. <<>> \in Seq(Line) /\ <<>> \in Seq(Frame) /\ Len(<<>>) = 0 /\ 0 <= MaxLines
  BY BoardAssumption
<1> QED
  BY <1>1 DEF Init, BoardInit, TimelineInv, ReadInv, ClockInv, PlacedInv, PageInv, Placed,
              VoicesFitTheirFrames, Early

(* A step before the frames are placed leaves the clock alone.             *)
LEMMA EarlyStep ==
    ASSUME TimelineInv, UNCHANGED timingVars, ReadInv',
           clip' \in [Position -> Nat],
           phase' \notin {"place", "compiled"},
           \/ phase \in Early /\ at' \in 0..Len(board')
           \/ board' = board /\ phase' = "over"
    PROVE  TimelineInv'
<1>1. ClockInv'
  BY DEF TimelineInv, ClockInv, Early, timingVars
<1>2. Placed' = {}
  BY DEF Placed
<1> QED
  BY <1>1, <1>2 DEF TimelineInv, PlacedInv, PageInv, VoicesFitTheirFrames

(* Asking for the script, giving up on the film, other films.              *)
LEMMA AsideInv ==
    ASSUME TimelineInv, CallOverloaded \/ CallAnswered \/ Abort \/ Other \/ Narrated
    PROVE  TimelineInv'
<1> USE DEF parseVars, boardVars, Early
<1>1. ReadInv'
  <2>1. UNCHANGED <<text, board, current>>
    BY DEF CallOverloaded, CallAnswered, Abort, Other, Narrated
  <2>2. phase' = "script" => phase = "script"
    BY DEF CallOverloaded, CallAnswered, Abort, Other, Narrated
  <2>3. phase' = "parse" => phase = "script"
    BY DEF CallOverloaded, CallAnswered, Abort, Other, Narrated
  <2>4. Len(<<>>) = 0 /\ 0 <= MaxLines /\ 0 \in 0..0
    BY BoardAssumption
  <2> QED
    BY <2>1, <2>2, <2>3, <2>4 DEF TimelineInv, ReadInv
<1>2. UNCHANGED <<timingVars, clip, board>> /\ phase' \notin {"place", "compiled"}
  BY DEF CallOverloaded, CallAnswered, Abort, Other, Narrated
<1>3. phase \in Early \/ phase' = "over"
  BY DEF CallOverloaded, CallAnswered, Abort, Other, Narrated
<1>4. clip' \in [Position -> Nat] /\ at' \in 0..Len(board')
  BY <1>2 DEF TimelineInv, ClockInv, timingVars
<1> QED
  BY <1>1, <1>2, <1>3, <1>4, EarlyStep

LEMMA ParseInv ==
    ASSUME TimelineInv, Parse
    PROVE  TimelineInv'
<1>1. phase = "parse" /\ UNCHANGED <<clip, timingVars>>
  BY DEF Parse, ReadHeading, ReadDirection, ReadOutside, ReadField, Read, EndOfText
<1>2. phase' \in {"parse", "narrate", "over"}
  BY DEF Parse, ReadHeading, ReadDirection, ReadOutside, ReadField, Read, EndOfText
<1>3. ReadInv'
  <2>1. /\ text \in Seq(Line) /\ board \in Seq(Frame) /\ Len(board) \in Nat
        /\ Len(text) \in Nat /\ Len(board) <= Len(text) /\ Len(text) <= MaxLines
        /\ current \in 0..Len(board)
    BY <1>1 DEF TimelineInv, ReadInv
  <2>2. ASSUME NEW line \in Line, Read(line)
        PROVE  /\ text' \in Seq(Line) /\ Len(text') = Len(text) + 1 /\ Len(text') <= MaxLines
               /\ phase' = "parse"
    BY <2>1, <2>2, BoardAssumption DEF Read
  <2>3. ASSUME NEW line \in Line, ReadHeading(line) PROVE ReadInv'
    <3>1. Blank \in Frame
      BY DEF Blank, Frame
    <3>2. board' \in Seq(Frame) /\ Len(board') = Len(board) + 1 /\ current' = Len(board')
      BY <2>1, <2>3, <3>1 DEF ReadHeading
    <3> QED
      BY <2>1, <2>2, <2>3, <3>2, BoardAssumption DEF ReadHeading, ReadInv
  <2>4. ASSUME NEW line \in Line, ReadDirection(line) PROVE ReadInv'
    BY <2>1, <2>2, <2>4, BoardAssumption DEF ReadDirection, ReadInv
  <2>5. ASSUME NEW line \in Line, ReadOutside(line) PROVE ReadInv'
    BY <2>1, <2>2, <2>5, BoardAssumption DEF ReadOutside, ReadInv
  <2>6. ASSUME NEW line \in Line, ReadField(line) PROVE ReadInv'
    <3>1. current \in 1..Len(board) /\ Len(text) + 1 \in Nat
      BY <2>1, <2>6 DEF ReadField
    <3>2. board[current] \in Frame
      BY <2>1, <3>1
    <3>3. Filled(board[current], line, Len(text) + 1) \in Frame
      BY <3>1, <3>2, FilledType
    <3>4. board' = [board EXCEPT ![current] = Filled(board[current], line, Len(text) + 1)]
      BY <2>6 DEF ReadField
    <3>5. board' \in Seq(Frame) /\ Len(board') = Len(board)
      BY <2>1, <3>1, <3>3, <3>4
    <3> QED
      BY <2>1, <2>2, <2>6, <3>5, BoardAssumption DEF ReadField, ReadInv
  <2>7. CASE EndOfText("narrate")
    BY <2>1, <2>7, BoardAssumption DEF EndOfText, ReadInv
  <2> QED
    BY <2>3, <2>4, <2>5, <2>6, <2>7 DEF Parse
<1>4. clip' \in [Position -> Nat] /\ at' = 0 /\ 0 \in 0..Len(board')
  BY <1>1, <1>3 DEF TimelineInv, ClockInv, ReadInv, Early, timingVars
<1> QED
  BY <1>1, <1>2, <1>3, <1>4, EarlyStep DEF Early

LEMMA TaskStepInv ==
    ASSUME TimelineInv, NEW f \in Frames, TaskStep(f)
    PROVE  TimelineInv'
<1>1. f \in Position /\ board \in Seq(Frame)
  BY BoardAssumption DEF TimelineInv, ReadInv, Frames, Position
<1>2. UNCHANGED <<phase, parseVars, timingVars>> /\ phase = "narrate"
  BY DEF TaskStep, Mute, Speak, Spoken, TurnedAway, PauseOver, Refused, boardVars, Silence,
         Becomes
<1>3. clip' = clip \/ \E ticks \in Nat : clip' = [clip EXCEPT ![f] = ticks]
  BY FilmAssumption
  DEF TaskStep, Mute, Speak, Spoken, TurnedAway, PauseOver, Refused, boardVars, Silence,
      WriteClip, SilenceTicks, MuteTicks
<1>4. clip' \in [Position -> Nat] /\ at' \in 0..Len(board')
  BY <1>1, <1>2, <1>3 DEF TimelineInv, ClockInv, timingVars, parseVars
<1>5. ReadInv'
  BY <1>2 DEF TimelineInv, ReadInv, parseVars
<1> QED
  BY <1>2, <1>4, <1>5, EarlyStep DEF Early

LEMMA MeasureInv ==
    ASSUME TimelineInv, Measure \/ AllMeasured
    PROVE  TimelineInv'
<1> USE DEF TimelineInv
<1>1. Len(board) \in Nat /\ Len(board) <= MaxLines /\ MaxLines \in Nat /\ at \in 0..Len(board)
  BY BoardAssumption DEF ReadInv, ClockInv
<1>2. CASE Measure
  <2>1. at + 1 \in Position /\ at' = at + 1 /\ at' \in 0..Len(board)
    BY <1>1, <1>2 DEF Measure, Position
  <2>2. PICK measured \in {0, clip[at + 1]} : audio' = [audio EXCEPT ![at + 1] = measured]
    BY <1>2 DEF Measure
  <2>3. measured \in Nat
    BY <2>1, <2>2 DEF ClockInv
  <2>4. ClockInv'
    BY <1>2, <2>1, <2>2, <2>3 DEF Measure, ClockInv, parseVars, Early
  <2>5. ReadInv'
    BY <1>2 DEF Measure, ReadInv, parseVars
  <2> QED
    BY <1>2, <2>4, <2>5 DEF Measure, PlacedInv, Placed, PageInv, VoicesFitTheirFrames
<1>3. CASE AllMeasured
  <2>1. ReadInv'
    BY <1>3 DEF AllMeasured, ReadInv, parseVars
  <2>2. ClockInv'
    BY <1>1, <1>3 DEF AllMeasured, ClockInv, parseVars, Early
  <2>3. Placed' = {} /\ cursor' = 0
    BY <1>3 DEF AllMeasured, Placed, ClockInv
  <2> QED
    BY <1>3, <2>1, <2>2, <2>3 DEF AllMeasured, PlacedInv, PageInv, VoicesFitTheirFrames
<1> QED
  BY <1>2, <1>3

(* One more frame is laid where the one before ended.                      *)
LEMMA PlaceInv ==
    ASSUME TimelineInv, Place
    PROVE  TimelineInv'
<1> USE DEF TimelineInv
<1>0. at \in Nat
  BY DEF ReadInv, ClockInv
<1> PICK next \in Nat : next = at + 1
  BY <1>0
<1>1. /\ Len(board) \in Nat /\ Len(board) <= MaxLines /\ MaxLines \in Nat
      /\ at \in Nat /\ at < Len(board) /\ phase = "place" /\ phase' = "place" /\ at' = next
  BY BoardAssumption DEF ReadInv, ClockInv, Place
<1>2. next \in Position /\ next \in 1..Len(board) /\ board[next] \in Frame /\ audio[next] \in Nat
  <2>1. next \in Position /\ next \in 1..Len(board)
    BY <1>1 DEF Position
  <2>2. board[next] \in Frame
    BY <2>1 DEF ReadInv
  <2> QED
    BY <2>1, <2>2 DEF ClockInv
<1>3. PICK shown \in Rounded(FrameDuration(next)) :
         length' = [length EXCEPT ![next] = shown] /\ cursor' = cursor + shown
  BY DEF Place
<1>4. /\ start' = [start EXCEPT ![next] = cursor]
      /\ offset' = [offset EXCEPT ![next] = IF audio[next] # 0 THEN ResolvedPacing.lead ELSE 0]
      /\ UNCHANGED <<text, board, current, pacing, clip, audio, index, total>>
      /\ UNCHANGED ResolvedPacing
  BY DEF Place, parseVars, ResolvedPacing
<1>5. /\ FrameDuration(next) \in Nat
      /\ FrameDuration(next) >= ResolvedPacing.floor
      /\ audio[next] # 0 =>
            FrameDuration(next) >= audio[next] + ResolvedPacing.lead + ResolvedPacing.tail
  BY <1>2, FrameDurationType
<1>6. /\ shown \in Nat /\ shown >= FrameDuration(next) - 5
      /\ \E q \in Nat : shown = 10 * q
  BY <1>5, RoundedType
<1>7. shown >= ResolvedPacing.floor
  BY <1>5, PacingType, RoundedFloor
<1>8. ReadInv'
  BY <1>1, <1>4 DEF ReadInv
<1>9. ClockInv'
  <2>1. /\ length' \in [Position -> Nat] /\ cursor' \in Nat
        /\ start' \in [Position -> Nat] /\ clip' \in [Position -> Nat]
        /\ audio' \in [Position -> Nat]
    <3>1. length' \in [Position -> Nat]
      BY <1>3, <1>6 DEF ClockInv
    <3>2. start' \in [Position -> Nat]
      BY <1>4 DEF ClockInv
    <3>3. cursor' \in Nat
      BY <1>3, <1>6 DEF ClockInv
    <3> QED
      BY <1>4, <3>1, <3>2, <3>3 DEF ClockInv
  <2>2. offset' \in [Position -> Nat]
    BY <1>4, PacingType DEF ClockInv
  <2>3. at' \in 0..Len(board')
    BY <1>1, <1>4
  <2> QED
    BY <1>1, <2>1, <2>2, <2>3 DEF ClockInv, Early
<1>10. PlacedWell(next)'
  <2>1. start'[next] = cursor /\ length'[next] = shown /\ cursor' = cursor + shown
    BY <1>2, <1>3, <1>4 DEF ClockInv
  <2>2. next = 1 => cursor = 0
    BY <1>1 DEF PlacedInv
  <2>3. next > 1 => /\ cursor = start[next - 1] + length[next - 1]
                    /\ start'[next - 1] = start[next - 1] /\ length'[next - 1] = length[next - 1]
    <3>1. SUFFICES ASSUME next > 1
                   PROVE  /\ cursor = start[next - 1] + length[next - 1]
                          /\ start'[next - 1] = start[next - 1]
                          /\ length'[next - 1] = length[next - 1]
      OBVIOUS
    <3>2. next - 1 = at /\ at \in Position /\ at \in Placed /\ at # next
      BY <1>1, <3>1 DEF Position, Placed
    <3>3. PlacedWell(at)
      BY <3>2 DEF PlacedInv
    <3> QED
      BY <1>3, <1>4, <3>2, <3>3 DEF PlacedWell, ClockInv
  <2>4. offset'[next] = IF audio'[next] # 0 THEN ResolvedPacing'.lead ELSE 0
    BY <1>2, <1>4 DEF ClockInv
  <2>5. audio'[next] # 0 =>
           length'[next] >= audio'[next] + ResolvedPacing'.lead + ResolvedPacing'.tail - 5
    <3>1. shown >= FrameDuration(next) - 5
      BY <1>6
    <3>2. \A s, d, a, lead, tail \in Nat :
             s >= d - 5 /\ d >= a + lead + tail => s >= a + lead + tail - 5
      OBVIOUS
    <3>3. /\ shown \in Nat /\ FrameDuration(next) \in Nat /\ audio[next] \in Nat
          /\ ResolvedPacing.lead \in Nat /\ ResolvedPacing.tail \in Nat
      BY <1>2, <1>5, <1>6, PacingType
    <3>4. audio[next] # 0 =>
             shown >= audio[next] + ResolvedPacing.lead + ResolvedPacing.tail - 5
      BY <1>5, <3>1, <3>2, <3>3
    <3> QED
      BY <1>4, <2>1, <3>4
  <2>6. next > 1 => start'[next] = start'[next - 1] + length'[next - 1]
    BY <2>1, <2>3
  <2>7. length'[next] >= ResolvedPacing'.floor /\ \E q \in Nat : length'[next] = 10 * q
    BY <1>4, <1>6, <1>7, <2>1
  <2> QED
    BY <2>1, <2>2, <2>4, <2>5, <2>6, <2>7 DEF PlacedWell
<1>11. ASSUME NEW f \in 1..at PROVE PlacedWell(f)'
  <2>1. f \in Position /\ f \in Placed /\ f # next /\ f # at' /\ f - 1 # next
    BY <1>1 DEF Position, Placed
  <2>2. PlacedWell(f)
    BY <2>1 DEF PlacedInv
  <2>3. f > 1 => f - 1 \in Position
    BY <2>1, <1>1 DEF Position
  <2>4. /\ start'[f] = start[f] /\ length'[f] = length[f] /\ offset'[f] = offset[f]
        /\ f > 1 => start'[f - 1] = start[f - 1] /\ length'[f - 1] = length[f - 1]
    BY <1>3, <1>4, <2>1, <2>3 DEF ClockInv
  <2> QED
    BY <1>4, <2>1, <2>2, <2>4 DEF PlacedWell
<1>12. \A f \in Placed' : PlacedWell(f)'
  <2>1. Placed' = 1..next
    BY <1>1 DEF Placed
  <2>2. \A f \in 1..next : f = next \/ f \in 1..at
    BY <1>1
  <2> QED
    BY <1>10, <1>11, <2>1, <2>2
<1>13. PlacedInv'
  BY <1>1, <1>12 DEF PlacedInv
<1> QED
  BY <1>1, <1>8, <1>9, <1>13 DEF PageInv, VoicesFitTheirFrames

(* The page takes the timeline over; only a voice's length is rounded.     *)
LEMMA EmitInv ==
    ASSUME TimelineInv, Emit
    PROVE  TimelineInv'
<1> USE DEF TimelineInv
<1>1. /\ Len(board) \in Nat /\ Len(board) <= MaxLines /\ MaxLines \in Nat
      /\ at = Len(board) /\ phase = "place" /\ phase' = "compiled"
      /\ UNCHANGED <<text, board, current, pacing, clip, audio, start, length, offset, at, cursor>>
      /\ UNCHANGED ResolvedPacing
  BY BoardAssumption DEF ReadInv, ClockInv, Emit, parseVars, ResolvedPacing
<1>2. ReadInv' /\ ClockInv'
  BY <1>1 DEF ReadInv, ClockInv, Early
<1>3. Placed = 1..at /\ Placed' = 1..at
  BY <1>1 DEF Placed
<1>4. PlacedInv'
  <2>1. ASSUME NEW f \in 1..at PROVE PlacedWell(f)'
    BY <1>1, <1>3 DEF PlacedInv, PlacedWell
  <2> QED
    BY <1>1, <1>3, <2>1 DEF PlacedInv
<1>5. PageInv'
  <2>1. CASE at = 0
    BY <1>1, <2>1 DEF Emit, PlacedInv, PageInv
  <2>2. CASE at # 0
    <3>1. at \in 1..at
      BY <1>1, <2>2
    <3>2. cursor = start[at] + length[at]
      BY <1>3, <3>1 DEF PlacedInv, PlacedWell
    <3> QED
      BY <1>1, <2>2, <3>2 DEF Emit, PageInv
  <2> QED
    BY <2>1, <2>2
<1>6. VoicesFitTheirFrames'
  <2>1. PICK heard \in [1..at -> UNION {Rounded(VoiceDuration(f)) : f \in 1..at}] :
           /\ \A f \in 1..at : heard[f] \in Rounded(VoiceDuration(f))
           /\ index' = [f \in 1..at |-> Element(f, heard[f])]
    BY DEF Emit
  <2>2. Len(index') = Len(board') /\ DOMAIN index' = 1..at
    BY <1>1, <2>1
  <2>3. ASSUME NEW f \in 1..at
        PROVE  /\ audio[f] # 0 => offset[f] = ResolvedPacing.lead
               /\ start[f] \in Nat /\ length[f] \in Nat /\ offset[f] \in Nat
               /\ audio[f] \in Nat /\ heard[f] \in Nat
               /\ offset[f] + heard[f] + (IF audio[f] # 0 THEN ResolvedPacing.tail - 10 ELSE 0)
                     <= length[f]
               /\ f > 1 => start[f - 1] + length[f - 1] = start[f]
    <3>1. PlacedWell(f)
      BY <1>3 DEF PlacedInv
    <3>2. f \in Position
      BY <1>1 DEF Position
    <3>3. /\ start[f] \in Nat /\ length[f] \in Nat /\ offset[f] \in Nat /\ audio[f] \in Nat
      BY <3>2 DEF ClockInv
    <3>4. heard[f] \in Rounded(VoiceDuration(f))
      BY <2>1
    <3>5. CASE audio[f] # 0
      <4>1. VoiceDuration(f) = audio[f]
        BY <3>5 DEF VoiceDuration
      <4>2. heard[f] \in Nat /\ heard[f] <= audio[f] + 5
        BY <3>3, <3>4, <4>1, RoundedType
      <4>3. /\ offset[f] = ResolvedPacing.lead
            /\ length[f] >= audio[f] + ResolvedPacing.lead + ResolvedPacing.tail - 5
        BY <3>1, <3>5 DEF PlacedWell
      <4>4. \A n, a, h, lead, tail \in Nat :
               n >= a + lead + tail - 5 /\ h <= a + 5 => lead + h + (tail - 10) <= n
        OBVIOUS
      <4>5. ResolvedPacing.lead + heard[f] + (ResolvedPacing.tail - 10) <= length[f]
        BY <3>3, <4>2, <4>3, <4>4, PacingType
      <4> QED
        BY <3>1, <3>3, <3>5, <4>2, <4>3, <4>5 DEF PlacedWell
    <3>6. CASE audio[f] = 0
      <4>1. VoiceDuration(f) = length[f]
        BY <3>6 DEF VoiceDuration
      <4>2. heard[f] = length[f]
        BY <3>1, <3>4, <4>1, RoundedWhole DEF PlacedWell
      <4>3. offset[f] = 0
        BY <3>1, <3>6 DEF PlacedWell
      <4> QED
        BY <3>1, <3>3, <3>6, <4>2, <4>3 DEF PlacedWell
    <3> QED
      BY <3>5, <3>6
  <2>4. ASSUME NEW f \in 1..at
        PROVE  /\ index'[f].start = start[f] /\ index'[f].length = length[f]
               /\ index'[f].voiceStart = start[f] + offset[f]
               /\ index'[f].voiceLength = heard[f]
    BY <2>1 DEF Element
  <2>5. ASSUME NEW f \in 1..at
        PROVE  /\ audio[f] # 0 => index'[f].voiceStart = index'[f].start + ResolvedPacing.lead
               /\ index'[f].voiceStart + index'[f].voiceLength
                     + (IF audio[f] # 0 THEN ResolvedPacing.tail - 10 ELSE 0)
                        <= index'[f].start + index'[f].length
               /\ f > 1 => index'[f - 1].start + index'[f - 1].length <= index'[f].voiceStart
    <3>1. \A a, b, h, p, n \in Int : b + h + p <= n => a + b + h + p <= a + n
      OBVIOUS
    <3>2. (IF audio[f] # 0 THEN ResolvedPacing.tail - 10 ELSE 0) \in Int
      BY PacingType
    <3>3. start[f] + offset[f] + heard[f] + (IF audio[f] # 0 THEN ResolvedPacing.tail - 10 ELSE 0)
             <= start[f] + length[f]
      BY <2>3, <3>1, <3>2
    <3>4. f > 1 => f - 1 \in 1..at
      BY <1>1
    <3>5. f > 1 => index'[f - 1].start + index'[f - 1].length = start[f]
      BY <2>3, <2>4, <3>4
    <3> QED
      BY <2>3, <2>4, <3>3, <3>5
  <2> QED
    BY <1>1, <2>2, <2>5 DEF VoicesFitTheirFrames
<1> QED
  BY <1>2, <1>4, <1>5, <1>6

LEMMA StutterInv == TimelineInv /\ UNCHANGED vars => TimelineInv'
  BY DEF TimelineInv, ReadInv, ClockInv, PlacedInv, PageInv, VoicesFitTheirFrames, Placed,
         PlacedWell, ResolvedPacing, Early, vars, boardVars, parseVars, timingVars

LEMMA NextInv == TimelineInv /\ [Next]_vars => TimelineInv'
  BY AsideInv, ParseInv, TaskStepInv, MeasureInv, PlaceInv, EmitInv, StutterInv
  DEF Next, Compile

LEMMA Invariance == Spec => []TimelineInv
  BY InitInv, NextInv, PTL DEF Spec

(* Frames follow each other without a gap or an overlap, none shorter than *)
(* its pacing's floor, and the film is as long as they are (assign_timing, *)
(* render_index_html), for every script and every clip.                    *)
THEOREM Seamless == Spec => []TimelineIsSeamless
<1>1. TimelineInv => TimelineIsSeamless
  BY DEF TimelineInv, PlacedInv, PlacedWell, PageInv, TimelineIsSeamless
<1> QED
  BY Invariance, <1>1, PTL

(* On the page every voice is heard to its end within its frame, between   *)
(* the pauses of its pacing, however its length and its frame's were       *)
(* rounded (resolve_frame_duration, render_index_html).                    *)
THEOREM VoicesFit == Spec => []VoicesFitTheirFrames
<1>1. TimelineInv => VoicesFitTheirFrames
  BY DEF TimelineInv
<1> QED
  BY Invariance, <1>1, PTL

-----------------------------------------------------------------------------
(* What becomes of the lines.  A task that is done has left a clip, and a  *)
(* line among those spoken or those counted as silenced; no more tasks     *)
(* speak than the gate lets through.                                       *)

TaskState == {"asks", "speaks", "pauses", "done"}

DoneWell(f) ==
    task[f] = "done" =>
        /\ clip[f] # 0
        /\ board[f].voiceover # 0 => f \in spoken \cup silenced

Timed == {"measure", "place", "compiled"}

CountedInv ==
    phase \in Timed =>
        /\ \A f \in Frames : task[f] = "done"
        /\ 100 * Cardinality(silenced) <= MaxSilent * Len(board)

GateInv ==
    /\ others \in Nat /\ (others # 0 => crowded)
    /\ Cardinality(Speaking) <= TtsGate

TaskInv ==
    /\ task \in [Position -> TaskState]
    /\ silenced \subseteq Frames
    /\ \A f \in Frames : DoneWell(f)
    /\ phase \in {"script", "parse"} =>
          task = [f \in Position |-> "asks"] /\ silenced = {}

NarrationInv ==
    TimelineInv /\ TaskInv /\ GateInv /\ CountedInv /\ NoLineLostToHaste

LEMMA FramesType ==
    ASSUME TimelineInv
    PROVE  /\ Frames = 1..Len(board) /\ Len(board) \in Nat
           /\ Frames \subseteq Position /\ IsFiniteSet(Frames)
<1>1. Len(board) \in Nat /\ Len(board) <= MaxLines /\ Frames = 1..Len(board)
  BY DEF TimelineInv, ReadInv, Frames
<1>2. Frames \subseteq Position
  BY <1>1, BoardAssumption DEF Position
<1>3. IsFiniteSet(1..Len(board))
  BY <1>1, FS_Interval
<1> QED
  BY <1>1, <1>2, <1>3

LEMMA SpeakingType ==
    ASSUME TimelineInv
    PROVE  /\ IsFiniteSet(Speaking) /\ Cardinality(Speaking) \in Nat
           /\ \A S \in SUBSET Speaking :
                 /\ IsFiniteSet(S) /\ Cardinality(S) \in Nat
                 /\ Cardinality(S) <= Cardinality(Speaking)
<1>1. Speaking \in SUBSET Frames
  BY DEF Speaking
<1>2. IsFiniteSet(Speaking) /\ Cardinality(Speaking) \in Nat
  BY <1>1, FramesType, FS_Subset, FS_CardinalityType
<1>3. ASSUME NEW S \in SUBSET Speaking
      PROVE  /\ IsFiniteSet(S) /\ Cardinality(S) \in Nat
             /\ Cardinality(S) <= Cardinality(Speaking)
  BY <1>2, FS_Subset, FS_CardinalityType
<1> QED
  BY <1>2, <1>3

LEMMA NarrationInit == Init => NarrationInv
<1> SUFFICES ASSUME Init PROVE NarrationInv
  OBVIOUS
<1>1. TimelineInv
  BY InitInv
<1>2. Frames = {} /\ Speaking = {}
  BY <1>1, FramesType DEF Init, BoardInit, Speaking
<1>3. TaskInv
  BY <1>2 DEF Init, TaskInv, TaskState
<1>4. GateInv
  BY <1>2, FS_EmptySet, FilmAssumption DEF Init, GateInv
<1>5. CountedInv /\ NoLineLostToHaste
  BY DEF Init, CountedInv, Timed, NoLineLostToHaste
<1> QED
  BY <1>1, <1>3, <1>4, <1>5 DEF NarrationInv

(* Asking for the script, reading it, other films: no task moves.          *)
LEMMA NarrationBefore ==
    ASSUME NarrationInv, CallOverloaded \/ CallAnswered \/ Parse
    PROVE  NarrationInv'
<1>1. TimelineInv /\ TimelineInv'
  BY NextInv DEF NarrationInv, Next
<1>2. /\ phase \in {"script", "parse"} /\ phase' \notin Timed
      /\ UNCHANGED <<task, silenced, others, crowded, refused>>
  BY DEF CallOverloaded, CallAnswered, Parse, ReadHeading, ReadDirection, ReadOutside, ReadField,
         Read, EndOfText, filmVars, taskVars, serviceVars, Timed
<1>3. task' = [f \in Position |-> "asks"] /\ silenced' = {}
  BY <1>2 DEF NarrationInv, TaskInv
<1>4. Frames' \subseteq Position
  BY <1>1, FramesType, BoardAssumption DEF TimelineInv, ReadInv, Frames, Position
<1>5. \A f \in Frames' : task'[f] = "asks"
  BY <1>3, <1>4
<1>6. TaskInv'
  BY <1>3, <1>5 DEF TaskInv, TaskState, DoneWell
<1>7. Speaking' = {}
  BY <1>5 DEF Speaking
<1>8. GateInv'
  BY <1>2, <1>7, FS_EmptySet, FilmAssumption DEF NarrationInv, GateInv
<1>9. CountedInv' /\ NoLineLostToHaste'
  BY <1>2, <1>3 DEF CountedInv, NoLineLostToHaste
<1> QED
  BY <1>1, <1>6, <1>8, <1>9 DEF NarrationInv

(* Steps that touch neither the frames nor their tasks.                    *)
LEMMA NarrationAside ==
    ASSUME NarrationInv, TimelineInv',
           UNCHANGED <<board, clip, task, spoken, silenced, refused>>,
           others' \in Nat, others' # 0 => crowded', crowded => crowded',
           phase' \notin {"script", "parse"}, CountedInv'
    PROVE  NarrationInv'
<1>1. Frames' = Frames /\ Speaking' = Speaking
  BY DEF Frames, Speaking
<1>2. TaskInv'
  BY <1>1 DEF NarrationInv, TaskInv, DoneWell
<1>3. GateInv'
  BY <1>1 DEF NarrationInv, GateInv
<1>4. NoLineLostToHaste'
  BY DEF NarrationInv, NoLineLostToHaste
<1> QED
  BY <1>2, <1>3, <1>4 DEF NarrationInv

LEMMA NarrationAround ==
    ASSUME NarrationInv, Abort \/ Other \/ Narrated \/ Compile
    PROVE  NarrationInv'
<1>1. TimelineInv /\ TimelineInv'
  BY NextInv DEF NarrationInv, Next
<1>2. /\ UNCHANGED <<board, clip, task, spoken, silenced, refused>>
      /\ phase' \notin {"script", "parse"}
  BY DEF Abort, Other, Narrated, Compile, Measure, AllMeasured, Place, Emit, boardVars, parseVars,
         filmVars, taskVars
<1>3. others' \in Nat /\ (others' # 0 => crowded') /\ (crowded => crowded')
  <2>1. CASE Other
    BY <2>1, FilmAssumption DEF Other
  <2>2. CASE ~Other
    BY <2>2 DEF NarrationInv, GateInv, Abort, Narrated, Compile, filmVars, serviceVars
  <2> QED
    BY <2>1, <2>2
<1>4. CountedInv'
  <2>1. CASE Abort \/ Other
    BY <2>1 DEF Abort, Other, CountedInv, Timed, boardVars
  <2>2. CASE Narrated
    <3>1. Frames' = Frames /\ \A f \in Frames : task'[f] = "done"
      BY <1>2, <2>2 DEF Narrated, Frames
    <3>2. Cardinality(silenced) \in Nat
      BY <1>1, FramesType, FS_Subset, FS_CardinalityType DEF NarrationInv, TaskInv
    <3>3. MaxSilent * Len(board) \in Nat /\ 100 * Cardinality(silenced) \in Nat
      BY <1>1, <3>2, FramesType, FilmAssumption
    <3>4. phase' \in Timed => ~(100 * Cardinality(silenced) > MaxSilent * Len(board))
      BY <2>2 DEF Narrated, Timed
    <3>5. phase' \in Timed => 100 * Cardinality(silenced) <= MaxSilent * Len(board)
      <4>1. \A a, b \in Nat : ~(a > b) => a <= b
        OBVIOUS
      <4> QED
        BY <3>3, <3>4, <4>1
    <3> QED
      BY <1>2, <3>1, <3>5 DEF CountedInv
  <2>3. CASE Compile
    <3>1. phase \in Timed
      BY <2>3 DEF Compile, Measure, AllMeasured, Place, Emit, Timed
    <3> QED
      BY <1>2, <3>1 DEF NarrationInv, CountedInv, Frames
  <2> QED
    BY <2>1, <2>2, <2>3
<1> QED
  BY <1>1, <1>2, <1>3, <1>4, NarrationAside

(* The gate: a task that speaks was let through, and one that stops leaves *)
(* room.                                                                   *)
LEMMA GateStep ==
    ASSUME NarrationInv, NEW f \in Frames, TaskStep(f)
    PROVE  GateInv'
<1>1. TimelineInv /\ f \in Position
  BY FramesType DEF NarrationInv
<1>2. UNCHANGED <<board, others, crowded>>
  BY DEF TaskStep, Mute, Speak, Spoken, TurnedAway, PauseOver, Refused, boardVars, parseVars,
         serviceVars
<1>3. task \in [Position -> TaskState]
  BY DEF NarrationInv, TaskInv
<1>4. Cardinality(Speaking) \in Nat /\ TtsGate \in Nat
  BY <1>1, SpeakingType, FilmAssumption
<1>5. CASE Speak(f)
  <2>1. Speaking' = Speaking \cup {f}
    BY <1>1, <1>2, <1>3, <1>5 DEF Speak, Becomes, Speaking, Frames
  <2>2. Cardinality(Speaking') <= Cardinality(Speaking) + 1
    <3>1. IsFiniteSet(Speaking)
      BY <1>1, SpeakingType
    <3>2. Cardinality(Speaking \cup {f}) =
             IF f \in Speaking THEN Cardinality(Speaking) ELSE Cardinality(Speaking) + 1
      BY <3>1, FS_AddElement
    <3> QED
      BY <1>4, <2>1, <3>2
  <2>3. Cardinality(Speaking) < TtsGate
    BY <1>5 DEF Speak
  <2>4. IsFiniteSet(Speaking')
    BY <1>1, <2>1, SpeakingType, FS_AddElement
  <2>5. Cardinality(Speaking') \in Nat
    BY <2>4, FS_CardinalityType
  <2> QED
    BY <1>2, <1>4, <2>2, <2>3, <2>5 DEF NarrationInv, GateInv
<1>6. CASE ~Speak(f)
  <2>1. \E state \in {"asks", "pauses", "done"} : task' = [task EXCEPT ![f] = state]
    BY <1>6 DEF TaskStep, Mute, Spoken, TurnedAway, PauseOver, Refused, Silence, Becomes
  <2>2. Speaking' \in SUBSET Speaking
    BY <1>1, <1>2, <1>3, <2>1 DEF Speaking, Frames
  <2>3. Cardinality(Speaking') \in Nat /\ Cardinality(Speaking') <= Cardinality(Speaking)
    BY <1>1, <2>2, SpeakingType
  <2> QED
    BY <1>2, <1>4, <2>3 DEF NarrationInv, GateInv
<1> QED
  BY <1>5, <1>6

(* Alone, the service is never asked for more than it takes.               *)
LEMMA TurnedAwayInACrowd ==
    ASSUME NarrationInv, NEW f, TurnedAway(f)
    PROVE  crowded
<1>1. Cardinality(Speaking) \in Nat /\ Cardinality(Speaking) <= TtsGate
  BY SpeakingType DEF NarrationInv, GateInv
<1>2. Cardinality(Speaking) + others > TtsLimit
  BY DEF TurnedAway
<1>3. TtsGate <= TtsLimit /\ TtsGate \in Nat /\ TtsLimit \in Nat /\ others \in Nat
  BY FilmAssumption DEF NarrationInv, GateInv
<1>4. others # 0
  BY <1>1, <1>2, <1>3
<1> QED
  BY <1>4 DEF NarrationInv, GateInv

LEMMA NarrationTask ==
    ASSUME NarrationInv, NEW f \in Frames, TaskStep(f)
    PROVE  NarrationInv'
<1>1. TimelineInv /\ TimelineInv' /\ f \in Position
  BY NextInv, FramesType DEF NarrationInv, Next
<1>2. /\ UNCHANGED board /\ Frames' = Frames /\ Frames \subseteq Position
      /\ phase' = "narrate" /\ UNCHANGED crowded
  BY <1>1, FramesType
  DEF TaskStep, Mute, Speak, Spoken, TurnedAway, PauseOver, Refused, boardVars, parseVars,
      serviceVars, Frames
<1>3. /\ task \in [Position -> TaskState] /\ clip \in [Position -> Nat]
      /\ silenced \subseteq Frames /\ \A g \in Frames : DoneWell(g)
  BY <1>1 DEF NarrationInv, TaskInv, TimelineInv, ClockInv
<1>4. PICK state \in TaskState : task' = [task EXCEPT ![f] = state]
  BY DEF TaskStep, Mute, Speak, Spoken, TurnedAway, PauseOver, Refused, Silence, Becomes,
         TaskState
<1>5. /\ spoken \subseteq spoken' /\ silenced \subseteq silenced' /\ silenced' \subseteq Frames
      /\ refused \subseteq refused'
  BY <1>3 DEF TaskStep, Mute, Speak, Spoken, TurnedAway, PauseOver, Refused, Silence
<1>6. /\ clip' = clip \/ \E ticks \in Nat : clip' = [clip EXCEPT ![f] = ticks]
      /\ state = "done" => clip'[f] # 0 /\ (board[f].voiceover # 0 => f \in spoken' \cup silenced')
  <2>1. ASSUME NEW ticks \in Nat \ {0}, WriteClip(f, ticks),
               board[f].voiceover # 0 => f \in spoken' \cup silenced'
        PROVE  <1>6
    BY <1>1, <1>3, <2>1 DEF WriteClip
  <2>2. CASE Mute(f)
    BY <2>1, <2>2 DEF Mute, MuteTicks
  <2>3. CASE UNCHANGED clip /\ \E other \in TaskState \ {"done"} : Becomes(f, other)
    <3>1. task'[f] # "done" /\ task'[f] = state
      BY <1>1, <1>3, <1>4, <2>3 DEF Becomes
    <3> QED
      BY <2>3, <3>1
  <2>4. CASE Speak(f) \/ PauseOver(f)
    BY <2>3, <2>4 DEF Speak, PauseOver, boardVars, TaskState
  <2>5. CASE Spoken(f)
    <3>1. PICK ticks \in SpokenLength : WriteClip(f, ticks)
      BY <2>5 DEF Spoken
    <3> QED
      BY <2>1, <2>5, <3>1, FilmAssumption DEF Spoken
  <2>6. CASE Silence(f)
    <3>1. WriteClip(f, 40000) /\ f \in silenced'
      BY <2>6 DEF Silence, SilenceTicks
    <3> QED
      BY <2>1, <3>1
  <2>7. CASE TurnedAway(f) /\ ~Silence(f)
    BY <2>3, <2>7 DEF TurnedAway, TaskState
  <2> QED
    BY <2>2, <2>4, <2>5, <2>6, <2>7 DEF TaskStep, Refused
<1>7. ASSUME NEW g \in Frames PROVE DoneWell(g)'
  <2>1. CASE g = f
    BY <1>1, <1>2, <1>3, <1>4, <1>6, <2>1 DEF DoneWell
  <2>2. CASE g # f
    BY <1>2, <1>3, <1>4, <1>5, <1>6, <2>2 DEF DoneWell
  <2> QED
    BY <2>1, <2>2
<1>8. TaskInv'
  BY <1>2, <1>3, <1>4, <1>5, <1>7 DEF TaskInv
<1>9. NoLineLostToHaste'
  <2>1. CASE TurnedAway(f)
    BY <1>2, <2>1, TurnedAwayInACrowd DEF NoLineLostToHaste
  <2>2. CASE Refused(f)
    BY <1>2, <2>2 DEF Refused, Silence, NarrationInv, NoLineLostToHaste
  <2>3. CASE ~TurnedAway(f) /\ ~Refused(f)
    BY <1>2, <2>3 DEF TaskStep, Mute, Speak, Spoken, PauseOver, NarrationInv, NoLineLostToHaste
  <2> QED
    BY <2>1, <2>2, <2>3
<1>10. CountedInv'
  BY <1>2 DEF CountedInv, Timed
<1> QED
  BY <1>1, <1>8, <1>9, <1>10, GateStep DEF NarrationInv

LEMMA NarrationStutter == NarrationInv /\ UNCHANGED vars => NarrationInv'
<1> SUFFICES ASSUME NarrationInv, UNCHANGED vars PROVE NarrationInv'
  OBVIOUS
<1>1. TimelineInv'
  BY StutterInv DEF NarrationInv
<1> QED
  BY <1>1
  DEF NarrationInv, TaskInv, GateInv, CountedInv, NoLineLostToHaste, DoneWell, Frames, Speaking,
      vars, boardVars, parseVars, filmVars, taskVars, serviceVars

LEMMA NarrationNext == NarrationInv /\ [Next]_vars => NarrationInv'
  BY NarrationBefore, NarrationAround, NarrationTask, NarrationStutter DEF Next

LEMMA NarrationInvariance == Spec => []NarrationInv
  BY NarrationInit, NarrationNext, PTL DEF Spec

(* Alone, a film never loses a line to its own haste: however its tasks    *)
(* interleave at the gate and come back to it, what it asks for at a time  *)
(* is within what the service takes (_generate_frame_audio).               *)
THEOREM NothingLostToHaste == Spec => []NoLineLostToHaste
<1>1. NarrationInv => NoLineLostToHaste
  BY DEF NarrationInv
<1> QED
  BY NarrationInvariance, <1>1, PTL

(* A film that is compiled has a clip for every frame and speaks all but   *)
(* MAX_SILENT_RATIO of them: the lines that are not spoken are among those *)
(* counted (_generate_frame_audio, generate_youtube_video).                *)
THEOREM FilmsSpeak == Spec => []EnoughIsSpoken
<1>1. ASSUME NarrationInv, phase \in Timed
      PROVE  LET lines == {f \in Frames : board[f].voiceover # 0}
             IN  /\ \A f \in Frames : clip[f] # 0
                 /\ 100 * Cardinality(lines \ spoken) <= MaxSilent * Len(board)
  <2> DEFINE lines == {f \in Frames : board[f].voiceover # 0}
  <2>1. \A f \in Frames : task[f] = "done" /\ DoneWell(f)
    BY <1>1 DEF NarrationInv, TaskInv, CountedInv
  <2>2. \A f \in Frames : clip[f] # 0
    BY <2>1 DEF DoneWell
  <2>3. lines \ spoken \in SUBSET silenced
    BY <2>1 DEF DoneWell
  <2>4. IsFiniteSet(silenced)
    BY <1>1, FramesType, FS_Subset DEF NarrationInv, TaskInv
  <2>5. /\ Cardinality(lines \ spoken) \in Nat /\ Cardinality(silenced) \in Nat
        /\ Cardinality(lines \ spoken) <= Cardinality(silenced)
    BY <2>3, <2>4, FS_Subset, FS_CardinalityType
  <2>6. 100 * Cardinality(silenced) <= MaxSilent * Len(board)
    BY <1>1 DEF NarrationInv, CountedInv
  <2>7. MaxSilent * Len(board) \in Nat
    BY <1>1, FramesType, FilmAssumption DEF NarrationInv
  <2>8. 100 * Cardinality(lines \ spoken) <= MaxSilent * Len(board)
    <3>1. \A a, b, c \in Nat : a <= b /\ 100 * b <= c => 100 * a <= c
      OBVIOUS
    <3> QED
      BY <2>5, <2>6, <2>7, <3>1
  <2> QED
    BY <2>2, <2>8
<1>2. NarrationInv => EnoughIsSpoken
  BY <1>1 DEF EnoughIsSpoken, Timed
<1> QED
  BY NarrationInvariance, <1>2, PTL

-----------------------------------------------------------------------------
(* The parser keeps the number of the frame being filled and a flag; what  *)
(* a frame should be is read off the whole text.  The two agree at the     *)
(* line to come because the last heading of the text is what current and   *)
(* inDirection remember.                                                   *)

Headings == LinesOf({"heading"})
Openers == LinesOf({"heading", "direction"})
Rank(h) == Cardinality({g \in Headings : g <= h})
Last == Opener(Len(text) + 1)

ReadingInv ==
    /\ TimelineInv
    /\ phase = "script" => direction = {} /\ ~inDirection
    /\ phase = "parse" =>
          /\ inDirection <=> Last \in LinesOf({"direction"})
          /\ current = IF Last \in Headings THEN Len(board) ELSE 0
    /\ ParsedAsWritten

Below == {pair \in Nat \X Nat : pair[1] < pair[2]}

LEMMA BelowWellFounded == IsWellFoundedOn(Below, Nat)
  BY NatLessThanWellFounded DEF OpToRel, Below

LEMMA SmallestOf ==
    ASSUME NEW S \in SUBSET Nat, S # {}
    PROVE  \E n \in S : \A m \in S : n <= m
<1>1. PICK n \in S : \A m \in S : ~(<<m, n>> \in Below)
  BY BelowWellFounded, WFMin
<1>2. \A m \in S : ~(m < n)
  BY <1>1 DEF Below
<1>3. \A m \in S : n <= m
  BY <1>2
<1> QED
  BY <1>3

LEMMA LargestOf ==
    ASSUME NEW n \in Nat, NEW S \in SUBSET (1..n), S # {}
    PROVE  \E m \in S : \A k \in S : k <= m
<1> DEFINE T == {n - k : k \in S}
<1>1. T \in SUBSET Nat /\ T # {}
  <2>1. \A k \in S : n - k \in Nat
    OBVIOUS
  <2> QED
    BY <2>1
<1>2. PICK x \in T : \A y \in T : x <= y
  BY <1>1, SmallestOf
<1>3. PICK m \in S : x = n - m
  BY <1>2
<1>4. \A k \in S : n - m <= n - k
  BY <1>2, <1>3
<1>5. \A k \in S : k <= m
  BY <1>4
<1> QED
  BY <1>5

(* The first of some lines.                                                *)
LEMMA FirstOfType ==
    ASSUME NEW n \in Nat, NEW S \in SUBSET (1..n)
    PROVE  /\ FirstOf(S) = 0 <=> S = {}
           /\ S # {} => FirstOf(S) \in S /\ \A m \in S : FirstOf(S) <= m
<1>1. CASE S = {}
  BY <1>1 DEF FirstOf
<1>2. CASE S # {}
  <2>0. S \in SUBSET Nat
    OBVIOUS
  <2>1. \E k \in S : \A m \in S : k <= m
    BY <1>2, <2>0, SmallestOf
  <2>2. FirstOf(S) = CHOOSE k \in S : \A m \in S : k <= m
    BY <1>2 DEF FirstOf
  <2>3. FirstOf(S) \in S /\ \A m \in S : FirstOf(S) <= m
    BY <2>1, <2>2
  <2>4. FirstOf(S) # 0
    BY <2>3
  <2> QED
    BY <1>2, <2>3, <2>4
<1> QED
  BY <1>1, <1>2

(* A line that comes after them all is the first only if it is alone.      *)
LEMMA FirstOfOneMore ==
    ASSUME NEW n \in Nat, NEW S \in SUBSET (1..n)
    PROVE  FirstOf(S \cup {n + 1}) = IF S = {} THEN n + 1 ELSE FirstOf(S)
<1> DEFINE T == S \cup {n + 1}
<1>1. n + 1 \in Nat /\ T \in SUBSET (1..(n + 1)) /\ T # {}
  OBVIOUS
<1>2. FirstOf(T) \in T /\ \A m \in T : FirstOf(T) <= m
  BY <1>1, FirstOfType
<1>3. CASE S = {}
  BY <1>2, <1>3
<1>4. CASE S # {}
  <2>1. FirstOf(S) \in S /\ \A m \in S : FirstOf(S) <= m
    BY <1>4, FirstOfType
  <2>2. FirstOf(S) \in 1..n /\ FirstOf(T) <= FirstOf(S)
    BY <1>2, <2>1
  <2>3. FirstOf(T) \in S
    BY <1>2, <2>2
  <2>4. FirstOf(T) \in 1..n /\ FirstOf(S) <= FirstOf(T)
    BY <2>1, <2>3
  <2>5. FirstOf(T) = FirstOf(S)
    <3> HIDE DEF T
    <3> QED
      BY <2>2, <2>4
  <2> QED
    BY <1>4, <2>5
<1> QED
  BY <1>3, <1>4

LEMMA LinesType ==
    ASSUME text \in Seq(Line), NEW kinds
    PROVE  /\ Len(text) \in Nat /\ LinesOf(kinds) \in SUBSET (1..Len(text))
           /\ IsFiniteSet(LinesOf(kinds)) /\ Cardinality(LinesOf(kinds)) \in Nat
<1>1. Len(text) \in Nat /\ LinesOf(kinds) \in SUBSET (1..Len(text))
  BY DEF LinesOf
<1>2. IsFiniteSet(1..Len(text))
  BY <1>1, FS_Interval
<1> QED
  BY <1>1, <1>2, FS_Subset, FS_CardinalityType

(* What opens a block comes before what is in it.                          *)
LEMMA OpenerType ==
    ASSUME text \in Seq(Line), NEW n \in Nat
    PROVE  /\ Opener(n) = 0 \/ Opener(n) \in Openers
           /\ Opener(n) \in Nat /\ (Opener(n) = 0 \/ Opener(n) < n)
           /\ \A m \in Openers : m < n => m <= Opener(n)
<1> DEFINE before == {m \in Openers : m < n}
<1>1. Len(text) \in Nat /\ Openers \in SUBSET (1..Len(text)) /\ before \in SUBSET (1..Len(text))
  BY LinesType DEF Openers
<1>2. Opener(n) = IF before = {} THEN 0 ELSE CHOOSE m \in before : \A k \in before : k <= m
  BY DEF Opener, Openers
<1>3. CASE before = {}
  BY <1>2, <1>3
<1>4. CASE before # {}
  <2>1. \E m \in before : \A k \in before : k <= m
    BY <1>1, <1>4, LargestOf
  <2>2. Opener(n) \in before /\ \A k \in before : k <= Opener(n)
    BY <1>2, <1>4, <2>1
  <2> QED
    BY <1>1, <2>2
<1> QED
  BY <1>3, <1>4

-----------------------------------------------------------------------------
(* One more line.                                                          *)

LEMMA OneMoreLine ==
    ASSUME text \in Seq(Line), NEW line \in Line, text' = Append(text, line)
    PROVE  /\ text' \in Seq(Line) /\ Len(text) \in Nat /\ Len(text') = Len(text) + 1
           /\ text'[Len(text) + 1] = line
           /\ \A m \in 1..Len(text) : text'[m] = text[m]
           /\ \A kinds : LinesOf(kinds)' =
                 LinesOf(kinds) \cup (IF line.kind \in kinds THEN {Len(text) + 1} ELSE {})
<1>1. /\ text' \in Seq(Line) /\ Len(text) \in Nat /\ Len(text') = Len(text) + 1
      /\ text'[Len(text) + 1] = line
      /\ \A m \in 1..Len(text) : text'[m] = text[m]
  OBVIOUS
<1>2. ASSUME NEW kinds
      PROVE  LinesOf(kinds)' =
                LinesOf(kinds) \cup (IF line.kind \in kinds THEN {Len(text) + 1} ELSE {})
  <2>1. LinesOf(kinds)' = {n \in 1..(Len(text) + 1) : text'[n].kind \in kinds}
    BY <1>1 DEF LinesOf
  <2>2. \A n : n \in 1..(Len(text) + 1) <=> n \in 1..Len(text) \/ n = Len(text) + 1
    BY <1>1
  <2> QED
    BY <1>1, <2>1, <2>2 DEF LinesOf
<1> QED
  BY <1>1, <1>2

(* The lines before it stay in their blocks.                               *)
LEMMA OpenerStays ==
    ASSUME text \in Seq(Line), NEW line \in Line, text' = Append(text, line),
           NEW m \in 1..(Len(text) + 1)
    PROVE  Opener(m)' = Opener(m)
<1> DEFINE before == {k \in Openers : k < m}
<1>1. Len(text) \in Nat /\ Openers \in SUBSET (1..Len(text))
  BY LinesType DEF Openers
<1>2. Openers' = Openers \cup (IF line.kind \in {"heading", "direction"} THEN {Len(text) + 1} ELSE {})
  BY OneMoreLine DEF Openers
<1>3. before' = before
  BY <1>1, <1>2
<1>4. Opener(m) = IF before = {} THEN 0 ELSE CHOOSE n \in before : \A k \in before : k <= n
  BY DEF Opener, Openers
<1>5. Opener(m)' = IF before' = {} THEN 0 ELSE CHOOSE n \in before' : \A k \in before' : k <= n
  BY DEF Opener, Openers
<1> HIDE DEF before
<1> QED
  BY <1>3, <1>4, <1>5

(* It goes to the block that is open, unless it opens one.                 *)
LEMMA BlockGrows ==
    ASSUME text \in Seq(Line), NEW line \in Line, text' = Append(text, line),
           NEW n \in Nat, n = Len(text) + 1
    PROVE  /\ \A h : Block(h)' = Block(h) \cup
                 (IF line.kind \notin {"heading", "direction"} /\ h = Last THEN {n} ELSE {})
           /\ Block(n)' = {}
           /\ \A h : Block(h) \in SUBSET (1..Len(text))
<1>1. Len(text) \in Nat /\ Openers \in SUBSET (1..Len(text)) /\ Len(text') = n /\ n \in 1..n
  BY LinesType, OneMoreLine DEF Openers
<1>2. Openers' = Openers \cup (IF line.kind \in {"heading", "direction"} THEN {n} ELSE {})
  BY OneMoreLine DEF Openers
<1>3. \A m \in 1..n : Opener(m)' = Opener(m)
  BY OpenerStays
<1>4. \A h : Block(h) = {m \in 1..Len(text) : m \notin Openers /\ Opener(m) = h}
  BY DEF Block, Openers
<1>5. \A h : Block(h)' = {m \in 1..n : m \notin Openers' /\ Opener(m)' = h}
  BY <1>1 DEF Block, Openers
<1>6. \A h : Block(h)' = {m \in 1..n : m \notin Openers' /\ Opener(m) = h}
  BY <1>3, <1>5
<1>7. Last = Opener(n)
  BY DEF Last
<1>8. ASSUME NEW m \in 1..n PROVE Opener(m) # n
  <2>1. m \in Nat /\ m <= n /\ n # 0
    BY <1>1
  <2>2. Opener(m) = 0 \/ Opener(m) < m
    BY <2>1, OpenerType
  <2>3. Opener(m) \in Nat
    BY <2>1, OpenerType
  <2> QED
    BY <2>1, <2>2, <2>3
<1>9. \A m : m \in 1..n <=> m \in 1..Len(text) \/ m = n
  BY <1>1
<1>10. n \notin 1..Len(text)
  BY <1>1
<1>11. ASSUME NEW h
       PROVE  Block(h)' = Block(h) \cup
                 (IF line.kind \notin {"heading", "direction"} /\ h = Last THEN {n} ELSE {})
  <2>1. Block(h)' = {m \in 1..n : m \notin Openers' /\ Opener(m) = h}
    BY <1>6
  <2>2. Block(h) = {m \in 1..Len(text) : m \notin Openers /\ Opener(m) = h}
    BY <1>4
  <2>3. CASE line.kind \in {"heading", "direction"}
    BY <1>1, <1>2, <1>9, <1>10, <2>1, <2>2, <2>3
  <2>4. CASE line.kind \notin {"heading", "direction"}
    <3>1. Openers' = Openers /\ n \notin Openers
      BY <1>1, <1>2, <1>10, <2>4
    <3>2. CASE h = Last
      BY <1>7, <1>9, <2>1, <2>2, <2>4, <3>1, <3>2
    <3>3. CASE h # Last
      BY <1>7, <1>9, <2>1, <2>2, <2>4, <3>1, <3>3
    <3> QED
      BY <3>2, <3>3
  <2> QED
    BY <2>3, <2>4
<1>12. Block(n)' = {}
  BY <1>6, <1>8
<1>13. \A h : Block(h) \in SUBSET (1..Len(text))
  BY <1>4
<1> QED
  BY <1>11, <1>12, <1>13

(* What is open for the line after it.                                     *)
LEMMA LastMoves ==
    ASSUME text \in Seq(Line), NEW line \in Line, text' = Append(text, line),
           NEW n \in Nat, n = Len(text) + 1
    PROVE  Last' = IF line.kind \in {"heading", "direction"} THEN n ELSE Last
<1>1. /\ text' \in Seq(Line) /\ Len(text) \in Nat /\ Len(text') = n
      /\ Openers \in SUBSET (1..Len(text))
  BY LinesType, OneMoreLine DEF Openers
<1>2. Openers' = Openers \cup (IF line.kind \in {"heading", "direction"} THEN {n} ELSE {})
  BY OneMoreLine DEF Openers
<1>3. Last' = Opener(n + 1)' /\ Last = Opener(n)
  BY <1>1 DEF Last
<1> DEFINE before == {k \in Openers : k < n}
           after == {k \in Openers' : k < n + 1}
<1>4. Opener(n) = IF before = {} THEN 0 ELSE CHOOSE m \in before : \A k \in before : k <= m
  BY DEF Opener, Openers
<1>5. Opener(n + 1)' = IF after = {} THEN 0 ELSE CHOOSE m \in after : \A k \in after : k <= m
  BY DEF Opener, Openers
<1>6. CASE line.kind \in {"heading", "direction"}
  <2>1. n \in after /\ \A k \in after : k <= n
    BY <1>1, <1>2, <1>6
  <2>2. Opener(n + 1)' \in after /\ \A k \in after : k <= Opener(n + 1)'
    BY <1>5, <2>1
  <2>3. \A k \in after : k \in Nat
    BY <1>1, <1>2, <1>6
  <2> HIDE DEF after
  <2>4. Opener(n + 1)' <= n /\ n <= Opener(n + 1)' /\ Opener(n + 1)' \in Nat
    BY <2>1, <2>2, <2>3
  <2>5. Opener(n + 1)' = n
    BY <1>1, <2>4
  <2> QED
    BY <1>3, <1>6, <2>5
<1>7. CASE line.kind \notin {"heading", "direction"}
  <2>0. \A k \in Openers : k \in Nat /\ k < n /\ k < n + 1
    BY <1>1
  <2>1. after = before
    BY <1>2, <1>7, <2>0
  <2> HIDE DEF after, before
  <2> QED
    BY <1>3, <1>4, <1>5, <1>7, <2>1
<1> QED
  BY <1>6, <1>7

Of(h, kind) == Block(h) \cap LinesOf({kind})

DeclaredBy(lines) == IF lines = {} THEN None ELSE text[FirstOf(lines)].ticks

LEMMA DescribedIs ==
    ASSUME NEW h
    PROVE  /\ Described(h) =
                 [voiceover |-> FirstOf(Of(h, "voiceover")), scene |-> FirstOf(Of(h, "scene")),
                  shots |-> Of(h, "shot"), declared |-> DeclaredBy(Of(h, "duration"))]
           /\ Described(h)' =
                 [voiceover |-> FirstOf(Of(h, "voiceover")'), scene |-> FirstOf(Of(h, "scene")'),
                  shots |-> Of(h, "shot")', declared |-> DeclaredBy(Of(h, "duration"))']
  BY DEF Described, Of, DeclaredBy

LEMMA OfGrows ==
    ASSUME text \in Seq(Line), NEW line \in Line, text' = Append(text, line),
           NEW n \in Nat, n = Len(text) + 1, NEW h, NEW kind, kind \notin {"heading", "direction"}
    PROVE  /\ Of(h, kind)' = Of(h, kind) \cup (IF line.kind = kind /\ h = Last THEN {n} ELSE {})
           /\ Of(h, kind) \in SUBSET (1..Len(text))
<1>1. Block(h)' = Block(h) \cup
         (IF line.kind \notin {"heading", "direction"} /\ h = Last THEN {n} ELSE {})
  BY BlockGrows
<1>2. LinesOf({kind})' = LinesOf({kind}) \cup (IF line.kind \in {kind} THEN {n} ELSE {})
  BY OneMoreLine
<1>3. Block(h) \in SUBSET (1..Len(text)) /\ LinesOf({kind}) \in SUBSET (1..Len(text))
  BY BlockGrows, LinesType
<1>4. n \notin 1..Len(text)
  BY LinesType
<1>5. n \notin Block(h) /\ n \notin LinesOf({kind})
  BY <1>3, <1>4
<1>6. Of(h, kind) = Block(h) \cap LinesOf({kind}) /\ Of(h, kind)' = Block(h)' \cap LinesOf({kind})'
  BY DEF Of
<1> QED
  BY <1>1, <1>2, <1>3, <1>5, <1>6

LEMMA DeclaredGrows ==
    ASSUME text \in Seq(Line), NEW line \in Line, text' = Append(text, line),
           NEW n \in Nat, n = Len(text) + 1, NEW h
    PROVE  DeclaredBy(Of(h, "duration"))' =
              IF line.kind = "duration" /\ h = Last /\ DeclaredBy(Of(h, "duration")) = None
              THEN line.ticks ELSE DeclaredBy(Of(h, "duration"))
<1> DEFINE D == Of(h, "duration")
<1>1. /\ Len(text) \in Nat /\ Len(text') = Len(text) + 1 /\ text'[n] = line
      /\ \A m \in 1..Len(text) : text'[m] = text[m]
  BY OneMoreLine
<1>2. D' = D \cup (IF line.kind = "duration" /\ h = Last THEN {n} ELSE {})
  BY OfGrows
<1>3. D \in SUBSET (1..Len(text))
  BY OfGrows
<1>4. D # {} => FirstOf(D) \in D
  BY <1>1, <1>3, FirstOfType
<1>5. D # {} => text'[FirstOf(D)] = text[FirstOf(D)]
  BY <1>1, <1>3, <1>4
<1>6. D # {} => DeclaredBy(D) # None
  <2>1. SUFFICES ASSUME D # {} PROVE text[FirstOf(D)].ticks # None
    BY DEF DeclaredBy
  <2>2. FirstOf(D) \in 1..Len(text) /\ text[FirstOf(D)].kind = "duration"
    BY <1>3, <1>4, <2>1 DEF Of, LinesOf
  <2>3. text[FirstOf(D)] \in Line
    BY <2>2
  <2>4. text[FirstOf(D)].ticks \in Declared
    BY <2>2, <2>3 DEF Line
  <2> QED
    BY <2>4, BoardAssumption
<1>7. D = {} => DeclaredBy(D) = None
  BY DEF DeclaredBy
<1>8. DeclaredBy(D)' = IF D' = {} THEN None ELSE text'[FirstOf(D')].ticks
  BY DEF DeclaredBy
<1>9. FirstOf(D \cup {n}) = IF D = {} THEN n ELSE FirstOf(D)
  BY <1>1, <1>3, FirstOfOneMore
<1>10. DeclaredBy(D) = IF D = {} THEN None ELSE text[FirstOf(D)].ticks
  BY DEF DeclaredBy
<1> HIDE DEF D
<1>11. CASE line.kind = "duration" /\ h = Last
  <2>1. D' = D \cup {n} /\ D' # {}
    BY <1>2, <1>11
  <2>2. DeclaredBy(D)' = IF D = {} THEN line.ticks ELSE text[FirstOf(D)].ticks
    BY <1>1, <1>5, <1>8, <1>9, <2>1
  <2>3. DeclaredBy(D)' = IF DeclaredBy(D) = None THEN line.ticks ELSE DeclaredBy(D)
    BY <1>6, <1>7, <1>10, <2>2
  <2> QED
    BY <1>11, <2>3 DEF D
<1>12. CASE ~(line.kind = "duration" /\ h = Last)
  <2>1. D' = D
    BY <1>2, <1>12
  <2>2. DeclaredBy(D)' = DeclaredBy(D)
    BY <1>5, <1>8, <1>10, <2>1
  <2> QED
    BY <1>12, <2>2 DEF D
<1> QED
  BY <1>11, <1>12

LEMMA FirstGrows ==
    ASSUME text \in Seq(Line), NEW line \in Line, text' = Append(text, line),
           NEW n \in Nat, n = Len(text) + 1, NEW h, NEW kind, kind \notin {"heading", "direction"}
    PROVE  FirstOf(Of(h, kind)') =
              IF line.kind = kind /\ h = Last /\ FirstOf(Of(h, kind)) = 0
              THEN n ELSE FirstOf(Of(h, kind))
<1> DEFINE D == Of(h, kind)
<1>1. Len(text) \in Nat /\ D \in SUBSET (1..Len(text))
  BY OfGrows, LinesType
<1>2. D' = D \cup (IF line.kind = kind /\ h = Last THEN {n} ELSE {})
  BY OfGrows
<1>3. FirstOf(D) = 0 <=> D = {}
  BY <1>1, FirstOfType
<1>4. FirstOf(D \cup {n}) = IF D = {} THEN n ELSE FirstOf(D)
  BY <1>1, FirstOfOneMore
<1> HIDE DEF D
<1>5. FirstOf(D') = IF line.kind = kind /\ h = Last /\ FirstOf(D) = 0 THEN n ELSE FirstOf(D)
  <2>1. CASE line.kind = kind /\ h = Last
    BY <1>2, <1>3, <1>4, <2>1
  <2>2. CASE ~(line.kind = kind /\ h = Last)
    <3>1. D' = D
      BY <1>2, <2>2
    <3> QED
      BY <2>2, <3>1
  <2> QED
    BY <2>1, <2>2
<1> QED
  BY <1>5 DEF D

LEMMA ShotFilled ==
    ASSUME NEW v, NEW s, NEW b, NEW d, NEW n, NEW line, line.kind = "shot"
    PROVE  Filled([voiceover |-> v, scene |-> s, shots |-> b, declared |-> d], line, n) =
              [voiceover |-> v, scene |-> s, shots |-> b \cup {n}, declared |-> d]
  BY DEF Filled

(* The description of a frame follows the text as the parser fills it.     *)
LEMMA DescribedGrows ==
    ASSUME text \in Seq(Line), NEW line \in Line, text' = Append(text, line),
           NEW n \in Nat, n = Len(text) + 1, NEW h
    PROVE  Described(h)' =
              IF line.kind \notin {"heading", "direction"} /\ h = Last
              THEN Filled(Described(h), line, n) ELSE Described(h)
<1> DEFINE v == FirstOf(Of(h, "voiceover"))
           s == FirstOf(Of(h, "scene"))
           b == Of(h, "shot")
           d == DeclaredBy(Of(h, "duration"))
<1>1. v' = IF line.kind = "voiceover" /\ h = Last /\ v = 0 THEN n ELSE v
  BY FirstGrows
<1>2. s' = IF line.kind = "scene" /\ h = Last /\ s = 0 THEN n ELSE s
  BY FirstGrows
<1>3. b' = b \cup (IF line.kind = "shot" /\ h = Last THEN {n} ELSE {})
  BY OfGrows
<1>4. d' = IF line.kind = "duration" /\ h = Last /\ d = None THEN line.ticks ELSE d
  BY DeclaredGrows
<1>5. Described(h) = [voiceover |-> v, scene |-> s, shots |-> b, declared |-> d]
  BY DescribedIs
<1>6. Described(h)' = [voiceover |-> v', scene |-> s', shots |-> b', declared |-> d']
  BY DescribedIs
<1> HIDE DEF v, s, b, d
<1>7. CASE h # Last
  BY <1>1, <1>2, <1>3, <1>4, <1>5, <1>6, <1>7
<1>8. CASE h = Last
  <2>1. CASE line.kind = "shot"
    <3>1. v' = v /\ s' = s /\ d' = d /\ b' = b \cup {n}
      BY <1>1, <1>2, <1>3, <1>4, <1>8, <2>1
    <3>3. Filled(Described(h), line, n) =
             [voiceover |-> v, scene |-> s, shots |-> b \cup {n}, declared |-> d]
      <4>1. Filled([voiceover |-> v, scene |-> s, shots |-> b, declared |-> d], line, n) =
               [voiceover |-> v, scene |-> s, shots |-> b \cup {n}, declared |-> d]
        BY <2>1, ShotFilled
      <4> QED
        BY <1>5, <4>1
    <3> QED
      BY <1>6, <1>8, <2>1, <3>1, <3>3
  <2>2. CASE line.kind = "voiceover"
    BY <1>1, <1>2, <1>3, <1>4, <1>5, <1>6, <1>8, <2>2 DEF Filled
  <2>3. CASE line.kind = "scene"
    BY <1>1, <1>2, <1>3, <1>4, <1>5, <1>6, <1>8, <2>3 DEF Filled
  <2>4. CASE line.kind = "duration"
    BY <1>1, <1>2, <1>3, <1>4, <1>5, <1>6, <1>8, <2>4 DEF Filled
  <2>5. CASE line.kind \notin {"shot", "voiceover", "scene", "duration"}
    BY <1>1, <1>2, <1>3, <1>4, <1>5, <1>6, <1>8, <2>5 DEF Filled
  <2> QED
    BY <2>1, <2>2, <2>3, <2>4, <2>5
<1> QED
  BY <1>7, <1>8

-----------------------------------------------------------------------------
(* The steps of the parser.                                                *)

LEMMA RankType ==
    ASSUME text \in Seq(Line), NEW h \in Headings
    PROVE  /\ Rank(h) \in 1..Cardinality(Headings) /\ Cardinality(Headings) \in Nat
           /\ (\A g \in Headings : g <= h) => Rank(h) = Cardinality(Headings)
           /\ \A m \in Headings : ~(m <= h) => Rank(h) # Cardinality(Headings)
<1> DEFINE upTo == {g \in Headings : g <= h}
<1>1. /\ Headings \in SUBSET (1..Len(text)) /\ Len(text) \in Nat
      /\ IsFiniteSet(Headings) /\ Cardinality(Headings) \in Nat
  BY LinesType DEF Headings
<1>2. upTo \in SUBSET Headings /\ h \in upTo
  BY <1>1
<1>3. IsFiniteSet(upTo) /\ Cardinality(upTo) \in Nat
  BY <1>1, <1>2, FS_Subset, FS_CardinalityType
<1>4. /\ Cardinality(upTo) <= Cardinality(Headings)
      /\ Cardinality(Headings) = Cardinality(upTo) => Headings = upTo
  BY <1>1, <1>2, FS_Subset
<1>5. Cardinality(upTo) # 0
  BY <1>2, <1>3, FS_EmptySet
<1>6. Rank(h) = Cardinality(upTo)
  BY DEF Rank
<1>7. (\A g \in Headings : g <= h) => upTo = Headings
  OBVIOUS
<1>8. \A m \in Headings : ~(m <= h) => upTo # Headings
  OBVIOUS
<1> HIDE DEF upTo
<1> QED
  BY <1>1, <1>3, <1>4, <1>5, <1>6, <1>7, <1>8

(* A line that is no heading leaves the headings and their ranks alone; a  *)
(* heading adds itself at the end.                                         *)
LEMMA HeadingsGrow ==
    ASSUME text \in Seq(Line), NEW line \in Line, text' = Append(text, line),
           NEW n \in Nat, n = Len(text) + 1
    PROVE  /\ line.kind # "heading" =>
                 Headings' = Headings /\ \A h : Rank(h)' = Rank(h)
           /\ line.kind = "heading" =>
                 /\ Headings' = Headings \cup {n} /\ n \notin Headings
                 /\ Cardinality(Headings') = Cardinality(Headings) + 1
                 /\ Rank(n)' = Cardinality(Headings')
                 /\ \A h \in Headings : Rank(h)' = Rank(h)
<1>1. /\ Headings \in SUBSET (1..Len(text)) /\ Len(text) \in Nat
      /\ IsFiniteSet(Headings)
  BY LinesType DEF Headings
<1>2. Headings' = Headings \cup (IF line.kind \in {"heading"} THEN {n} ELSE {})
  BY OneMoreLine DEF Headings
<1>3. n \notin Headings
  BY <1>1
<1>4. \A h : Rank(h) = Cardinality({g \in Headings : g <= h})
  BY DEF Rank
<1>5. \A h : Rank(h)' = Cardinality({g \in Headings' : g <= h})
  BY DEF Rank
<1>6. CASE line.kind # "heading"
  <2>1. Headings' = Headings
    BY <1>2, <1>6
  <2> QED
    BY <1>4, <1>5, <1>6, <2>1
<1>7. CASE line.kind = "heading"
  <2>1. Headings' = Headings \cup {n}
    BY <1>2, <1>7
  <2>2. Cardinality(Headings') = Cardinality(Headings) + 1
    BY <1>1, <1>3, <2>1, FS_AddElement
  <2>3. {g \in Headings' : g <= n} = Headings'
    <3>1. \A g \in Headings : g <= n
      BY <1>1
    <3>2. \A g \in Headings' : g <= n
      BY <2>1, <3>1
    <3> QED
      BY <3>2
  <2>4. ASSUME NEW h \in Headings PROVE Rank(h)' = Rank(h)
    <3>1. {g \in Headings' : g <= h} = {g \in Headings : g <= h}
      BY <1>1, <2>1
    <3> QED
      BY <1>4, <1>5, <3>1
  <2>5. Rank(n)' = Cardinality(Headings')
    BY <1>5, <2>3
  <2> QED
    BY <1>3, <1>7, <2>1, <2>2, <2>4, <2>5
<1> QED
  BY <1>6, <1>7

(* What ReadingInv says while the script is parsed.                        *)
InText ==
    /\ inDirection <=> Last \in LinesOf({"direction"})
    /\ current = IF Last \in Headings THEN Len(board) ELSE 0
    /\ Len(board) = Cardinality(Headings)
    /\ \A h \in Headings : board[Rank(h)] = Described(h)
    /\ direction = UNION {Block(h) : h \in LinesOf({"direction"})}

LEMMA InTextIs == ReadingInv /\ phase = "parse" => InText
  BY DEF ReadingInv, ParsedAsWritten, InText, Headings, Rank

LEMMA InTextSuffices ==
    TimelineInv' /\ (phase' = "script" => direction' = {} /\ ~inDirection')
                 /\ (phase' = "parse" => InText') => ReadingInv'
  BY DEF ReadingInv, ParsedAsWritten, InText, Headings, Rank

LEMMA HeadingRead ==
    ASSUME TimelineInv, InText, NEW line \in Line, ReadHeading(line)
    PROVE  InText'
<1>1. /\ text \in Seq(Line) /\ text' = Append(text, line) /\ line.kind = "heading"
      /\ board \in Seq(Frame) /\ Len(text) \in Nat
  BY DEF ReadHeading, Read, TimelineInv, ReadInv
<1> PICK n \in Nat : n = Len(text) + 1
  BY <1>1
<1>2. Last' = n
  BY <1>1, LastMoves
<1>3. /\ Headings' = Headings \cup {n} /\ n \notin Headings
      /\ Cardinality(Headings') = Cardinality(Headings) + 1
      /\ Rank(n)' = Cardinality(Headings') /\ \A h \in Headings : Rank(h)' = Rank(h)
  BY <1>1, HeadingsGrow
<1>4. LinesOf({"direction"})' = LinesOf({"direction"}) /\ n \notin LinesOf({"direction"})
  <2>1. LinesOf({"direction"}) \in SUBSET (1..Len(text))
    BY <1>1, LinesType
  <2>2. LinesOf({"direction"})' =
           LinesOf({"direction"}) \cup (IF line.kind \in {"direction"} THEN {n} ELSE {})
    BY <1>1, OneMoreLine
  <2>3. line.kind \notin {"direction"} /\ n \notin 1..Len(text)
    BY <1>1
  <2>4. n \notin LinesOf({"direction"})
    BY <2>1, <2>3
  <2>5. LinesOf({"direction"})' = LinesOf({"direction"})
    BY <2>2, <2>3
  <2> QED
    BY <2>4, <2>5
<1>5. /\ board' = Append(board, Blank) /\ current' = Len(board) + 1 /\ ~inDirection'
      /\ direction' = direction
  BY DEF ReadHeading
<1>6. /\ Len(board) \in Nat /\ Len(board') = Len(board) + 1 /\ board'[Len(board) + 1] = Blank
      /\ \A m \in 1..Len(board) : board'[m] = board[m]
  BY <1>1, <1>5
<1>7. \A h : Described(h)' = Described(h)
  BY <1>1, DescribedGrows
<1>8. ASSUME NEW h PROVE Block(h)' = Block(h)
  <2>1. Block(h)' = Block(h) \cup
           (IF line.kind \notin {"heading", "direction"} /\ h = Last THEN {n} ELSE {})
    BY <1>1, BlockGrows
  <2> QED
    BY <1>1, <2>1
<1>9. Described(n)' = Blank
  <2>1. Block(n)' = {}
    BY <1>1, BlockGrows
  <2>2. \A kind : Of(n, kind)' = {}
    BY <2>1 DEF Of
  <2>3. FirstOf({}) = 0 /\ DeclaredBy(Of(n, "duration"))' = None
    BY <2>2 DEF FirstOf, DeclaredBy
  <2> QED
    BY <2>2, <2>3, DescribedIs DEF Blank
<1>10. ASSUME NEW h \in Headings' PROVE board'[Rank(h)'] = Described(h)'
  <2>1. CASE h = n
    BY <1>3, <1>6, <1>9, <2>1 DEF InText
  <2>2. CASE h # n
    <3>1. h \in Headings
      BY <1>3, <2>2
    <3>2. Rank(h) \in 1..Len(board)
      BY <1>1, <3>1, RankType DEF InText
    <3>3. board[Rank(h)] = Described(h)
      BY <3>1 DEF InText
    <3> QED
      BY <1>3, <1>6, <1>7, <3>1, <3>2, <3>3
  <2> QED
    BY <2>1, <2>2
<1>11. direction' = UNION {Block(h)' : h \in LinesOf({"direction"})'}
  BY <1>4, <1>5, <1>8 DEF InText
<1>12. Len(board') = Cardinality(Headings')
  BY <1>3, <1>6 DEF InText
<1>13. current' = IF Last' \in Headings' THEN Len(board') ELSE 0
  BY <1>2, <1>3, <1>5, <1>6
<1>14. inDirection' <=> Last' \in LinesOf({"direction"})'
  BY <1>2, <1>4, <1>5
<1> QED
  BY <1>10, <1>11, <1>12, <1>13, <1>14 DEF InText

LEMMA DirectionRead ==
    ASSUME TimelineInv, InText, NEW line \in Line, ReadDirection(line)
    PROVE  InText'
<1>1. /\ text \in Seq(Line) /\ text' = Append(text, line) /\ line.kind = "direction"
      /\ Len(text) \in Nat
  BY DEF ReadDirection, Read, TimelineInv, ReadInv
<1> PICK n \in Nat : n = Len(text) + 1
  BY <1>1
<1>2. Last' = n
  BY <1>1, LastMoves
<1>3. Headings' = Headings /\ \A h : Rank(h)' = Rank(h)
  BY <1>1, HeadingsGrow
<1>4. LinesOf({"direction"})' = LinesOf({"direction"}) \cup {n}
  BY <1>1, OneMoreLine
<1>5. board' = board /\ current' = 0 /\ inDirection' /\ direction' = direction
  BY DEF ReadDirection
<1>6. \A h : Described(h)' = Described(h)
  BY <1>1, DescribedGrows
<1>7. (\A h : Block(h)' = Block(h)) /\ Block(n)' = {}
  <2>1. ASSUME NEW h PROVE Block(h)' = Block(h)
    <3>1. Block(h)' = Block(h) \cup
             (IF line.kind \notin {"heading", "direction"} /\ h = Last THEN {n} ELSE {})
      BY <1>1, BlockGrows
    <3> QED
      BY <1>1, <3>1
  <2>2. Block(n)' = {}
    BY <1>1, BlockGrows
  <2> QED
    BY <2>1, <2>2
<1>8. n \notin Headings
  <2>1. Headings \in SUBSET (1..Len(text))
    BY <1>1, LinesType DEF Headings
  <2> QED
    BY <1>1, <2>1
<1>9. direction' = UNION {Block(h)' : h \in LinesOf({"direction"})'}
  BY <1>4, <1>5, <1>7 DEF InText
<1>10. \A h \in Headings' : board'[Rank(h)'] = Described(h)'
  BY <1>3, <1>5, <1>6 DEF InText
<1>11. current' = IF Last' \in Headings' THEN Len(board') ELSE 0
  BY <1>2, <1>3, <1>5, <1>8
<1>12. inDirection' <=> Last' \in LinesOf({"direction"})'
  BY <1>2, <1>4, <1>5
<1> QED
  BY <1>3, <1>5, <1>9, <1>10, <1>11, <1>12 DEF InText

(* A line of a block: the openers stay as they are.                        *)
LEMMA InsideABlock ==
    ASSUME text \in Seq(Line), NEW line \in Line, text' = Append(text, line),
           line.kind \notin {"heading", "direction"}, NEW n \in Nat, n = Len(text) + 1
    PROVE  /\ Last' = Last /\ Headings' = Headings /\ \A h : Rank(h)' = Rank(h)
           /\ LinesOf({"direction"})' = LinesOf({"direction"})
           /\ \A h : Block(h)' = Block(h) \cup (IF h = Last THEN {n} ELSE {})
           /\ \A h : Described(h)' =
                 IF h = Last THEN Filled(Described(h), line, n) ELSE Described(h)
<1>1. Last' = Last
  BY LastMoves
<1>2. Headings' = Headings /\ \A h : Rank(h)' = Rank(h)
  BY HeadingsGrow
<1>3. LinesOf({"direction"})' = LinesOf({"direction"})
  <2>1. LinesOf({"direction"})' =
           LinesOf({"direction"}) \cup (IF line.kind \in {"direction"} THEN {n} ELSE {})
    BY OneMoreLine
  <2> QED
    BY <2>1
<1>4. \A h : Block(h)' = Block(h) \cup (IF h = Last THEN {n} ELSE {})
  BY BlockGrows
<1>5. \A h : Described(h)' =
         IF h = Last THEN Filled(Described(h), line, n) ELSE Described(h)
  BY DescribedGrows
<1> QED
  BY <1>1, <1>2, <1>3, <1>4, <1>5

LEMMA OutsideRead ==
    ASSUME TimelineInv, InText, phase = "parse", NEW line \in Line, ReadOutside(line)
    PROVE  InText'
<1>1. /\ text \in Seq(Line) /\ text' = Append(text, line) /\ Len(text) \in Nat
      /\ line.kind \notin {"heading", "direction"} /\ current = 0
      /\ UNCHANGED <<current, inDirection, board>>
  BY DEF ReadOutside, Read, TimelineInv, ReadInv
<1> PICK n \in Nat : n = Len(text) + 1
  BY <1>1
<1> DEFINE Dirs == LinesOf({"direction"})
<1>2. /\ Last' = Last /\ Headings' = Headings /\ (\A h : Rank(h)' = Rank(h)) /\ Dirs' = Dirs
      /\ \A h : Block(h)' = Block(h) \cup (IF h = Last THEN {n} ELSE {})
      /\ \A h : Described(h)' =
            IF h = Last THEN Filled(Described(h), line, n) ELSE Described(h)
  BY <1>1, InsideABlock
<1>3. Last \notin Headings
  <2>1. SUFFICES ASSUME Last \in Headings PROVE FALSE
    OBVIOUS
  <2>2. Rank(Last) \in 1..Len(board)
    BY <1>1, <2>1, RankType DEF InText
  <2>3. Len(board) = 0
    BY <1>1, <2>1 DEF InText
  <2> QED
    BY <2>2, <2>3
<1>4. \A h \in Headings' : board'[Rank(h)'] = Described(h)'
  BY <1>1, <1>2, <1>3 DEF InText
<1>5. direction' = IF inDirection THEN direction \cup {n} ELSE direction
  BY DEF ReadOutside
<1>6. direction = UNION {Block(h) : h \in Dirs} /\ (inDirection <=> Last \in Dirs)
  BY DEF InText
<1> HIDE DEF Dirs
<1>7. direction' = UNION {Block(h)' : h \in Dirs'}
  <2>1. CASE Last \in Dirs
    BY <1>2, <1>5, <1>6, <2>1
  <2>2. CASE Last \notin Dirs
    BY <1>2, <1>5, <1>6, <2>2
  <2> QED
    BY <2>1, <2>2
<1> QED
  BY <1>1, <1>2, <1>4, <1>7 DEF InText, Dirs

LEMMA FieldRead ==
    ASSUME TimelineInv, InText, phase = "parse", NEW line \in Line, ReadField(line)
    PROVE  InText'
<1>1. /\ text \in Seq(Line) /\ text' = Append(text, line) /\ Len(text) \in Nat
      /\ line.kind \notin {"heading", "direction"} /\ current # 0
      /\ board \in Seq(Frame) /\ UNCHANGED <<current, inDirection, direction>>
  BY DEF ReadField, Read, TimelineInv, ReadInv
<1> PICK n \in Nat : n = Len(text) + 1
  BY <1>1
<1> DEFINE Dirs == LinesOf({"direction"})
<1>2. /\ Last' = Last /\ Headings' = Headings /\ (\A h : Rank(h)' = Rank(h)) /\ Dirs' = Dirs
      /\ \A h : Block(h)' = Block(h) \cup (IF h = Last THEN {n} ELSE {})
      /\ \A h : Described(h)' =
            IF h = Last THEN Filled(Described(h), line, n) ELSE Described(h)
  BY <1>1, InsideABlock
<1>3. Last \in Headings /\ current = Len(board) /\ Len(board) = Cardinality(Headings)
  BY <1>1 DEF InText
<1>4. Last \notin Dirs
  BY <1>3 DEF Dirs, Headings, LinesOf
<1>5. /\ current \in 1..Len(board)
      /\ board' = [board EXCEPT ![current] = Filled(board[current], line, n)]
  <2>1. Rank(Last) \in 1..Len(board)
    BY <1>1, <1>3, RankType
  <2> QED
    BY <1>1, <1>3, <2>1 DEF ReadField
<1>6. /\ Len(board') = Len(board) /\ board'[current] = Filled(board[current], line, n)
      /\ \A m \in 1..Len(board) : m # current => board'[m] = board[m]
  BY <1>1, <1>5
<1>7. \A h \in Headings : h <= Last
  <2>1. \A h \in Headings : h \in Openers /\ h < Len(text) + 1
    BY <1>1 DEF Headings, Openers, LinesOf
  <2> QED
    BY <1>1, <2>1, OpenerType DEF Last
<1>8. Rank(Last) = current
  BY <1>1, <1>3, <1>7, RankType
<1>9. ASSUME NEW h \in Headings, h # Last
      PROVE  Rank(h) # current /\ Rank(h) \in 1..Len(board)
  <2>1. Last \in Nat /\ h \in Nat /\ h <= Last
    BY <1>1, <1>3, <1>7, LinesType DEF Headings
  <2>2. ~(Last <= h)
    BY <1>9, <2>1
  <2> QED
    BY <1>1, <1>3, <2>2, RankType
<1>10. \A h \in Headings' : board'[Rank(h)'] = Described(h)'
  <2>1. board'[Rank(Last)'] = Described(Last)'
    BY <1>2, <1>3, <1>6, <1>8 DEF InText
  <2>2. ASSUME NEW h \in Headings, h # Last PROVE board'[Rank(h)'] = Described(h)'
    BY <1>2, <1>6, <1>9, <2>2 DEF InText
  <2> QED
    BY <1>2, <2>1, <2>2
<1>11. direction = UNION {Block(h) : h \in Dirs}
  BY DEF InText
<1> HIDE DEF Dirs
<1>12. direction' = UNION {Block(h)' : h \in Dirs'}
  <2>1. \A h \in Dirs : Block(h)' = Block(h)
    BY <1>2, <1>4
  <2> QED
    BY <1>1, <1>2, <1>11, <2>1
<1> QED
  BY <1>1, <1>2, <1>3, <1>6, <1>10, <1>12 DEF InText, Dirs

LEMMA ReadingInit == Init => ReadingInv
  BY InitInv DEF Init, BoardInit, ReadingInv, ParsedAsWritten

LEMMA ReadingNext == ReadingInv /\ [Next]_vars => ReadingInv'
<1> SUFFICES ASSUME ReadingInv, [Next]_vars PROVE ReadingInv'
  OBVIOUS
<1>1. TimelineInv /\ TimelineInv'
  BY NextInv DEF ReadingInv
<1>2. CASE \E line \in Line :
              ReadHeading(line) \/ ReadDirection(line) \/ ReadOutside(line) \/ ReadField(line)
  <2>1. phase = "parse" /\ phase' = "parse"
    BY <1>2 DEF ReadHeading, ReadDirection, ReadOutside, ReadField, Read
  <2>2. InText
    BY <2>1, InTextIs
  <2>3. InText'
    BY <1>1, <1>2, <2>1, <2>2, HeadingRead, DirectionRead, OutsideRead, FieldRead
  <2> QED
    BY <1>1, <2>1, <2>3, InTextSuffices
<1>3. CASE EndOfText("narrate")
  BY <1>1, <1>3, InTextSuffices DEF EndOfText
<1>4. CASE CallAnswered
  <2>1. /\ text' = <<>> /\ board' = <<>> /\ direction' = {} /\ ~inDirection' /\ current' = 0
    BY <1>1, <1>4 DEF CallAnswered, ReadingInv, TimelineInv, ReadInv, parseVars
  <2>2. \A kinds : LinesOf(kinds)' = {}
    BY <2>1 DEF LinesOf
  <2>3. InText'
    BY <2>1, <2>2, FS_EmptySet DEF InText, Headings
  <2> QED
    BY <1>1, <1>4, <2>3, InTextSuffices DEF CallAnswered
<1>5. CASE \/ CallOverloaded \/ Abort \/ (\E f \in Frames : TaskStep(f)) \/ Other \/ Narrated
           \/ Compile \/ UNCHANGED vars
  <2>1. UNCHANGED parseVars
    BY <1>5
    DEF CallOverloaded, Abort, TaskStep, Mute, Speak, Spoken, TurnedAway, PauseOver, Refused,
        Other, Narrated, Compile, Measure, AllMeasured, Place, Emit, vars, boardVars
  <2>2. phase' = phase \/ phase' \notin {"script", "parse"}
    BY <1>5
    DEF CallOverloaded, Abort, TaskStep, Mute, Speak, Spoken, TurnedAway, PauseOver, Refused,
        Other, Narrated, Compile, Measure, AllMeasured, Place, Emit, vars, boardVars
  <2>3. CASE phase' = phase
    <3>1. ParsedAsWritten'
      <4>1. text' = text /\ board' = board /\ direction' = direction
        BY <2>1 DEF parseVars
      <4>2. \A kinds : LinesOf(kinds)' = LinesOf(kinds)
        BY <4>1 DEF LinesOf
      <4>3. ASSUME NEW m PROVE Opener(m)' = Opener(m)
        <5> DEFINE before == {k \in Openers : k < m}
        <5>1. Opener(m) = IF before = {} THEN 0 ELSE CHOOSE k \in before : \A l \in before : l <= k
          BY DEF Opener, Openers
        <5>2. Opener(m)' =
                 IF before' = {} THEN 0 ELSE CHOOSE k \in before' : \A l \in before' : l <= k
          BY DEF Opener, Openers
        <5>3. before' = before
          BY <4>2 DEF Openers
        <5> HIDE DEF before
        <5> QED
          BY <5>1, <5>2, <5>3
      <4>4. \A h : Block(h)' = Block(h)
        BY <4>1, <4>2, <4>3 DEF Block
      <4>5. \A h : Described(h)' = Described(h)
        BY <4>1, <4>2, <4>4 DEF Described
      <4> QED
        BY <2>3, <4>1, <4>2, <4>4, <4>5 DEF ReadingInv, ParsedAsWritten
    <3> QED
      BY <1>1, <2>1, <2>3, <3>1 DEF ReadingInv, parseVars, Last, Opener, Headings, LinesOf
  <2>4. CASE phase' \notin {"script", "parse"}
    BY <1>1, <2>4, InTextSuffices
  <2> QED
    BY <2>2, <2>3, <2>4
<1> QED
  BY <1>2, <1>3, <1>4, <1>5 DEF Next, Parse

LEMMA ReadingInvariance == Spec => []ReadingInv
  BY ReadingInit, ReadingNext, PTL DEF Spec

(* At every line of any script the frames are its headings so far, in      *)
(* their order, each filled from its own block alone and from the first    *)
(* line of a kind, and the direction is what stands under a direction      *)
(* heading (parse_storyboard).                                             *)
THEOREM ReadAsWritten == Spec => []ParsedAsWritten
<1>1. ReadingInv => ParsedAsWritten
  BY DEF ReadingInv
<1> QED
  BY ReadingInvariance, <1>1, PTL
=============================================================================
