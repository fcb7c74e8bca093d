------------------------------- MODULE ShotLoop -------------------------------
(***************************************************************************)
(* The frames of a 3D film (worker/app/scene3d/backend.py): one world, then*)
(* frame after frame a shot is authored, written, looked at in a browser   *)
(* and either accepted or rejected, with the reason told to the next       *)
(* attempt.                                                                *)
(*                                                                         *)
(* A picture is what a probe's perceptual hash tells apart; which pairs    *)
(* are distinct is a parameter, as being alike is not transitive and an    *)
(* unreadable hash is distinct from nothing, itself included.              *)
(***************************************************************************)
EXTENDS Naturals, FiniteSets, Sequences

CONSTANTS
    MaxFrames,    \* bound on the frames of a board
    Picture,
    Distinct,     \* pairs of pictures more than MAX_HAMMING_FOR_IDENTICAL apart
    Defect,       \* reasons of verify_shot: a runtime error, too dark, too flat
    NoReason,
    ShotRetries   \* SHOT_RETRIES

ASSUME ShotAssumption ==
    /\ MaxFrames \in Nat /\ ShotRetries \in Nat
    /\ \A pair \in Distinct : pair \subseteq Picture /\ Cardinality(pair) = 2
    /\ NoReason \notin Defect \cup {"static", "repeats"}

VARIABLES
    build,      \* where _build_frames is
    page,       \* the frame files of the board, by position
    failed,     \* the slugs to return
    at,         \* the frame being made
    attempt,    \* rejections of its shots so far
    feedback,   \* last_error
    middle      \* middle probes of the accepted shots, by position

shotVars == <<attempt, feedback, middle>>
buildVars == <<build, page, failed, at, shotVars>>

BuildInit ==
    /\ build = "idle" /\ page = <<>> /\ failed = {} /\ at = 0
    /\ attempt = 0 /\ feedback = NoReason /\ middle = <<>>

AreDistinct(a, b) == {a, b} \in Distinct
Max0(S) == IF S = {} THEN 0 ELSE CHOOSE m \in S : \A k \in S : k <= m
LastAccepted == Max0({f \in DOMAIN page : page[f] = "real"})

-----------------------------------------------------------------------------
(* Calls of the model retry what is transient and then raise, as does a    *)
(* response that is no usable code; the build does not catch it.           *)
BuildRaises ==
    /\ build \in {"world", "author", "verify"}
    /\ build' = "raised"
    /\ UNCHANGED <<page, failed, at, shotVars>>

World ==
    /\ build = "world"
    /\ build' = IF page = <<>> THEN "returned" ELSE "author"
    /\ at' = 1
    /\ UNCHANGED <<page, failed, shotVars>>

AuthorShot ==
    /\ build = "author"
    /\ page' = [page EXCEPT ![at] = "candidate"]
    /\ build' = "verify"
    /\ UNCHANGED <<failed, at, shotVars>>

\* mutant: the reason is not forgotten between frames
NextFrameKeepsTheReason ==
    /\ build' = IF at = Len(page) THEN "returned" ELSE "author"
    /\ at' = at + 1
    /\ attempt' = 0
    /\ UNCHANGED feedback

NextFrame ==
    /\ build' = IF at = Len(page) THEN "returned" ELSE "author"
    /\ at' = at + 1
    /\ attempt' = 0 /\ feedback' = NoReason

Accept(picture) ==
    /\ page' = [page EXCEPT ![at] = "real"]
    /\ middle' = [middle EXCEPT ![at] = picture]
    /\ NextFrame
    /\ UNCHANGED failed

\* mutant: the rejected shot stays where it is
GiveUpLeavesTheShot ==
    /\ failed' = failed \cup {at}
    /\ NextFrame
    /\ UNCHANGED <<page, middle>>

(* "Deliberately leave nothing behind."                                    *)
GiveUp ==
    /\ page' = [page EXCEPT ![at] = "absent"]
    /\ failed' = failed \cup {at}
    /\ NextFrame
    /\ UNCHANGED middle

\* mutant: a shot is tried until one passes
RejectForEver(reason) ==
    /\ feedback' = reason
    /\ attempt' = IF attempt < ShotRetries THEN attempt + 1 ELSE attempt
    /\ build' = "author"
    /\ UNCHANGED <<page, failed, at, middle>>

Reject(reason) ==
    IF attempt < ShotRetries
    THEN /\ attempt' = attempt + 1 /\ feedback' = reason
         /\ build' = "author"
         /\ UNCHANGED <<page, failed, at, middle>>
    ELSE GiveUp

\* mutant: the first probe is compared, the middle one is kept
JudgeTheFirst(probes) ==
    IF ~AreDistinct(probes[1], probes[3]) THEN Reject("static")
    ELSE IF LastAccepted # 0 /\ ~AreDistinct(middle[LastAccepted], probes[1]) THEN Reject("repeats")
    ELSE Accept(probes[2])

(* judge_shot on a shot that is lit, then the comparison with the shot     *)
(* accepted last, over any frame given up in between.                      *)
Judge(probes) ==
    IF ~AreDistinct(probes[1], probes[3]) THEN Reject("static")
    ELSE IF LastAccepted # 0 /\ ~AreDistinct(middle[LastAccepted], probes[2]) THEN Reject("repeats")
    ELSE Accept(probes[2])

VerifyShot ==
    /\ build = "verify"
    /\ \/ \E reason \in Defect : Reject(reason)
       \/ \E probes \in [1..3 -> Picture] : Judge(probes)

ShotStep == BuildRaises \/ World \/ AuthorShot \/ VerifyShot

-----------------------------------------------------------------------------
(* Two shots that follow each other on the screen never look alike, and a  *)
(* picture that cannot be read is never taken for another one              *)
(* (frames_are_distinct on accepted_probes[-1]).                           *)
ShotsDiffer ==
    \A f, g \in DOMAIN middle :
        /\ f < g /\ page[f] = "real" /\ page[g] = "real" /\ {middle[f], middle[g]} \subseteq Picture
        /\ \A h \in DOMAIN page : f < h /\ h < g => page[h] # "real"
        => AreDistinct(middle[f], middle[g])
=============================================================================
