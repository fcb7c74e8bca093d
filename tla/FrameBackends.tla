---------------------------- MODULE FrameBackends ----------------------------
(***************************************************************************)
(* _build_frames and its 2D backends (worker/app/youtube.py, worker/app/   *)
(* localllm.py): "local" plans frame after frame with a model that picks a *)
(* shape and fills its slots, "gemini" has all frames written at once.  The*)
(* 3D backend is ShotLoop.                                                 *)
(***************************************************************************)
EXTENDS ShotLoop

CONSTANTS
    Shape,    \* ARCHETYPES
    NoPicture, NoPlan

VARIABLES
    plan,     \* the plan each frame was drawn from
    first,    \* the plan in hand while the model is asked a second time
    heard     \* history: what the model answered for the frame drawn last,
              \* NoPlan for a second answer of no use, <<>> if it fell back

plannerVars == <<plan, first, heard>>
frameVars == <<buildVars, plannerVars>>

FramesInit == BuildInit /\ plan = <<>> /\ first = NoPlan /\ heard = <<>>

-----------------------------------------------------------------------------
(* _build_frames dispatches; without an API key "gemini" draws nothing but *)
(* placeholders.                                                           *)
BeginFrames(n, backend) ==
    /\ build = "idle"
    /\ page' = [f \in 1..n |-> "pending"]
    /\ middle' = [f \in 1..n |-> NoPicture]
    /\ plan' = [f \in 1..n |-> NoPlan]
    /\ build' = CASE backend = "three" -> "world"
                  [] backend = "gemini" -> "gemini"
                  [] OTHER -> IF n = 0 THEN "returned" ELSE "ask"
    /\ at' = 1 /\ heard' = <<>>
    /\ UNCHANGED <<failed, attempt, feedback, first>>

GeminiWithoutKey ==
    /\ build = "gemini" /\ \A f \in DOMAIN page : page[f] = "pending"
    /\ page' = [f \in DOMAIN page |-> "substitute"]
    /\ failed' = DOMAIN page
    /\ build' = "returned"
    /\ UNCHANGED <<at, shotVars, plannerVars>>

(* Frames are written concurrently; whatever goes wrong with one costs it  *)
(* its picture.                                                            *)
GeminiFrame(f) ==
    /\ build = "gemini" /\ page[f] = "pending"
    /\ \/ page' = [page EXCEPT ![f] = "real"] /\ UNCHANGED failed
       \/ page' = [page EXCEPT ![f] = "substitute"] /\ failed' = failed \cup {f}
    /\ UNCHANGED <<build, at, shotVars, plannerVars>>

GeminiDone ==
    /\ build = "gemini" /\ \A f \in DOMAIN page : page[f] # "pending"
    /\ build' = "returned"
    /\ UNCHANGED <<page, failed, at, shotVars, plannerVars>>

-----------------------------------------------------------------------------
(* plan_frame.                                                             *)

Answer == [shape : Shape, english : BOOLEAN]

ASSUME FrameAssumption == NoPicture \notin Picture /\ NoPlan \notin Answer

Spent == {plan[f].shape : f \in 1..(at - 1)}

(* It reused a shape while others are left, or drifted out of English.     *)
AsksAgain(p) == (p.shape \in Spent /\ Spent # Shape) \/ ~p.english

NextPlanned ==
    /\ at' = at + 1
    /\ build' = IF at = Len(page) THEN "returned" ELSE "ask"
    /\ first' = NoPlan

PlannerRaises ==
    /\ build' = "raised"
    /\ first' = NoPlan
    /\ UNCHANGED <<page, failed, at, plan, heard>>

(* _validate only looks whether a plan has slots: render_archetype raises  *)
(* on a value that is no number, an item that is no object, an accent that *)
(* is a list.                                                              *)
Draw(p, answers) ==
    \/ /\ page' = [page EXCEPT ![at] = "real"]
       /\ plan' = [plan EXCEPT ![at] = p]
       /\ heard' = answers
       /\ NextPlanned
       /\ UNCHANGED failed
    \/ PlannerRaises

(* No answer, nothing to parse, an unknown shape or no slots: a shape is   *)
(* read off the narration.                                                 *)
Heuristic ==
    /\ build = "ask"
    /\ \E shape \in Shape : plan' = [plan EXCEPT ![at] = [shape |-> shape, english |-> TRUE]]
    /\ heard' = <<>>
    /\ page' = [page EXCEPT ![at] = "substitute"]
    /\ failed' = failed \cup {at}
    /\ NextPlanned
    /\ UNCHANGED shotVars

Ask ==
    /\ build = "ask"
    /\ \E p \in Answer :
          IF AsksAgain(p)
          THEN /\ first' = p /\ build' = "askAgain"
               /\ UNCHANGED <<page, failed, at, plan, heard>>
          ELSE Draw(p, <<p>>)
    /\ UNCHANGED shotVars

\* mutant: a second answer is taken whatever its language
AskAgainTakesAny ==
    /\ build = "askAgain"
    /\ \/ \E p \in Answer : Draw(p, <<first, p>>)
       \/ Draw(first, <<first, NoPlan>>)
    /\ UNCHANGED shotVars

(* A second answer is taken if it is usable and English, be its shape      *)
(* spent or not; otherwise the first one stands.                           *)
AskAgain ==
    /\ build = "askAgain"
    /\ \/ \E p \in Answer : Draw(IF p.english THEN p ELSE first, <<first, p>>)
       \/ Draw(first, <<first, NoPlan>>)
    /\ UNCHANGED shotVars

(* A shape that is not even hashable breaks _validate.                     *)
AskUnhashable ==
    /\ build \in {"ask", "askAgain"}
    /\ PlannerRaises
    /\ UNCHANGED shotVars

-----------------------------------------------------------------------------
Busy == {"world", "author", "verify", "ask", "askAgain", "gemini"}

FramesStep ==
    \/ ShotStep /\ UNCHANGED plannerVars
    \/ GeminiWithoutKey \/ GeminiDone \/ \E f \in DOMAIN page : GeminiFrame(f)
    \/ Heuristic \/ Ask \/ AskAgain \/ AskUnhashable

(* The locals of the call are gone.                                        *)
LeaveFrames ==
    /\ build' = "idle" /\ page' = <<>> /\ failed' = {} /\ at' = 0
    /\ attempt' = 0 /\ feedback' = NoReason /\ middle' = <<>>
    /\ plan' = <<>> /\ first' = NoPlan /\ heard' = <<>>

-----------------------------------------------------------------------------
(* The state of a build stays in its type; the next attempt at a shot is   *)
(* told a reason if and only if the one before was a rejection of the same *)
(* frame's shot.                                                           *)
FramesTypeOK ==
    /\ build \in Busy \cup {"idle", "returned", "raised"}
    /\ Len(page) <= MaxFrames
    /\ page \in Seq({"pending", "candidate", "real", "substitute", "absent"})
    /\ failed \subseteq DOMAIN page /\ at \in 0..(MaxFrames + 1)
    /\ attempt \in 0..ShotRetries
    /\ feedback \in Defect \cup {"static", "repeats", NoReason}
    /\ feedback = NoReason <=> attempt = 0
    /\ middle \in [DOMAIN page -> Picture \cup {NoPicture}]
    /\ plan \in [DOMAIN page -> Answer \cup {NoPlan}]
    /\ first \in Answer \cup {NoPlan} /\ (first # NoPlan <=> build = "askAgain")
    /\ heard \in Seq(Answer \cup {NoPlan}) /\ Len(heard) <= 2

(* A plan nothing could better: English, and a shape no earlier frame has  *)
(* shown unless all of them have been.                                     *)
Fits(p, before) == p.english /\ (p.shape \in before => before = Shape)

IsBestOf(shown, answers, before) ==
    LET usable == {answers[n] : n \in DOMAIN answers} \ {NoPlan}
    IN  /\ shown \in usable
        /\ \A p \in usable : /\ Fits(p, before) => Fits(shown, before)
                            /\ p.english => shown.english
        /\ Len(answers) = 2 <=> ~Fits(answers[1], before)

(* Of the answers the model gave for a frame the best is shown: one that   *)
(* fits if there was one, and never one that is not English instead of one *)
(* that is.  It is asked twice exactly if its first answer did not fit, so *)
(* not for a repeated shape once all shapes are spent (plan_frame).        *)
BestAnswerIsShown ==
    heard # <<>> => IsBestOf(plan[at - 1], heard, {plan[f].shape : f \in 1..(at - 2)})

-----------------------------------------------------------------------------
(* A frame is settled when the build has turned to the next one; a shot    *)
(* that is still being judged is not.                                      *)
Building == INSTANCE FrameBuilding WITH
    status <- IF build \in Busy THEN "building" ELSE build,
    shown <- [f \in DOMAIN page |->
                 IF page[f] = "candidate" /\ f = at THEN "pending" ELSE page[f]],
    reported <- IF build = "returned" THEN failed ELSE {}
=============================================================================
