---------------------------- MODULE FrameBuilding ----------------------------
(***************************************************************************)
(* What _build_frames (worker/app/youtube.py) promises generate_youtube_-  *)
(* video, whichever backend makes the frames: each frame is settled once   *)
(* and for all, and the answer names exactly the frames that are not the   *)
(* real thing - a substitute in their place, or nothing.  "The caller must *)
(* inspect the return value": its guards are ratios of it.                 *)
(***************************************************************************)
EXTENDS Naturals

CONSTANT MaxFrames

VARIABLES
    status,    \* of the call
    shown,     \* what each frame of the board will show
    reported   \* the slugs it returned

vars == <<status, shown, reported>>

Init == status = "idle" /\ shown = <<>> /\ reported = {}

Pending == {f \in DOMAIN shown : shown[f] = "pending"}

Begin ==
    /\ status = "idle"
    /\ status' = "building"
    /\ \E n \in 0..MaxFrames : shown' = [f \in 1..n |-> "pending"]
    /\ UNCHANGED reported

Settle ==
    /\ status = "building"
    /\ \E some \in SUBSET Pending :
          \E kind \in [some -> {"real", "substitute", "absent"}] :
             shown' = [f \in DOMAIN shown |-> IF f \in some THEN kind[f] ELSE shown[f]]
    /\ UNCHANGED <<status, reported>>

(* The call may settle its last frames and return in one go.               *)
Return ==
    /\ status = "building"
    /\ \E kind \in [Pending -> {"real", "substitute", "absent"}] :
          shown' = [f \in DOMAIN shown |-> IF f \in Pending THEN kind[f] ELSE shown[f]]
    /\ status' = "returned"
    /\ reported' = {f \in DOMAIN shown : shown'[f] # "real"}

Raise ==
    /\ status = "building"
    /\ status' = "raised"
    /\ UNCHANGED <<shown, reported>>

(* The caller has read the answer, or the exception, or the worker died.   *)
Leave ==
    /\ status # "idle"
    /\ status' = "idle" /\ shown' = <<>> /\ reported' = {}

Next == Begin \/ Settle \/ Return \/ Raise \/ Leave

Spec == Init /\ [][Next]_vars
=============================================================================
