--------------------------- MODULE Autopilot_proofs ---------------------------
(***************************************************************************)
(* What TLAPS proves of the autopilot and of the frames it has built, for  *)
(* any stories, boards, shapes, pictures and numbers of attempts:          *)
(*   - BackendsBuildFrames: each of the three backends keeps the promise   *)
(*     of FrameBuilding;                                                   *)
(*   - PicksAreTried: a firing calls for a film of each story it should;   *)
(*   - AutopilotTypes: every variable stays in its type;                   *)
(*   - ShotsNeverRepeat: neighbouring shots differ;                        *)
(*   - BestPlansAreShown: no better answer of the planner is passed over.  *)
(* ShotsDiffer speaks of every pair of frames, of which a build sees one:  *)
(* ShotsInv adds that only the 3D backend leaves pictures.  PlansInv adds  *)
(* that an answer waits for a second one only because it does not fit what *)
(* the frames before it have shown.                                        *)
(***************************************************************************)
EXTENDS Autopilot, SequenceTheorems, WellFoundedInduction, TLAPS

Settled == {"real", "substitute", "absent"}
PageKind == {"pending", "candidate"} \cup Settled
InTurn == {"author", "verify", "ask", "askAgain"}

-----------------------------------------------------------------------------
(* The build.                                                              *)

(* What has been settled so far and what has been reported of it; a        *)
(* backend that goes frame by frame has settled those it is through with.  *)
BuildInv ==
    /\ page \in Seq(PageKind) /\ at \in Nat
    /\ build \in Busy \cup {"idle", "returned", "raised"}
    /\ build = "idle" => page = <<>> /\ failed = {}
    /\ build \in Busy \cup {"returned"} =>
          failed = {f \in DOMAIN page : page[f] \in {"substitute", "absent"}}
    /\ build = "world" => \A f \in DOMAIN page : page[f] = "pending"
    /\ build = "gemini" => \A f \in DOMAIN page : page[f] \in {"pending"} \cup Settled
    /\ build \in InTurn =>
          /\ at \in DOMAIN page
          /\ \A f \in DOMAIN page :
                IF f < at THEN page[f] \in Settled
                ELSE page[f] = "pending" \/ (f = at /\ page[f] = "candidate")
    /\ build = "returned" => \A f \in DOMAIN page : page[f] \in Settled

(* The refinement mapping.                                                 *)
Status == IF build \in Busy THEN "building" ELSE build
Shown == [f \in DOMAIN page |->
             IF page[f] = "candidate" /\ f = at THEN "pending" ELSE page[f]]
Reported == IF build = "returned" THEN failed ELSE {}

Waiting == {f \in DOMAIN Shown : Shown[f] = "pending"}

(* The actions of FrameBuilding in these terms.                            *)
LEMMA SettleStep ==
    ASSUME Status = "building", UNCHANGED <<Status, Reported>>,
           NEW some \in SUBSET Waiting, NEW kind \in [some -> Settled],
           Shown' = [f \in DOMAIN Shown |-> IF f \in some THEN kind[f] ELSE Shown[f]]
    PROVE  Building!Next
  BY DEF Building!Next, Building!Settle, Building!Pending, Status, Shown, Reported, Waiting, Settled

LEMMA ReturnStep ==
    ASSUME Status = "building", Status' = "returned",
           NEW kind \in [Waiting -> Settled],
           Shown' = [f \in DOMAIN Shown |-> IF f \in Waiting THEN kind[f] ELSE Shown[f]],
           Reported' = {f \in DOMAIN Shown : Shown'[f] # "real"}
    PROVE  Building!Next
  BY DEF Building!Next, Building!Return, Building!Pending, Status, Shown, Reported, Waiting, Settled

LEMMA RaiseStep ==
    ASSUME Status = "building", Status' = "raised", UNCHANGED <<Shown, Reported>>
    PROVE  Building!Next
  BY DEF Building!Next, Building!Raise, Status, Shown, Reported

LEMMA BeginStep ==
    ASSUME Status = "idle", Status' = "building", NEW n \in 0..MaxFrames,
           Shown' = [f \in 1..n |-> "pending"], UNCHANGED Reported
    PROVE  Building!Next
  BY DEF Building!Next, Building!Begin, Status, Shown, Reported

LEMMA LeaveStep ==
    ASSUME Status # "idle", Status' = "idle", Shown' = <<>>, Reported' = {}
    PROVE  Building!Next
  BY DEF Building!Next, Building!Leave, Status, Shown, Reported

LEMMA StutterStep ==
    ASSUME UNCHANGED <<Status, Shown, Reported>>
    PROVE  UNCHANGED Building!vars
  BY DEF Building!vars, Status, Shown, Reported

(* A backend that goes frame by frame settles the one in hand.             *)
SettlesOne(kind, next) ==
    /\ page' = [page EXCEPT ![at] = kind]
    /\ failed' = IF kind = "real" THEN failed ELSE failed \cup {at}
    /\ at' = at + 1
    /\ build' = IF at = Len(page) THEN "returned" ELSE next

LEMMA SettlesOneInv ==
    ASSUME BuildInv, build \in InTurn, NEW kind \in Settled, NEW next \in {"author", "ask"},
           SettlesOne(kind, next)
    PROVE  BuildInv' /\ Building!Next
<1>1. /\ page \in Seq(PageKind) /\ at \in 1..Len(page) /\ Len(page) \in Nat
      /\ DOMAIN page = 1..Len(page) /\ build \in Busy
  <2>1. build \in Busy
    BY DEF InTurn, Busy
  <2>2. page \in Seq(PageKind) /\ at \in DOMAIN page
    BY DEF BuildInv
  <2>3. DOMAIN page = 1..Len(page) /\ Len(page) \in Nat
    BY <2>2
  <2> QED
    BY <2>1, <2>2, <2>3
<1>2. \A f \in 1..Len(page) :
         IF f < at THEN page[f] \in Settled
         ELSE page[f] = "pending" \/ (f = at /\ page[f] = "candidate")
  BY <1>1 DEF BuildInv
<1>3. failed = {f \in 1..Len(page) : page[f] \in {"substitute", "absent"}}
  BY <1>1 DEF BuildInv
<1>4. /\ page' \in Seq(PageKind) /\ Len(page') = Len(page) /\ DOMAIN page' = 1..Len(page)
      /\ page'[at] = kind /\ \A f \in 1..Len(page) : f # at => page'[f] = page[f]
  <2>1. kind \in PageKind
    BY DEF PageKind
  <2>2. page' = [page EXCEPT ![at] = kind]
    BY DEF SettlesOne
  <2>3. page' \in Seq(PageKind) /\ Len(page') = Len(page)
    BY <1>1, <2>1, <2>2
  <2>4. DOMAIN page' = 1..Len(page)
    BY <1>1, <2>2
  <2>5. page'[at] = kind /\ \A f \in 1..Len(page) : f # at => page'[f] = page[f]
    BY <1>1, <2>2
  <2> QED
    BY <2>3, <2>4, <2>5
<1>5. \A f \in 1..Len(page) : IF f < at + 1 THEN page'[f] \in Settled ELSE page'[f] = "pending"
  <2>1. SUFFICES ASSUME NEW f \in 1..Len(page)
                 PROVE  IF f < at + 1 THEN page'[f] \in Settled ELSE page'[f] = "pending"
    OBVIOUS
  <2>2. CASE f = at
    BY <1>1, <1>4, <2>2
  <2>3. CASE f # at
    BY <1>1, <1>2, <1>4, <2>3
  <2> QED
    BY <2>2, <2>3
<1>6. failed' = {f \in 1..Len(page) : page'[f] \in {"substitute", "absent"}}
  <2>1. page[at] \notin {"substitute", "absent"}
    BY <1>1, <1>2
  <2>2. kind \in {"substitute", "absent"} <=> kind # "real"
    BY DEF Settled
  <2>3. failed' = IF kind = "real" THEN failed ELSE failed \cup {at}
    BY DEF SettlesOne
  <2> QED
    BY <1>1, <1>3, <1>4, <2>1, <2>2, <2>3
<1>7. at' = at + 1 /\ at' \in Nat /\ build' = IF at = Len(page) THEN "returned" ELSE next
  <2>1. at' = at + 1 /\ build' = IF at = Len(page) THEN "returned" ELSE next
    BY DEF SettlesOne
  <2>2. at + 1 \in Nat
    BY <1>1
  <2> QED
    BY <2>1, <2>2
<1>8. Status = "building" /\ Reported = {} /\ Reported' = IF at = Len(page) THEN failed' ELSE {}
  BY <1>1, <1>7 DEF Status, Reported, Busy
<1>9. /\ Shown = [f \in 1..Len(page) |-> IF f < at THEN page[f] ELSE "pending"]
      /\ Shown' = [f \in 1..Len(page) |-> page'[f]]
  <2>1. Shown' = [f \in 1..Len(page) |-> IF page'[f] = "candidate" /\ f = at' THEN "pending"
                                         ELSE page'[f]]
    BY <1>4 DEF Shown
  <2>2. \A f \in 1..Len(page) : ~(page'[f] = "candidate" /\ f = at')
    BY <1>1, <1>5, <1>7 DEF Settled
  <2>3. Shown = [f \in 1..Len(page) |-> IF page[f] = "candidate" /\ f = at THEN "pending"
                                        ELSE page[f]]
    BY <1>1 DEF Shown
  <2>4. \A f \in 1..Len(page) :
           (IF page[f] = "candidate" /\ f = at THEN "pending" ELSE page[f])
              = IF f < at THEN page[f] ELSE "pending"
    BY <1>1, <1>2 DEF Settled
  <2> QED
    BY <2>1, <2>2, <2>3, <2>4
<1>10. DOMAIN Shown = 1..Len(page) /\ {f \in DOMAIN Shown : Shown[f] = "pending"} = at..Len(page)
  BY <1>1, <1>2, <1>9 DEF Settled
<1>11. CASE at # Len(page)
  <2>1. /\ build' = next /\ next \in Busy /\ next \notin {"world", "gemini", "returned", "idle"}
        /\ at' \in 1..Len(page) /\ Status' = "building"
    <3>1. build' = next
      BY <1>7, <1>11
    <3>2. next \in Busy /\ next \notin {"world", "gemini", "returned", "idle"}
      BY DEF Busy
    <3>3. at' \in 1..Len(page)
      <4>1. \A a, n \in Nat : a \in 1..n /\ a # n => a + 1 \in 1..n
        OBVIOUS
      <4>2. at \in Nat
        BY <1>1
      <4> QED
        BY <1>1, <1>7, <1>11, <4>1, <4>2
    <3> QED
      BY <3>1, <3>2, <3>3 DEF Status
  <2>2. BuildInv'
    BY <1>4, <1>5, <1>6, <1>7, <2>1 DEF BuildInv
  <2>3. Building!Next
    <3> DEFINE k == [f \in {at} |-> kind]
    <3>1. at \in Waiting /\ {at} \in SUBSET Waiting /\ k \in [{at} -> Settled]
      BY <1>1, <1>10 DEF Waiting
    <3>2. Shown' = [f \in DOMAIN Shown |-> IF f \in {at} THEN k[f] ELSE Shown[f]]
      BY <1>1, <1>4, <1>5, <1>9
    <3>3. UNCHANGED <<Status, Reported>>
      BY <1>8, <1>11, <2>1
    <3> QED
      BY <1>8, <3>1, <3>2, <3>3, SettleStep
  <2> QED
    BY <2>2, <2>3
<1>12. CASE at = Len(page)
  <2>1. build' = "returned" /\ Status' = "returned" /\ "returned" \notin Busy \cup InTurn
    BY <1>7, <1>12 DEF Status, Busy, InTurn
  <2>2. \A f \in 1..Len(page) : page'[f] \in Settled
    BY <1>1, <1>5, <1>12
  <2>3. BuildInv'
    BY <1>4, <1>6, <1>7, <2>1, <2>2 DEF BuildInv, Busy
  <2>4. Building!Next
    <3> DEFINE k == [f \in {at} |-> kind]
    <3>1. Waiting = {at} /\ k \in [Waiting -> Settled]
      BY <1>1, <1>10, <1>12 DEF Waiting
    <3>2. Shown' = [f \in DOMAIN Shown |-> IF f \in Waiting THEN k[f] ELSE Shown[f]]
      BY <1>1, <1>4, <1>5, <1>9, <3>1
    <3>3. Reported' = {f \in DOMAIN Shown : Shown'[f] # "real"}
      BY <1>6, <1>8, <1>9, <1>10, <1>12, <2>2 DEF Settled
    <3> QED
      BY <1>8, <2>1, <3>1, <3>2, <3>3, ReturnStep
  <2> QED
    BY <2>3, <2>4
<1> QED
  BY <1>11, <1>12

-----------------------------------------------------------------------------
(* The other steps of the build.                                           *)

BuildVars == <<build, page, failed, at>>

LEMMA BuildStutter ==
    ASSUME BuildInv, UNCHANGED BuildVars
    PROVE  BuildInv' /\ UNCHANGED Building!vars
<1>1. BuildInv'
  BY DEF BuildInv, BuildVars
<1>2. UNCHANGED <<Status, Shown, Reported>>
  BY DEF BuildVars, Status, Shown, Reported
<1> QED
  BY <1>1, <1>2, StutterStep

LEMMA RaiseInv ==
    ASSUME BuildInv, build \in Busy, build' = "raised", UNCHANGED <<page, failed, at>>
    PROVE  BuildInv' /\ Building!Next
<1>1. BuildInv'
  BY DEF BuildInv, Busy, InTurn
<1>2. /\ Status = "building" /\ Status' = "raised"
      /\ Reported = {} /\ Reported' = {}
  BY DEF Status, Reported, Busy
<1>3. Shown' = Shown
  BY DEF Shown
<1> QED
  BY <1>1, <1>2, <1>3, RaiseStep

LEMMA LeaveInv ==
    ASSUME BuildInv, LeaveFrames
    PROVE  BuildInv' /\ (Building!Next \/ UNCHANGED Building!vars)
<1>0. <<>> \in Seq(PageKind) /\ DOMAIN <<>> = {}
  OBVIOUS
<1>1. build' = "idle" /\ page' = <<>> /\ failed' = {} /\ at' = 0
  BY DEF LeaveFrames
<1>2. BuildInv'
  BY <1>0, <1>1 DEF BuildInv, Busy, InTurn
<1>3. Status' = "idle" /\ Reported' = {}
  BY <1>1 DEF Status, Reported, Busy
<1>4. Shown' = <<>>
  BY <1>0, <1>1 DEF Shown
<1>5. CASE build = "idle"
  <2>1. page = <<>> /\ failed = {}
    BY <1>5 DEF BuildInv
  <2>2. Status = "idle" /\ Reported = {}
    BY <1>5 DEF Status, Reported, Busy
  <2>3. Shown = <<>>
    BY <1>0, <2>1 DEF Shown
  <2> QED
    BY <1>2, <1>3, <1>4, <2>2, <2>3, StutterStep
<1>6. CASE build # "idle"
  <2>1. Status # "idle"
    BY <1>6 DEF Status
  <2> QED
    BY <1>2, <1>3, <1>4, <2>1, LeaveStep
<1> QED
  BY <1>5, <1>6

LEMMA BeginInv ==
    ASSUME BuildInv, NEW n \in 1..MaxFrames, NEW b, BeginFrames(n, b)
    PROVE  BuildInv' /\ Building!Next
<1>1. n \in Nat /\ n \in 0..MaxFrames /\ n # 0
  BY ShotAssumption
<1>2. /\ build = "idle" /\ build' \in {"world", "gemini", "ask"}
      /\ page' = [f \in 1..n |-> "pending"] /\ at' = 1 /\ failed' = failed
  BY <1>1 DEF BeginFrames
<1>3. page = <<>> /\ failed = {}
  BY <1>2 DEF BuildInv
<1>4. page' \in Seq(PageKind) /\ DOMAIN page' = 1..n /\ \A f \in 1..n : page'[f] = "pending"
  BY <1>1, <1>2 DEF PageKind
<1>5. failed' = {f \in DOMAIN page' : page'[f] \in {"substitute", "absent"}}
  BY <1>2, <1>3, <1>4
<1>6. 1 \in 1..n /\ \A f \in 1..n : ~(f < 1)
  BY <1>1
<1>7. BuildInv'
  BY <1>2, <1>4, <1>5, <1>6 DEF BuildInv, Busy, InTurn
<1>8. Status = "idle" /\ Status' = "building" /\ Reported = {} /\ Reported' = {}
  BY <1>2 DEF Status, Reported, Busy
<1>9. Shown' = [f \in 1..n |-> "pending"]
  BY <1>4 DEF Shown
<1> QED
  BY <1>1, <1>7, <1>8, <1>9, BeginStep

(* A step that stays in hand: nothing is settled, the model is asked, or   *)
(* a candidate is written for the frame in hand.                           *)
LEMMA InHandInv ==
    ASSUME BuildInv, build \in InTurn, build' \in InTurn, UNCHANGED <<failed, at>>,
           page' = page \/ page' = [page EXCEPT ![at] = "candidate"]
    PROVE  BuildInv' /\ UNCHANGED Building!vars
<1>1. /\ build \in Busy /\ build' \in Busy /\ build' \notin {"world", "gemini", "idle", "returned"}
      /\ build \notin {"returned"}
  BY DEF InTurn, Busy
<1>2. page \in Seq(PageKind) /\ at \in DOMAIN page /\ at \in Nat
  BY DEF BuildInv
<1>3. /\ page' \in Seq(PageKind) /\ DOMAIN page' = DOMAIN page
      /\ \A f \in DOMAIN page : f # at => page'[f] = page[f]
      /\ page'[at] \in {page[at], "candidate"}
  <2>1. CASE page' = page
    BY <1>2, <2>1
  <2>2. CASE page' = [page EXCEPT ![at] = "candidate"]
    <3>1. "candidate" \in PageKind
      BY DEF PageKind
    <3> QED
      BY <1>2, <2>2, <3>1
  <2> QED
    BY <2>1, <2>2
<1>4. page[at] \in {"pending", "candidate"} /\ page'[at] \in {"pending", "candidate"}
  BY <1>2, <1>3 DEF BuildInv
<1>5. failed' = {f \in DOMAIN page' : page'[f] \in {"substitute", "absent"}}
  BY <1>1, <1>3, <1>4 DEF BuildInv
<1>6. \A f \in DOMAIN page' :
         IF f < at THEN page'[f] \in Settled
         ELSE page'[f] = "pending" \/ (f = at /\ page'[f] = "candidate")
  BY <1>2, <1>3, <1>4 DEF BuildInv
<1>7. BuildInv'
  BY <1>1, <1>2, <1>3, <1>5, <1>6 DEF BuildInv
<1>8. Shown' = Shown
  BY <1>3, <1>4 DEF Shown
<1>9. UNCHANGED <<Status, Reported>>
  BY <1>1 DEF Status, Reported
<1> QED
  BY <1>7, <1>8, <1>9, StutterStep

(* All frames were settled before.                                         *)
LEMMA DoneInv ==
    ASSUME BuildInv, build \in {"world", "gemini"}, build' = "returned",
           \A f \in DOMAIN page : page[f] \in Settled,
           UNCHANGED <<page, failed>>, at' \in Nat
    PROVE  BuildInv' /\ Building!Next
<1>1. build \in Busy /\ build' \notin Busy \cup InTurn
  BY DEF Busy, InTurn
<1>2. failed = {f \in DOMAIN page : page[f] \in {"substitute", "absent"}}
  BY <1>1 DEF BuildInv
<1>3. BuildInv'
  BY <1>1, <1>2 DEF BuildInv, Busy
<1>4. /\ Status = "building" /\ Status' = "returned" /\ Reported' = failed
      /\ Shown = page /\ Shown' = page
  <2>1. page = [f \in DOMAIN page |-> page[f]]
    BY DEF BuildInv
  <2>2. \A f \in DOMAIN page : page[f] # "candidate"
    BY DEF Settled
  <2>3. Shown = page /\ Shown' = page
    BY <2>1, <2>2 DEF Shown
  <2> QED
    BY <1>1, <2>3 DEF Status, Reported
<1>5. Waiting = {}
  BY <1>4 DEF Waiting, Settled
<1> DEFINE k == [f \in {} |-> "real"]
<1>6. k \in [Waiting -> Settled]
  BY <1>5 DEF Settled
<1>7. Shown' = [f \in DOMAIN Shown |-> IF f \in Waiting THEN k[f] ELSE Shown[f]]
  <2>1. page = [f \in DOMAIN page |-> page[f]]
    BY DEF BuildInv
  <2> QED
    BY <1>4, <1>5, <2>1
<1>8. Reported' = {f \in DOMAIN Shown : Shown'[f] # "real"}
  BY <1>2, <1>4 DEF Settled
<1> QED
  BY <1>3, <1>4, <1>6, <1>7, <1>8, ReturnStep

-----------------------------------------------------------------------------
(* The backends.                                                           *)

LEMMA ShotStepInv ==
    ASSUME BuildInv, ShotStep
    PROVE  BuildInv' /\ (Building!Next \/ UNCHANGED Building!vars)
<1>1. CASE BuildRaises
  BY <1>1, RaiseInv DEF BuildRaises, Busy
<1>2. CASE World
  <2>1. build = "world" /\ at' = 1 /\ UNCHANGED <<page, failed>>
    BY <1>2 DEF World
  <2>2. CASE page = <<>>
    <3>1. build' = "returned" /\ DOMAIN page = {}
      BY <1>2, <2>2 DEF World
    <3> QED
      BY <2>1, <3>1, DoneInv
  <2>3. CASE page # <<>>
    <3>1. build' = "author"
      BY <1>2, <2>3 DEF World
    <3>2. /\ page \in Seq(PageKind) /\ \A f \in DOMAIN page : page[f] = "pending"
          /\ failed = {f \in DOMAIN page : page[f] \in {"substitute", "absent"}}
      BY <2>1 DEF BuildInv, Busy
    <3>3. 1 \in DOMAIN page /\ \A f \in DOMAIN page : ~(f < 1)
      BY <2>3, <3>2
    <3>4. BuildInv'
      BY <2>1, <3>1, <3>2, <3>3 DEF BuildInv, Busy, InTurn
    <3>5. UNCHANGED <<Status, Reported>>
      BY <2>1, <3>1 DEF Status, Reported, Busy
    <3>6. Shown' = Shown
      BY <2>1, <3>2 DEF Shown
    <3> QED
      BY <3>4, <3>5, <3>6, StutterStep
  <2> QED
    BY <2>2, <2>3
<1>3. CASE AuthorShot
  BY <1>3, InHandInv DEF AuthorShot, InTurn
<1>4. CASE VerifyShot
  <2>1. ASSUME NEW picture, Accept(picture)
        PROVE  BuildInv' /\ Building!Next
    <3>1. SettlesOne("real", "author")
      BY <2>1 DEF Accept, NextFrame, SettlesOne
    <3> QED
      BY <1>4, <3>1, SettlesOneInv DEF VerifyShot, InTurn, Settled
  <2>2. ASSUME NEW reason, Reject(reason)
        PROVE  BuildInv' /\ (Building!Next \/ UNCHANGED Building!vars)
    <3>1. CASE attempt < ShotRetries
      BY <1>4, <2>2, <3>1, InHandInv DEF VerifyShot, Reject, InTurn
    <3>2. CASE ~(attempt < ShotRetries)
      <4>1. SettlesOne("absent", "author")
        BY <2>2, <3>2 DEF Reject, GiveUp, NextFrame, SettlesOne
      <4> QED
        BY <1>4, <4>1, SettlesOneInv DEF VerifyShot, InTurn, Settled
    <3> QED
      BY <3>1, <3>2
  <2> QED
    BY <1>4, <2>1, <2>2 DEF VerifyShot, Judge
<1> QED
  BY <1>1, <1>2, <1>3, <1>4 DEF ShotStep

LEMMA DrawInv ==
    ASSUME BuildInv, build \in {"ask", "askAgain"}, NEW p, NEW answers, Draw(p, answers)
    PROVE  BuildInv' /\ Building!Next
<1>1. CASE PlannerRaises
  BY <1>1, RaiseInv DEF PlannerRaises, Busy
<1>2. CASE ~PlannerRaises
  <2>1. SettlesOne("real", "ask")
    BY <1>2 DEF Draw, NextPlanned, SettlesOne
  <2> QED
    BY <2>1, SettlesOneInv DEF InTurn, Settled
<1> QED
  BY <1>1, <1>2

LEMMA PlannerInv ==
    ASSUME BuildInv, Heuristic \/ Ask \/ AskAgain \/ AskUnhashable
    PROVE  BuildInv' /\ (Building!Next \/ UNCHANGED Building!vars)
<1>1. CASE Heuristic
  <2>1. SettlesOne("substitute", "ask")
    BY <1>1 DEF Heuristic, NextPlanned, SettlesOne
  <2> QED
    BY <1>1, <2>1, SettlesOneInv DEF Heuristic, InTurn, Settled
<1>2. CASE Ask
  <2>1. PICK p \in Answer :
          IF AsksAgain(p)
          THEN /\ first' = p /\ build' = "askAgain"
               /\ UNCHANGED <<page, failed, at, plan, heard>>
          ELSE Draw(p, <<p>>)
    BY <1>2 DEF Ask
  <2>2. CASE AsksAgain(p)
    BY <1>2, <2>1, <2>2, InHandInv DEF Ask, InTurn
  <2>3. CASE ~AsksAgain(p)
    BY <1>2, <2>1, <2>3, DrawInv DEF Ask
  <2> QED
    BY <2>2, <2>3
<1>3. CASE AskAgain
  BY <1>3, DrawInv DEF AskAgain
<1>4. CASE AskUnhashable
  BY <1>4, RaiseInv DEF AskUnhashable, PlannerRaises, Busy
<1> QED
  BY <1>1, <1>2, <1>3, <1>4

LEMMA GeminiInv ==
    ASSUME BuildInv, GeminiWithoutKey \/ GeminiDone \/ \E f \in DOMAIN page : GeminiFrame(f)
    PROVE  BuildInv' /\ (Building!Next \/ UNCHANGED Building!vars)
<1>1. /\ build = "gemini" /\ page \in Seq(PageKind) /\ at \in Nat /\ at' = at
      /\ failed = {f \in DOMAIN page : page[f] \in {"substitute", "absent"}}
      /\ \A f \in DOMAIN page : page[f] \in {"pending"} \cup Settled
  BY DEF BuildInv, Busy, GeminiWithoutKey, GeminiDone, GeminiFrame
<1>2. /\ Status = "building" /\ Reported = {} /\ Shown = page
      /\ Waiting = {f \in DOMAIN page : page[f] = "pending"}
  <2>1. page = [f \in DOMAIN page |-> page[f]]
    BY <1>1
  <2>2. Shown = page
    BY <1>1, <2>1 DEF Shown, Settled
  <2> QED
    BY <1>1, <2>2 DEF Status, Reported, Waiting, Busy
<1>3. CASE GeminiDone
  BY <1>1, <1>3, DoneInv DEF GeminiDone, Settled
<1>4. CASE GeminiWithoutKey
  <2>1. /\ page' = [f \in DOMAIN page |-> "substitute"] /\ failed' = DOMAIN page
        /\ build' = "returned" /\ Waiting = DOMAIN page
    BY <1>2, <1>4 DEF GeminiWithoutKey
  <2>2. page' \in Seq(PageKind) /\ DOMAIN page' = DOMAIN page
    BY <1>1, <2>1 DEF PageKind, Settled
  <2>3. BuildInv'
    BY <1>1, <2>1, <2>2 DEF BuildInv, Busy, InTurn, Settled
  <2>4. Status' = "returned" /\ Reported' = DOMAIN page /\ Shown' = page'
    BY <2>1, <2>2 DEF Status, Reported, Shown, Busy
  <2> DEFINE k == [f \in Waiting |-> "substitute"]
  <2>5. k \in [Waiting -> Settled]
    BY DEF Settled
  <2>6. Shown' = [f \in DOMAIN Shown |-> IF f \in Waiting THEN k[f] ELSE Shown[f]]
    BY <1>2, <2>1, <2>4
  <2>7. Reported' = {f \in DOMAIN Shown : Shown'[f] # "real"}
    BY <1>2, <2>1, <2>4
  <2> QED
    BY <1>2, <2>3, <2>4, <2>5, <2>6, <2>7, ReturnStep
<1>5. ASSUME NEW f \in DOMAIN page, GeminiFrame(f)
      PROVE  BuildInv' /\ Building!Next
  <2>1. PICK kind \in {"real", "substitute"} :
           /\ page' = [page EXCEPT ![f] = kind]
           /\ failed' = IF kind = "real" THEN failed ELSE failed \cup {f}
    BY <1>5 DEF GeminiFrame
  <2>2. page[f] = "pending" /\ build' = "gemini"
    BY <1>1, <1>5 DEF GeminiFrame
  <2>3. kind \in Settled /\ kind \in PageKind
    BY DEF Settled, PageKind
  <2>4. /\ page' \in Seq(PageKind) /\ DOMAIN page' = DOMAIN page
        /\ page'[f] = kind /\ \A g \in DOMAIN page : g # f => page'[g] = page[g]
    BY <1>1, <2>1, <2>3
  <2>5. failed' = {g \in DOMAIN page' : page'[g] \in {"substitute", "absent"}}
    BY <1>1, <2>1, <2>2, <2>4
  <2>6. \A g \in DOMAIN page' : page'[g] \in {"pending"} \cup Settled
    BY <1>1, <2>3, <2>4
  <2>7. BuildInv'
    BY <1>1, <2>2, <2>4, <2>5, <2>6 DEF BuildInv, Busy, InTurn
  <2>8. Status' = "building" /\ Reported' = {} /\ Shown' = page'
    <3>1. page' = [g \in DOMAIN page' |-> page'[g]]
      BY <2>4
    <3>2. Shown' = page'
      BY <2>6, <3>1 DEF Shown, Settled
    <3> QED
      BY <2>2, <3>2 DEF Status, Reported, Busy
  <2> DEFINE k == [g \in {f} |-> kind]
  <2>9. {f} \in SUBSET Waiting /\ k \in [{f} -> Settled]
    BY <1>2, <2>2, <2>3
  <2>10. Shown' = [g \in DOMAIN Shown |-> IF g \in {f} THEN k[g] ELSE Shown[g]]
    <3>1. page' = [g \in DOMAIN page |-> IF g \in {f} THEN kind ELSE page[g]]
      BY <1>1, <2>1
    <3> QED
      BY <1>2, <2>8, <3>1
  <2> QED
    BY <1>2, <2>7, <2>8, <2>9, <2>10, SettleStep
<1> QED
  BY <1>3, <1>4, <1>5

LEMMA FramesStepInv ==
    ASSUME BuildInv, FramesStep
    PROVE  BuildInv' /\ (Building!Next \/ UNCHANGED Building!vars)
  BY ShotStepInv, GeminiInv, PlannerInv DEF FramesStep

-----------------------------------------------------------------------------
(* The job drives the build.                                               *)

LEMMA NextBuilds ==
    ASSUME BuildInv, [Next]_vars
    PROVE  BuildInv' /\ (Building!Next \/ UNCHANGED Building!vars)
<1>1. CASE BuildStep
  BY <1>1, FramesStepInv DEF BuildStep
<1>2. CASE Compiled
  <2>1. PICK n \in MinScript..MaxFrames : BeginFrames(n, backend)
    BY <1>2 DEF Compiled
  <2>2. n \in 1..MaxFrames
    BY ShotAssumption, AutopilotAssumption
  <2> QED
    BY <2>1, <2>2, BeginInv
<1>3. CASE FailsEarly \/ GenerationRaises \/ FramesReturned \/ Die
  BY <1>3, LeaveInv DEF FailsEarly, GenerationRaises, FramesReturned, Die, NextStory
<1>4. CASE UNCHANGED frameVars
  BY <1>4, BuildStutter DEF frameVars, buildVars, BuildVars
<1>5. CASE \/ \E s \in Story : NewStory(s) \/ AssignChannel(s)
           \/ Fire \/ Skip \/ Generate \/ JobDone
  BY <1>4, <1>5 DEF NewStory, AssignChannel, Fire, Skip, Generate, JobDone
<1>6. CASE UNCHANGED vars
  BY <1>4, <1>6 DEF vars
<1> QED
  BY <1>1, <1>2, <1>3, <1>5, <1>6 DEF Next, JobStep

LEMMA InitBuilds == Init => BuildInv /\ Building!Init
<1> SUFFICES ASSUME Init PROVE BuildInv /\ Building!Init
  OBVIOUS
<1>1. build = "idle" /\ page = <<>> /\ failed = {} /\ at = 0
  BY DEF Init, FramesInit, BuildInit
<1>2. <<>> \in Seq(PageKind) /\ DOMAIN <<>> = {}
  OBVIOUS
<1>3. BuildInv
  BY <1>1, <1>2 DEF BuildInv, Busy, InTurn
<1>4. Status = "idle" /\ Reported = {} /\ Shown = <<>>
  BY <1>1, <1>2 DEF Status, Reported, Shown, Busy
<1>5. Building!Init
  BY <1>4 DEF Building!Init, Status, Shown, Reported
<1> QED
  BY <1>3, <1>5

(* All three backends implement FrameBuilding: each frame is settled once, *)
(* what _build_frames returns are exactly the frames that are not the real *)
(* thing, and no rejected shot is left in its place.                       *)
THEOREM BackendsBuildFrames == Spec => ImplementsFrameBuilding
<1>1. BuildInv /\ [Next]_vars => BuildInv' /\ [Building!Next]_(Building!vars)
  BY NextBuilds
<1> QED
  BY InitBuilds, <1>1, PTL DEF Spec, ImplementsFrameBuilding, Building!Spec

-----------------------------------------------------------------------------
(* The picks.                                                              *)

WithChannel(picks) == {picks[n].story : n \in {m \in DOMAIN picks : picks[m].channel}}

(* Between them the films called for and the picks that are left make up   *)
(* what the firing wants, and a film in the making was called for.         *)
PicksInv ==
    /\ picked \in Seq([story : Story, channel : BOOLEAN])
    /\ inbox \in Seq(Story)
    /\ drafted \subseteq hasChannel /\ wanted \subseteq hasChannel
    /\ tried \subseteq wanted
    /\ job # "idle" => wanted = tried \cup WithChannel(picked)
    /\ job = "frames" \/ job = "script" => story \in tried
    /\ job = "idle" /\ ~died => tried = wanted

LEMMA WithChannelTail ==
    ASSUME NEW picks \in Seq([story : Story, channel : BOOLEAN]), picks # <<>>
    PROVE  /\ Tail(picks) \in Seq([story : Story, channel : BOOLEAN])
           /\ WithChannel(picks) = WithChannel(Tail(picks))
                 \cup {s \in {Head(picks).story} : Head(picks).channel}
<1>1. /\ Len(picks) \in Nat \ {0} /\ DOMAIN picks = 1..Len(picks) /\ Head(picks) = picks[1]
      /\ Tail(picks) \in Seq([story : Story, channel : BOOLEAN])
      /\ Len(Tail(picks)) = Len(picks) - 1
  OBVIOUS
<1>2. /\ DOMAIN Tail(picks) = 1..(Len(picks) - 1)
      /\ \A n \in 1..(Len(picks) - 1) : Tail(picks)[n] = picks[n + 1]
  BY <1>1
<1>3. ASSUME NEW s \in WithChannel(picks)
      PROVE  s \in WithChannel(Tail(picks)) \cup {t \in {Head(picks).story} : Head(picks).channel}
  <2>1. PICK n \in 1..Len(picks) : picks[n].channel /\ s = picks[n].story
    BY <1>1 DEF WithChannel
  <2>2. CASE n = 1
    BY <1>1, <2>1, <2>2
  <2>3. CASE n # 1
    <3>1. n - 1 \in 1..(Len(picks) - 1) /\ Tail(picks)[n - 1] = picks[n]
      BY <1>1, <1>2, <2>3
    <3> QED
      BY <1>2, <2>1, <3>1 DEF WithChannel
  <2> QED
    BY <2>2, <2>3
<1>4. ASSUME NEW s \in WithChannel(Tail(picks))
      PROVE  s \in WithChannel(picks)
  <2>1. PICK n \in 1..(Len(picks) - 1) : Tail(picks)[n].channel /\ s = Tail(picks)[n].story
    BY <1>2 DEF WithChannel
  <2>2. n + 1 \in DOMAIN picks /\ picks[n + 1] = Tail(picks)[n]
    BY <1>1, <1>2
  <2> QED
    BY <2>1, <2>2 DEF WithChannel
<1>5. Head(picks).channel => Head(picks).story \in WithChannel(picks)
  BY <1>1 DEF WithChannel
<1> QED
  BY <1>1, <1>3, <1>4, <1>5

LEMMA FunctionIsSequence ==
    ASSUME NEW S, NEW n \in Nat, NEW f \in [1..n -> S]
    PROVE  f \in Seq(S)
  OBVIOUS

LEMMA PicksNext == PicksInv /\ [Next]_vars => PicksInv'
<1> SUFFICES ASSUME PicksInv, [Next]_vars PROVE PicksInv'
  OBVIOUS
<1>1. CASE UNCHANGED vars
  BY <1>1 DEF vars, storyVars, jobVars, pastVars, PicksInv, WithChannel
<1>2. ASSUME NEW s \in Story, NewStory(s) PROVE PicksInv'
  <2>1. inbox' \in Seq(Story)
    BY <1>2 DEF NewStory, PicksInv
  <2> QED
    BY <1>2, <2>1 DEF NewStory, PicksInv, jobVars, pastVars, WithChannel
<1>3. ASSUME NEW s \in Story, AssignChannel(s) PROVE PicksInv'
  BY <1>3 DEF AssignChannel, PicksInv, jobVars, pastVars, WithChannel
<1>4. CASE Fire
  <2> DEFINE size == IF Len(inbox) < MaxDrafts THEN Len(inbox) ELSE MaxDrafts
  <2> DEFINE top == SubSeq(inbox, 1, size)
  <2>1. inbox \in Seq(Story) /\ size \in Nat /\ size <= Len(inbox)
    BY AutopilotAssumption DEF PicksInv
  <2>2. DOMAIN top = 1..size /\ \A n \in 1..size : top[n] \in Story
    BY <2>1
  <2>3. picked' = [n \in 1..size |-> [story |-> top[n], channel |-> top[n] \in hasChannel]]
    BY <1>4, <2>2 DEF Fire
  <2> HIDE DEF top, size
  <2>4. picked' \in Seq([story : Story, channel : BOOLEAN])
    <3> DEFINE pick(n) == [story |-> top[n], channel |-> top[n] \in hasChannel]
    <3>1. ASSUME NEW n \in 1..size PROVE pick(n) \in [story : Story, channel : BOOLEAN]
      <4>1. \A t \in Story, b \in BOOLEAN :
               [story |-> t, channel |-> b] \in [story : Story, channel : BOOLEAN]
        OBVIOUS
      <4>2. (top[n] \in hasChannel) \in BOOLEAN
        OBVIOUS
      <4> QED
        BY <2>2, <4>1, <4>2, Zenon
    <3>2. picked' = [n \in 1..size |-> pick(n)]
      BY <2>3
    <3> HIDE DEF pick
    <3>3. picked' \in [1..size -> [story : Story, channel : BOOLEAN]]
      BY <3>1, <3>2
    <3> QED
      BY <2>1, <3>3, FunctionIsSequence
  <2>5. wanted' = {top[n] : n \in 1..size} \cap hasChannel
    BY <1>4, <2>2 DEF Fire, top, size
  <2>6. /\ tried' = {} /\ job' = "loop"
        /\ UNCHANGED <<inbox, hasChannel, drafted>>
    BY <1>4 DEF Fire, storyVars
  <2>7. WithChannel(picked') = wanted'
    <3>1. DOMAIN picked' = 1..size
      BY <2>3
    <3>2. \A n \in 1..size : picked'[n].story = top[n] /\ (picked'[n].channel <=> top[n] \in hasChannel)
      BY <2>3
    <3> QED
      BY <2>5, <3>1, <3>2 DEF WithChannel
  <2> QED
    BY <2>4, <2>5, <2>6, <2>7 DEF PicksInv, WithChannel
<1>5. CASE Skip
  <2>1. /\ picked # <<>> /\ ~Head(picked).channel /\ picked' = Tail(picked) /\ job = "loop"
        /\ UNCHANGED <<inbox, hasChannel, drafted, wanted, tried, died, job, story>>
    BY <1>5 DEF Skip, storyVars, pastVars
  <2>2. WithChannel(picked') = WithChannel(picked) /\ picked' \in Seq([story : Story, channel : BOOLEAN])
    BY <2>1, WithChannelTail DEF PicksInv
  <2> QED
    BY <2>1, <2>2 DEF PicksInv, WithChannel
<1>6. CASE Generate
  <2>1. /\ picked # <<>> /\ Head(picked).channel /\ picked' = Tail(picked) /\ job = "loop"
        /\ story' = Head(picked).story /\ tried' = tried \cup {story'} /\ job' = "script"
        /\ UNCHANGED <<inbox, hasChannel, drafted, wanted, died>>
    BY <1>6 DEF Generate, storyVars
  <2>2. /\ WithChannel(picked) = WithChannel(picked') \cup {story'}
        /\ picked' \in Seq([story : Story, channel : BOOLEAN])
    BY <2>1, WithChannelTail DEF PicksInv
  <2> QED
    BY <2>1, <2>2 DEF PicksInv, WithChannel
<1>7. CASE FailsEarly \/ Compiled \/ BuildStep \/ GenerationRaises
  BY <1>7 DEF FailsEarly, Compiled, BuildStep, GenerationRaises, NextStory, storyVars, jobVars,
              pastVars, PicksInv, WithChannel
<1>8. CASE FramesReturned
  BY <1>8 DEF FramesReturned, NextStory, storyVars, PicksInv, WithChannel
<1>9. CASE JobDone
  <2>1. WithChannel(picked) = {}
    BY <1>9 DEF JobDone, WithChannel
  <2> QED
    BY <1>9, <2>1 DEF JobDone, storyVars, pastVars, PicksInv
<1>10. CASE Die
  BY <1>10 DEF Die, storyVars, PicksInv
<1> QED
  BY <1>1, <1>2, <1>3, <1>4, <1>5, <1>6, <1>7, <1>8, <1>9, <1>10 DEF Next, JobStep

(* A firing calls for a film of each story it picked that had a channel    *)
(* and of no other, whatever became of the ones before it (autopilot_job). *)
THEOREM PicksAreTried == Spec => []EveryPickIsTried
<1>1. Init => PicksInv
  BY DEF Init, PicksInv
<1>2. PicksInv => EveryPickIsTried
  BY DEF PicksInv, EveryPickIsTried
<1> QED
  BY <1>1, <1>2, PicksNext, PTL DEF Spec

-----------------------------------------------------------------------------
(* The types of a build.                                                   *)

LEMMA PageDomain ==
    ASSUME BuildInv
    PROVE  Len(page) \in Nat /\ DOMAIN page = 1..Len(page) /\ at \in Nat
  BY DEF BuildInv

LEMMA PageKinds == Seq(PageKind) = Seq({"pending", "candidate", "real", "substitute", "absent"})
<1>1. PageKind = {"pending", "candidate", "real", "substitute", "absent"}
  BY DEF PageKind, Settled
<1> QED
  BY <1>1, Zenon

(* A frame is settled, or a candidate is written for it: the board keeps   *)
(* its size.                                                               *)
LEMMA BoardKeepsItsSize ==
    ASSUME BuildInv, NEW kind \in PageKind
    PROVE  /\ DOMAIN [page EXCEPT ![at] = kind] = DOMAIN page
           /\ Len([page EXCEPT ![at] = kind]) = Len(page)
<1>1. page \in Seq(PageKind)
  BY DEF BuildInv
<1> QED
  BY <1>1

(* What is left to show of the type of a build whose page is in order.     *)
LEMMA FramesTypeIntro ==
    ASSUME BuildInv', Len(page') <= MaxFrames, failed' \subseteq DOMAIN page',
           at' \in 0..(MaxFrames + 1), attempt' \in 0..ShotRetries,
           feedback' \in Defect \cup {"static", "repeats", NoReason},
           feedback' = NoReason <=> attempt' = 0,
           middle' \in [DOMAIN page' -> Picture \cup {NoPicture}],
           plan' \in [DOMAIN page' -> Answer \cup {NoPlan}],
           first' \in Answer \cup {NoPlan}, first' # NoPlan <=> build' = "askAgain",
           heard' \in Seq(Answer \cup {NoPlan}), Len(heard') <= 2
    PROVE  FramesTypeOK'
  BY PageKinds DEF BuildInv, FramesTypeOK

(* A step to the next frame at most: what is counted stays in bounds.      *)
LEMMA AtInBounds ==
    ASSUME BuildInv, FramesTypeOK, at' \in {at, at + 1}, at \in DOMAIN page,
           failed' \in {failed, failed \cup {at}}, DOMAIN page' = DOMAIN page
    PROVE  at' \in 0..(MaxFrames + 1) /\ failed' \subseteq DOMAIN page'
<1>1. /\ Len(page) \in Nat /\ Len(page) <= MaxFrames /\ at \in 1..Len(page) /\ MaxFrames \in Nat
      /\ failed \subseteq DOMAIN page
  BY PageDomain, ShotAssumption DEF FramesTypeOK
<1>2. at' \in 0..(MaxFrames + 1)
  BY <1>1
<1> QED
  BY <1>1, <1>2

(* A frame's shot gets a verdict, which changes nothing but the frame in   *)
(* hand and what is told to the next attempt.                              *)
LEMMA VerdictType ==
    ASSUME BuildInv, FramesTypeOK, build = "verify", VerifyShot
    PROVE  /\ DOMAIN page' = DOMAIN page /\ Len(page') = Len(page)
           /\ failed' \in {failed, failed \cup {at}} /\ at' \in {at, at + 1} /\ at \in DOMAIN page
           /\ attempt' \in 0..ShotRetries
           /\ feedback' \in Defect \cup {"static", "repeats", NoReason}
           /\ feedback' = NoReason <=> attempt' = 0
           /\ middle' = middle \/ \E picture \in Picture : middle' = [middle EXCEPT ![at] = picture]
           /\ build' \in {"author", "returned"}
<1>1. /\ at \in DOMAIN page /\ page \in Seq(PageKind) /\ ShotRetries \in Nat
      /\ attempt \in 0..ShotRetries /\ NoReason \notin Defect \cup {"static", "repeats"}
  BY ShotAssumption DEF BuildInv, InTurn, FramesTypeOK
<1>2. ASSUME NEW picture \in Picture, Accept(picture)
      PROVE  /\ page' = [page EXCEPT ![at] = "real"] /\ failed' = failed /\ at' = at + 1
             /\ attempt' = 0 /\ feedback' = NoReason
             /\ middle' = [middle EXCEPT ![at] = picture]
             /\ build' \in {"author", "returned"}
  BY <1>2 DEF Accept, NextFrame
<1>3. ASSUME NEW reason \in Defect \cup {"static", "repeats"}, Reject(reason), attempt < ShotRetries
      PROVE  /\ page' = page /\ failed' = failed /\ at' = at
             /\ attempt' \in 1..ShotRetries /\ feedback' = reason /\ reason # NoReason
             /\ middle' = middle /\ build' = "author"
  BY <1>1, <1>3 DEF Reject
<1>4. ASSUME NEW reason, Reject(reason), ~(attempt < ShotRetries)
      PROVE  /\ page' = [page EXCEPT ![at] = "absent"] /\ failed' = failed \cup {at} /\ at' = at + 1
             /\ attempt' = 0 /\ feedback' = NoReason
             /\ middle' = middle /\ build' \in {"author", "returned"}
  BY <1>4 DEF Reject, GiveUp, NextFrame
<1>5. \/ \E picture \in Picture : Accept(picture)
      \/ \E reason \in Defect \cup {"static", "repeats"} : Reject(reason)
  BY DEF VerifyShot, Judge
<1>6. \A kind \in {"real", "absent"} :
         /\ DOMAIN [page EXCEPT ![at] = kind] = DOMAIN page
         /\ Len([page EXCEPT ![at] = kind]) = Len(page)
  BY BoardKeepsItsSize DEF PageKind, Settled
<1> QED
  BY <1>1, <1>2, <1>3, <1>4, <1>5, <1>6

LEMMA ShotType ==
    ASSUME BuildInv, BuildInv', FramesTypeOK, ShotStep, UNCHANGED plannerVars
    PROVE  FramesTypeOK'
<1>1. /\ Len(page) \in Nat /\ Len(page) <= MaxFrames /\ DOMAIN page = 1..Len(page)
      /\ at \in 0..(MaxFrames + 1) /\ MaxFrames \in Nat
      /\ page' \in Seq(PageKind) /\ build' \in Busy \cup {"idle", "returned", "raised"}
  BY PageDomain, ShotAssumption DEF FramesTypeOK, BuildInv
<1>2. plan' = plan /\ first' = first /\ heard' = heard
  BY DEF plannerVars
<1>3. CASE BuildRaises \/ World
  <2>1. /\ page' = page /\ failed' = failed /\ at' \in {at, 1}
        /\ UNCHANGED <<attempt, feedback, middle>>
        /\ build \in {"world", "author", "verify"} /\ build' \in {"raised", "returned", "author"}
    BY <1>3 DEF BuildRaises, World, shotVars
  <2>2. at' \in 0..(MaxFrames + 1)
    BY <1>1, <2>1
  <2> QED
    BY <1>1, <1>2, <2>1, <2>2, FramesTypeIntro DEF FramesTypeOK
<1>4. CASE AuthorShot
  <2>1. at \in DOMAIN page /\ page \in Seq(PageKind)
    BY <1>4 DEF AuthorShot, BuildInv, InTurn
  <2>2. DOMAIN page' = DOMAIN page /\ Len(page') = Len(page)
    BY <1>4, <2>1 DEF AuthorShot
  <2> QED
    BY <1>1, <1>2, <1>4, <2>2, FramesTypeIntro DEF AuthorShot, shotVars, FramesTypeOK
<1>5. CASE VerifyShot
  <2>1. build = "verify"
    BY <1>5 DEF VerifyShot
  <2>2. /\ DOMAIN page' = DOMAIN page /\ Len(page') = Len(page)
        /\ failed' \in {failed, failed \cup {at}} /\ at' \in {at, at + 1} /\ at \in DOMAIN page
        /\ attempt' \in 0..ShotRetries
        /\ feedback' \in Defect \cup {"static", "repeats", NoReason}
        /\ feedback' = NoReason <=> attempt' = 0
        /\ middle' = middle \/ \E picture \in Picture : middle' = [middle EXCEPT ![at] = picture]
        /\ build' \in {"author", "returned"}
    BY <1>5, <2>1, VerdictType
  <2>3. middle' \in [DOMAIN page -> Picture \cup {NoPicture}]
    BY <2>2 DEF FramesTypeOK
  <2>4. at' \in 0..(MaxFrames + 1) /\ failed' \subseteq DOMAIN page'
    BY <2>2, AtInBounds
  <2>5. Len(page') <= MaxFrames
    BY <1>1, <2>2
  <2>6. /\ plan' \in [DOMAIN page' -> Answer \cup {NoPlan}]
        /\ first' \in Answer \cup {NoPlan} /\ (first' # NoPlan <=> build' = "askAgain")
        /\ heard' \in Seq(Answer \cup {NoPlan}) /\ Len(heard') <= 2
    BY <1>2, <2>1, <2>2 DEF FramesTypeOK
  <2> QED
    BY <2>2, <2>3, <2>4, <2>5, <2>6, FramesTypeIntro
<1> QED
  BY <1>3, <1>4, <1>5 DEF ShotStep

LEMMA GeminiType ==
    ASSUME BuildInv, BuildInv', FramesTypeOK,
           GeminiWithoutKey \/ GeminiDone \/ \E f \in DOMAIN page : GeminiFrame(f)
    PROVE  FramesTypeOK'
<1>1. /\ build = "gemini" /\ build' \in {"gemini", "returned"}
      /\ UNCHANGED <<at, attempt, feedback, middle, plan, first, heard>>
  BY DEF GeminiWithoutKey, GeminiDone, GeminiFrame, shotVars, plannerVars
<1>2. page \in Seq(PageKind) /\ page' \in Seq(PageKind)
  BY DEF BuildInv
<1>3. DOMAIN page' = DOMAIN page /\ Len(page') = Len(page)
  BY <1>2 DEF GeminiWithoutKey, GeminiDone, GeminiFrame
<1>4. failed' \subseteq DOMAIN page
  BY DEF GeminiWithoutKey, GeminiDone, GeminiFrame, FramesTypeOK
<1> QED
  BY <1>1, <1>2, <1>3, <1>4, FramesTypeIntro DEF FramesTypeOK

(* What drawing a plan or giving up on the planner does.                   *)
LEMMA PlanType ==
    ASSUME BuildInv, FramesTypeOK, Heuristic \/ Ask \/ AskAgain \/ AskUnhashable
    PROVE  /\ at \in DOMAIN page /\ DOMAIN page' = DOMAIN page /\ Len(page') = Len(page)
           /\ failed' \in {failed, failed \cup {at}} /\ at' \in {at, at + 1}
           /\ \/ plan' = plan
              \/ \E record \in Answer : plan' = [plan EXCEPT ![at] = record]
           /\ first' \in Answer \cup {NoPlan} /\ (first' # NoPlan <=> build' = "askAgain")
           /\ heard' \in Seq(Answer \cup {NoPlan}) /\ Len(heard') <= 2
           /\ build' \in {"ask", "askAgain", "returned", "raised"}
           /\ UNCHANGED <<attempt, feedback, middle>>
<1>1. /\ at \in DOMAIN page /\ page \in Seq(PageKind) /\ NoPlan \notin Answer
      /\ first \in Answer \cup {NoPlan} /\ (first # NoPlan <=> build = "askAgain")
      /\ heard \in Seq(Answer \cup {NoPlan}) /\ Len(heard) <= 2
  BY FrameAssumption DEF BuildInv, InTurn, FramesTypeOK, Heuristic, Ask, AskAgain, AskUnhashable
<1>2. \A kind \in {"real", "substitute"} :
         /\ DOMAIN [page EXCEPT ![at] = kind] = DOMAIN page
         /\ Len([page EXCEPT ![at] = kind]) = Len(page)
  BY BoardKeepsItsSize DEF PageKind, Settled
<1>3. CASE PlannerRaises /\ UNCHANGED shotVars
  BY <1>1, <1>3 DEF PlannerRaises, shotVars
<1>4. ASSUME NEW p \in Answer, NEW answers \in Seq(Answer \cup {NoPlan}), Len(answers) <= 2,
             Draw(p, answers), ~PlannerRaises, UNCHANGED shotVars
      PROVE  /\ DOMAIN page' = DOMAIN page /\ Len(page') = Len(page)
             /\ failed' \in {failed, failed \cup {at}} /\ at' \in {at, at + 1}
             /\ \E record \in Answer : plan' = [plan EXCEPT ![at] = record]
             /\ heard' \in Seq(Answer \cup {NoPlan}) /\ Len(heard') <= 2
             /\ first' = NoPlan /\ build' \in {"ask", "returned"}
             /\ UNCHANGED <<attempt, feedback, middle>>
  <2> HIDE DEF Answer
  <2> QED
    BY <1>2, <1>4 DEF Draw, NextPlanned, shotVars
<1>5. CASE Heuristic
  <2>1. PICK shape \in Shape :
           plan' = [plan EXCEPT ![at] = [shape |-> shape, english |-> TRUE]]
    BY <1>5 DEF Heuristic
  <2>2. [shape |-> shape, english |-> TRUE] \in Answer
    BY DEF Answer
  <2>3. heard' = <<>> /\ heard' \in Seq(Answer \cup {NoPlan}) /\ Len(heard') <= 2
    BY <1>5 DEF Heuristic
  <2> QED
    BY <1>1, <1>2, <1>5, <2>1, <2>2, <2>3 DEF Heuristic, NextPlanned, shotVars
<1>6. CASE Ask
  <2>1. PICK p \in Answer :
          IF AsksAgain(p)
          THEN /\ first' = p /\ build' = "askAgain"
               /\ UNCHANGED <<page, failed, at, plan, heard>>
          ELSE Draw(p, <<p>>)
    BY <1>6 DEF Ask
  <2>2. UNCHANGED shotVars
    BY <1>6 DEF Ask
  <2>3. CASE AsksAgain(p)
    BY <1>1, <2>1, <2>2, <2>3 DEF shotVars
  <2>4. CASE ~AsksAgain(p) /\ ~PlannerRaises
    <3>1. Draw(p, <<p>>) /\ <<p>> \in Seq(Answer \cup {NoPlan}) /\ Len(<<p>>) <= 2
      BY <2>1, <2>4
    <3>2. /\ first' = NoPlan /\ build' \in {"ask", "returned"} /\ build' # "askAgain"
      BY <1>4, <2>2, <2>4, <3>1
    <3> QED
      BY <1>1, <1>4, <2>2, <2>4, <3>1, <3>2
  <2> QED
    BY <1>3, <2>1, <2>2, <2>3, <2>4
<1>7. CASE AskAgain
  <2>1. UNCHANGED shotVars /\ first \in Answer
    BY <1>1, <1>7 DEF AskAgain
  <2>2. \E p \in Answer, q \in Answer \cup {NoPlan} : Draw(p, <<first, q>>)
    BY <1>7, <2>1 DEF AskAgain
  <2>3. PICK p \in Answer, q \in Answer \cup {NoPlan} : Draw(p, <<first, q>>)
    BY <2>2
  <2>4. CASE ~PlannerRaises
    <3>1. <<first, q>> \in Seq(Answer \cup {NoPlan}) /\ Len(<<first, q>>) <= 2
      BY <2>1
    <3>2. /\ first' = NoPlan /\ build' \in {"ask", "returned"} /\ build' # "askAgain"
      BY <1>4, <2>1, <2>3, <2>4, <3>1
    <3> QED
      BY <1>1, <1>4, <2>1, <2>3, <2>4, <3>1, <3>2
  <2> QED
    BY <1>3, <2>1, <2>4
<1>8. CASE AskUnhashable
  BY <1>3, <1>8 DEF AskUnhashable
<1> QED
  BY <1>5, <1>6, <1>7, <1>8

LEMMA PlannerType ==
    ASSUME BuildInv, BuildInv', FramesTypeOK, Heuristic \/ Ask \/ AskAgain \/ AskUnhashable
    PROVE  FramesTypeOK'
<1>1. /\ Len(page) \in Nat /\ Len(page) <= MaxFrames /\ DOMAIN page = 1..Len(page)
      /\ at \in 0..(MaxFrames + 1) /\ MaxFrames \in Nat
      /\ page' \in Seq(PageKind) /\ build' \in Busy \cup {"idle", "returned", "raised"}
  BY PageDomain, ShotAssumption DEF FramesTypeOK, BuildInv
<1>2. /\ at \in DOMAIN page /\ DOMAIN page' = DOMAIN page /\ Len(page') = Len(page)
      /\ failed' \in {failed, failed \cup {at}} /\ at' \in {at, at + 1}
      /\ \/ plan' = plan
         \/ \E record \in Answer : plan' = [plan EXCEPT ![at] = record]
      /\ first' \in Answer \cup {NoPlan} /\ (first' # NoPlan <=> build' = "askAgain")
      /\ heard' \in Seq(Answer \cup {NoPlan}) /\ Len(heard') <= 2
      /\ UNCHANGED <<attempt, feedback, middle>>
  BY PlanType
<1>3. plan' \in [DOMAIN page -> Answer \cup {NoPlan}]
  <2>1. plan \in [DOMAIN page -> Answer \cup {NoPlan}]
    BY DEF FramesTypeOK
  <2> HIDE DEF Answer
  <2> QED
    BY <1>2, <2>1
<1>4. at' \in 0..(MaxFrames + 1) /\ failed' \subseteq DOMAIN page'
  BY <1>2, AtInBounds
<1>5. /\ attempt' \in 0..ShotRetries /\ feedback' \in Defect \cup {"static", "repeats", NoReason}
      /\ feedback' = NoReason <=> attempt' = 0
      /\ middle' \in [DOMAIN page' -> Picture \cup {NoPicture}]
  BY <1>2 DEF FramesTypeOK
<1> QED
  BY <1>1, <1>2, <1>3, <1>4, <1>5, FramesTypeIntro

LEMMA FramesTypeNext ==
    ASSUME BuildInv, FramesTypeOK, [Next]_vars
    PROVE  FramesTypeOK'
<1>0. BuildInv'
  BY NextBuilds
<1>1. CASE BuildStep
  BY <1>0, <1>1, ShotType, GeminiType, PlannerType DEF BuildStep, FramesStep
<1>2. CASE Compiled
  <2>1. PICK n \in MinScript..MaxFrames : BeginFrames(n, backend)
    BY <1>2 DEF Compiled
  <2>2. n \in Nat /\ n <= MaxFrames /\ MaxFrames \in Nat
    BY ShotAssumption, AutopilotAssumption
  <2>3. /\ page' = [f \in 1..n |-> "pending"] /\ middle' = [f \in 1..n |-> NoPicture]
        /\ plan' = [f \in 1..n |-> NoPlan] /\ at' = 1 /\ build = "idle" /\ heard' = <<>>
        /\ UNCHANGED <<failed, attempt, feedback, first>>
        /\ build' \in {"world", "gemini", "ask", "returned"}
    BY <2>1 DEF BeginFrames
  <2>4. DOMAIN page' = 1..n /\ Len(page') = n /\ page' \in Seq(PageKind) /\ failed' = {}
    BY <1>0, <2>2, <2>3 DEF BuildInv
  <2>5. first' = NoPlan /\ heard' \in Seq(Answer \cup {NoPlan}) /\ Len(heard') <= 2
    BY <2>3 DEF FramesTypeOK
  <2>6. /\ attempt' \in 0..ShotRetries /\ feedback' \in Defect \cup {"static", "repeats", NoReason}
        /\ feedback' = NoReason <=> attempt' = 0
    BY <2>3 DEF FramesTypeOK
  <2>7. /\ middle' \in [DOMAIN page' -> Picture \cup {NoPicture}]
        /\ plan' \in [DOMAIN page' -> Answer \cup {NoPlan}]
    BY <2>3, <2>4
  <2>8. Len(page') <= MaxFrames /\ at' \in 0..(MaxFrames + 1) /\ failed' \subseteq DOMAIN page'
    BY <2>2, <2>3, <2>4
  <2> QED
    BY <1>0, <2>3, <2>5, <2>6, <2>7, <2>8, FramesTypeIntro
<1>3. CASE FailsEarly \/ GenerationRaises \/ FramesReturned \/ Die
  <2>1. LeaveFrames
    BY <1>3 DEF FailsEarly, GenerationRaises, FramesReturned, Die, NextStory
  <2>2. DOMAIN page' = {} /\ Len(page') = 0 /\ page' \in Seq(PageKind)
    BY <1>0, <2>1 DEF LeaveFrames, BuildInv
  <2>3. middle' \in [DOMAIN page' -> Picture \cup {NoPicture}]
        /\ plan' \in [DOMAIN page' -> Answer \cup {NoPlan}]
    BY <2>1, <2>2 DEF LeaveFrames
  <2>4. /\ Len(page') <= MaxFrames /\ at' \in 0..(MaxFrames + 1) /\ failed' \subseteq DOMAIN page'
        /\ attempt' = 0 /\ attempt' \in 0..ShotRetries
        /\ heard' \in Seq(Answer \cup {NoPlan}) /\ Len(heard') <= 2
    BY <2>1, <2>2, ShotAssumption DEF LeaveFrames
  <2> QED
    BY <1>0, <2>1, <2>3, <2>4, FramesTypeIntro DEF LeaveFrames
<1>4. CASE UNCHANGED frameVars
  BY <1>4 DEF frameVars, buildVars, shotVars, plannerVars, FramesTypeOK
<1>5. CASE \/ \E s \in Story : NewStory(s) \/ AssignChannel(s)
           \/ Fire \/ Skip \/ Generate \/ JobDone \/ UNCHANGED vars
  BY <1>4, <1>5 DEF NewStory, AssignChannel, Fire, Skip, Generate, JobDone, vars
<1> QED
  BY <1>1, <1>2, <1>3, <1>5 DEF Next, JobStep

-----------------------------------------------------------------------------
(* The pictures.                                                           *)

(* Only the 3D backend keeps pictures, and keeps one when it accepts a     *)
(* shot.                                                                   *)
ShotsInv ==
    /\ build \in {"world", "ask", "askAgain", "gemini"} =>
          \A f \in DOMAIN middle : middle[f] = NoPicture
    /\ ShotsDiffer

Below == {pair \in Nat \X Nat : pair[1] < pair[2]}

LEMMA BelowWellFounded == IsWellFoundedOn(Below, Nat)
  BY NatLessThanWellFounded DEF OpToRel, Below

LEMMA SomeIsLast ==
    ASSUME NEW n \in Nat, NEW S \in SUBSET (1..n), S # {}
    PROVE  \E m \in S : \A k \in S : k <= m
<1> DEFINE T == {n - k : k \in S}
<1>1. T \subseteq Nat /\ T # {}
  <2>1. \A k \in S : n - k \in Nat
    OBVIOUS
  <2>2. PICK k \in S : TRUE
    OBVIOUS
  <2>3. n - k \in T
    OBVIOUS
  <2> QED
    BY <2>1, <2>3
<1>2. PICK x \in T : \A y \in T : ~(<<y, x>> \in Below)
  BY <1>1, BelowWellFounded, WFMin
<1>3. PICK m \in S : x = n - m
  OBVIOUS
<1>4. ASSUME NEW k \in S PROVE k <= m
  <2>1. n - k \in T /\ n - k \in Nat /\ x \in Nat
    BY <1>1
  <2>2. ~(n - k < x)
    BY <1>2, <2>1 DEF Below
  <2> QED
    BY <1>3, <2>2
<1> QED
  BY <1>4

(* LastAccepted is the last frame that is real, if one is.                 *)
LEMMA LastAcceptedIsLast ==
    ASSUME BuildInv, build \in InTurn
    PROVE  (\E f \in DOMAIN page : page[f] = "real") =>
               /\ LastAccepted \in DOMAIN page /\ LastAccepted # 0
               /\ page[LastAccepted] = "real"
               /\ \A f \in DOMAIN page : page[f] = "real" => f <= LastAccepted
<1> DEFINE S == {f \in DOMAIN page : page[f] = "real"}
<1>1. Len(page) \in Nat /\ S \in SUBSET (1..Len(page)) /\ DOMAIN page = 1..Len(page)
  BY PageDomain
<1>2. CASE S = {}
  BY <1>2
<1>3. CASE S # {}
  <2>1. \E m \in S : \A k \in S : k <= m
    BY <1>1, <1>3, SomeIsLast
  <2>2. LastAccepted = CHOOSE m \in S : \A k \in S : k <= m
    BY <1>3 DEF LastAccepted, Max0
  <2>3. LastAccepted \in S /\ \A k \in S : k <= LastAccepted
    BY <2>1, <2>2
  <2> QED
    BY <1>1, <2>3
<1> QED
  BY <1>2, <1>3

(* A step that changes neither what is real nor the pictures.              *)
LEMMA ShotsQuietly ==
    ASSUME ShotsDiffer, UNCHANGED middle, DOMAIN page' = DOMAIN page, DOMAIN middle = DOMAIN page,
           \A f \in DOMAIN page : page'[f] = "real" <=> page[f] = "real"
    PROVE  ShotsDiffer'
  BY DEF ShotsDiffer, AreDistinct

LEMMA ShotsBlank ==
    ASSUME \A f \in DOMAIN middle' : middle'[f] = NoPicture
    PROVE  ShotsDiffer'
  BY FrameAssumption DEF ShotsDiffer

LEMMA AcceptDiffers ==
    ASSUME BuildInv, FramesTypeOK, ShotsDiffer, build = "verify", NEW picture \in Picture,
           LastAccepted = 0 \/ AreDistinct(middle[LastAccepted], picture),
           Accept(picture)
    PROVE  ShotsDiffer'
<1>1. /\ Len(page) \in Nat /\ DOMAIN page = 1..Len(page) /\ at \in 1..Len(page)
      /\ page \in Seq(PageKind) /\ middle \in [DOMAIN page -> Picture \cup {NoPicture}]
  BY PageDomain DEF BuildInv, FramesTypeOK, InTurn
<1>2. \A f \in 1..Len(page) :
         IF f < at THEN page[f] \in Settled
         ELSE page[f] = "pending" \/ (f = at /\ page[f] = "candidate")
  BY <1>1 DEF BuildInv, InTurn
<1>3. /\ page' = [page EXCEPT ![at] = "real"] /\ middle' = [middle EXCEPT ![at] = picture]
  BY DEF Accept
<1>4. /\ DOMAIN page' = 1..Len(page) /\ DOMAIN middle' = 1..Len(page)
      /\ page'[at] = "real" /\ middle'[at] = picture
      /\ \A f \in 1..Len(page) : f # at => page'[f] = page[f] /\ middle'[f] = middle[f]
  BY <1>1, <1>3
<1>5. SUFFICES ASSUME NEW f \in 1..Len(page), NEW g \in 1..Len(page), f < g,
                      page'[f] = "real", page'[g] = "real",
                      {middle'[f], middle'[g]} \subseteq Picture,
                      \A h \in 1..Len(page) : f < h /\ h < g => page'[h] # "real"
               PROVE  AreDistinct(middle'[f], middle'[g])
  BY <1>4 DEF ShotsDiffer, AreDistinct
<1>6. g <= at
  BY <1>1, <1>2, <1>4, <1>5
<1>7. CASE g < at
  <2>1. /\ page[f] = "real" /\ page[g] = "real" /\ {middle[f], middle[g]} \subseteq Picture
        /\ \A h \in 1..Len(page) : f < h /\ h < g => page[h] # "real"
        /\ middle'[f] = middle[f] /\ middle'[g] = middle[g]
    BY <1>1, <1>4, <1>5, <1>7
  <2> QED
    BY <1>1, <1>5, <2>1 DEF ShotsDiffer
<1>8. CASE g = at
  <2>1. page[f] = "real" /\ f < at
    BY <1>1, <1>4, <1>5, <1>8
  <2>2. /\ LastAccepted \in 1..Len(page) /\ LastAccepted # 0
        /\ page[LastAccepted] = "real"
        /\ f <= LastAccepted
    BY <1>1, <2>1, LastAcceptedIsLast DEF InTurn
  <2>3. LastAccepted < at
    BY <1>1, <1>2, <2>2
  <2>4. LastAccepted = f
    BY <1>1, <1>4, <1>5, <1>8, <2>2, <2>3
  <2> QED
    BY <1>1, <1>4, <1>8, <2>1, <2>2, <2>4
<1> QED
  BY <1>1, <1>6, <1>7, <1>8

LEMMA ShotsVerdict ==
    ASSUME BuildInv, FramesTypeOK, ShotsInv, VerifyShot
    PROVE  ShotsInv'
<1>1. /\ Len(page) \in Nat /\ DOMAIN page = 1..Len(page) /\ at \in 1..Len(page)
      /\ DOMAIN middle = DOMAIN page /\ build = "verify" /\ page \in Seq(PageKind)
      /\ page[at] # "real"
  <2>1. build = "verify"
    BY DEF VerifyShot
  <2>2. at \in DOMAIN page /\ (page[at] = "pending" \/ page[at] = "candidate") /\ page \in Seq(PageKind)
    BY <2>1, PageDomain DEF BuildInv, InTurn
  <2> QED
    BY <2>1, <2>2, PageDomain DEF FramesTypeOK
<1>2. build' \in {"author", "returned"}
  BY <1>1, VerdictType
<1>3. ASSUME NEW reason, Reject(reason) PROVE ShotsDiffer'
  <2>1. /\ middle' = middle
        /\ page' = page \/ page' = [page EXCEPT ![at] = "absent"]
    BY <1>3 DEF Reject, GiveUp
  <2>2. DOMAIN page' = DOMAIN page /\ \A f \in DOMAIN page : page'[f] = "real" <=> page[f] = "real"
    BY <1>1, <2>1
  <2> QED
    BY <1>1, <2>1, <2>2, ShotsQuietly DEF ShotsInv
<1>4. ASSUME NEW picture \in Picture, Accept(picture),
             LastAccepted = 0 \/ AreDistinct(middle[LastAccepted], picture)
      PROVE  ShotsDiffer'
  BY <1>1, <1>4, AcceptDiffers DEF ShotsInv
<1>5. ShotsDiffer'
  <2>1. CASE \E reason \in Defect : Reject(reason)
    BY <1>3, <2>1
  <2>2. CASE \E probes \in [1..3 -> Picture] : Judge(probes)
    <3>1. PICK probes \in [1..3 -> Picture] : Judge(probes)
      BY <2>2
    <3>2. probes[2] \in Picture
      OBVIOUS
    <3> QED
      BY <1>3, <1>4, <3>1, <3>2 DEF Judge
  <2> QED
    BY <2>1, <2>2 DEF VerifyShot
<1> QED
  BY <1>2, <1>5 DEF ShotsInv

LEMMA ShotsNext ==
    ASSUME BuildInv, FramesTypeOK, ShotsInv, [Next]_vars
    PROVE  ShotsInv'
<1>1. /\ Len(page) \in Nat /\ DOMAIN page = 1..Len(page) /\ DOMAIN middle = DOMAIN page
      /\ page \in Seq(PageKind)
  BY PageDomain DEF BuildInv, FramesTypeOK
<1>2. CASE BuildRaises \/ World
  <2>1. UNCHANGED <<page, middle>> /\ build' \in {"raised", "returned", "author"}
    BY <1>2 DEF BuildRaises, World, shotVars
  <2> QED
    BY <1>1, <2>1, ShotsQuietly DEF ShotsInv
<1>3. CASE AuthorShot
  <2>1. /\ page' = [page EXCEPT ![at] = "candidate"] /\ middle' = middle
        /\ build = "author" /\ build' = "verify"
    BY <1>3 DEF AuthorShot, shotVars
  <2>2. at \in DOMAIN page /\ page[at] # "real"
    <3>1. at \in DOMAIN page /\ (page[at] = "pending" \/ page[at] = "candidate")
      BY <2>1, PageDomain DEF BuildInv, InTurn
    <3> QED
      BY <3>1
  <2>3. DOMAIN page' = DOMAIN page /\ \A f \in DOMAIN page : page'[f] = "real" <=> page[f] = "real"
    BY <1>1, <2>1, <2>2
  <2> QED
    BY <1>1, <2>1, <2>3, ShotsQuietly DEF ShotsInv
<1>4. CASE VerifyShot
  BY <1>4, ShotsVerdict
<1>5. CASE \/ GeminiWithoutKey \/ GeminiDone \/ \E f \in DOMAIN page : GeminiFrame(f)
           \/ Heuristic \/ Ask \/ AskAgain \/ AskUnhashable
  <2>1. build \in {"ask", "askAgain", "gemini"} /\ middle' = middle
    BY <1>5 DEF GeminiWithoutKey, GeminiDone, GeminiFrame, Heuristic, Ask, AskAgain, AskUnhashable,
                shotVars
  <2>2. \A f \in DOMAIN middle' : middle'[f] = NoPicture
    BY <2>1 DEF ShotsInv
  <2> QED
    BY <2>2, ShotsBlank DEF ShotsInv
<1>6. CASE Compiled
  <2>1. PICK n \in MinScript..MaxFrames : BeginFrames(n, backend)
    BY <1>6 DEF Compiled
  <2>2. \A f \in DOMAIN middle' : middle'[f] = NoPicture
    BY <2>1 DEF BeginFrames
  <2> QED
    BY <2>2, ShotsBlank DEF ShotsInv
<1>7. CASE FailsEarly \/ GenerationRaises \/ FramesReturned \/ Die
  <2>1. middle' = <<>>
    BY <1>7 DEF FailsEarly, GenerationRaises, FramesReturned, Die, NextStory, LeaveFrames
  <2>2. \A f \in DOMAIN middle' : middle'[f] = NoPicture
    BY <2>1
  <2> QED
    BY <2>2, ShotsBlank DEF ShotsInv
<1>8. CASE UNCHANGED frameVars
  BY <1>8 DEF frameVars, buildVars, shotVars, ShotsInv, ShotsDiffer, AreDistinct
<1>9. CASE \/ \E s \in Story : NewStory(s) \/ AssignChannel(s)
           \/ Fire \/ Skip \/ Generate \/ JobDone \/ UNCHANGED vars
  BY <1>8, <1>9 DEF NewStory, AssignChannel, Fire, Skip, Generate, JobDone, vars
<1> QED
  BY <1>2, <1>3, <1>4, <1>5, <1>6, <1>7, <1>9 DEF Next, JobStep, BuildStep, FramesStep, ShotStep

-----------------------------------------------------------------------------
(* The plans.                                                              *)

(* An answer waits for a second one only if it does not fit; frames drawn  *)
(* from answers are the local backend's.                                   *)
PlansInv ==
    /\ build = "askAgain" => ~Fits(first, Spent)
    /\ heard # <<>> => build \in {"ask", "askAgain", "returned", "raised"}
    /\ BestAnswerIsShown

LEMMA AsksIfItDoesNotFit ==
    ASSUME NEW p \in Answer
    PROVE  AsksAgain(p) <=> ~Fits(p, Spent)
<1>1. p.english \in BOOLEAN
  BY DEF Answer
<1> QED
  BY <1>1 DEF AsksAgain, Fits

LEMMA FirstIsBest ==
    ASSUME NEW p \in Answer, NEW before, Fits(p, before)
    PROVE  IsBestOf(p, <<p>>, before)
<1>1. p # NoPlan
  BY FrameAssumption
<1>2. {(<<p>>)[n] : n \in DOMAIN <<p>>} = {p} /\ Len(<<p>>) = 1 /\ (<<p>>)[1] = p
  OBVIOUS
<1> QED
  BY <1>1, <1>2 DEF IsBestOf

LEMMA SecondIsBest ==
    ASSUME NEW p \in Answer, NEW q \in Answer \cup {NoPlan}, NEW before, ~Fits(p, before),
           NEW shown \in {p, q}, q \in Answer /\ q.english => shown = q,
           shown = q => q \in Answer /\ q.english
    PROVE  IsBestOf(shown, <<p, q>>, before)
<1>1. p # NoPlan /\ (q # NoPlan <=> q \in Answer)
  BY FrameAssumption
<1>2. /\ {(<<p, q>>)[n] : n \in DOMAIN <<p, q>>} = {p, q}
      /\ Len(<<p, q>>) = 2 /\ (<<p, q>>)[1] = p
  OBVIOUS
<1>3. shown \in {p, q} \ {NoPlan}
  BY <1>1
<1>4. ASSUME NEW answer \in {p, q} \ {NoPlan}
      PROVE  (Fits(answer, before) => Fits(shown, before)) /\ (answer.english => shown.english)
  BY <1>1 DEF Fits
<1> QED
  BY <1>2, <1>3, <1>4 DEF IsBestOf

LEMMA PlansQuietly ==
    ASSUME PlansInv, UNCHANGED <<plan, at, heard>>,
           heard # <<>> => build' \in {"ask", "askAgain", "returned", "raised"},
           build' = "askAgain" => ~Fits(first', Spent)
    PROVE  PlansInv'
<1>1. Spent' = Spent
  BY DEF Spent
<1> QED
  BY <1>1 DEF PlansInv, BestAnswerIsShown

LEMMA PlansUnheard ==
    ASSUME heard' = <<>>, build' # "askAgain"
    PROVE  PlansInv'
  BY DEF PlansInv, BestAnswerIsShown

LEMMA DrawPlans ==
    ASSUME BuildInv, FramesTypeOK, PlansInv, build \in {"ask", "askAgain"},
           NEW p, NEW answers, Draw(p, answers), IsBestOf(p, answers, Spent)
    PROVE  PlansInv'
<1>1. CASE PlannerRaises
  BY <1>1, PlansQuietly DEF PlannerRaises
<1>2. CASE ~PlannerRaises
  <2>1. /\ plan' = [plan EXCEPT ![at] = p] /\ at' = at + 1 /\ heard' = answers
        /\ build' \in {"ask", "returned"} /\ build' # "askAgain"
    BY <1>2 DEF Draw, NextPlanned
  <2>2. /\ Len(page) \in Nat /\ DOMAIN plan = 1..Len(page) /\ at \in 1..Len(page) /\ at \in Nat
    BY PageDomain DEF FramesTypeOK, BuildInv, InTurn
  <2>3. at' - 1 = at /\ at' - 2 = at - 1 /\ plan'[at] = p
    BY <2>1, <2>2
  <2>4. ASSUME NEW f \in 1..(at - 1) PROVE plan'[f] = plan[f]
    BY <2>1, <2>2
  <2>5. {plan'[f].shape : f \in 1..(at - 1)} = Spent
    BY <2>4 DEF Spent
  <2>6. BestAnswerIsShown'
    BY <2>1, <2>3, <2>5 DEF BestAnswerIsShown
  <2> QED
    BY <2>1, <2>6 DEF PlansInv
<1> QED
  BY <1>1, <1>2

LEMMA PlannerPlans ==
    ASSUME BuildInv, FramesTypeOK, PlansInv, Heuristic \/ Ask \/ AskAgain \/ AskUnhashable
    PROVE  PlansInv'
<1>1. CASE Heuristic
  BY <1>1, PlansUnheard DEF Heuristic, NextPlanned
<1>2. CASE Ask
  <2>1. PICK p \in Answer :
          IF AsksAgain(p)
          THEN /\ first' = p /\ build' = "askAgain"
               /\ UNCHANGED <<page, failed, at, plan, heard>>
          ELSE Draw(p, <<p>>)
    BY <1>2 DEF Ask
  <2>2. CASE AsksAgain(p)
    BY <1>2, <2>1, <2>2, AsksIfItDoesNotFit, PlansQuietly DEF Ask
  <2>3. CASE ~AsksAgain(p)
    BY <1>2, <2>1, <2>3, AsksIfItDoesNotFit, FirstIsBest, DrawPlans DEF Ask
  <2> QED
    BY <2>2, <2>3
<1>3. CASE AskAgain
  <2>1. first \in Answer /\ build = "askAgain" /\ ~Fits(first, Spent)
    BY <1>3 DEF AskAgain, FramesTypeOK, PlansInv
  <2>2. CASE Draw(first, <<first, NoPlan>>)
    <3>1. IsBestOf(first, <<first, NoPlan>>, Spent)
      BY <2>1, SecondIsBest, FrameAssumption
    <3> QED
      BY <2>1, <2>2, <3>1, DrawPlans
  <2>3. ASSUME NEW p \in Answer, Draw(IF p.english THEN p ELSE first, <<first, p>>)
        PROVE  PlansInv'
    <3> DEFINE shown == IF p.english THEN p ELSE first
    <3>1. CASE p = first
      <4>1. shown = first
        BY <3>1
      <4>2. IsBestOf(first, <<first, p>>, Spent)
        <5>1. {(<<first, p>>)[n] : n \in DOMAIN <<first, p>>} \ {NoPlan} = {first}
          BY <2>1, <3>1, FrameAssumption
        <5>2. Len(<<first, p>>) = 2 /\ (<<first, p>>)[1] = first
          OBVIOUS
        <5> QED
          BY <2>1, <5>1, <5>2 DEF IsBestOf
      <4> QED
        BY <2>1, <2>3, <4>1, <4>2, DrawPlans
    <3>2. CASE p # first
      <4>1. IsBestOf(shown, <<first, p>>, Spent)
        BY <2>1, <3>2, SecondIsBest
      <4> QED
        BY <2>1, <2>3, <4>1, DrawPlans
    <3> QED
      BY <3>1, <3>2
  <2> QED
    BY <1>3, <2>2, <2>3 DEF AskAgain
<1>4. CASE AskUnhashable
  BY <1>4, PlansQuietly DEF AskUnhashable, PlannerRaises
<1> QED
  BY <1>1, <1>2, <1>3, <1>4

LEMMA PlansNext ==
    ASSUME BuildInv, FramesTypeOK, PlansInv, [Next]_vars
    PROVE  PlansInv'
<1>1. CASE BuildStep
  <2>1. CASE ShotStep /\ UNCHANGED plannerVars
    <3>1. /\ UNCHANGED heard /\ build \in {"world", "author", "verify"}
          /\ build' \in {"raised", "returned", "author", "verify"}
      BY <2>1 DEF ShotStep, BuildRaises, World, AuthorShot, VerifyShot, Judge, Accept, Reject,
                  GiveUp, NextFrame, plannerVars
    <3> QED
      BY <3>1, PlansUnheard DEF PlansInv
  <2>2. CASE GeminiWithoutKey \/ GeminiDone \/ \E f \in DOMAIN page : GeminiFrame(f)
    <3>1. UNCHANGED heard /\ build = "gemini" /\ build' \in {"gemini", "returned"}
      BY <2>2 DEF GeminiWithoutKey, GeminiDone, GeminiFrame, plannerVars
    <3> QED
      BY <3>1, PlansUnheard DEF PlansInv
  <2> QED
    BY <1>1, <2>1, <2>2, PlannerPlans DEF BuildStep, FramesStep
<1>2. CASE Compiled
  <2>1. PICK n \in MinScript..MaxFrames : BeginFrames(n, backend)
    BY <1>2 DEF Compiled
  <2>2. heard' = <<>> /\ build' # "askAgain"
    BY <2>1 DEF BeginFrames
  <2> QED
    BY <2>2, PlansUnheard
<1>3. CASE FailsEarly \/ GenerationRaises \/ FramesReturned \/ Die
  <2>1. LeaveFrames
    BY <1>3 DEF FailsEarly, GenerationRaises, FramesReturned, Die, NextStory
  <2> QED
    BY <2>1, PlansUnheard DEF LeaveFrames
<1>4. CASE UNCHANGED frameVars
  <2>1. UNCHANGED <<plan, at, heard, build, first>>
    BY <1>4 DEF frameVars, buildVars, plannerVars
  <2> QED
    BY <2>1, PlansQuietly DEF PlansInv
<1>5. CASE \/ \E s \in Story : NewStory(s) \/ AssignChannel(s)
           \/ Fire \/ Skip \/ Generate \/ JobDone \/ UNCHANGED vars
  BY <1>4, <1>5 DEF NewStory, AssignChannel, Fire, Skip, Generate, JobDone, vars
<1> QED
  BY <1>1, <1>2, <1>3, <1>5 DEF Next, JobStep

-----------------------------------------------------------------------------
(* The job's own variables.                                                *)

JobType ==
    /\ job \in {"idle", "loop", "script", "frames"}
    /\ inbox \in Seq(Story) /\ hasChannel \subseteq Story
    /\ picked \in Seq([story : Story, channel : BOOLEAN]) /\ Len(picked) <= MaxDrafts
    /\ story \in Story \cup {NoStory} /\ backend \in Backend
    /\ drafted \subseteq Story /\ firings \in 0..MaxFirings
    /\ wanted \subseteq Story /\ tried \subseteq Story /\ died \in BOOLEAN

LEMMA FirstIsElement ==
    ASSUME NEW S, NEW s \in Seq(S), s # <<>>
    PROVE  s[1] \in S /\ Head(s) = s[1] /\ Len(Tail(s)) = Len(s) - 1
  OBVIOUS

LEMMA JobTypeNext ==
    ASSUME PicksInv, PicksInv', JobType, [Next]_vars
    PROVE  JobType'
<1> USE DEF storyVars, jobVars, pastVars
<1>1. MaxDrafts \in Nat /\ MaxFirings \in Nat /\ inbox' \in Seq(Story)
      /\ picked' \in Seq([story : Story, channel : BOOLEAN])
  BY AutopilotAssumption DEF PicksInv
<1>2. ASSUME NEW s \in Story, NewStory(s) \/ AssignChannel(s) PROVE JobType'
  BY <1>1, <1>2 DEF NewStory, AssignChannel, JobType
<1>3. CASE Fire
  <2> DEFINE size == IF Len(inbox) < MaxDrafts THEN Len(inbox) ELSE MaxDrafts
  <2> DEFINE top == SubSeq(inbox, 1, size)
  <2>1. inbox \in Seq(Story) /\ size \in Nat /\ size <= Len(inbox) /\ size <= MaxDrafts
    BY <1>1 DEF JobType
  <2>2. DOMAIN top = 1..size /\ \A n \in 1..size : top[n] \in Story
    BY <2>1
  <2>3. /\ DOMAIN picked' = 1..size /\ wanted' = {top[n] : n \in 1..size} \cap hasChannel
        /\ firings' = firings + 1 /\ firings < MaxFirings
        /\ tried' = {} /\ died' = FALSE /\ job' = "loop"
        /\ UNCHANGED <<hasChannel, story, backend, drafted>>
    BY <1>3, <2>2 DEF Fire
  <2>4. Len(picked') = size
    BY <1>1, <2>1, <2>3
  <2>5. wanted' \subseteq Story /\ firings' \in 0..MaxFirings
    BY <1>1, <2>3 DEF JobType
  <2>6. Len(picked') <= MaxDrafts
    BY <2>1, <2>4
  <2> HIDE DEF top, size
  <2> QED
    BY <1>1, <2>3, <2>5, <2>6 DEF JobType
<1>4. CASE Skip \/ Generate
  <2>1. /\ picked # <<>> /\ picked' = Tail(picked) /\ picked \in Seq([story : Story, channel : BOOLEAN])
    BY <1>4 DEF Skip, Generate, JobType
  <2>2. Len(picked') <= MaxDrafts /\ Head(picked).story \in Story
    <3>0. picked[1] \in [story : Story, channel : BOOLEAN] /\ Head(picked) = picked[1]
      BY <2>1, FirstIsElement
    <3>1. Len(picked) \in Nat /\ Len(picked) <= MaxDrafts /\ Len(picked') = Len(picked) - 1
      BY <2>1 DEF JobType
    <3>2. Head(picked).story \in Story
      BY <3>0
    <3> QED
      BY <1>1, <3>1, <3>2
  <2>3. CASE Skip
    BY <1>1, <2>2, <2>3 DEF Skip, JobType
  <2>4. CASE Generate
    <3>1. /\ story' = Head(picked).story /\ tried' = tried \cup {story'} /\ job' = "script"
          /\ UNCHANGED <<inbox, hasChannel, backend, drafted, firings, wanted, died>>
      BY <2>4 DEF Generate
    <3>2. story' \in Story /\ tried' \subseteq Story
      BY <2>2, <3>1 DEF JobType
    <3> QED
      BY <1>1, <2>2, <3>1, <3>2 DEF JobType
  <2> QED
    BY <1>4, <2>3, <2>4
<1>5. CASE FailsEarly \/ Compiled \/ BuildStep \/ GenerationRaises \/ JobDone
  BY <1>1, <1>5 DEF FailsEarly, Compiled, BuildStep, GenerationRaises, JobDone, NextStory, JobType
<1>6. CASE FramesReturned
  <2>1. story \in Story
    BY <1>6 DEF FramesReturned, PicksInv, JobType
  <2> QED
    BY <1>1, <1>6, <2>1 DEF FramesReturned, NextStory, JobType
<1>7. CASE Die
  <2>1. Len(picked') <= MaxDrafts
    BY <1>1, <1>7 DEF Die
  <2> QED
    BY <1>1, <1>7, <2>1 DEF Die, JobType
<1>8. CASE UNCHANGED vars
  BY <1>8 DEF vars, JobType
<1> QED
  BY <1>2, <1>3, <1>4, <1>5, <1>6, <1>7, <1>8 DEF Next, JobStep

-----------------------------------------------------------------------------
(* Together: each of these invariants rests on the types and on BuildInv.  *)

AutopilotInv ==
    /\ BuildInv /\ PicksInv /\ FramesTypeOK /\ JobType
    /\ ShotsInv /\ PlansInv

LEMMA AutopilotInvInit == Init => AutopilotInv
<1> SUFFICES ASSUME Init PROVE AutopilotInv
  OBVIOUS
<1>1. /\ build = "idle" /\ page = <<>> /\ failed = {} /\ at = 0
      /\ attempt = 0 /\ feedback = NoReason /\ middle = <<>> /\ plan = <<>> /\ first = NoPlan
      /\ heard = <<>>
  BY DEF Init, FramesInit, BuildInit
<1>2. Len(<<>>) = 0 /\ DOMAIN <<>> = {} /\ \A S : <<>> \in Seq(S) /\ <<>> \in [{} -> S]
  OBVIOUS
<1>3. FramesTypeOK
  BY <1>1, <1>2, ShotAssumption DEF FramesTypeOK
<1>4. PicksInv
  BY <1>2 DEF Init, PicksInv
<1>5. JobType
  <2>1. /\ job = "idle" /\ inbox = <<>> /\ hasChannel = {} /\ picked = <<>> /\ story = NoStory
        /\ backend \in Backend /\ drafted = {} /\ firings = 0 /\ wanted = {} /\ tried = {}
        /\ died = FALSE
    BY DEF Init
  <2>2. MaxDrafts \in Nat /\ MaxFirings \in Nat
    BY AutopilotAssumption
  <2>3. Len(picked) = 0 /\ 0 <= MaxDrafts /\ 0 \in 0..MaxFirings
    BY <2>1, <2>2
  <2>4. inbox \in Seq(Story) /\ picked \in Seq([story : Story, channel : BOOLEAN])
    BY <1>4 DEF PicksInv
  <2> QED
    BY <2>1, <2>2, <2>3, <2>4 DEF JobType
<1>6. ShotsInv /\ PlansInv
  BY <1>1, <1>2 DEF ShotsInv, ShotsDiffer, PlansInv, BestAnswerIsShown
<1> QED
  BY <1>3, <1>4, <1>5, <1>6, InitBuilds DEF AutopilotInv

LEMMA AutopilotInvNext == AutopilotInv /\ [Next]_vars => AutopilotInv'
<1> SUFFICES ASSUME AutopilotInv, [Next]_vars PROVE AutopilotInv'
  OBVIOUS
<1> USE DEF AutopilotInv
<1>1. BuildInv' /\ PicksInv' /\ FramesTypeOK'
  BY NextBuilds, PicksNext, FramesTypeNext
<1>2. JobType'
  BY <1>1, JobTypeNext
<1> QED
  BY <1>1, <1>2, ShotsNext, PlansNext

(* The state of the job and of a build stays in its type; the next attempt *)
(* at a shot is told a reason if and only if the one before was a          *)
(* rejection of the same frame's shot (last_error, scene3d/backend.py).    *)
THEOREM AutopilotTypes == Spec => []TypeOK
<1>1. AutopilotInv => TypeOK
  BY DEF AutopilotInv, JobType, TypeOK
<1> QED
  BY <1>1, AutopilotInvInit, AutopilotInvNext, PTL DEF Spec

(* Two accepted shots that follow each other on the screen differ, however *)
(* many attempts or given-up frames lie between them, and whichever        *)
(* pictures are alike or unreadable (frames_are_distinct).                 *)
THEOREM ShotsNeverRepeat == Spec => []ShotsDiffer
<1>1. AutopilotInv => ShotsDiffer
  BY DEF AutopilotInv, ShotsInv
<1> QED
  BY <1>1, AutopilotInvInit, AutopilotInvNext, PTL DEF Spec

(* Of the answers the model gave for a frame the best is shown, and it is  *)
(* asked a second time exactly if the first did not fit: it repeats no     *)
(* shape while another is left, and is English (plan_frame).               *)
THEOREM BestPlansAreShown == Spec => []BestAnswerIsShown
<1>1. AutopilotInv => BestAnswerIsShown
  BY DEF AutopilotInv, PlansInv
<1> QED
  BY <1>1, AutopilotInvInit, AutopilotInvNext, PTL DEF Spec

=============================================================================
