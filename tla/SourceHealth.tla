---------------------------- MODULE SourceHealth ----------------------------
(***************************************************************************)
(* The health bookkeeping of the sources: poll loops (worker/app/ingest.py,*)
(* run_all_sources) and manual polls (trigger_source, POST /ingest/trigger)*)
(* run run_for_source, which counts failures in a row and disables a       *)
(* source at the third (worker/app/db.py, update_source_health).           *)
(*                                                                         *)
(* Every await is a step of its own, so that a manual poll may overlap the *)
(* loop's poll of the same source, and the loop works on the list of       *)
(* active sources it read when its cycle began.  What a poll stores is the *)
(* matter of EmbeddingRecovery.  last_status, last_run_at and the audit   *)
(* log only report.                                                        *)
(***************************************************************************)
EXTENDS Naturals

CONSTANTS
    Source,
    Silent,       \* sources whose fetch answers an outage with no items (edgar)
    Nse,          \* sources whose fetch skips a row that is not active (nse)
    Placeholder,  \* those of them whose row has no real url
    Loop,         \* poll loops that may run at the same time
    Trigger,      \* manual polls that may run at the same time
    MaxTriggers   \* bound on manual polls

ASSUME HealthAssumption ==
    /\ Silent \subseteq Source /\ Nse \subseteq Source /\ Silent \cap Nse = {}
    /\ Placeholder \subseteq Nse
    /\ Loop \cap Trigger = {}
    /\ MaxTriggers \in Nat

Poll == Loop \cup Trigger

FailureLimit == 3   \* literal in update_source_health

VARIABLES
    active, failures,  \* columns active and consecutive_failures
    gone,              \* sources that answer no more
    pc,
    todo,              \* rest of the list a loop read when its cycle began
    row,               \* source a poll works on (at most one)
    rowActive,         \* active, as the row said when the poll read it
    triggers,
    streak,            \* history: failed fetches since the last good one, up to FailureLimit
    disturbed,         \* history: sources whose polls overlapped or were cut short after a good fetch
    late               \* history: polls a loop began after the source had been disabled

tableVars == <<active, failures>>
pollVars == <<pc, todo, row, rowActive>>
historyVars == <<streak, disturbed, late>>
vars == <<tableVars, gone, pollVars, triggers, historyVars>>

Init ==
    /\ active \in {f \in [Source -> BOOLEAN] : \A s \in Source \ Nse : f[s]}
    /\ failures = [s \in Source |-> 0]
    /\ gone = {}
    /\ pc = [p \in Poll |-> "idle"]
    /\ todo = [p \in Poll |-> {}]
    /\ row = [p \in Poll |-> {}]
    /\ rowActive = [p \in Poll |-> FALSE]
    /\ triggers = 0
    /\ streak = [s \in Source |-> 0]
    /\ disturbed = {}
    /\ late = [s \in Source |-> 0]

Goto(p, label) == pc' = [pc EXCEPT ![p] = label]

(* A poll of s begins; seen is the row's active flag when it was read.     *)
Take(p, s, seen) ==
    /\ row' = [row EXCEPT ![p] = {s}]
    /\ rowActive' = [rowActive EXCEPT ![p] = seen]
    /\ disturbed' = IF \E q \in Poll \ {p} : s \in row[q] THEN disturbed \cup {s} ELSE disturbed
    /\ Goto(p, "fetch")

-----------------------------------------------------------------------------
\* mutant: the query forgets WHERE active
BeginCycleLoadsAll(p) ==
    /\ pc[p] = "idle"
    /\ todo' = [todo EXCEPT ![p] = Source]
    /\ Goto(p, "next")
    /\ UNCHANGED <<tableVars, gone, row, rowActive, triggers, historyVars>>

(* active_sources: the rows come in no particular order.                   *)
BeginCycle(p) ==
    /\ pc[p] = "idle"
    /\ todo' = [todo EXCEPT ![p] = {s \in Source : active[s]}]
    /\ Goto(p, "next")
    /\ UNCHANGED <<tableVars, gone, row, rowActive, triggers, historyVars>>

NextSource(p) ==
    /\ pc[p] = "next"
    /\ \E s \in todo[p] :
          /\ todo' = [todo EXCEPT ![p] = @ \ {s}]
          /\ Take(p, s, TRUE)
          /\ late' = IF active[s] THEN late ELSE [late EXCEPT ![s] = @ + 1]
    /\ UNCHANGED <<tableVars, gone, triggers, streak>>

EndCycle(p) ==
    /\ pc[p] = "next" /\ todo[p] = {}
    /\ Goto(p, "idle")
    /\ UNCHANGED <<tableVars, gone, todo, row, rowActive, triggers, historyVars>>

(* trigger_source takes any source, disabled ones too.                     *)
BeginTrigger(p, s) ==
    /\ pc[p] = "idle"
    /\ triggers < MaxTriggers
    /\ triggers' = triggers + 1
    /\ Take(p, s, active[s])
    /\ UNCHANGED <<tableVars, gone, todo, streak, late>>

(* The source stops answering, for good.                                   *)
Vanish(s) ==
    /\ gone' = gone \cup {s}
    /\ UNCHANGED <<tableVars, pollVars, triggers, historyVars>>

-----------------------------------------------------------------------------
(* run_for_source.                                                         *)

Fetched(s, good) ==
    streak' = [streak EXCEPT ![s] =
                  IF good THEN 0 ELSE IF @ < FailureLimit THEN @ + 1 ELSE @]

\* mutant: every kind of source answers an outage with no items
FetchSwallowsOutages(p) ==
    /\ pc[p] = "fetch"
    /\ \E s \in row[p] : Fetched(s, TRUE) /\ Goto(p, "work")
    /\ UNCHANGED <<tableVars, gone, todo, row, rowActive, triggers, disturbed, late>>

(* nse_disabled: there is nothing to ask, which is no failure.             *)
KnownSkip(p, s) == s \in Placeholder \/ (s \in Nse /\ ~rowActive[p])

(* fetch returned items, raised SourceError, or raised nse_disabled.       *)
Fetch(p) ==
    /\ pc[p] = "fetch"
    /\ \E s \in row[p] :
          IF KnownSkip(p, s)
          THEN Goto(p, "audit_error") /\ UNCHANGED streak
          ELSE \/ /\ s \in Silent \/ s \notin gone
                  /\ Fetched(s, TRUE)
                  /\ Goto(p, "work")
               \/ /\ s \notin Silent
                  /\ Fetched(s, FALSE)
                  /\ Goto(p, "failed")
    /\ UNCHANGED <<tableVars, gone, todo, row, rowActive, triggers, disturbed, late>>

(* Normalising, storing and embedding the items.                           *)
Work(p) ==
    /\ pc[p] = "work"
    /\ Goto(p, "succeeded")
    /\ UNCHANGED <<tableVars, gone, todo, row, rowActive, triggers, historyVars>>

(* update_source_health(failed=True): one transaction.                     *)
RecordFailure(p) ==
    /\ pc[p] = "failed"
    /\ \E s \in row[p] :
          /\ failures' = [failures EXCEPT ![s] = @ + 1]
          /\ active' = [active EXCEPT ![s] = @ /\ failures[s] + 1 < FailureLimit]
    /\ Goto(p, "audit_error")
    /\ UNCHANGED <<gone, todo, row, rowActive, triggers, historyVars>>

\* mutant: a good poll does not reset the count
RecordSuccessKeepsTheCount(p) ==
    /\ pc[p] = "succeeded"
    /\ Goto(p, "audit_run")
    /\ UNCHANGED <<tableVars, gone, todo, row, rowActive, triggers, historyVars>>

(* update_source_health(failed=False) resets the count and leaves active   *)
(* as it is.                                                               *)
RecordSuccess(p) ==
    /\ pc[p] = "succeeded"
    /\ \E s \in row[p] : failures' = [failures EXCEPT ![s] = 0]
    /\ Goto(p, "audit_run")
    /\ UNCHANGED <<active, gone, todo, row, rowActive, triggers, historyVars>>

Leave(p, label) ==
    /\ row' = [row EXCEPT ![p] = {}]
    /\ rowActive' = [rowActive EXCEPT ![p] = FALSE]
    /\ Goto(p, label)

(* audit_log, the poll's last await, which swallows its own failures.      *)
Audit(p) ==
    /\ pc[p] \in {"audit_error", "audit_run"}
    /\ Leave(p, IF p \in Loop THEN "next" ELSE "idle")
    /\ UNCHANGED <<tableVars, gone, todo, triggers, historyVars>>

(* An exception that is no SourceError (a malformed URL, a failing         *)
(* database call) leaves run_for_source; in a loop nobody catches it and   *)
(* the rest of the list is dropped.  It may do so in every cycle.  A dying *)
(* process leaves the same tables behind.                                  *)
Abort(p) ==
    /\ pc[p] \in {"fetch", "failed", "work", "succeeded"}
    /\ Leave(p, "idle")
    /\ todo' = [todo EXCEPT ![p] = {}]
    /\ disturbed' = IF pc[p] \in {"work", "succeeded"} THEN disturbed \cup row[p] ELSE disturbed
    /\ UNCHANGED <<tableVars, gone, triggers, streak, late>>

-----------------------------------------------------------------------------
RunForSource(p) == Fetch(p) \/ Work(p) \/ RecordFailure(p) \/ RecordSuccess(p) \/ Audit(p)

LoopStep(p) == BeginCycle(p) \/ NextSource(p) \/ EndCycle(p) \/ RunForSource(p)

Next ==
    \/ \E p \in Loop : LoopStep(p) \/ Abort(p)
    \/ \E p \in Trigger : RunForSource(p) \/ Abort(p) \/ \E s \in Source : BeginTrigger(p, s)
    \/ \E s \in Source : Vanish(s)

Spec == Init /\ [][Next]_vars

(* The interval fires again and again and awaits return; nobody has to     *)
(* trigger anything.                                                       *)
FairSpec ==
    /\ Spec
    /\ \A p \in Loop : WF_vars(LoopStep(p))
    /\ \A p \in Trigger : WF_vars(RunForSource(p))

-----------------------------------------------------------------------------
(* Every variable stays in its type.  The count outgrows the limit only by *)
(* the polls that were under way or asked for by hand.                     *)
TypeOK ==
    /\ active \in [Source -> BOOLEAN]
    /\ failures \in [Source -> 0..(FailureLimit + MaxTriggers + 1)]
    /\ gone \subseteq Source
    /\ pc \in [Poll -> {"idle", "next", "fetch", "failed", "work", "succeeded",
                        "audit_error", "audit_run"}]
    /\ todo \in [Poll -> SUBSET Source]
    /\ row \in [Poll -> SUBSET Source]
    /\ rowActive \in [Poll -> BOOLEAN]
    /\ triggers \in 0..MaxTriggers
    /\ streak \in [Source -> 0..FailureLimit]
    /\ disturbed \subseteq Source
    /\ late \in [Source -> Nat]

(* A source is disabled at its third failed fetch in a row ("after 3       *)
(* consecutive fails"), provided its polls never overlapped and none was   *)
(* cut short between its fetch and its bookkeeping.                        *)
CleanStreakDisables ==
    [][\A s \in Source :
          active[s] /\ ~active'[s] => streak[s] = FailureLimit \/ s \in disturbed]_vars

(* A loop begins at most one poll of a source that is disabled already:    *)
(* only its stale list can still name it.                                  *)
StalePollBounded == \A s \in Source : late[s] <= 1

(* A source that answers no more is disabled in the end, unless its kind   *)
(* hides outages or its row has no url, or unexpected exceptions go on     *)
(* cutting cycles short for ever: of what is listed behind the source that *)
(* raises nothing is ever counted.                                         *)
GoneIsDisabled ==
    \A s \in Source \ (Silent \cup Placeholder) :
        \/ s \in gone ~> ~active[s]
        \/ []<><<\E p \in Loop : Abort(p)>>_vars

(* "One bad source doesn't kill the loop": a cycle ends only when its list *)
(* is done.                                                                *)
OneBadSourceDoesNotKillTheLoop ==
    [][\A p \in Loop : pc[p] # "idle" /\ pc'[p] = "idle" => todo[p] = {}]_vars
=============================================================================
