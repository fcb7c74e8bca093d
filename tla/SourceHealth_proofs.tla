-------------------------- MODULE SourceHealth_proofs --------------------------
(***************************************************************************)
(* A source is never disabled too early, for any number of sources, loops, *)
(* manual polls and aborted polls: the third failure the table counts is   *)
(* the third failed fetch in a row, or two polls of the source overlapped, *)
(* or one was cut short between a good fetch and its bookkeeping.          *)
(*                                                                         *)
(* The count in the table and the streak of failed fetches agree only      *)
(* between polls, and not even there when a poll was cut short before it   *)
(* could record a failure.  What is inductive (HealthInv) is an inequality *)
(* that depends on where the one poll of an undisturbed source stands.     *)
(*                                                                         *)
(* OneStalePoll bounds what a loop does with the list it read before: once *)
(* it has polled a disabled source no list of its names the source again   *)
(* (StaleInv).                                                             *)
(***************************************************************************)
EXTENDS SourceHealth, TLAPS

Labels == {"idle", "next", "fetch", "failed", "work", "succeeded", "audit_error", "audit_run"}

HealthType ==
    /\ active \in [Source -> BOOLEAN] /\ failures \in [Source -> Nat]
    /\ pc \in [Poll -> Labels] /\ row \in [Poll -> SUBSET Source]
    /\ streak \in [Source -> 0..FailureLimit]

(* A poll works on one source.                                             *)
OneRow == \A p \in Poll : \A s, t \in row[p] : s = t

(* An undisturbed source is polled by one poll at a time.                  *)
Alone(s) == \A p, q \in Poll : s \in row[p] /\ s \in row[q] => p = q

(* The fetch of s was good and the count is still to be reset.             *)
ResetPending(s) == \E p \in Poll : s \in row[p] /\ pc[p] \in {"work", "succeeded"}

(* The table counts no failure that did not happen in a row.               *)
CountIsEarned(s) ==
    /\ failures[s] < FailureLimit
    /\ failures[s] <= streak[s] \/ ResetPending(s)
    /\ \A p \in Poll : s \in row[p] /\ pc[p] = "failed" => failures[s] + 1 <= streak[s]

HealthInv ==
    /\ HealthType /\ OneRow
    /\ \A s \in Source \ disturbed : Alone(s) /\ (active[s] => CountIsEarned(s))

-----------------------------------------------------------------------------
LEMMA HealthInvInit == Init => HealthInv
BY HealthAssumption DEF Init, HealthInv, HealthType, OneRow, Alone, CountIsEarned, ResetPending, Labels, FailureLimit

(* A poll begins: of another source, or as the only one, or the source is  *)
(* disturbed from now on.                                                  *)
LEMMA TakeKeepsInv ==
    ASSUME HealthInv, NEW p \in Poll, NEW s \in Source, NEW seen, Take(p, s, seen),
           pc[p] \in {"idle", "next"}, UNCHANGED <<active, failures, streak>>
    PROVE  HealthInv'
<1>1. /\ row' = [row EXCEPT ![p] = {s}] /\ pc' = [pc EXCEPT ![p] = "fetch"]
      /\ disturbed' = IF \E q \in Poll \ {p} : s \in row[q] THEN disturbed \cup {s} ELSE disturbed
  BY DEF Take, Goto
<1>2. HealthType' /\ OneRow'
  BY <1>1 DEF HealthInv, HealthType, OneRow, Labels
<1>3. /\ row'[p] = {s} /\ pc'[p] = "fetch"
      /\ \A q \in Poll : q # p => row'[q] = row[q] /\ pc'[q] = pc[q]
  BY <1>1 DEF HealthInv, HealthType
<1>4. ASSUME NEW t \in Source \ disturbed'
      PROVE  Alone(t)' /\ (active'[t] => CountIsEarned(t)')
  <2>1. t \in Source \ disturbed /\ Alone(t)
    BY <1>1 DEF HealthInv
  <2>2. Alone(t)'
    BY <1>1, <1>3, <2>1, <1>4 DEF Alone
  <2>3. ResetPending(t) => ResetPending(t)'
    BY <1>3 DEF ResetPending
  <2>4. ASSUME active[t] PROVE CountIsEarned(t)'
    BY <1>3, <2>1, <2>3, <2>4 DEF HealthInv, CountIsEarned
  <2> QED
    BY <2>2, <2>4
<1> QED
  BY <1>2, <1>4 DEF HealthInv

(* A poll moves on or ends without touching what is counted: it keeps or   *)
(* gives up its source, and unless the source is disturbed by it, a count  *)
(* that has to be reset stays so.                                          *)
LEMMA MoveKeepsInv ==
    ASSUME HealthInv, NEW p \in Poll, NEW l \in Labels \ {"failed"},
           pc' = [pc EXCEPT ![p] = l], row' \in {row, [row EXCEPT ![p] = {}]},
           disturbed \subseteq disturbed', UNCHANGED <<active, failures, streak>>,
           pc[p] \in {"work", "succeeded"} =>
               (l \in {"work", "succeeded"} /\ row' = row) \/ row[p] \subseteq disturbed'
    PROVE  HealthInv'
<1>1. HealthType' /\ OneRow'
  BY DEF HealthInv, HealthType, OneRow
<1>2. /\ \A q \in Poll : row'[q] \subseteq row[q]
      /\ pc'[p] = l /\ \A q \in Poll : q # p => row'[q] = row[q] /\ pc'[q] = pc[q]
  BY DEF HealthInv, HealthType
<1>3. ASSUME NEW t \in Source \ disturbed'
      PROVE  Alone(t)' /\ (active'[t] => CountIsEarned(t)')
  <2>1. t \in Source \ disturbed
    OBVIOUS
  <2>2. Alone(t)'
    BY <1>2, <2>1 DEF Alone, HealthInv
  <2>3. ResetPending(t) => ResetPending(t)'
    BY <1>2, <1>3 DEF ResetPending
  <2> QED
    BY <1>2, <2>1, <2>2, <2>3 DEF HealthInv, CountIsEarned
<1> QED
  BY <1>1, <1>3 DEF HealthInv

(* The fetch has answered.                                                 *)
LEMMA FetchKeepsInv ==
    ASSUME HealthInv, NEW p \in Poll, Fetch(p)
    PROVE  HealthInv'
<1>1. PICK s \in row[p] :
          \/ pc' = [pc EXCEPT ![p] = "audit_error"] /\ UNCHANGED streak
          \/ pc' = [pc EXCEPT ![p] = "work"] /\ Fetched(s, TRUE)
          \/ pc' = [pc EXCEPT ![p] = "failed"] /\ Fetched(s, FALSE)
  BY DEF Fetch, Goto
<1>2. pc[p] = "fetch" /\ s \in Source /\ UNCHANGED <<active, failures, row, disturbed>>
  BY <1>1 DEF Fetch, tableVars, HealthInv, HealthType
<1>3. CASE pc' = [pc EXCEPT ![p] = "audit_error"] /\ UNCHANGED streak
  BY <1>2, <1>3, MoveKeepsInv DEF Labels
<1>4. CASE pc' = [pc EXCEPT ![p] = "work"] /\ Fetched(s, TRUE)
  <2>1. HealthType' /\ OneRow' /\ \A t \in Source : t # s => streak'[t] = streak[t]
    BY <1>2, <1>4 DEF HealthInv, HealthType, OneRow, Fetched, Labels, FailureLimit
  <2>2. pc'[p] = "work" /\ \A q \in Poll : q # p => pc'[q] = pc[q]
    BY <1>4 DEF HealthInv, HealthType
  <2>3. ASSUME NEW t \in Source \ disturbed'
        PROVE  Alone(t)' /\ (active'[t] => CountIsEarned(t)')
    <3>1. t \in Source \ disturbed /\ Alone(t) /\ Alone(t)'
      BY <1>2 DEF HealthInv, Alone
    <3>2. CASE t = s
      BY <1>1, <1>2, <2>2, <3>1, <3>2 DEF HealthInv, CountIsEarned, ResetPending, Alone
    <3>3. CASE t # s
      <4>1. t \notin row[p] /\ streak'[t] = streak[t]
        BY <1>1, <2>1, <3>3 DEF HealthInv, OneRow
      <4> QED
        BY <1>2, <2>2, <3>1, <4>1 DEF HealthInv, CountIsEarned, ResetPending
    <3> QED
      BY <3>2, <3>3
  <2> QED
    BY <2>1, <2>3 DEF HealthInv
<1>5. CASE pc' = [pc EXCEPT ![p] = "failed"] /\ Fetched(s, FALSE)
  <2>1. HealthType' /\ OneRow' /\ \A t \in Source : t # s => streak'[t] = streak[t]
    BY <1>2, <1>5 DEF HealthInv, HealthType, OneRow, Fetched, Labels, FailureLimit
  <2>2. pc'[p] = "failed" /\ \A q \in Poll : q # p => pc'[q] = pc[q]
    BY <1>5 DEF HealthInv, HealthType
  <2>3. streak'[s] = IF streak[s] < FailureLimit THEN streak[s] + 1 ELSE streak[s]
    BY <1>2, <1>5 DEF Fetched, HealthInv, HealthType
  <2>4. ASSUME NEW t \in Source \ disturbed'
        PROVE  Alone(t)' /\ (active'[t] => CountIsEarned(t)')
    <3>1. t \in Source \ disturbed /\ Alone(t) /\ Alone(t)'
      BY <1>2 DEF HealthInv, Alone
    <3>2. ASSUME t = s, active[s] PROVE CountIsEarned(s)'
      <4>1. ~ResetPending(s)
        BY <1>1, <1>2, <3>1, <3>2 DEF Alone, ResetPending
      <4>2. /\ failures[s] \in Nat /\ streak[s] \in 0..FailureLimit
            /\ failures[s] < FailureLimit /\ failures[s] <= streak[s]
        BY <1>2, <3>1, <3>2, <4>1 DEF HealthInv, HealthType, CountIsEarned
      <4>3. failures[s] + 1 <= streak'[s] /\ failures[s] <= streak'[s]
        BY <2>3, <4>2 DEF FailureLimit
      <4> QED
        BY <1>2, <4>2, <4>3 DEF CountIsEarned
    <3>3. CASE t # s
      <4>1. t \notin row[p] /\ streak'[t] = streak[t]
        BY <1>1, <2>1, <3>3 DEF HealthInv, OneRow
      <4> QED
        BY <1>2, <2>2, <3>1, <4>1 DEF HealthInv, CountIsEarned, ResetPending
    <3> QED
      BY <1>2, <3>1, <3>2, <3>3
  <2> QED
    BY <2>1, <2>4 DEF HealthInv
<1> QED
  BY <1>1, <1>3, <1>4, <1>5

(* update_source_health(failed=True) counts the failure the streak knows.  *)
LEMMA RecordFailureKeepsInv ==
    ASSUME HealthInv, NEW p \in Poll, RecordFailure(p)
    PROVE  HealthInv'
<1>1. PICK s \in row[p] :
          /\ failures' = [failures EXCEPT ![s] = @ + 1]
          /\ active' = [active EXCEPT ![s] = @ /\ failures[s] + 1 < FailureLimit]
  BY DEF RecordFailure
<1>2. /\ pc[p] = "failed" /\ pc' = [pc EXCEPT ![p] = "audit_error"]
      /\ s \in Source /\ UNCHANGED <<row, streak, disturbed>>
  BY <1>1 DEF RecordFailure, Goto, historyVars, HealthInv, HealthType
<1>3. HealthType' /\ OneRow'
  BY <1>1, <1>2 DEF HealthInv, HealthType, OneRow, Labels
<1>4. pc'[p] = "audit_error" /\ \A q \in Poll : q # p => pc'[q] = pc[q]
  BY <1>2 DEF HealthInv, HealthType
<1>5. ASSUME NEW t \in Source \ disturbed'
      PROVE  Alone(t)' /\ (active'[t] => CountIsEarned(t)')
  <2>1. t \in Source \ disturbed /\ Alone(t) /\ Alone(t)'
    BY <1>2 DEF HealthInv, Alone
  <2>2. ASSUME t = s, active'[s] PROVE CountIsEarned(s)'
    <3>1. /\ failures[s] \in Nat /\ failures'[s] = failures[s] + 1
          /\ active[s] /\ failures[s] + 1 < FailureLimit
      BY <1>1, <1>2, <2>2 DEF HealthInv, HealthType
    <3>2. failures[s] + 1 <= streak[s]
      BY <1>1, <1>2, <2>1, <2>2, <3>1 DEF HealthInv, CountIsEarned
    <3>3. \A q \in Poll : s \in row[q] => q = p
      BY <1>1, <2>1, <2>2 DEF Alone
    <3> QED
      BY <1>2, <1>4, <3>1, <3>2, <3>3 DEF CountIsEarned
  <2>3. CASE t # s
    <3>1. t \notin row[p] /\ failures'[t] = failures[t] /\ active'[t] = active[t]
      BY <1>1, <1>2, <2>3 DEF HealthInv, HealthType, OneRow
    <3> QED
      BY <1>2, <1>4, <2>1, <3>1 DEF HealthInv, CountIsEarned, ResetPending
  <2> QED
    BY <2>1, <2>2, <2>3
<1> QED
  BY <1>3, <1>5 DEF HealthInv

(* update_source_health(failed=False) starts the count again.              *)
LEMMA RecordSuccessKeepsInv ==
    ASSUME HealthInv, NEW p \in Poll, RecordSuccess(p)
    PROVE  HealthInv'
<1>1. PICK s \in row[p] : failures' = [failures EXCEPT ![s] = 0]
  BY DEF RecordSuccess
<1>2. /\ pc[p] = "succeeded" /\ pc' = [pc EXCEPT ![p] = "audit_run"]
      /\ s \in Source /\ UNCHANGED <<active, row, streak, disturbed>>
  BY <1>1 DEF RecordSuccess, Goto, historyVars, HealthInv, HealthType
<1>3. HealthType' /\ OneRow'
  BY <1>1, <1>2 DEF HealthInv, HealthType, OneRow, Labels
<1>4. pc'[p] = "audit_run" /\ \A q \in Poll : q # p => pc'[q] = pc[q]
  BY <1>2 DEF HealthInv, HealthType
<1>5. ASSUME NEW t \in Source \ disturbed'
      PROVE  Alone(t)' /\ (active'[t] => CountIsEarned(t)')
  <2>1. t \in Source \ disturbed /\ Alone(t) /\ Alone(t)'
    BY <1>2 DEF HealthInv, Alone
  <2>2. CASE t = s
    <3>1. failures'[s] = 0 /\ streak[s] \in 0..FailureLimit
      BY <1>1, <1>2 DEF HealthInv, HealthType
    <3>2. \A q \in Poll : s \in row[q] => q = p
      BY <1>1, <2>1, <2>2 DEF Alone
    <3> QED
      BY <1>2, <1>4, <2>1, <2>2, <3>1, <3>2 DEF CountIsEarned, FailureLimit
  <2>3. CASE t # s
    <3>1. t \notin row[p] /\ failures'[t] = failures[t]
      BY <1>1, <1>2, <2>3 DEF HealthInv, HealthType, OneRow
    <3> QED
      BY <1>2, <1>4, <2>1, <3>1 DEF HealthInv, CountIsEarned, ResetPending
  <2> QED
    BY <2>1, <2>2, <2>3
<1> QED
  BY <1>3, <1>5 DEF HealthInv

(* A cycle's list names sources, however stale.                            *)
ListsType == todo \in [Poll -> SUBSET Source]

LEMMA ListsTypeNext ==
    ASSUME ListsType, [Next]_vars
    PROVE  ListsType'
BY DEF ListsType, Next, LoopStep, RunForSource, BeginCycle, NextSource, EndCycle, BeginTrigger, Fetch,
       Work, RecordFailure, RecordSuccess, Audit, Abort, Vanish, vars, pollVars

LEMMA HealthInvNext ==
    ASSUME HealthInv, ListsType, [Next]_vars
    PROVE  HealthInv'
<1> USE DEF tableVars, pollVars, historyVars
<1>1. ASSUME NEW p \in Loop \cup Trigger,
             BeginCycle(p) \/ EndCycle(p) \/ Work(p) \/ Audit(p) \/ Abort(p)
      PROVE  HealthInv'
  <2>1. p \in Poll
    BY <1>1 DEF Poll
  <2>2. PICK l \in Labels \ {"failed"} :
            /\ pc' = [pc EXCEPT ![p] = l] /\ row' \in {row, [row EXCEPT ![p] = {}]}
            /\ disturbed \subseteq disturbed' /\ UNCHANGED <<active, failures, streak>>
            /\ pc[p] \in {"work", "succeeded"} =>
                   (l \in {"work", "succeeded"} /\ row' = row) \/ row[p] \subseteq disturbed'
    BY <1>1 DEF BeginCycle, EndCycle, Work, Audit, Abort, Leave, Goto, Labels
  <2> QED
    BY <2>1, <2>2, MoveKeepsInv
<1>2. ASSUME NEW p \in Loop, NextSource(p) PROVE HealthInv'
  <2>1. PICK s \in todo[p] : Take(p, s, TRUE) /\ todo' = [todo EXCEPT ![p] = @ \ {s}]
    BY <1>2 DEF NextSource
  <2>2. p \in Poll /\ pc[p] = "next" /\ UNCHANGED <<active, failures, streak>>
    BY <1>2 DEF NextSource, Poll
  <2>3. s \in Source
    BY <2>1, <2>2 DEF ListsType
  <2> QED
    BY <2>1, <2>2, <2>3, TakeKeepsInv
<1>3. ASSUME NEW p \in Trigger, NEW s \in Source, BeginTrigger(p, s) PROVE HealthInv'
  <2>1. p \in Poll /\ pc[p] = "idle" /\ Take(p, s, active[s]) /\ UNCHANGED <<active, failures, streak>>
    BY <1>3 DEF BeginTrigger, Poll
  <2> QED
    BY <2>1, TakeKeepsInv
<1>4. ASSUME NEW p \in Loop \cup Trigger, Fetch(p) \/ RecordFailure(p) \/ RecordSuccess(p) PROVE HealthInv'
  BY <1>4, FetchKeepsInv, RecordFailureKeepsInv, RecordSuccessKeepsInv DEF Poll
<1>5. CASE (\E s \in Source : Vanish(s)) \/ UNCHANGED vars
  BY <1>5 DEF Vanish, vars, HealthInv, HealthType, OneRow, Alone, CountIsEarned, ResetPending
<1> QED
  BY <1>1, <1>2, <1>3, <1>4, <1>5 DEF Next, LoopStep, RunForSource

-----------------------------------------------------------------------------
LEMMA OnlyFailuresDisable ==
    ASSUME HealthInv, [Next]_vars, NEW s \in Source, active[s], ~active'[s], s \notin disturbed
    PROVE  streak[s] = FailureLimit
<1>1. PICK p \in Poll : RecordFailure(p)
  BY DEF Next, LoopStep, RunForSource, BeginCycle, NextSource, EndCycle, BeginTrigger, Fetch, Work,
         RecordSuccess, Audit, Abort, Vanish, vars, tableVars, Poll
<1>2. PICK t \in row[p] : active' = [active EXCEPT ![t] = @ /\ failures[t] + 1 < FailureLimit]
  BY <1>1 DEF RecordFailure
<1>3. t = s /\ ~(failures[s] + 1 < FailureLimit)
  BY <1>2 DEF HealthInv, HealthType
<1>4. failures[s] + 1 <= streak[s]
  BY <1>1, <1>2, <1>3 DEF RecordFailure, HealthInv, CountIsEarned
<1>5. failures[s] \in Nat /\ streak[s] \in 0..FailureLimit
  BY DEF HealthInv, HealthType
<1> QED
  BY <1>3, <1>4, <1>5 DEF FailureLimit

(* A source is disabled at its third failed fetch in a row, provided its   *)
(* polls never overlapped and none was cut short between a good fetch and  *)
(* its bookkeeping (update_source_health, run_for_source).                 *)
THEOREM DisabledAtTheThird == Spec => CleanStreakDisables
<1>1. Init => HealthInv /\ ListsType
  BY HealthInvInit DEF Init, ListsType
<1>2. HealthInv /\ ListsType /\ [Next]_vars => (HealthInv /\ ListsType)'
  BY HealthInvNext, ListsTypeNext
<1>3. HealthInv /\ [Next]_vars =>
          [\A s \in Source : active[s] /\ ~active'[s] => streak[s] = FailureLimit \/ s \in disturbed]_vars
  BY OnlyFailuresDisable
<1> QED
  BY <1>1, <1>2, <1>3, PTL DEF Spec, CleanStreakDisables
-----------------------------------------------------------------------------
(* Every poll of a disabled source used up the one place the stale list    *)
(* had for it: no poll loop enables a source again or lists a disabled one.*)
StaleInv ==
    /\ late \in [Source -> Nat]
    /\ \A s \in Source :
          /\ late[s] > 0 => ~active[s] /\ \A p \in Loop : s \notin todo[p]
          /\ late[s] <= 1

LEMMA StaleInvInit == Init => StaleInv
BY DEF Init, StaleInv

LEMMA StaleInvNext ==
    ASSUME \A p, q \in Loop : p = q, HealthInv, ListsType, StaleInv, [Next]_vars
    PROVE  StaleInv'
<1> USE DEF tableVars, pollVars, historyVars
<1>1. ASSUME NEW p \in Loop, NextSource(p) PROVE StaleInv'
  <2>1. PICK s \in todo[p] :
            /\ todo' = [todo EXCEPT ![p] = @ \ {s}]
            /\ late' = IF active[s] THEN late ELSE [late EXCEPT ![s] = @ + 1]
    BY <1>1 DEF NextSource
  <2>2. UNCHANGED active /\ s \in Source /\ late[s] = 0
    BY <1>1, <2>1 DEF NextSource, ListsType, StaleInv, Poll
  <2>3. \A q \in Loop : todo'[q] \subseteq todo[q] /\ s \notin todo'[q]
    BY <2>1 DEF ListsType, Poll
  <2> QED
    BY <2>1, <2>2, <2>3 DEF StaleInv
<1>2. ASSUME NEW p \in Loop, BeginCycle(p) PROVE StaleInv'
  <2>1. /\ UNCHANGED <<active, late>>
        /\ todo' = [todo EXCEPT ![p] = {s \in Source : active[s]}]
    BY <1>2 DEF BeginCycle
  <2> QED
    BY <2>1 DEF StaleInv, ListsType, Poll
<1>3. ASSUME NEW p \in Poll, RecordFailure(p) PROVE StaleInv'
  <2>1. PICK s \in row[p] : active' = [active EXCEPT ![s] = @ /\ failures[s] + 1 < FailureLimit]
    BY <1>3 DEF RecordFailure
  <2>2. UNCHANGED <<late, todo>>
    BY <1>3 DEF RecordFailure
  <2>3. \A t \in Source : active'[t] => active[t]
    BY <2>1 DEF HealthInv, HealthType
  <2> QED
    BY <2>2, <2>3 DEF StaleInv
<1>4. ASSUME NEW p \in Poll, Abort(p) PROVE StaleInv'
  <2>1. UNCHANGED <<late, active>> /\ todo' = [todo EXCEPT ![p] = {}]
    BY <1>4 DEF Abort
  <2> QED
    BY <2>1 DEF StaleInv, ListsType, Poll
<1>5. CASE \/ \E p \in Poll : \/ EndCycle(p) \/ Fetch(p) \/ Work(p) \/ RecordSuccess(p) \/ Audit(p)
                              \/ \E s \in Source : BeginTrigger(p, s)
           \/ \E s \in Source : Vanish(s)
           \/ UNCHANGED vars
  <2>1. UNCHANGED <<active, late, todo>>
    BY <1>5 DEF EndCycle, Fetch, Work, RecordSuccess, Audit, BeginTrigger, Vanish, vars
  <2> QED
    BY <2>1 DEF StaleInv
<1> QED
  BY <1>1, <1>2, <1>3, <1>4, <1>5 DEF Next, LoopStep, RunForSource, Poll

(* The poll loop (run_all_sources) begins at most one poll of a source     *)
(* after it was disabled: only the list it read when its cycle began can   *)
(* still name it, once.  Were two loops to run at a time, each would have  *)
(* a list of its own.                                                      *)
THEOREM OneStalePoll == (\A p, q \in Loop : p = q) /\ Spec => []StalePollBounded
<1> SUFFICES ASSUME \A p, q \in Loop : p = q PROVE Spec => []StalePollBounded
  OBVIOUS
<1>1. Init => HealthInv /\ ListsType /\ StaleInv
  BY HealthInvInit, StaleInvInit DEF Init, ListsType
<1>2. HealthInv /\ ListsType /\ StaleInv /\ [Next]_vars => (HealthInv /\ ListsType /\ StaleInv)'
  BY HealthInvNext, ListsTypeNext, StaleInvNext
<1>3. StaleInv => StalePollBounded
  BY DEF StaleInv, StalePollBounded
<1> QED
  BY <1>1, <1>2, <1>3, PTL DEF Spec
=============================================================================
