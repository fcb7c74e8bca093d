------------------------ MODULE JobScheduling_proofs ------------------------
(***************************************************************************)
(* Proofs about JobScheduling: the advisory lock keeps overlapping replicas*)
(* apart and never leaks, whatever is raised and whoever dies, and a pool  *)
(* with more connections than locked jobs is never stuck.                  *)
(***************************************************************************)
EXTENDS JobScheduling, FiniteSetTheorems, TLAPS

Labels == {"idle", "thread", "outer", "ping"} \cup OuterOnly \cup OuterAndInner \cup Bare

(* Who is past pg_try_advisory_lock has the lock.                          *)
HoldersHaveTheLock ==
    \A j \in Job, r \in Replica : pc[r][j] \in LockHeld => lock[j] = r

(* An instance that works has queries left to make.                        *)
QueriesLeft ==
    \A r \in Replica, j \in Job : pc[r][j] \in Running => left[r][j] > 0

(* A job without the lock flag only ever probes.                           *)
BareJobsProbe ==
    \A r \in Replica, j \in Job \ Locked : pc[r][j] \in {"idle", "ping", "pinging"}

IInv == Types /\ HoldersHaveTheLock /\ NoLockLeaks /\ QueriesLeft /\ BareJobsProbe

(* The labels of a step: pc changes at one instance only.                  *)
LEMMA GotoType ==
    ASSUME Types, NEW r \in Replica, NEW j \in Job, NEW label \in Labels, Goto(r, j, label)
    PROVE  /\ pc' \in [Replica -> [Job -> Labels]]
           /\ pc'[r][j] = label
           /\ \A s \in Replica, k \in Job : <<s, k>> # <<r, j>> => pc'[s][k] = pc[s][k]
  BY DEF Types, Goto, Labels

(* The initial state satisfies the invariant.                              *)
LEMMA InitHolds == Init => IInv
  BY SchedulingAssumption
  DEF Init, IInv, Types, HoldersHaveTheLock, NoLockLeaks, QueriesLeft, BareJobsProbe,
      LockHeld, Running, OuterOnly, OuterAndInner, Bare

(* What a step may do to a lock: nothing, take it when free, give it back. *)
LEMMA LockStep ==
    ASSUME Types, HoldersHaveTheLock, NoLockLeaks,
           NEW r \in Replica, NEW j \in Job, NEW label \in Labels, Goto(r, j, label),
           \/ lock' = lock /\ (label \in LockHeld <=> pc[r][j] \in LockHeld)
           \/ /\ lock[j] = NoReplica /\ label \in LockHeld
              /\ lock' = [lock EXCEPT ![j] = r]
           \/ /\ pc[r][j] \in LockHeld /\ label \notin LockHeld
              /\ lock' = [lock EXCEPT ![j] = NoReplica]
    PROVE  HoldersHaveTheLock' /\ NoLockLeaks'
  <1>1. /\ pc'[r][j] = label
        /\ \A s \in Replica, k \in Job : s # r \/ k # j => pc'[s][k] = pc[s][k]
    BY GotoType
  <1>2. lock \in [Job -> Replica \cup {NoReplica}]
    BY DEF Types
  <1>3. HoldersHaveTheLock'
    BY <1>1, <1>2, SchedulingAssumption DEF HoldersHaveTheLock, NoLockLeaks
  <1>4. NoLockLeaks'
    BY <1>1, <1>2, SchedulingAssumption DEF HoldersHaveTheLock, NoLockLeaks
  <1> QED BY <1>3, <1>4

(* A step that leaves left alone and starts nothing, or sets it at (r, j). *)
LEMMA LeftStep ==
    ASSUME Types, QueriesLeft,
           NEW r \in Replica, NEW j \in Job, NEW label \in Labels, Goto(r, j, label),
           \/ left' = left /\ (label \in Running => pc[r][j] \in Running)
           \/ \E n \in 0..MaxQueries :
                 left' = [left EXCEPT ![r][j] = n] /\ (label \in Running => n > 0)
    PROVE  left' \in [Replica -> [Job -> 0..MaxQueries]] /\ QueriesLeft'
  <1>1. /\ pc'[r][j] = label
        /\ \A s \in Replica, k \in Job : s # r \/ k # j => pc'[s][k] = pc[s][k]
    BY GotoType
  <1>2. left \in [Replica -> [Job -> 0..MaxQueries]]
    BY DEF Types
  <1>3. CASE left' = left /\ (label \in Running => pc[r][j] \in Running)
    BY <1>1, <1>2, <1>3 DEF QueriesLeft
  <1>4. ASSUME NEW n \in 0..MaxQueries,
               left' = [left EXCEPT ![r][j] = n], label \in Running => n > 0
        PROVE  left' \in [Replica -> [Job -> 0..MaxQueries]] /\ QueriesLeft'
    <2>1. left' \in [Replica -> [Job -> 0..MaxQueries]]
      BY <1>2, <1>4
    <2>2. /\ left'[r][j] = n
          /\ \A s \in Replica, k \in Job : s # r \/ k # j => left'[s][k] = left[s][k]
      BY <1>2, <1>4
    <2> QED BY <1>1, <1>4, <2>1, <2>2 DEF QueriesLeft
  <1> QED BY <1>3, <1>4

(* The three parts together: what each step of an instance has to show.    *)
LEMMA StepPreserves ==
    ASSUME IInv, UNCHANGED size,
           NEW r \in Replica, NEW j \in Job, NEW label \in Labels, Goto(r, j, label),
           lock' \in [Job -> Replica \cup {NoReplica}],
           \/ lock' = lock /\ (label \in LockHeld <=> pc[r][j] \in LockHeld)
           \/ /\ lock[j] = NoReplica /\ label \in LockHeld
              /\ lock' = [lock EXCEPT ![j] = r]
           \/ /\ pc[r][j] \in LockHeld /\ label \notin LockHeld
              /\ lock' = [lock EXCEPT ![j] = NoReplica],
           \/ left' = left /\ (label \in Running => pc[r][j] \in Running)
           \/ \E n \in 0..MaxQueries :
                 left' = [left EXCEPT ![r][j] = n] /\ (label \in Running => n > 0),
           j \in Locked \/ label \in {"idle", "ping", "pinging"}
    PROVE  IInv'
  <1>1. Types /\ HoldersHaveTheLock /\ NoLockLeaks /\ QueriesLeft /\ BareJobsProbe
    BY DEF IInv
  <1>2. HoldersHaveTheLock' /\ NoLockLeaks'
    BY <1>1, LockStep
  <1>3. left' \in [Replica -> [Job -> 0..MaxQueries]] /\ QueriesLeft'
    BY <1>1, LeftStep
  <1>4. /\ pc' \in [Replica -> [Job -> Labels]]
        /\ pc'[r][j] = label
        /\ \A s \in Replica, k \in Job : s # r \/ k # j => pc'[s][k] = pc[s][k]
    BY <1>1, GotoType
  <1>5. Types'
    BY <1>1, <1>3, <1>4 DEF Types, Labels
  <1>6. BareJobsProbe'
    BY <1>1, <1>4 DEF BareJobsProbe
  <1> QED BY <1>2, <1>3, <1>5, <1>6 DEF IInv

(* Every step of one instance of a job preserves the invariant.            *)
LEMMA JobStepPreserves ==
    ASSUME IInv, NEW r \in Replica, NEW j \in Job, Fire(r, j) \/ JobStep(r, j)
    PROVE  IInv'
  <1>0. /\ lock \in [Job -> Replica \cup {NoReplica}]
        /\ left[r][j] \in 0..MaxQueries
        /\ pc[r][j] \notin {"idle", "ping", "pinging"} => j \in Locked
        /\ pc[r][j] \in Running => left[r][j] > 0
        /\ MaxQueries \in Nat
    BY SchedulingAssumption DEF IInv, Types, BareJobsProbe, QueriesLeft
  <1>1. ASSUME Fire(r, j) PROVE IInv'
    BY <1>0, <1>1, SchedulingAssumption, StepPreserves
    DEF Fire, IsCoroutineFunction, Labels, LockHeld, Running, OuterOnly, OuterAndInner, Bare
  <1>2. ASSUME CallInThread(r, j) PROVE IInv'
    BY <1>0, <1>2, SchedulingAssumption, StepPreserves
    DEF CallInThread, Labels, LockHeld, Running, OuterOnly, OuterAndInner, Bare
  <1>3. ASSUME TakeOuter(r, j) PROVE IInv'
    BY <1>0, <1>3, SchedulingAssumption, StepPreserves
    DEF TakeOuter, Labels, LockHeld, Running, OuterOnly, OuterAndInner, Bare
  <1>4. ASSUME TryLock(r, j) PROVE IInv'
    <2>1. j \in Locked /\ UNCHANGED size
      BY <1>0, <1>4 DEF TryLock
    <2>2. CASE lock[j] = NoReplica
      <3>1. /\ lock' = [lock EXCEPT ![j] = r]
            /\ Goto(r, j, "body")
        BY <1>4, <2>2 DEF TryLock
      <3>2. \E n \in 0..MaxQueries : left' = [left EXCEPT ![r][j] = n] /\ n > 0
        BY <1>0, <1>4, <2>2 DEF TryLock
      <3>3. lock' \in [Job -> Replica \cup {NoReplica}]
        BY <1>0, <3>1
      <3> QED
        BY <2>1, <2>2, <3>1, <3>2, <3>3, StepPreserves DEF Labels, LockHeld, Running, OuterOnly
    <2>3. CASE lock[j] # NoReplica
      <3>1. Goto(r, j, "skip") /\ UNCHANGED <<lock, left>> /\ pc[r][j] = "try"
        BY <1>4, <2>3 DEF TryLock
      <3> QED
        BY <1>0, <2>1, <3>1, StepPreserves DEF Labels, LockHeld, Running, OuterOnly
    <2> QED BY <2>2, <2>3
  <1>5. ASSUME TakeInner(r, j) PROVE IInv'
    BY <1>0, <1>5, SchedulingAssumption, StepPreserves
    DEF TakeInner, Labels, LockHeld, Running, OuterOnly, OuterAndInner, Bare
  <1>6. ASSUME EndQuery(r, j) PROVE IInv'
    <2>1. /\ pc[r][j] = "query" /\ j \in Locked
          /\ UNCHANGED <<size, lock>>
          /\ left' = [left EXCEPT ![r][j] = left[r][j] - 1]
      BY <1>0, <1>6 DEF EndQuery, IInv, Types
    <2>2. left[r][j] - 1 \in 0..MaxQueries
      BY <1>0, <2>1 DEF Running
    <2>3. CASE left[r][j] > 1 /\ Goto(r, j, "body")
      <3>1. \E n \in 0..MaxQueries : left' = [left EXCEPT ![r][j] = n] /\ n > 0
        <4>1. left[r][j] - 1 > 0
          BY <1>0, <2>3
        <4> QED BY <2>1, <2>2, <4>1
      <3> QED
        BY <1>0, <2>1, <2>3, <3>1, StepPreserves DEF Labels, LockHeld, Running, OuterOnly
    <2>4. CASE Goto(r, j, "unlock")
      <3>1. \E n \in 0..MaxQueries : left' = [left EXCEPT ![r][j] = n]
        BY <2>1, <2>2
      <3> QED
        BY <1>0, <2>1, <2>4, <3>1, StepPreserves DEF Labels, LockHeld, Running, OuterOnly
    <2> QED BY <1>6, <2>3, <2>4 DEF EndQuery
  <1>7. ASSUME EndAudit(r, j) PROVE IInv'
    BY <1>0, <1>7, SchedulingAssumption, StepPreserves
    DEF EndAudit, Labels, LockHeld, Running, OuterOnly, OuterAndInner, Bare
  <1>8. ASSUME Unlock(r, j) PROVE IInv'
    <2>1. /\ pc[r][j] = "unlock" /\ j \in Locked
          /\ lock' = [lock EXCEPT ![j] = NoReplica]
          /\ Goto(r, j, "idle")
          /\ UNCHANGED size
      BY <1>0, <1>8 DEF Unlock
    <2>2. \E n \in 0..MaxQueries : left' = [left EXCEPT ![r][j] = n]
      <3>1. left' = [left EXCEPT ![r][j] = 0] /\ 0 \in 0..MaxQueries
        BY <1>0, <1>8 DEF Unlock
      <3> QED BY <3>1
    <2>3. lock' \in [Job -> Replica \cup {NoReplica}]
      BY <1>0, <2>1
    <2> QED BY <2>1, <2>2, <2>3, StepPreserves DEF Labels, LockHeld, Running
  <1>9. ASSUME Timeout(r, j) PROVE IInv'
    <2>1. CASE pc[r][j] \in {"outer", "skip", "ping"} /\ Goto(r, j, "idle") /\ UNCHANGED left
      BY <1>0, <1>9, <2>1, StepPreserves DEF Timeout, Labels, LockHeld, Running
    <2>2. CASE pc[r][j] = "body" /\ Goto(r, j, "unlock") /\ UNCHANGED left
      BY <1>0, <1>9, <2>2, StepPreserves DEF Timeout, Labels, LockHeld, Running, OuterOnly
    <2>3. CASE pc[r][j] = "body" /\ left[r][j] > 1 /\ UNCHANGED pc
               /\ left' = [left EXCEPT ![r][j] = @ - 1]
      <3>1. Goto(r, j, "body")
        BY <2>3 DEF Goto, IInv, Types
      <3>2. left[r][j] - 1 \in 0..MaxQueries /\ left[r][j] - 1 > 0
        BY <1>0, <2>3
      <3>3. UNCHANGED <<size, lock>>
        BY <1>9 DEF Timeout
      <3>4. \E n \in 0..MaxQueries : left' = [left EXCEPT ![r][j] = n] /\ n > 0
        BY <2>3, <3>2
      <3> QED
        BY <1>0, <2>3, <3>1, <3>3, <3>4, StepPreserves DEF Labels, LockHeld, Running, OuterOnly
    <2> QED BY <1>9, <2>1, <2>2, <2>3 DEF Timeout
  <1>10. ASSUME Ping(r, j) PROVE IInv'
    BY <1>0, <1>10, SchedulingAssumption, StepPreserves
    DEF Ping, Labels, LockHeld, Running, OuterOnly, OuterAndInner, Bare
  <1> QED BY <1>1, <1>2, <1>3, <1>4, <1>5, <1>6, <1>7, <1>8, <1>9, <1>10 DEF JobStep

(* A replica's death takes its instances and its locks with it.            *)
LEMMA DiePreserves ==
    ASSUME IInv, NEW r \in Replica, Die(r)
    PROVE  IInv'
  <1>1. /\ pc' = [pc EXCEPT ![r] = [j \in Job |-> "idle"]]
        /\ left' = [left EXCEPT ![r] = [j \in Job |-> 0]]
        /\ lock' = [j \in Job |-> IF lock[j] = r THEN NoReplica ELSE lock[j]]
        /\ size' = size
    BY DEF Die
  <1>2. /\ \A j \in Job : pc'[r][j] = "idle"
        /\ \A s \in Replica \ {r} : pc'[s] = pc[s] /\ left'[s] = left[s]
    BY <1>1 DEF IInv, Types
  <1>3. Types'
    BY <1>1, SchedulingAssumption DEF IInv, Types
  <1>4. HoldersHaveTheLock'
    <2> SUFFICES ASSUME NEW j \in Job, NEW s \in Replica, pc'[s][j] \in LockHeld
                 PROVE  lock'[j] = s
      BY DEF HoldersHaveTheLock
    <2>1. s # r
      BY <1>2 DEF LockHeld, Running
    <2>2. lock[j] = s
      BY <1>2, <2>1 DEF IInv, HoldersHaveTheLock
    <2> QED BY <1>1, <2>1, <2>2
  <1>5. NoLockLeaks'
    <2> SUFFICES ASSUME NEW j \in Job, NEW s \in Replica, lock'[j] = s
                 PROVE  pc'[s][j] \in LockHeld
      BY DEF NoLockLeaks
    <2>1. s # r /\ lock[j] = s
      BY <1>1, SchedulingAssumption
    <2> QED BY <1>2, <2>1 DEF IInv, NoLockLeaks
  <1>6. QueriesLeft' /\ BareJobsProbe'
    BY <1>2 DEF IInv, QueriesLeft, BareJobsProbe, Running
  <1> QED BY <1>3, <1>4, <1>5, <1>6 DEF IInv

(* The invariant holds in every reachable state.                           *)
THEOREM Inductive == Spec => []IInv
  <1>1. IInv /\ [Next]_vars => IInv'
    <2> SUFFICES ASSUME IInv, [Next]_vars PROVE IInv'
      OBVIOUS
    <2>1. CASE UNCHANGED vars
      BY <2>1 DEF vars, IInv, Types, HoldersHaveTheLock, NoLockLeaks, QueriesLeft, BareJobsProbe
    <2>2. CASE \E r \in Replica, j \in Job : Fire(r, j) \/ JobStep(r, j)
      BY <2>2, JobStepPreserves
    <2>3. CASE \E r \in Mortal : Die(r)
      BY <2>3, DiePreserves, SchedulingAssumption
    <2> QED BY <2>1, <2>2, <2>3 DEF Next
  <1> QED BY InitHolds, <1>1, PTL DEF Spec

(* Replicas that overlap during a redeploy never run one job's body twice  *)
(* at a time: pg_try_advisory_lock in with_advisory_lock keeps them apart. *)
THEOREM LocksExclude == Spec => []OneReplicaRunsAJob
  <1>1. IInv => OneReplicaRunsAJob
    BY SchedulingAssumption DEF IInv, HoldersHaveTheLock, OneReplicaRunsAJob
  <1> QED BY Inductive, <1>1, PTL

(* The finally of with_advisory_lock and the end of the session give every *)
(* lock back: whoever has one is an instance still on its way to unlock it.*)
THEOREM LocksNeverLeak == Spec => []NoLockLeaks
  <1>1. IInv => NoLockLeaks
    BY DEF IInv
  <1> QED BY Inductive, <1>1, PTL

(* A pool with more connections than there are locked jobs cannot be lent  *)
(* out to jobs that all wait for a second connection.                      *)
THEOREM LargePoolsNeverStick == Spec => []PoolNeverStuck
  <1>1. ASSUME IInv, size > Cardinality(Locked), NEW r \in Replica, ~PoolHasRoom(r),
               \A j \in Job : pc[r][j] \notin (OuterOnly \cup OuterAndInner \cup Bare) \ Waiting
        PROVE  FALSE
    <2>1. InState(r, OuterAndInner) = {}
      BY <1>1 DEF InState, OuterAndInner, Waiting
    <2>2. InState(r, OuterOnly \cup Bare) \subseteq Locked
      BY <1>1 DEF InState, IInv, BareJobsProbe, OuterOnly, Bare, Waiting
    <2>3. IsFiniteSet(Locked)
      BY SchedulingAssumption, FS_Subset
    <2>4. /\ Cardinality(InState(r, OuterOnly \cup Bare)) \in Nat
          /\ Cardinality(Locked) \in Nat
          /\ Cardinality(InState(r, OuterOnly \cup Bare)) <= Cardinality(Locked)
      BY <2>2, <2>3, FS_Subset, FS_CardinalityType
    <2>5. Cardinality(InState(r, OuterAndInner)) = 0
      BY <2>1, FS_EmptySet
    <2>6. Taken(r) <= Cardinality(Locked)
      BY <2>4, <2>5 DEF Taken
    <2>7. size \in Nat
      BY <1>1, SchedulingAssumption DEF IInv, Types
    <2>8. Taken(r) \in Nat
      BY <2>4, <2>5 DEF Taken
    <2> QED BY <1>1, <2>4, <2>6, <2>7, <2>8 DEF PoolHasRoom
  <1>2. IInv => PoolNeverStuck
    BY <1>1 DEF PoolNeverStuck
  <1> QED BY Inductive, <1>2, PTL

(* How many connections an instance holds at a label.                      *)
Held(label) ==
    IF label \in OuterOnly \cup Bare THEN 1 ELSE IF label \in OuterAndInner THEN 2 ELSE 0

PoolsCover == \A r \in Replica : Taken(r) <= size

(* One element more or less in a finite set.                               *)
LEMMA CardinalityBut ==
    ASSUME NEW S, IsFiniteSet(S), NEW x
    PROVE  /\ Cardinality(S \ {x}) \in Nat
           /\ Cardinality(S) = Cardinality(S \ {x}) + (IF x \in S THEN 1 ELSE 0)
  <1>1. IsFiniteSet(S \ {x}) /\ Cardinality(S \ {x}) \in Nat /\ Cardinality(S) \in Nat
    BY FS_Subset, FS_CardinalityType
  <1>2. CASE x \in S
    <2>1. Cardinality(S \ {x}) = Cardinality(S) - 1
      BY <1>2, FS_RemoveElement
    <2> QED BY <1>1, <1>2, <2>1
  <1>3. CASE x \notin S
    <2> DEFINE R == S \ {x}
    <2>1. R = S
      BY <1>3
    <2>2. Cardinality(R) = Cardinality(S)
      BY <2>1
    <2> QED BY <1>1, <1>3, <2>2
  <1> QED BY <1>2, <1>3

(* A step that takes a connection only from a pool with room keeps every   *)
(* pool within its size.                                                   *)
LEMMA PoolStep ==
    ASSUME Types, PoolsCover, UNCHANGED size,
           NEW r \in Replica, NEW j \in Job, NEW label \in Labels, Goto(r, j, label),
           \/ Held(label) <= Held(pc[r][j])
           \/ PoolHasRoom(r) /\ Held(label) <= Held(pc[r][j]) + 1
    PROVE  PoolsCover'
  <1>1. /\ pc'[r][j] = label
        /\ \A s \in Replica, k \in Job : s # r \/ k # j => pc'[s][k] = pc[s][k]
    BY GotoType
  <1>2. size \in Nat
    BY SchedulingAssumption DEF Types
  <1>3. ASSUME NEW s \in Replica, s # r PROVE Taken(s)' <= size'
    <2>1. /\ InState(s, OuterOnly \cup Bare)' = InState(s, OuterOnly \cup Bare)
          /\ InState(s, OuterAndInner)' = InState(s, OuterAndInner)
      BY <1>1, <1>3 DEF InState, OuterOnly, Bare, OuterAndInner
    <2> QED BY <2>1 DEF Taken, PoolsCover
  <1>4. Taken(r)' <= size'
    <2> DEFINE One == InState(r, OuterOnly \cup Bare)
               Two == InState(r, OuterAndInner)
    <2>1. IsFiniteSet(One) /\ IsFiniteSet(Two) /\ IsFiniteSet(One') /\ IsFiniteSet(Two')
      BY SchedulingAssumption, FS_Subset DEF InState
    <2>2. One' \ {j} = One \ {j} /\ Two' \ {j} = Two \ {j}
      BY <1>1 DEF InState, OuterOnly, Bare, OuterAndInner
    <2>3. /\ Cardinality(One \ {j}) \in Nat /\ Cardinality(Two \ {j}) \in Nat
          /\ Cardinality(One) = Cardinality(One \ {j}) + (IF j \in One THEN 1 ELSE 0)
          /\ Cardinality(Two) = Cardinality(Two \ {j}) + (IF j \in Two THEN 1 ELSE 0)
          /\ Cardinality(One') = Cardinality(One \ {j}) + (IF j \in One' THEN 1 ELSE 0)
          /\ Cardinality(Two') = Cardinality(Two \ {j}) + (IF j \in Two' THEN 1 ELSE 0)
      <3>1. /\ Cardinality(One \ {j}) \in Nat
            /\ Cardinality(One) = Cardinality(One \ {j}) + (IF j \in One THEN 1 ELSE 0)
        BY <2>1, CardinalityBut
      <3>2. /\ Cardinality(Two \ {j}) \in Nat
            /\ Cardinality(Two) = Cardinality(Two \ {j}) + (IF j \in Two THEN 1 ELSE 0)
        BY <2>1, CardinalityBut
      <3>3. Cardinality(One') = Cardinality(One' \ {j}) + (IF j \in One' THEN 1 ELSE 0)
        BY <2>1, CardinalityBut
      <3>4. Cardinality(Two') = Cardinality(Two' \ {j}) + (IF j \in Two' THEN 1 ELSE 0)
        BY <2>1, CardinalityBut
      <3> HIDE DEF One, Two
      <3> QED BY <2>2, <3>1, <3>2, <3>3, <3>4
    <2>4. /\ (IF j \in One THEN 1 ELSE 0) + 2 * (IF j \in Two THEN 1 ELSE 0) = Held(pc[r][j])
          /\ (IF j \in One' THEN 1 ELSE 0) + 2 * (IF j \in Two' THEN 1 ELSE 0) = Held(label)
      BY <1>1 DEF InState, Held, OuterOnly, Bare, OuterAndInner
    <2>5. Held(label) \in Nat /\ Held(pc[r][j]) \in Nat
      BY DEF Held
    <2>6. /\ Taken(r) = Cardinality(One) + 2 * Cardinality(Two)
          /\ Taken(r)' = Cardinality(One') + 2 * Cardinality(Two')
      BY DEF Taken, OuterOnly, Bare, OuterAndInner
    <2> DEFINE a == Cardinality(One \ {j}) + 2 * Cardinality(Two \ {j})
    <2>7. a \in Nat /\ Taken(r) = a + Held(pc[r][j]) /\ Taken(r)' = a + Held(label)
      BY <2>3, <2>4, <2>6
    <2>8. Taken(r) <= size /\ size' = size /\ (PoolHasRoom(r) => Taken(r) < size)
      BY DEF PoolsCover, PoolHasRoom
    <2> HIDE DEF a, One, Two
    <2> QED BY <1>2, <2>5, <2>7, <2>8
  <1> QED BY <1>3, <1>4 DEF PoolsCover

(* Each step of an instance is such a step.                                *)
LEMMA JobStepPools ==
    ASSUME Types, PoolsCover, NEW r \in Replica, NEW j \in Job, Fire(r, j) \/ JobStep(r, j)
    PROVE  PoolsCover'
  <1>1. CASE Fire(r, j) \/ CallInThread(r, j) \/ TryLock(r, j)
    BY <1>1, PoolStep
    DEF Fire, CallInThread, TryLock, IsCoroutineFunction, Held, Labels, OuterOnly, OuterAndInner, Bare
  <1>2. CASE TakeOuter(r, j) \/ TakeInner(r, j) \/ Ping(r, j)
    BY <1>2, PoolStep
    DEF TakeOuter, TakeInner, Ping, Held, Labels, OuterOnly, OuterAndInner, Bare
  <1>3. CASE EndQuery(r, j) \/ EndAudit(r, j) \/ Unlock(r, j)
    BY <1>3, PoolStep
    DEF EndQuery, EndAudit, Unlock, Held, Labels, OuterOnly, OuterAndInner, Bare
  <1>4. CASE Timeout(r, j)
    <2>1. CASE UNCHANGED pc
      <3>1. UNCHANGED size
        BY <1>4 DEF Timeout
      <3>2. \A s \in Replica : Taken(s)' = Taken(s)
        BY <2>1 DEF Taken, InState, OuterOnly, OuterAndInner, Bare
      <3> QED BY <3>1, <3>2 DEF PoolsCover
    <2>2. CASE ~UNCHANGED pc
      BY <1>4, <2>2, PoolStep DEF Timeout, Held, Labels, OuterOnly, OuterAndInner, Bare
    <2> QED BY <2>1, <2>2
  <1> QED BY <1>1, <1>2, <1>3, <1>4 DEF JobStep

(* Every variable keeps its type and no pool lends more than it has.       *)
THEOREM TypeCorrect == Spec => []TypeOK
  <1>1. Init => PoolsCover
    <2> SUFFICES ASSUME Init, NEW r \in Replica PROVE Taken(r) <= size
      BY DEF PoolsCover
    <2>1. InState(r, OuterOnly \cup Bare) = {} /\ InState(r, OuterAndInner) = {}
      BY DEF Init, InState, OuterOnly, OuterAndInner, Bare
    <2>2. /\ Cardinality(InState(r, OuterOnly \cup Bare)) = 0
          /\ Cardinality(InState(r, OuterAndInner)) = 0
      BY <2>1, FS_EmptySet
    <2>3. Taken(r) = 0
      BY <2>2 DEF Taken
    <2> QED BY <2>3, SchedulingAssumption DEF Init
  <1>2. Types /\ PoolsCover /\ [Next]_vars => PoolsCover'
    <2> SUFFICES ASSUME Types, PoolsCover, [Next]_vars PROVE PoolsCover'
      OBVIOUS
    <2>1. CASE UNCHANGED vars
      BY <2>1 DEF vars, PoolsCover, Taken, InState
    <2>2. CASE \E r \in Replica, j \in Job : Fire(r, j) \/ JobStep(r, j)
      BY <2>2, JobStepPools
    <2>3. ASSUME NEW r \in Mortal, Die(r) PROVE PoolsCover'
      <3>1. size' = size /\ \A s \in Replica \ {r} : pc'[s] = pc[s]
        BY <2>3 DEF Die, Types
      <3>2. \A s \in Replica \ {r} : Taken(s)' = Taken(s)
        BY <3>1 DEF Taken, InState
      <3>3. InState(r, OuterOnly \cup Bare)' = {} /\ InState(r, OuterAndInner)' = {}
        BY <2>3, SchedulingAssumption
        DEF Die, Types, InState, OuterOnly, OuterAndInner, Bare
      <3>4. /\ Cardinality(InState(r, OuterOnly \cup Bare)') = 0
            /\ Cardinality(InState(r, OuterAndInner)') = 0
        BY <3>3, FS_EmptySet
      <3>5. Taken(r)' = 0
        BY <3>4 DEF Taken, OuterOnly, OuterAndInner, Bare
      <3>6. size \in Nat
        BY SchedulingAssumption DEF Types
      <3> QED BY <3>1, <3>2, <3>5, <3>6 DEF PoolsCover
    <2> QED BY <2>1, <2>2, <2>3 DEF Next
  <1>3. IInv => Types
    BY DEF IInv
  <1>4. Types /\ PoolsCover => TypeOK
    BY DEF TypeOK, PoolsCover
  <1> QED BY Inductive, <1>1, <1>2, <1>3, <1>4, PTL DEF Spec

=============================================================================
