--------------------------- MODULE JobScheduling ----------------------------
(***************************************************************************)
(* How a job gets from its interval trigger to its body (worker/app/       *)
(* scheduler.py): register_jobs wraps every job but db_health in a lambda  *)
(* that calls with_advisory_lock; the executor calls what was registered;  *)
(* with_advisory_lock holds one pooled connection for the lock while the   *)
(* body takes others, for a query each, from the same pool (worker/app/    *)
(* db.py, get_pool).  Replicas overlap during a redeploy; each has a pool  *)
(* of its own, and they share the locks, which live in the database.       *)
(***************************************************************************)
EXTENDS Naturals, FiniteSets

CONSTANTS
    Replica,
    NoReplica,      \* a lock's holder when it is free
    Job,            \* ids of the registered jobs
    Locked,         \* jobs with JobSpec.lock; the others (db_health) run bare
    AwaitsResults,  \* does the executor await what a plain callable returns?
    PoolSizes,      \* values of scheduler_max_workers + 2
    MaxQueries,     \* bound on the queries of one body
    Mortal          \* replicas that may die

ASSUME SchedulingAssumption ==
    /\ NoReplica \notin Replica
    /\ IsFiniteSet(Job) /\ Locked \subseteq Job
    /\ AwaitsResults \in BOOLEAN
    /\ PoolSizes \subseteq Nat \ {0}
    /\ MaxQueries \in Nat \ {0}
    /\ Mortal \subseteq Replica

VARIABLES
    size,   \* max_size of every replica's pool
    lock,   \* holder of each job's advisory lock
    pc,     \* where a replica's (only) instance of a job is
    left    \* queries its body has still to make

vars == <<size, lock, pc, left>>

(* Where an instance is while it holds pooled connections: the lock's, one *)
(* for a query beside the lock's, or one for the probe.                    *)
OuterOnly == {"try", "skip", "body", "unlock"}
OuterAndInner == {"audit", "query"}
Bare == {"pinging"}

(* Where it is while it waits for one.                                     *)
Waiting == {"outer", "skip", "body", "ping"}

(* Where it is while it has the lock.                                      *)
Running == {"body", "query"}
LockHeld == Running \cup {"unlock"}

InState(r, S) == {j \in Job : pc[r][j] \in S}

Taken(r) == Cardinality(InState(r, OuterOnly \cup Bare)) + 2 * Cardinality(InState(r, OuterAndInner))

PoolHasRoom(r) == Taken(r) < size

Goto(r, j, label) == pc' = [pc EXCEPT ![r][j] = label]

Init ==
    /\ size \in PoolSizes
    /\ lock = [j \in Job |-> NoReplica]
    /\ pc = [r \in Replica |-> [j \in Job |-> "idle"]]
    /\ left = [r \in Replica |-> [j \in Job |-> 0]]

-----------------------------------------------------------------------------
\* mutant: db_health is wrapped like the others
NothingIsExempt(j) == FALSE

(* What register_jobs registers: the bare coroutine function, or a lambda. *)
IsCoroutineFunction(j) == j \notin Locked

(* The interval fires, unless the job is still running (max_instances 1).  *)
(* A coroutine function becomes a task of the event loop; anything else is *)
(* called in a thread.                                                     *)
Fire(r, j) ==
    /\ pc[r][j] = "idle"
    /\ Goto(r, j, IF IsCoroutineFunction(j) THEN "ping" ELSE "thread")
    /\ UNCHANGED <<size, lock, left>>

(* The call in the thread returns with_advisory_lock's coroutine object.   *)
CallInThread(r, j) ==
    /\ pc[r][j] = "thread"
    /\ Goto(r, j, IF AwaitsResults THEN "outer" ELSE "idle")
    /\ UNCHANGED <<size, lock, left>>

-----------------------------------------------------------------------------
(* with_advisory_lock.                                                     *)

TakeOuter(r, j) ==
    /\ pc[r][j] = "outer"
    /\ PoolHasRoom(r)
    /\ Goto(r, j, "try")
    /\ UNCHANGED <<size, lock, left>>

\* mutant: the answer of pg_try_advisory_lock is not looked at
TryLockIgnored(r, j) ==
    /\ pc[r][j] = "try"
    /\ lock' = [lock EXCEPT ![j] = r]
    /\ \E n \in 1..MaxQueries : left' = [left EXCEPT ![r][j] = n]
    /\ Goto(r, j, "body")
    /\ UNCHANGED size

(* pg_try_advisory_lock, held by the session of the outer connection.      *)
TryLock(r, j) ==
    /\ pc[r][j] = "try"
    /\ \/ /\ lock[j] = NoReplica
          /\ lock' = [lock EXCEPT ![j] = r]
          /\ \E n \in 1..MaxQueries : left' = [left EXCEPT ![r][j] = n]
          /\ Goto(r, j, "body")
       \/ /\ lock[j] # NoReplica
          /\ Goto(r, j, "skip")
          /\ UNCHANGED <<lock, left>>
    /\ UNCHANGED size

\* mutant: a query opens a connection of its own
TakeInnerAnyway(r, j) ==
    /\ \/ pc[r][j] = "body" /\ Goto(r, j, "query")
       \/ pc[r][j] = "skip" /\ Goto(r, j, "audit")
    /\ UNCHANGED <<size, lock, left>>

(* The body's next query, or the audit event of a skipped firing, takes a  *)
(* second connection.                                                      *)
TakeInner(r, j) ==
    /\ PoolHasRoom(r)
    /\ \/ pc[r][j] = "body" /\ Goto(r, j, "query")
       \/ pc[r][j] = "skip" /\ Goto(r, j, "audit")
    /\ UNCHANGED <<size, lock, left>>

(* The connection goes back.  A failing query ends the body unless the     *)
(* body catches the exception.                                             *)
EndQuery(r, j) ==
    /\ pc[r][j] = "query"
    /\ left' = [left EXCEPT ![r][j] = @ - 1]
    /\ \/ left[r][j] > 1 /\ Goto(r, j, "body")
       \/ Goto(r, j, "unlock")
    /\ UNCHANGED <<size, lock>>

EndAudit(r, j) ==
    /\ pc[r][j] = "audit"
    /\ Goto(r, j, "idle")
    /\ UNCHANGED <<size, lock, left>>

(* finally: pg_advisory_unlock; the outer connection goes back.            *)
Unlock(r, j) ==
    /\ pc[r][j] = "unlock"
    /\ lock' = [lock EXCEPT ![j] = NoReplica]
    /\ left' = [left EXCEPT ![r][j] = 0]
    /\ Goto(r, j, "idle")
    /\ UNCHANGED size

\* mutant: a waiter waits for ever
NoTimeout(r, j) == FALSE

\* mutant: an exception leaves the body past the unlock
TimeoutSkipsFinally(r, j) ==
    /\ pc[r][j] \in Waiting
    /\ ~PoolHasRoom(r)
    /\ left' = [left EXCEPT ![r][j] = 0]
    /\ Goto(r, j, "idle")
    /\ UNCHANGED <<size, lock>>

(* PoolTimeout, after 30 s without a free connection.  It ends a firing    *)
(* that has no lock yet, ends a body by way of the unlock (or costs it the *)
(* query, where the body catches exceptions), and is swallowed by audit_log*)
(* and by db_ping.                                                         *)
Timeout(r, j) ==
    /\ ~PoolHasRoom(r)
    /\ \/ pc[r][j] \in {"outer", "skip", "ping"} /\ Goto(r, j, "idle") /\ UNCHANGED left
       \/ pc[r][j] = "body" /\ Goto(r, j, "unlock") /\ UNCHANGED left
       \/ /\ pc[r][j] = "body" /\ left[r][j] > 1
          /\ left' = [left EXCEPT ![r][j] = @ - 1]
          /\ UNCHANGED pc
    /\ UNCHANGED <<size, lock>>

(* db_ping.                                                                *)
Ping(r, j) ==
    /\ \/ pc[r][j] = "ping" /\ PoolHasRoom(r) /\ Goto(r, j, "pinging")
       \/ pc[r][j] = "pinging" /\ Goto(r, j, "idle")
    /\ UNCHANGED <<size, lock, left>>

(* A replica dies; its sessions end, and its locks with them.  It starts   *)
(* again with every job registered anew.                                   *)
Die(r) ==
    /\ pc' = [pc EXCEPT ![r] = [j \in Job |-> "idle"]]
    /\ left' = [left EXCEPT ![r] = [j \in Job |-> 0]]
    /\ lock' = [j \in Job |-> IF lock[j] = r THEN NoReplica ELSE lock[j]]
    /\ UNCHANGED size

-----------------------------------------------------------------------------
JobStep(r, j) ==
    \/ CallInThread(r, j) \/ TakeOuter(r, j) \/ TryLock(r, j) \/ TakeInner(r, j)
    \/ EndQuery(r, j) \/ EndAudit(r, j) \/ Unlock(r, j) \/ Timeout(r, j) \/ Ping(r, j)

Next ==
    \/ \E r \in Replica, j \in Job : Fire(r, j) \/ JobStep(r, j)
    \/ \E r \in Mortal : Die(r)

Spec == Init /\ [][Next]_vars

(* Queries return, and a wait for a connection ends one way or the other.  *)
FairSpec == Spec /\ \A r \in Replica, j \in Job : WF_vars(JobStep(r, j))

(* Besides, intervals fire.                                                *)
FiringSpec == FairSpec /\ \A r \in Replica, j \in Job : WF_vars(Fire(r, j))

-----------------------------------------------------------------------------
Types ==
    /\ size \in PoolSizes
    /\ lock \in [Job -> Replica \cup {NoReplica}]
    /\ pc \in [Replica -> [Job -> {"idle", "thread", "outer", "ping"}
                                    \cup OuterOnly \cup OuterAndInner \cup Bare]]
    /\ left \in [Replica -> [Job -> 0..MaxQueries]]

(* Every variable stays in its type, and no pool lends more connections    *)
(* than it has.                                                            *)
TypeOK == Types /\ \A r \in Replica : Taken(r) <= size

(* Overlapping replicas never run the body of one job at the same time.    *)
OneReplicaRunsAJob ==
    \A j \in Locked : \A r, s \in Replica :
        pc[r][j] \in LockHeld /\ pc[s][j] \in LockHeld => r = s

(* A lock that is taken is held by an instance that will unlock it: neither*)
(* an exception nor a death leaves a session lock behind on a connection   *)
(* that went back to its pool.                                             *)
NoLockLeaks ==
    \A j \in Job, r \in Replica : lock[j] = r => pc[r][j] \in LockHeld

(* With more connections than locked jobs, an exhausted pool always has a  *)
(* borrower that returns one without waiting for another.  (The deployed   *)
(* pool has six connections and there are six locked jobs.)                *)
PoolNeverStuck ==
    size > Cardinality(Locked) =>
        \A r \in Replica : PoolHasRoom(r) \/ \E j \in Job :
            pc[r][j] \in (OuterOnly \cup OuterAndInner \cup Bare) \ Waiting

(* Every firing ends, even when all connections are lent to jobs that wait *)
(* for a second one.                                                       *)
EveryFiringEnds ==
    \A r \in Replica, j \in Job : []<>(pc[r][j] = "idle")

(* "Advisory lock around each job body", "every job is async def": each    *)
(* registered job runs its body at some time.                              *)
EveryLockedJobRuns == \A j \in Locked : <>(\E r \in Replica : pc[r][j] \in Running)
=============================================================================
