------------------------------ MODULE JobPolling ------------------------------
(***************************************************************************)
(* The progress bar of a run (gui/src/components/FilmProgress.tsx) over the*)
(* rows that GenerationRun writes: every two seconds it asks for the row of*)
(* the job it watches, answers arrive late, out of order or never, and it  *)
(* stops once the row it was told of has settled.                          *)
(***************************************************************************)
EXTENDS GenerationRun

CONSTANTS
    Poll,      \* requests that can be under way at a time
    NoAnswer,
    MaxReloads \* bound on reloads of the page

VARIABLES
    watched,   \* the run whose bar is on the page
    asked,     \* polls on their way to the worker
    answer,    \* what the others bring back
    job,       \* the row that is shown
    stop,
    reloads

pollVars == <<watched, asked, answer, job, stop, reloads>>
pollingVars == <<vars, pollVars>>

PollInit ==
    /\ Init
    /\ watched = Nobody /\ asked = {} /\ answer = [p \in Poll |-> NoAnswer]
    /\ job = NoAnswer /\ stop = FALSE /\ reloads = 0

Row(r) == [stage |-> stage[r], error |-> r \in error]
IsSettled(row) == row # NoAnswer /\ (row.stage = "done" \/ row.error)

-----------------------------------------------------------------------------
(* POST /youtube/jobs has answered with the job's id.                      *)
Watch(r) ==
    /\ watched = Nobody /\ r \in Tracked /\ pc[r] # "idle"
    /\ watched' = r
    /\ UNCHANGED <<vars, asked, answer, job, stop, reloads>>

(* tick.                                                                   *)
Ask(p) ==
    /\ watched # Nobody /\ ~stop
    /\ p \notin asked /\ answer[p] = NoAnswer
    /\ asked' = asked \cup {p}
    /\ UNCHANGED <<vars, watched, answer, job, stop, reloads>>

(* youtube_job_status reads the row.                                       *)
Serve(p) ==
    /\ p \in asked
    /\ asked' = asked \ {p}
    /\ answer' = [answer EXCEPT ![p] = Row(watched)]
    /\ UNCHANGED <<vars, watched, job, stop, reloads>>

\* mutant: an answer that comes after the last one is shown too
DeliverAnyway(p) ==
    /\ answer[p] # NoAnswer
    /\ answer' = [answer EXCEPT ![p] = NoAnswer]
    /\ job' = answer[p] /\ stop' = (stop \/ IsSettled(answer[p]))
    /\ UNCHANGED <<vars, watched, asked, reloads>>

Deliver(p) ==
    /\ answer[p] # NoAnswer
    /\ answer' = [answer EXCEPT ![p] = NoAnswer]
    /\ IF stop THEN UNCHANGED <<job, stop>>
       ELSE job' = answer[p] /\ stop' = IsSettled(answer[p])
    /\ UNCHANGED <<vars, watched, asked, reloads>>

(* "A dropped poll is not a failed render.  Keep trying."                  *)
Drop(p) ==
    /\ p \in asked \/ answer[p] # NoAnswer
    /\ asked' = asked \ {p}
    /\ answer' = [answer EXCEPT ![p] = NoAnswer]
    /\ UNCHANGED <<vars, watched, job, stop, reloads>>

(* The page is left: its polls have nothing to show any more.              *)
Reload ==
    /\ watched # Nobody /\ reloads < MaxReloads
    /\ reloads' = reloads + 1
    /\ watched' = Nobody /\ asked' = {} /\ answer' = [p \in Poll |-> NoAnswer]
    /\ job' = NoAnswer /\ stop' = FALSE
    /\ UNCHANGED vars

-----------------------------------------------------------------------------
PollNext ==
    \/ Next /\ UNCHANGED pollVars
    \/ \E r \in Run : Watch(r)
    \/ \E p \in Poll : Ask(p) \/ Serve(p) \/ Deliver(p) \/ Drop(p)
    \/ Reload

(* A run that has begun goes on: calls of models, voices and the renderer  *)
(* return or raise.  The interval goes on, the worker answers, and not     *)
(* every answer is lost.                                                   *)
PollSpec ==
    /\ PollInit /\ [][PollNext]_pollingVars
    /\ \A r \in Run : WF_vars(RunStep(r))
    /\ \A p \in Poll :
          WF_pollingVars(Ask(p)) /\ SF_pollingVars(Serve(p)) /\ SF_pollingVars(Deliver(p))

-----------------------------------------------------------------------------
(* What the bar stops at is how the run ended: no late answer turns it     *)
(* back, and the row never changes after it has settled, unless the row    *)
(* could not be written or the worker died.                                *)
EndsOnTheOutcome == stop /\ watched \notin troubled => job = Row(watched)

(* Whoever stays on the page is told how the run ended.                    *)
OutcomeIsShown ==
    \A r \in Tracked : watched = r ~> (stop \/ watched # r \/ r \in troubled)
=============================================================================
