------------------------------- MODULE Scheduler ------------------------------
(***************************************************************************)
(* The in-process job scheduler (packages/scheduler) and the process that  *)
(* hosts it (apps/api/src/index.ts, jobs/register.ts).                     *)
(*                                                                         *)
(* The scheduler runs on one event loop: what lies between two awaits is   *)
(* one step, and an awaited statement on job_runs is a step together with  *)
(* the code that runs when it answers.  The rows survive the process,      *)
(* everything else is lost with it.                                        *)
(***************************************************************************)
EXTENDS Integers, FiniteSets

CONSTANTS
    Jobs,          \* registered job names
    CronJobs,      \* those with a cron expression
    Runs,          \* bound: ids of the job_runs rows
    MaxAttempts,
    MaxBoots,      \* bound: how often the process is started
    MaxFaults      \* bound: how many rows a failing statement may hit

ASSUME JobsAssumption == Jobs # {} /\ CronJobs \subseteq Jobs
ASSUME RunsAssumption == Runs \subseteq Nat
ASSUME BoundsAssumption == /\ MaxAttempts \in Nat \ {0}
                           /\ MaxBoots \in Nat
                           /\ MaxFaults \in Nat

VARIABLES
    phase,      \* the life of the process
    sweep,      \* the boot reconciliation statement
    boots,      \* how often the process has been started
    task,       \* the node-cron task of a job
    guard,      \* runningJobs
    awaited,    \* the in-flight runs stop() took a snapshot of
    row,        \* status of a row of job_runs
    stage,      \* where the code that attends it is
    call,       \* the arguments of its executeFromRow
    tries,      \* history: how often its handler was called
    hit         \* history: rows a statement of which failed

process == <<phase, sweep, boots, awaited>>
runs == <<stage, call>>
vars == <<process, task, guard, row, runs, tries, hit>>

-----------------------------------------------------------------------------

Statuses == {"none", "pending", "running", "succeeded", "failed", "dead_letter"}
Settled == {"succeeded", "dead_letter"}

(* The awaits inside `work', the promise kept in `inflight'. *)
Working == {"marking", "handling", "finishing", "cleanup", "failing",
            "burying"}
Stages == {"idle", "starting", "backoff"} \cup Working

Up == {"up", "draining"}             \* the scheduler has not returned from stop
Listening == Up \cup {"drained", "expired", "broken"}   \* HTTP is still open
ShuttingDown == phase \in Listening \ {"up"}

InFlight == {r \in Runs : stage[r] \in Working}

(* execute() awaits the first attempt of a tick, and only that one: it     *)
(* holds the name of the job in runningJobs meanwhile and catches what the *)
(* attempt throws.                                                         *)
Calls == [job : Jobs, by : {"scheduler", "manual"}, attempt : 1..MaxAttempts]
NoCall == [job |-> CHOOSE j \in Jobs : TRUE, by |-> "manual", attempt |-> 1]

Tended(r) == call[r].by = "scheduler" /\ call[r].attempt = 1

TypeOK ==
    /\ phase \in {"down", "booting"} \cup Listening
    /\ sweep \in {"sent", "done", "failed"}
    /\ boots \in 0..MaxBoots
    /\ task \in [Jobs -> {"none", "live", "stopped"}]
    /\ guard \subseteq Jobs
    /\ awaited \subseteq Runs
    /\ row \in [Runs -> Statuses]
    /\ stage \in [Runs -> Stages]
    /\ call \in [Runs -> Calls]
    /\ tries \in [Runs -> 0..MaxAttempts]
    /\ hit \subseteq Runs

Init ==
    /\ phase = "down"
    /\ sweep = "done"
    /\ boots = 0
    /\ task = [j \in Jobs |-> "none"]
    /\ guard = {}
    /\ awaited = {}
    /\ row = [r \in Runs |-> "none"]
    /\ stage = [r \in Runs |-> "idle"]
    /\ call = [r \in Runs |-> NoCall]
    /\ tries = [r \in Runs |-> 0]
    /\ hit = {}

-----------------------------------------------------------------------------
(* The process *)

(* What the process had in memory is gone. *)
Die ==
    /\ phase' = "down"
    /\ guard' = {}
    /\ awaited' = {}
    /\ stage' = [r \in Runs |-> "idle"]
    /\ call' = [r \in Runs |-> NoCall]
    /\ task' = [j \in Jobs |-> "none"]

Boot ==
    /\ phase = "down"
    /\ boots < MaxBoots
    /\ phase' = "booting"
    /\ boots' = boots + 1
    /\ sweep' = "sent"
    /\ UNCHANGED <<awaited, task, guard, row, runs, tries, hit>>

CloseAll(status) ==   \* mutant: the UPDATE has no WHERE
    IF status = "none" THEN "none" ELSE "failed"
CloseRunning(status) == IF status = "running" THEN "failed" ELSE status

(* The reconciliation answers; after the two seconds of the race it may    *)
(* still be under way when the process serves, and land then.              *)
ReconcileNothing ==   \* mutant: no UPDATE
    /\ phase # "down"
    /\ sweep = "sent"
    /\ sweep' = "done"
    /\ UNCHANGED <<phase, boots, awaited, task, guard, row, runs, tries, hit>>
Reconcile ==
    /\ phase # "down"
    /\ sweep = "sent"
    /\ sweep' = "done"
    /\ row' = [r \in Runs |-> CloseRunning(row[r])]
    /\ UNCHANGED <<phase, boots, awaited, task, guard, runs, tries,
                   hit>>

ReconcileFails ==
    /\ phase # "down"
    /\ sweep = "sent"
    /\ sweep' = "failed"
    /\ UNCHANGED <<phase, boots, awaited, task, guard, row, runs, tries, hit>>

(* start(): every job with a cron expression gets its task. *)
Start ==
    /\ phase = "booting"
    /\ phase' = "up"
    /\ task' = [j \in Jobs |-> IF j \in CronJobs THEN "live" ELSE "none"]
    /\ UNCHANGED <<sweep, boots, awaited, guard, row, runs, tries, hit>>

Crash ==
    /\ phase # "down"
    /\ Die
    /\ UNCHANGED <<sweep, boots, row, tries, hit>>

(* process.exit once stop() has returned or thrown. *)
Exit ==
    /\ phase \in Listening \ Up
    /\ Die
    /\ UNCHANGED <<sweep, boots, row, tries, hit>>

-----------------------------------------------------------------------------
(* The task *)

(* An ADMIN disables or enables a job: def.enabled is TRUE just as long as *)
(* the entry has a task, and without a cron expression nothing reads it.   *)
Disable(j) ==
    /\ phase \in Listening
    /\ task[j] # "none"
    /\ task' = [task EXCEPT ![j] = "none"]
    /\ UNCHANGED <<process, guard, row, runs, tries, hit>>

Enable(j) ==
    /\ phase \in Listening
    /\ j \in CronJobs /\ task[j] = "none"
    /\ task' = [task EXCEPT ![j] = "live"]
    /\ UNCHANGED <<process, guard, row, runs, tries, hit>>

-----------------------------------------------------------------------------
(* One run *)

Unused == {r \in Runs : row[r] = "none" /\ stage[r] = "idle" /\ r \notin hit}

(* The INSERT of a row is sent; its id is the next unused one. *)
Begin(r, j, by) ==
    /\ r \in Unused /\ \A q \in Unused : r <= q
    /\ call' = [call EXCEPT ![r] = [job |-> j, by |-> by, attempt |-> 1]]
    /\ stage' = [stage EXCEPT ![r] = "starting"]

Unguarded(j) == TRUE   \* mutant: execute does not look at runningJobs
Free(j) == j \notin guard

(* node-cron fires: the first half of execute. *)
Tick(j, r) ==
    /\ task[j] = "live"
    /\ Free(j)
    /\ guard' = guard \cup {j}
    /\ Begin(r, j, "scheduler")
    /\ UNCHANGED <<process, task, row, tries, hit>>

RunNow(j, r) ==
    /\ phase = "up"
    /\ Begin(r, j, "manual")
    /\ UNCHANGED <<process, task, guard, row, tries, hit>>

(* What r awaited is over and it moves to stage s; a tended run that no    *)
(* longer works leaves executeFromRow, and execute frees its job.          *)
MoveKeepingGuard(r, s) ==   \* mutant: no finally
    /\ stage' = [stage EXCEPT ![r] = s]
    /\ UNCHANGED <<guard, call>>
Move(r, s) ==
    /\ stage' = [stage EXCEPT ![r] = s]
    /\ guard' = IF Tended(r) /\ s \notin Working THEN guard \ {call[r].job} ELSE guard
    /\ call' = IF s = "idle" THEN [call EXCEPT ![r] = NoCall] ELSE call

AlwaysEnter == "marking"   \* mutant: shuttingDown is not checked
Enter == IF ShuttingDown THEN "idle" ELSE "marking"

(* recordStart answers, and executeFromRow begins. *)
Started(r) ==
    /\ stage[r] = "starting"
    /\ row' = [row EXCEPT ![r] = "pending"]
    /\ Move(r, Enter)
    /\ UNCHANGED <<process, task, tries, hit>>

Running(r) ==
    /\ stage[r] = "marking"
    /\ row' = [row EXCEPT ![r] = "running"]
    /\ tries' = [tries EXCEPT ![r] = @ + 1]
    /\ Move(r, "handling")
    /\ UNCHANGED <<process, task, hit>>

(* The handler returns or throws. *)
HandlerEnds(r) ==
    /\ stage[r] = "handling"
    /\ \E s \in {"finishing", "failing"} : Move(r, s)
    /\ UNCHANGED <<process, task, row, tries, hit>>

Succeeded(r) ==
    /\ stage[r] = "finishing"
    /\ row' = [row EXCEPT ![r] = "succeeded"]
    /\ Move(r, "cleanup")
    /\ UNCHANGED <<process, task, tries, hit>>

(* The handler's afterCommit returns, or throws and is ignored. *)
Cleaned(r) ==
    /\ stage[r] = "cleanup"
    /\ Move(r, "idle")
    /\ UNCHANGED <<process, task, row, tries, hit>>

NeverLast(r) == FALSE   \* mutant: the attempts are not counted
LastIsOneEarly(r) == call[r].attempt >= MaxAttempts - 1   \* mutant: off by one
IsLast(r) == call[r].attempt >= MaxAttempts

FailedForGood(r) ==   \* mutant: only ticks are retried
    /\ stage[r] = "failing"
    /\ row' = [row EXCEPT ![r] = "failed"]
    /\ Move(r, IF call[r].by = "manual" THEN "idle" ELSE
               IF IsLast(r) THEN "burying" ELSE "backoff")
    /\ UNCHANGED <<process, task, tries, hit>>

Failed(r) ==
    /\ stage[r] = "failing"
    /\ row' = [row EXCEPT ![r] = "failed"]
    /\ Move(r, IF IsLast(r) THEN "burying" ELSE "backoff")
    /\ UNCHANGED <<process, task, tries, hit>>

Buried(r) ==
    /\ stage[r] = "burying"
    /\ row' = [row EXCEPT ![r] = "dead_letter"]
    /\ Move(r, "idle")
    /\ UNCHANGED <<process, task, tries, hit>>

(* The timer of scheduleRetry fires. *)
RetryFires(r) ==
    /\ stage[r] = "backoff"
    /\ stage' = [stage EXCEPT ![r] = Enter]
    /\ call' = [call EXCEPT ![r] = IF Enter = "idle" THEN NoCall
                                   ELSE [call[r] EXCEPT !.attempt = call[r].attempt + 1]]
    /\ UNCHANGED <<process, task, guard, row, tries, hit>>

-----------------------------------------------------------------------------
(* A statement of r fails, without effect on the row *)

Faulty(r) ==
    /\ Cardinality(hit) < MaxFaults
    /\ hit' = hit \cup {r}

(* The INSERT fails: execute logs it, runNow throws to its caller. *)
StartFails(r) ==
    /\ stage[r] = "starting"
    /\ Faulty(r)
    /\ Move(r, "idle")
    /\ UNCHANGED <<process, task, row, tries>>

(* The catch around the handler covers the record of its success too. *)
SuccessNotRecorded(r) ==
    /\ stage[r] = "finishing"
    /\ Faulty(r)
    /\ Move(r, "failing")
    /\ UNCHANGED <<process, task, row, tries>>

(* `work' rejects.  execute catches it for a tended run, though a stop()   *)
(* that waits for it throws; for the others nobody does, and an unhandled  *)
(* rejection ends the process.                                             *)
WorkRejects(r) ==
    /\ stage[r] \in {"marking", "failing", "burying"}
    /\ Faulty(r)
    /\ IF Tended(r)
       THEN /\ Move(r, "idle")
            /\ phase' = IF r \in awaited THEN "broken" ELSE phase
            /\ awaited' = IF r \in awaited THEN {} ELSE awaited
            /\ UNCHANGED task
       ELSE Die
    /\ UNCHANGED <<sweep, boots, row, tries>>

-----------------------------------------------------------------------------
(* stop() *)

Stop ==
    /\ phase = "up"
    /\ phase' = "draining"
    /\ awaited' = InFlight
    /\ stage' = [r \in Runs |-> IF stage[r] = "backoff" THEN "idle" ELSE stage[r]]
    /\ call' = [r \in Runs |-> IF stage[r] = "backoff" THEN NoCall ELSE call[r]]
    /\ task' = [j \in Jobs |-> IF task[j] = "live" THEN "stopped" ELSE task[j]]
    /\ UNCHANGED <<sweep, boots, guard, row, tries, hit>>

(* markInflightAsShutdown answers, once the awaited runs have finished or  *)
(* after the graceful timeout.                                             *)
Marked(end) ==
    /\ phase = "draining"
    /\ phase' = end
    /\ awaited' = {}
    /\ row' = [r \in Runs |-> CloseRunning(row[r])]
    /\ UNCHANGED <<sweep, boots, task, guard, runs, tries,
                   hit>>

Drained == awaited \cap InFlight = {} /\ Marked("drained")

NeverExpires == FALSE /\ Marked("expired")   \* mutant: no timeout
Expires == awaited # {} /\ Marked("expired")

MarkFails ==
    /\ phase = "draining"
    /\ phase' = "broken"
    /\ awaited' = {}
    /\ UNCHANGED <<sweep, boots, task, guard, row, runs, tries, hit>>

-----------------------------------------------------------------------------

(* The event loop and the database answer what r awaits; how long the      *)
(* handler takes is its own affair.                                        *)
Answer(r) == Started(r) \/ Running(r) \/ Succeeded(r) \/ Failed(r) \/ Buried(r)

Fault(r) == StartFails(r) \/ SuccessNotRecorded(r) \/ WorkRejects(r)

Ends == Drained \/ Expires \/ MarkFails

Next ==
    \/ Boot \/ Reconcile \/ ReconcileFails \/ Start \/ Crash
    \/ Stop \/ Ends \/ Exit
    \/ \E j \in Jobs : Disable(j) \/ Enable(j)
    \/ \E j \in Jobs, r \in Runs : Tick(j, r) \/ RunNow(j, r)
    \/ \E r \in Runs : Answer(r) \/ HandlerEnds(r) \/ Cleaned(r) \/ RetryFires(r) \/ Fault(r)

Fairness ==
    /\ WF_vars(Drained \/ Expires)
    /\ \A r \in Runs : WF_vars(Answer(r)) /\ WF_vars(RetryFires(r))

Spec == Init /\ [][Next]_vars /\ Fairness

-----------------------------------------------------------------------------
(* Properties *)

(* runningJobs: two first attempts of ticks of one job never overlap, and  *)
(* the job of each is in the set (execute).                                *)
TicksNeverOverlap ==
    \A r, q \in Runs :
        stage[r] \in Working /\ stage[q] \in Working /\ Tended(r) /\ Tended(q) =>
            call[r].job \in guard /\ (call[r].job = call[q].job => r = q)

(* MAX_ATTEMPTS: no handler is called more often for one row, whatever     *)
(* crashes and failing statements there were, and a row is a dead letter   *)
(* only after as many calls (executeFromRow).                              *)
DeadLettersWereTried ==
    \A r \in Runs : /\ tries[r] <= MaxAttempts
                    /\ row[r] = "dead_letter" => tries[r] = MaxAttempts

(* Once the boot reconciliation has landed, a row says `running' only if   *)
(* this process attends it or a statement about it failed                  *)
(* (reconcileOrphanedRuns).                                                *)
OrphansAreMarked ==
    phase = "up" /\ sweep = "done" =>
        \A r \in Runs \ hit : row[r] = "running" => stage[r] \in Working

(* A stop() that did not time out leaves no handler behind, although it    *)
(* waits only for the runs of its snapshot (stop, executeFromRow).         *)
DrainLeavesNothing == phase = "drained" => InFlight = {}

(* Neither the reconciliation nor the shutdown nor a late statement        *)
(* rewrites the outcome of a run (run-tracker).                            *)
OutcomesStand ==
    [][\A r \in Runs : row[r] \in Settled => row'[r] = row[r]]_vars

(* While the process is up and the statements of a row succeed, the code   *)
(* lets go of the row only when it is settled (executeFromRow).            *)
RunsAreNotDropped ==
    [][\A r \in Runs : stage[r] # "idle" /\ stage'[r] = "idle" =>
           row'[r] \in Settled \/ phase' # "up" \/ r \in hit']_vars

(* stop() returns even if a handler never does. *)
StopEnds == phase = "draining" ~> phase # "draining"

HandlersEnd == \A r \in Runs : []<>(stage[r] \notin {"handling", "cleanup"})

(* If handlers end, no job stays in runningJobs: failing statements cannot *)
(* leave a job that never ticks again (execute).                           *)
GuardIsFreed == HandlersEnd => \A j \in Jobs : j \in guard ~> j \notin guard

(* The specification of the scheduler (openspec/specs/scheduler-jobs):     *)
(* a tick does not start a run while another run of its job is running.    *)
TickSkipsWhileRunning ==
    [][\A r \in Runs :
           stage[r] = "idle" /\ stage'[r] = "starting" /\ call'[r].by = "scheduler" =>
               ~\E q \in Runs : call[q].job = call'[r].job /\ row[q] = "running"
                                /\ stage[q] = "handling"]_vars

=============================================================================
