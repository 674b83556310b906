---------------------------- MODULE SchedulerProofs ---------------------------
(***************************************************************************)
(* What the scheduler guarantees for any jobs, rows, attempts, boots and   *)
(* faults: ticks of one job do not overlap, attempts are counted across    *)
(* crashes, outcomes stand, and a stop that did not time out is complete.  *)
(***************************************************************************)
EXTENDS Scheduler, TLAPS

Attended == Working \cup {"starting"}

(* Where a run is, against its row and the calls its handler had. *)
RunInv(r) ==
    /\ stage[r] = "idle" => call[r] = NoCall
    /\ stage[r] = "starting" => row[r] = "none" /\ call[r].attempt = 1
    /\ row[r] = "none" => tries[r] = 0 /\ stage[r] \in {"idle", "starting"}
    /\ stage[r] = "marking" => tries[r] = call[r].attempt - 1
    /\ stage[r] \in {"handling", "finishing", "cleanup", "failing", "burying", "backoff"} =>
          tries[r] = call[r].attempt
    /\ stage[r] = "burying" => call[r].attempt = MaxAttempts
    /\ stage[r] = "backoff" => call[r].attempt < MaxAttempts
    /\ stage[r] = "cleanup" => row[r] = "succeeded"
    /\ row[r] \in Settled => stage[r] \in {"cleanup", "idle"}
    /\ row[r] = "dead_letter" => tries[r] = MaxAttempts

(* The first attempt of a tick holds its job from the insert of its row. *)
GuardInv ==
    \A r \in Runs : Tended(r) /\ stage[r] \in Attended =>
        /\ call[r].job \in guard
        /\ \A q \in Runs : Tended(q) /\ stage[q] \in Attended /\ call[q].job = call[r].job => q = r

(* The process runs nothing before it is up, starts nothing after it, and  *)
(* awaits all that runs while it drains.                                   *)
ProcessInv ==
    /\ phase \in {"down", "booting"} => \A r \in Runs : stage[r] = "idle"
    /\ phase \in {"down", "booting"} => \A j \in Jobs : task[j] = "none"
    /\ phase = "draining" => \A r \in Runs : stage[r] \in Working => r \in awaited
    /\ phase = "drained" => \A r \in Runs : stage[r] \notin Working

(* Once the reconciliation has landed, and before stop() is called. *)
Reconciled == phase \in {"booting", "up"} /\ sweep = "done"
OrphanInv ==
    Reconciled => \A r \in Runs \ hit : row[r] = "running" => stage[r] \in Working

Inv == TypeOK /\ (\A r \in Runs : RunInv(r)) /\ GuardInv /\ ProcessInv /\ OrphanInv

-----------------------------------------------------------------------------
(* Types *)

LEMMA NoCallType == NoCall \in Calls /\ NoCall.by = "manual" /\ NoCall.attempt = 1
  <1>1. (CHOOSE j \in Jobs : TRUE) \in Jobs
    BY JobsAssumption
  <1>2. 1 \in 1..MaxAttempts
    BY BoundsAssumption
  <1> QED
    BY <1>1, <1>2 DEF NoCall, Calls

LEMMA CallType ==
    ASSUME TypeOK, NEW r \in Runs
    PROVE  /\ call[r].job \in Jobs /\ call[r].by \in {"scheduler", "manual"}
           /\ call[r].attempt \in Nat /\ 1 <= call[r].attempt /\ call[r].attempt <= MaxAttempts
  BY BoundsAssumption DEF TypeOK, Calls

RunsStand == UNCHANGED <<row, runs, tries>>

(* A step that leaves the runs alone. *)
LEMMA ProcessStep ==
    ASSUME Inv, RunsStand, TypeOK', ProcessInv', hit' = hit, guard' = guard,
           Reconciled' => Reconciled
    PROVE  Inv'
  <1>1. \A r \in Runs : RunInv(r)'
    BY DEF Inv, RunInv, RunsStand, runs
  <1>2. GuardInv'
    BY DEF Inv, GuardInv, RunsStand, runs, Tended
  <1>3. OrphanInv'
    BY DEF Inv, OrphanInv, RunsStand, runs
  <1> QED
    BY <1>1, <1>2, <1>3 DEF Inv

LEMMA QuietStep ==
    ASSUME Inv, \/ Boot \/ ReconcileFails \/ Start \/ MarkFails
                \/ \E j \in Jobs : Disable(j) \/ Enable(j)
    PROVE  Inv'
  <1>0. TypeOK
    BY DEF Inv
  <1>1. TypeOK'
    <2>1. CASE Boot
      BY <1>0, <2>1, BoundsAssumption DEF TypeOK, Boot, runs
    <2>2. CASE ReconcileFails
      BY <1>0, <2>2 DEF TypeOK, ReconcileFails, runs
    <2>3. CASE Start
      BY <1>0, <2>3 DEF TypeOK, Start, runs, Listening, Up
    <2>4. CASE MarkFails
      BY <1>0, <2>4 DEF TypeOK, MarkFails, runs, Listening
    <2>5. ASSUME NEW j \in Jobs, Disable(j) \/ Enable(j)
          PROVE  TypeOK'
      BY <1>0, <2>5 DEF TypeOK, Disable, Enable, process, runs
    <2> QED
      BY <2>1, <2>2, <2>3, <2>4, <2>5
  <1>2. ProcessInv'
    BY DEF Inv, ProcessInv, TypeOK, Boot, ReconcileFails, Start, MarkFails, Disable, Enable,
           process, runs, Listening, Up
  <1>3. RunsStand /\ hit' = hit /\ guard' = guard
    BY DEF RunsStand, Boot, ReconcileFails, Start, MarkFails, Disable, Enable, process, runs
  <1>4. Reconciled' => Reconciled
    BY DEF Reconciled, Boot, ReconcileFails, Start, MarkFails, Disable, Enable, process
  <1> QED
    BY <1>1, <1>2, <1>3, <1>4, ProcessStep

(* The reconciliation and the end of stop(): the rows that say `running'   *)
(* become failed, whoever attends them.                                    *)
LEMMA CloseStep ==
    ASSUME Inv, Reconcile \/ Drained \/ Expires
    PROVE  Inv'
  <1>1. row' = [r \in Runs |-> CloseRunning(row[r])] /\ UNCHANGED <<runs, tries, hit, guard, task, boots>>
    BY DEF Reconcile, Drained, Expires, Marked
  <1>2. \A r \in Runs : /\ row[r] \in Statuses /\ row'[r] \in Statuses /\ row'[r] # "running"
                        /\ row'[r] = row[r] \/ (row[r] = "running" /\ row'[r] = "failed")
    <2>1. \A r \in Runs : row[r] \in Statuses
      BY DEF Inv, TypeOK
    <2>2. \A r \in Runs : row'[r] = IF row[r] = "running" THEN "failed" ELSE row[r]
      BY <1>1 DEF CloseRunning
    <2> QED
      BY <2>1, <2>2 DEF Statuses
  <1>3. row' \in [Runs -> Statuses]
    BY <1>1, <1>2
  <1>4. TypeOK'
    BY <1>1, <1>3 DEF Inv, TypeOK, Reconcile, Drained, Expires, Marked, runs, Listening, Up
  <1>5. \A r \in Runs : RunInv(r)'
    BY <1>1, <1>2 DEF Inv, RunInv, runs, Settled
  <1>6. GuardInv'
    BY <1>1 DEF Inv, GuardInv, Tended, runs
  <1>7. ProcessInv'
    BY <1>1 DEF Inv, ProcessInv, Reconcile, Drained, Expires, Marked, InFlight, runs
  <1>8. OrphanInv'
    BY <1>2 DEF OrphanInv
  <1> QED
    BY <1>4, <1>5, <1>6, <1>7, <1>8 DEF Inv

(* What dies leaves its rows as they are. *)
LEMMA DieStep ==
    ASSUME Inv, Die, UNCHANGED <<sweep, boots, row, tries>>, hit' \subseteq Runs
    PROVE  Inv'
  <1>1. /\ phase' = "down" /\ guard' = {} /\ awaited' = {}
        /\ stage' = [r \in Runs |-> "idle"] /\ call' = [r \in Runs |-> NoCall]
        /\ task' = [j \in Jobs |-> "none"]
    BY DEF Die
  <1>2. TypeOK'
    BY <1>1, NoCallType DEF Inv, TypeOK, Stages
  <1>3. \A r \in Runs : RunInv(r)'
    BY <1>1 DEF Inv, RunInv
  <1>4. GuardInv' /\ ProcessInv' /\ OrphanInv'
    BY <1>1 DEF GuardInv, ProcessInv, OrphanInv, Reconciled, Attended, Working
  <1> QED
    BY <1>2, <1>3, <1>4 DEF Inv

LEMMA StopStep ==
    ASSUME Inv, Stop
    PROVE  Inv'
  <1>1. /\ phase = "up" /\ phase' = "draining" /\ awaited' = InFlight
        /\ stage' = [r \in Runs |-> IF stage[r] = "backoff" THEN "idle" ELSE stage[r]]
        /\ call' = [r \in Runs |-> IF stage[r] = "backoff" THEN NoCall ELSE call[r]]
        /\ task' = [j \in Jobs |-> IF task[j] = "live" THEN "stopped" ELSE task[j]]
        /\ UNCHANGED <<sweep, boots, guard, row, tries, hit>>
    BY DEF Stop
  <1>2. /\ stage' \in [Runs -> Stages] /\ call' \in [Runs -> Calls]
        /\ task' \in [Jobs -> {"none", "live", "stopped"}]
    BY <1>1, NoCallType DEF Inv, TypeOK, Stages
  <1>3. TypeOK'
    BY <1>1, <1>2 DEF Inv, TypeOK, InFlight, Listening, Up
  <1>4. \A r \in Runs : \/ stage'[r] = stage[r] /\ call'[r] = call[r]
                        \/ stage[r] = "backoff" /\ stage'[r] = "idle" /\ call'[r] = NoCall
    BY <1>1
  <1>5. \A r \in Runs : RunInv(r)'
    BY <1>1, <1>4 DEF Inv, RunInv
  <1>6. GuardInv'
    BY <1>1, <1>4 DEF Inv, GuardInv, Tended, Attended, Working
  <1>7. ProcessInv' /\ OrphanInv'
    BY <1>1, <1>4 DEF ProcessInv, OrphanInv, Reconciled, InFlight, Working
  <1> QED
    BY <1>3, <1>5, <1>6, <1>7 DEF Inv

(* A row is about to be inserted, for a tick that takes its job or by hand *)
(* while the process is up.                                                *)
LEMMA BeginStep ==
    ASSUME Inv, NEW j \in Jobs, NEW r \in Runs, Tick(j, r) \/ RunNow(j, r)
    PROVE  Inv'
  <1>1. PICK by \in {"scheduler", "manual"} :
           /\ Begin(r, j, by) /\ UNCHANGED <<process, task, row, tries, hit>>
           /\ by = "scheduler" => Free(j) /\ guard' = guard \cup {j}
           /\ by = "manual" => guard' = guard
           /\ phase \notin {"down", "booting"}
    BY DEF Tick, RunNow, Inv, ProcessInv
  <1>2. row[r] = "none" /\ stage[r] = "idle"
    BY <1>1 DEF Begin, Unused
  <1>3. [job |-> j, by |-> by, attempt |-> 1] \in Calls
    BY BoundsAssumption DEF Calls
  <1>4. /\ stage' \in [Runs -> Stages] /\ call' \in [Runs -> Calls]
        /\ stage'[r] = "starting" /\ call'[r] = [job |-> j, by |-> by, attempt |-> 1]
        /\ \A q \in Runs : q # r => stage'[q] = stage[q] /\ call'[q] = call[q]
    BY <1>1, <1>3 DEF Begin, Inv, TypeOK, Stages
  <1>5. TypeOK'
    BY <1>1, <1>4 DEF Inv, TypeOK, process
  <1>6. ASSUME NEW q \in Runs PROVE RunInv(q)'
    BY <1>1, <1>2, <1>4 DEF Inv, RunInv, Settled
  <1>7. GuardInv'
    <2>1. ASSUME NEW q \in Runs, q # r, Tended(q), stage[q] \in Attended
          PROVE  call[q].job \in guard /\ (by = "scheduler" => call[q].job # j)
      BY <1>1, <2>1 DEF Inv, GuardInv, Free
    <2>2. guard \subseteq guard' /\ (by = "scheduler" => j \in guard')
      BY <1>1
    <2>3. Tended(r)' => by = "scheduler"
      BY <1>4 DEF Tended
    <2>4. \A q \in Runs : q # r => Tended(q)' = Tended(q)
      BY <1>4 DEF Tended
    <2> QED
      BY <1>4, <2>1, <2>2, <2>3, <2>4 DEF Inv, GuardInv
  <1>8. ProcessInv'
    BY <1>1, <1>4 DEF Inv, ProcessInv, process, Working
  <1>9. OrphanInv'
    BY <1>1, <1>2, <1>4 DEF Inv, OrphanInv, Reconciled, process
  <1> QED
    BY <1>5, <1>6, <1>7, <1>8, <1>9 DEF Inv

-----------------------------------------------------------------------------
(* The run moves on *)

LEMMA Moved ==
    ASSUME TypeOK, NEW r \in Runs, NEW s \in Working \cup {"idle", "backoff"}, Move(r, s)
    PROVE  /\ stage' \in [Runs -> Stages] /\ call' \in [Runs -> Calls] /\ guard' \subseteq Jobs
           /\ stage'[r] = s /\ call'[r] = IF s = "idle" THEN NoCall ELSE call[r]
           /\ \A q \in Runs : q # r => stage'[q] = stage[q] /\ call'[q] = call[q]
           /\ guard' = IF Tended(r) /\ s \notin Working THEN guard \ {call[r].job} ELSE guard
  <1>1. stage \in [Runs -> Stages] /\ call \in [Runs -> Calls] /\ guard \subseteq Jobs
    BY DEF TypeOK
  <1>2. s \in Stages
    BY DEF Stages
  <1> QED
    BY <1>1, <1>2, NoCallType DEF Move

(* What a run may do and leave the others as they are: it begins to work   *)
(* only while the process is up, and when it stops its row does not say    *)
(* that it runs, but for a failed statement.                               *)
LEMMA MoveStep ==
    ASSUME Inv, NEW r \in Runs, stage[r] \in Attended,
           NEW s \in Working \cup {"idle", "backoff"}, Move(r, s),
           row' \in [Runs -> Statuses], tries' \in [Runs -> 0..MaxAttempts],
           \A q \in Runs : q # r => row'[q] = row[q] /\ tries'[q] = tries[q],
           UNCHANGED <<sweep, boots, task>>, hit \subseteq hit', hit' \subseteq Runs,
           \/ UNCHANGED <<phase, awaited>>
           \/ phase' = "broken" /\ awaited' = {},
           s \in Working => stage[r] \in Working \/ phase = "up",
           s \notin Working => r \in hit' \/ row'[r] # "running",
           RunInv(r)'
    PROVE  Inv'
  <1>1. /\ stage' \in [Runs -> Stages] /\ call' \in [Runs -> Calls] /\ guard' \subseteq Jobs
        /\ stage'[r] = s /\ call'[r] = IF s = "idle" THEN NoCall ELSE call[r]
        /\ \A q \in Runs : q # r => stage'[q] = stage[q] /\ call'[q] = call[q]
        /\ guard' = IF Tended(r) /\ s \notin Working THEN guard \ {call[r].job} ELSE guard
    BY Moved DEF Inv
  <1>2. TypeOK'
    BY <1>1 DEF Inv, TypeOK, Listening
  <1>3. \A q \in Runs : RunInv(q)'
    BY <1>1 DEF Inv, RunInv
  <1>4. GuardInv'
    <2> SUFFICES ASSUME NEW q \in Runs, Tended(q)', stage'[q] \in Attended
                 PROVE  /\ call'[q].job \in guard'
                        /\ \A p \in Runs : Tended(p)' /\ stage'[p] \in Attended
                                           /\ call'[p].job = call'[q].job => p = q
      BY DEF GuardInv
    <2>1. \A p \in Runs : Tended(p)' /\ stage'[p] \in Attended =>
             Tended(p) /\ stage[p] \in Attended /\ call'[p] = call[p] /\ (p = r => s \in Working)
      BY <1>1, NoCallType DEF Tended, Attended, Working
    <2>2. Tended(q) /\ stage[q] \in Attended /\ call'[q] = call[q] /\ (q = r => s \in Working)
      BY <2>1
    <2>3. /\ call[q].job \in guard
          /\ \A p \in Runs : Tended(p) /\ stage[p] \in Attended /\ call[p].job = call[q].job => p = q
      BY <2>2 DEF Inv, GuardInv
    <2>4. call[q].job \in guard'
      BY <1>1, <2>2, <2>3
    <2> QED
      BY <2>1, <2>2, <2>3, <2>4
  <1>5. ProcessInv'
    <2>1. phase \notin {"down", "booting"}
      BY DEF Inv, ProcessInv, Attended, Working
    <2>2. \A q \in Runs : stage'[q] \in Working => stage[q] \in Working \/ phase = "up"
      BY <1>1
    <2> QED
      BY <2>1, <2>2 DEF Inv, ProcessInv
  <1>6. OrphanInv'
    BY <1>1 DEF Inv, OrphanInv, Reconciled
  <1> QED
    BY <1>2, <1>3, <1>4, <1>5, <1>6 DEF Inv

(* Code that attends a run enters or leaves `work' by whether the process  *)
(* shuts down.                                                             *)
LEMMA EnterType ==
    ASSUME Inv, NEW r \in Runs, stage[r] # "idle"
    PROVE  \/ Enter = "marking" /\ phase = "up"
           \/ Enter = "idle" /\ phase # "up"
  BY DEF Inv, ProcessInv, TypeOK, Enter, ShuttingDown, Listening, Up

LEMMA RowSet ==
    ASSUME TypeOK, NEW r \in Runs, NEW status \in Statuses, row' = [row EXCEPT ![r] = status]
    PROVE  /\ row' \in [Runs -> Statuses] /\ row'[r] = status
           /\ \A q \in Runs : q # r => row'[q] = row[q]
  BY DEF TypeOK

LEMMA AnswerStep ==
    ASSUME Inv, NEW r \in Runs, Answer(r) \/ HandlerEnds(r) \/ Cleaned(r)
    PROVE  Inv'
  <1>0. /\ TypeOK /\ RunInv(r) /\ tries \in [Runs -> 0..MaxAttempts] /\ row \in [Runs -> Statuses]
        /\ hit \subseteq Runs /\ MaxAttempts \in Nat
    BY BoundsAssumption DEF Inv, TypeOK
  <1>1. /\ call[r].attempt \in Nat /\ 1 <= call[r].attempt /\ call[r].attempt <= MaxAttempts
    BY <1>0, CallType
  <1>2. CASE Started(r)
    <2>1. /\ stage[r] = "starting" /\ stage[r] \in Attended /\ stage[r] # "idle"
          /\ Move(r, Enter) /\ UNCHANGED <<phase, awaited, sweep, boots, task, tries, hit>>
      BY <1>2 DEF Started, Attended, process
    <2>2. /\ row' \in [Runs -> Statuses] /\ row'[r] = "pending"
          /\ \A q \in Runs : q # r => row'[q] = row[q]
      BY <1>0, <1>2, RowSet DEF Started, Statuses
    <2>3. PICK s : s = Enter
      OBVIOUS
    <2>4. s \in Working \cup {"idle", "backoff"} /\ (s \in Working => phase = "up") /\ Move(r, s)
          /\ s \in {"marking", "idle"}
      BY <2>1, <2>3, EnterType DEF Working
    <2>5. RunInv(r)'
      BY <1>0, <1>1, <2>1, <2>2, <2>4, Moved DEF RunInv, Settled
    <2> QED
      BY <1>0, <2>1, <2>2, <2>4, <2>5, MoveStep
  <1>3. CASE Running(r)
    <2>1. /\ stage[r] = "marking" /\ stage[r] \in Attended /\ stage[r] \in Working
          /\ Move(r, "handling") /\ UNCHANGED <<phase, awaited, sweep, boots, task, hit>>
          /\ tries' = [tries EXCEPT ![r] = @ + 1]
      BY <1>3 DEF Running, Attended, Working, process
    <2>2. /\ row' \in [Runs -> Statuses] /\ row'[r] = "running"
          /\ \A q \in Runs : q # r => row'[q] = row[q]
      BY <1>0, <1>3, RowSet DEF Running, Statuses
    <2>3. tries[r] + 1 = call[r].attempt
      BY <1>0, <1>1, <2>1 DEF RunInv
    <2>4. /\ tries' \in [Runs -> 0..MaxAttempts] /\ tries'[r] = call[r].attempt
          /\ \A q \in Runs : q # r => tries'[q] = tries[q]
      BY <1>0, <1>1, <2>1, <2>3
    <2>5. "handling" \in Working
      BY DEF Working
    <2>6. RunInv(r)'
      BY <1>0, <1>1, <2>1, <2>2, <2>4, <2>5, Moved DEF RunInv, Settled
    <2> QED
      BY <1>0, <2>1, <2>2, <2>4, <2>5, <2>6, MoveStep
  <1>4. CASE HandlerEnds(r) \/ Cleaned(r)
    <2>1. PICK s \in {"finishing", "failing", "idle"} :
             /\ Move(r, s) /\ UNCHANGED <<phase, awaited, sweep, boots, task, row, tries, hit>>
             /\ \/ s # "idle" /\ stage[r] = "handling"
                \/ s = "idle" /\ stage[r] = "cleanup"
      BY <1>4 DEF HandlerEnds, Cleaned, process
    <2>2. stage[r] \in Attended /\ stage[r] \in Working
      BY <2>1 DEF Attended, Working
    <2>3. s \in Working \cup {"idle", "backoff"}
      BY DEF Working
    <2>4. RunInv(r)'
      BY <1>0, <1>1, <2>1, <2>3, Moved DEF RunInv, Settled
    <2>5. s \notin Working => row'[r] # "running"
      BY <1>0, <2>1 DEF RunInv, Working
    <2> QED
      BY <1>0, <2>1, <2>2, <2>3, <2>4, <2>5, MoveStep
  <1>5. CASE Succeeded(r) \/ Failed(r) \/ Buried(r)
    <2>1. PICK s \in {"cleanup", "burying", "backoff", "idle"}, status \in {"succeeded", "failed", "dead_letter"} :
             /\ Move(r, s) /\ UNCHANGED <<phase, awaited, sweep, boots, task, tries, hit>>
             /\ row' = [row EXCEPT ![r] = status]
             /\ \/ s = "cleanup" /\ status = "succeeded" /\ stage[r] = "finishing"
                \/ s = "burying" /\ status = "failed" /\ stage[r] = "failing" /\ IsLast(r)
                \/ s = "backoff" /\ status = "failed" /\ stage[r] = "failing" /\ ~IsLast(r)
                \/ s = "idle" /\ status = "dead_letter" /\ stage[r] = "burying"
      BY <1>5 DEF Succeeded, Failed, Buried, process
    <2>2. stage[r] \in Attended /\ stage[r] \in Working
      BY <2>1 DEF Attended, Working
    <2>3. s \in Working \cup {"idle", "backoff"} /\ status \in Statuses
      BY DEF Working, Statuses
    <2>4. /\ row' \in [Runs -> Statuses] /\ row'[r] = status
          /\ \A q \in Runs : q # r => row'[q] = row[q]
      BY <1>0, <2>1, <2>3, RowSet
    <2>5. RunInv(r)'
      BY <1>0, <1>1, <2>1, <2>3, <2>4, Moved DEF RunInv, Settled, IsLast
    <2> QED
      BY <1>0, <2>1, <2>2, <2>3, <2>4, <2>5, MoveStep
  <1> QED
    BY <1>2, <1>3, <1>4, <1>5 DEF Answer

LEMMA RetryStep ==
    ASSUME Inv, NEW r \in Runs, RetryFires(r)
    PROVE  Inv'
  <1>0. /\ TypeOK /\ RunInv(r) /\ stage[r] = "backoff" /\ MaxAttempts \in Nat
        /\ stage \in [Runs -> Stages] /\ call \in [Runs -> Calls]
    BY BoundsAssumption DEF Inv, TypeOK, RetryFires
  <1>1. /\ call[r].attempt \in Nat /\ 1 <= call[r].attempt /\ call[r].attempt < MaxAttempts
    BY <1>0, CallType DEF RunInv
  <1>2. PICK c : c = IF Enter = "idle" THEN NoCall ELSE [call[r] EXCEPT !.attempt = call[r].attempt + 1]
    OBVIOUS
  <1>3. c \in Calls /\ (Enter = "idle" => c = NoCall)
        /\ (Enter # "idle" => c.attempt = call[r].attempt + 1)
    BY <1>0, <1>1, <1>2, NoCallType DEF Calls
  <1>4. PICK s \in {"marking", "idle"} : s = Enter /\ (s = "marking" => phase = "up")
    BY <1>0, EnterType
  <1>5. stage' = [stage EXCEPT ![r] = s] /\ call' = [call EXCEPT ![r] = c]
    BY <1>2, <1>4 DEF RetryFires
  <1>6. /\ UNCHANGED <<phase, sweep, boots, awaited, task, guard, row, tries, hit>>
    BY DEF RetryFires, process
  <1>7. /\ stage' \in [Runs -> Stages] /\ call' \in [Runs -> Calls]
        /\ stage'[r] = s /\ call'[r] = c
        /\ \A q \in Runs : q # r => stage'[q] = stage[q] /\ call'[q] = call[q]
    BY <1>0, <1>3, <1>5 DEF Stages, Working
  <1>8. TypeOK'
    BY <1>6, <1>7 DEF Inv, TypeOK
  <1>9. RunInv(r)'
    BY <1>0, <1>1, <1>3, <1>4, <1>6, <1>7 DEF RunInv, Settled
  <1>10. \A q \in Runs : RunInv(q)'
    BY <1>6, <1>7, <1>9 DEF Inv, RunInv
  <1>11. GuardInv'
    <2>1. ~Tended(r)'
      BY <1>1, <1>3, <1>4, <1>7, NoCallType DEF Tended
    <2>2. \A q \in Runs : q # r => Tended(q)' = Tended(q)
      BY <1>7 DEF Tended
    <2> QED
      BY <1>6, <1>7, <2>1, <2>2 DEF Inv, GuardInv
  <1>12. ProcessInv'
    BY <1>0, <1>4, <1>6, <1>7 DEF Inv, ProcessInv, Working
  <1>13. OrphanInv'
    BY <1>0, <1>4, <1>6, <1>7 DEF Inv, OrphanInv, Reconciled, Working
  <1> QED
    BY <1>8, <1>10, <1>11, <1>12, <1>13 DEF Inv

(* A failing statement leaves the row alone; the run stops, goes to its    *)
(* catch, or takes the process with it.                                    *)
LEMMA FaultStep ==
    ASSUME Inv, NEW r \in Runs, Fault(r)
    PROVE  Inv'
  <1>0. /\ TypeOK /\ RunInv(r) /\ tries \in [Runs -> 0..MaxAttempts] /\ row \in [Runs -> Statuses]
        /\ hit' = hit \cup {r} /\ hit' \subseteq Runs /\ hit \subseteq hit' /\ r \in hit'
        /\ UNCHANGED <<sweep, boots, row, tries>>
    BY DEF Inv, TypeOK, Fault, StartFails, SuccessNotRecorded, WorkRejects, Faulty, process
  <1>1. CASE Die
    BY <1>0, <1>1, DieStep
  <1>2. CASE ~Die
    <2>1. PICK s \in {"idle", "failing"} :
             /\ Move(r, s) /\ UNCHANGED task
             /\ UNCHANGED <<phase, awaited>> \/ (phase' = "broken" /\ awaited' = {})
             /\ stage[r] \in Attended
             /\ s = "failing" => stage[r] = "finishing"
             /\ s = "idle" => stage[r] \in {"starting", "marking", "failing", "burying"}
      BY <1>2 DEF Fault, StartFails, SuccessNotRecorded, WorkRejects, process, Attended, Working
    <2>2. s \in Working \cup {"idle", "backoff"} /\ (s \in Working => stage[r] \in Working)
      BY <2>1 DEF Working
    <2>3. RunInv(r)'
      BY <1>0, <2>1, <2>2, Moved DEF RunInv, Settled
    <2> QED
      BY <1>0, <2>1, <2>2, <2>3, MoveStep
  <1> QED
    BY <1>1, <1>2

-----------------------------------------------------------------------------
(* The invariant, and what it gives *)

LEMMA InitInv == Init => Inv
  <1> SUFFICES ASSUME Init PROVE Inv
    OBVIOUS
  <1>1. TypeOK
    BY NoCallType, BoundsAssumption DEF Init, TypeOK, Statuses, Stages
  <1>2. \A r \in Runs : RunInv(r)
    BY DEF Init, RunInv, Settled
  <1>3. GuardInv /\ ProcessInv /\ OrphanInv
    BY DEF Init, GuardInv, ProcessInv, OrphanInv, Reconciled, Attended, Working
  <1> QED
    BY <1>1, <1>2, <1>3 DEF Inv

LEMMA NextInv == Inv /\ [Next]_vars => Inv'
  <1> SUFFICES ASSUME Inv, [Next]_vars PROVE Inv'
    OBVIOUS
  <1>1. CASE UNCHANGED vars
    <2>1. TypeOK' /\ ProcessInv' /\ RunsStand /\ hit' = hit /\ guard' = guard /\ Reconciled' = Reconciled
      BY <1>1 DEF Inv, TypeOK, ProcessInv, RunsStand, Reconciled, vars, process, runs
    <2> QED
      BY <2>1, ProcessStep
  <1>2. CASE \/ Boot \/ ReconcileFails \/ Start \/ MarkFails
             \/ \E j \in Jobs : Disable(j) \/ Enable(j)
    BY <1>2, QuietStep
  <1>3. CASE Reconcile \/ Drained \/ Expires
    BY <1>3, CloseStep
  <1>4. CASE Crash \/ Exit
    <2>1. Die /\ UNCHANGED <<sweep, boots, row, tries, hit>> /\ hit \subseteq Runs
      BY <1>4 DEF Crash, Exit, Inv, TypeOK
    <2> QED
      BY <2>1, DieStep
  <1>5. CASE Stop
    BY <1>5, StopStep
  <1>6. ASSUME NEW j \in Jobs, NEW r \in Runs, Tick(j, r) \/ RunNow(j, r) PROVE Inv'
    BY <1>6, BeginStep
  <1>7. ASSUME NEW r \in Runs,
               Answer(r) \/ HandlerEnds(r) \/ Cleaned(r) \/ RetryFires(r) \/ Fault(r)
        PROVE  Inv'
    BY <1>7, AnswerStep, RetryStep, FaultStep
  <1> QED
    BY <1>1, <1>2, <1>3, <1>4, <1>5, <1>6, <1>7 DEF Next, Ends

(* Everything below follows from this invariant of the scheduler: attempts *)
(* and calls of the handler agree at every await, a settled row is out of  *)
(* reach of its code, the first attempt of a tick holds its job alone, and *)
(* what drains is awaited.                                                 *)
THEOREM SchedulerInvariant == Spec => []Inv
  BY InitInv, NextInv, PTL DEF Spec

(* Every variable of the scheduler has its type: no handler is called more *)
(* than MAX_ATTEMPTS times, and no attempt is numbered past it.            *)
THEOREM SchedulerTypes == Spec => []TypeOK
  BY SchedulerInvariant, PTL DEF Inv

(* runningJobs: two first attempts of ticks of one job never overlap.      *)
THEOREM TicksAreExclusive == Spec => []TicksNeverOverlap
  <1>1. Inv => TicksNeverOverlap
    BY DEF Inv, GuardInv, TicksNeverOverlap, Attended
  <1> QED
    BY <1>1, SchedulerInvariant, PTL

(* A row is a dead letter only after MAX_ATTEMPTS calls of its handler.    *)
THEOREM DeadLettersAreEarned == Spec => []DeadLettersWereTried
  <1>1. Inv => DeadLettersWereTried
    <2> SUFFICES ASSUME Inv, NEW r \in Runs
                 PROVE  tries[r] <= MaxAttempts /\ (row[r] = "dead_letter" => tries[r] = MaxAttempts)
      BY DEF DeadLettersWereTried
    <2>1. tries[r] \in 0..MaxAttempts
      BY DEF Inv, TypeOK
    <2> QED
      BY <2>1, BoundsAssumption DEF Inv, RunInv
  <1> QED
    BY <1>1, SchedulerInvariant, PTL

(* Once the boot reconciliation has landed, a row that says `running' is   *)
(* attended by this process or a statement about it failed.                *)
THEOREM OrphansAreFound == Spec => []OrphansAreMarked
  <1>1. Inv => OrphansAreMarked
    BY DEF Inv, OrphanInv, Reconciled, OrphansAreMarked
  <1> QED
    BY <1>1, SchedulerInvariant, PTL

(* A stop() that did not time out leaves no handler behind.                *)
THEOREM DrainsAreComplete == Spec => []DrainLeavesNothing
  <1>1. Inv => DrainLeavesNothing
    BY DEF Inv, ProcessInv, DrainLeavesNothing, InFlight
  <1> QED
    BY <1>1, SchedulerInvariant, PTL

-----------------------------------------------------------------------------
(* What a step does to the runs *)

(* A step writes the row of a run that its code attends, or turns a row    *)
(* that says `running' into a failed one.                                  *)
LEMMA WritesOwnRow ==
    ASSUME Inv, [Next]_vars, NEW r \in Runs, row[r] \in Settled
    PROVE  row'[r] = row[r]
  <1>1. RunInv(r) /\ row \in [Runs -> Statuses]
    BY DEF Inv, TypeOK
  <1>2. CASE Reconcile \/ Drained \/ Expires
    BY <1>1, <1>2 DEF Reconcile, Drained, Expires, Marked, CloseRunning, Settled
  <1>3. ASSUME NEW q \in Runs, Answer(q) PROVE row'[r] = row[r]
    <2>1. stage[r] \in {"cleanup", "idle"}
      BY <1>1 DEF RunInv
    <2>2. q # r
      BY <1>3, <2>1 DEF Answer, Started, Running, Succeeded, Failed, Buried
    <2> QED
      BY <1>1, <1>3, <2>2 DEF Answer, Started, Running, Succeeded, Failed, Buried
  <1>4. CASE row' = row
    BY <1>4
  <1> QED
    BY <1>2, <1>3, <1>4
    DEF Next, vars, Boot, ReconcileFails, Start, Crash, Stop, Ends, MarkFails, Exit, Disable, Enable,
        Tick, RunNow, HandlerEnds, Cleaned, RetryFires, Fault, StartFails, SuccessNotRecorded, WorkRejects

(* Neither the reconciliation nor the shutdown nor a late statement        *)
(* rewrites the outcome of a run.                                          *)
THEOREM OutcomesAreFinal == Spec => OutcomesStand
  <1>1. Inv /\ [Next]_vars => [\A r \in Runs : row[r] \in Settled => row'[r] = row[r]]_vars
    BY WritesOwnRow
  <1> QED
    BY <1>1, SchedulerInvariant, PTL DEF Spec, OutcomesStand

LEMMA LetsGoOfSettled ==
    ASSUME Inv, Next, NEW r \in Runs, stage[r] # "idle", stage'[r] = "idle"
    PROVE  row'[r] \in Settled \/ phase' # "up" \/ r \in hit'
  <1>1. RunInv(r) /\ row \in [Runs -> Statuses] /\ stage \in [Runs -> Stages]
    BY DEF Inv, TypeOK
  <1>2. CASE Die \/ Stop
    BY <1>2 DEF Die, Stop
  <1>3. ASSUME NEW q \in Runs, NEW s, Move(q, s), q # r PROVE FALSE
    BY <1>1, <1>3 DEF Move
  <1>4. CASE Started(r) \/ RetryFires(r)
    BY <1>1, <1>4, EnterType DEF Started, RetryFires, Move, process
  <1>5. CASE Running(r) \/ HandlerEnds(r) \/ Succeeded(r) \/ Failed(r) \/ SuccessNotRecorded(r)
    BY <1>1, <1>5 DEF Running, HandlerEnds, Succeeded, Failed, SuccessNotRecorded, Move
  <1>6. CASE Cleaned(r)
    BY <1>1, <1>6 DEF Cleaned, RunInv, Settled
  <1>7. CASE Buried(r)
    BY <1>1, <1>7 DEF Buried, Settled
  <1>8. CASE StartFails(r) \/ WorkRejects(r)
    BY <1>8 DEF StartFails, WorkRejects, Faulty
  <1>9. ASSUME NEW q \in Runs, q # r, ~Die,
               Answer(q) \/ HandlerEnds(q) \/ Cleaned(q) \/ Fault(q)
        PROVE  FALSE
    BY <1>3, <1>9 DEF Answer, Started, Running, Succeeded, Failed, Buried, HandlerEnds, Cleaned,
                      Fault, StartFails, SuccessNotRecorded, WorkRejects
  <1>10. ASSUME NEW q \in Runs, q # r, RetryFires(q) PROVE FALSE
    BY <1>1, <1>10 DEF RetryFires
  <1>11. ASSUME NEW j \in Jobs, NEW q \in Runs, Tick(j, q) \/ RunNow(j, q) PROVE FALSE
    BY <1>1, <1>11 DEF Tick, RunNow, Begin
  <1>12. CASE UNCHANGED runs
    BY <1>12 DEF runs
  <1> QED
    BY <1>2, <1>4, <1>5, <1>6, <1>7, <1>8, <1>9, <1>10, <1>11, <1>12
    DEF Next, Boot, Reconcile, ReconcileFails, Start, Crash, Ends, Drained, Expires, Marked, MarkFails,
        Exit, Disable, Enable, Answer, Fault

(* While the process is up and the statements of a row succeed, the code   *)
(* lets go of the row only when it is settled.                             *)
THEOREM RunsAreSeenThrough == Spec => RunsAreNotDropped
  <1>1. Inv /\ [Next]_vars =>
          [\A r \in Runs : stage[r] # "idle" /\ stage'[r] = "idle" =>
               row'[r] \in Settled \/ phase' # "up" \/ r \in hit']_vars
    BY LetsGoOfSettled
  <1> QED
    BY <1>1, SchedulerInvariant, PTL DEF Spec, RunsAreNotDropped
=============================================================================
