-------------------------- MODULE SchedulerService --------------------------
(***************************************************************************)
(* The scheduler: the loop of SchedulerService (inaki/scheduler/service.py)*)
(* over the scheduled_tasks table (adapters/sqlite_repo.py), and the calls *)
(* of ScheduleTaskUseCase (use_cases/schedule_task.py) that the tool of an *)
(* agent and the CLI, which is another process, make on the same table.    *)
(*                                                                         *)
(* Every repository call opens its own connection and is one transaction;  *)
(* between two of them anybody else may act.  So one action here is one    *)
(* transaction with what its coroutine does before the next, and what the  *)
(* loop or a call decides, it decides on the copy it read earlier.         *)
(***************************************************************************)
EXTENDS Integers, FiniteSets

CONSTANTS
  Ids,          \* task ids, those of the users from USER_TASK_ID_START on
  Builtin,      \* the one below it, of the daemon's own task; 0 without it
  Schedules,    \* a oneshot's time, or the period of a recurrent's cron
  Lefts,        \* executions_remaining a recurrent may be created with
  Forever,      \* executions_remaining = None
  Callers,      \* calls of the use case that may be in progress at a time
  Ops,          \* the operations they make
  MaxActive,    \* max_active_tasks of the agent
  MaxRetries,   \* max_retries
  MaxSleep,     \* the 60 s a sleep of the loop lasts at most
  MaxTime,      \* bound: the clock
  MaxCalls,     \* bound: calls of the use case
  MaxStops,     \* bound: stops and crashes of the daemon
  MaxFaults     \* bound: repository calls of the service that fail

AllOps == {"create", "enable", "disable", "delete", "rename", "reschedule",
           "edit", "run"}

ASSUME SchedulerAssumption ==
  /\ IsFiniteSet(Ids) /\ Ids = 1 .. Cardinality(Ids) /\ Ids # {} /\ Builtin \in {0, 1}
  /\ Schedules \subseteq Nat \ {0} /\ Schedules # {}
  /\ Lefts \subseteq Int \cup {Forever} /\ Forever \notin Int
  /\ Ops \subseteq AllOps
  /\ MaxActive \in Nat \ {0} /\ MaxRetries \in Nat /\ MaxSleep \in Nat \ {0}
  /\ MaxTime \in Nat /\ MaxCalls \in Nat
  /\ MaxStops \in Nat /\ MaxFaults \in Nat

VARIABLES
  clock,          \* the wall clock
  rows,           \* scheduled_tasks
  logs,           \* task_logs: the ids that have some log
  pc,             \* where the service's coroutine is
  now,            \* its local now
  cur,            \* the task it read, as it read it
  attempt,        \* failed attempts of the current execution
  todo,           \* what start listed and has not recovered yet
  wake, until,    \* the event invalidate() sets, the end of the sleep
  call,           \* the calls of the use case in progress
  calls, stops, faults,  \* how many of each bound were used
  made,           \* history: tasks created, which names them
  hist            \* history: what happened to each of them

service == <<pc, now, cur, attempt, todo, wake, until>>
bounds == <<calls, stops, faults>>
vars == <<clock, rows, logs, service, call, bounds, made, hist>>

Kinds == {"oneshot", "recurrent"}
Status == {"pending", "running", "completed", "failed", "missed"}
BuiltinName == MaxCalls + 1
Names == 1 .. BuiltinName

Row == [who: 0 .. BuiltinName, kind: Kinds, schedule: Schedules, status: Status,
        enabled: BOOLEAN, left: Int \cup {Forever}, next: Nat]
\* who names the task behind a row; it is not a column.  0: no row.
NoRow == [who |-> 0, kind |-> "oneshot",
          schedule |-> CHOOSE s \in Schedules : TRUE, status |-> "completed",
          enabled |-> FALSE, left |-> Forever, next |-> 0]
Exists(i) == rows[i].who # 0

Task == [id: Ids \cup {0}, row: Row]
NoTask == [id |-> 0, row |-> NoRow]
Copy(i) == [id |-> i, row |-> rows[i]]

Least(S) == CHOOSE x \in S : \A y \in S : x <= y
Greatest(S) == CHOOSE x \in S : \A y \in S : x >= y

(***************************************************************************)
(* Time.                                                                   *)
(***************************************************************************)
NextCronFromNow(period, after) == after + period
NextCron(period, after) == ((after \div period) + 1) * period

\* _resolve_next_run, for a row that comes without next_run.
ResolveNextRun(r) ==
  [r EXCEPT !.next = IF r.kind = "oneshot" THEN r.schedule
                     ELSE NextCron(r.schedule, clock)]

Tick == /\ clock < MaxTime
        /\ clock' = clock + 1
        /\ UNCHANGED <<rows, logs, service, call, bounds, made, hist>>

(***************************************************************************)
(* The statements of the repository.  An UPDATE of an id without a row     *)
(* changes nothing; save_task of an id without a row inserts it.           *)
(***************************************************************************)
UpdateStatus(i, s) ==
  rows' = IF Exists(i) THEN [rows EXCEPT ![i].status = s] ELSE rows

UpdateEnabled(i, b) ==
  rows' = IF Exists(i) THEN [rows EXCEPT ![i].enabled = b] ELSE rows

UpdateAfterExecution(i, next, left) ==
  rows' = IF Exists(i)
          THEN [rows EXCEPT ![i].status = "pending", ![i].next = next,
                            ![i].left = left]
          ELSE rows

SaveTask(i, r) == rows' = [rows EXCEPT ![i] = r]

SaveLog(i) == logs' = logs \cup {i}

Candidates ==
  {i \in Ids : Exists(i) /\ rows[i].enabled /\ rows[i].status = "pending"}
CountActive ==
  Cardinality({i \in Ids \ {Builtin} : /\ Exists(i) /\ rows[i].enabled
                           /\ rows[i].status \in {"pending", "running"}})
\* The id of an INSERT: above every task and every log.
NewId == Greatest({Builtin} \cup {i \in Ids : Exists(i)} \cup logs) + 1

Copies(S) == {[id |-> i, row |-> rows[i]] : i \in S}

\* The locals of an iteration do not outlive it.
ForgetLocals == now' = 0 /\ cur' = NoTask /\ attempt' = 0
NextIteration == pc' = "look" /\ ForgetLocals

(***************************************************************************)
(* Before start, the daemon brings the row of its own task up to the       *)
(* config of this boot, from the copy it read.                             *)
(***************************************************************************)
ReadBuiltin ==
  /\ pc = "off" /\ Builtin # 0
  /\ pc' = "builtin" /\ cur' = Copy(Builtin)
  /\ UNCHANGED <<clock, rows, logs, now, attempt, todo, wake, until, call,
                 bounds, made, hist>>

BuiltinTask(s) ==
  [NoRow EXCEPT !.who = BuiltinName, !.kind = "recurrent", !.schedule = s,
                !.status = "pending", !.enabled = TRUE]
SeedBuiltin(s) == SaveTask(Builtin, ResolveNextRun(BuiltinTask(s)))
\* A schedule that changed, or a failure of older runs, puts it on a slot to come.
Mended(r, s) ==
  LET moved == s # r.schedule \/ (r.status = "failed" /\ r.next <= clock)
  IN [r EXCEPT !.schedule = s,
               !.status = IF r.status = "failed" THEN "pending" ELSE @,
               !.next = IF moved THEN NextCron(s, clock) ELSE @]

ReconcileBuiltin ==
  /\ pc = "builtin"
  /\ \E s \in Schedules :
       IF cur.row = NoRow THEN SeedBuiltin(s)
       ELSE IF Mended(cur.row, s) # cur.row
            THEN SaveTask(Builtin, Mended(cur.row, s)) ELSE UNCHANGED rows
  /\ pc' = "reconciled" /\ ForgetLocals
  /\ UNCHANGED <<clock, logs, todo, wake, until, call, bounds, made, hist>>

(***************************************************************************)
(* start: what the last process left running, then what fell due while     *)
(* there was none.                                                         *)
(***************************************************************************)
AdvanceRecurrent(t) ==
  UpdateAfterExecution(t.id, NextCron(t.row.schedule, now), t.row.left)

Start ==
  /\ pc = IF Builtin = 0 THEN "off" ELSE "reconciled"
  /\ pc' = "stuck" /\ now' = clock
  /\ todo' = Copies({i \in Ids : Exists(i) /\ rows[i].status = "running"})
  /\ UNCHANGED <<clock, rows, logs, cur, attempt, wake, until, call, bounds,
                 made, hist>>

SettleAlways(t, status) == UpdateStatus(t.id, status)
Settle(t, status) == IF t.row.kind = "oneshot" THEN UpdateStatus(t.id, status)
                     ELSE AdvanceRecurrent(t)

RecoverOne(t, status) ==
  /\ todo' = todo \ {t}
  /\ SaveLog(t.id)
  /\ Settle(t, status)
  /\ UNCHANGED <<clock, pc, now, cur, attempt, wake, until, call, bounds,
                 made, hist>>

RecoverStuck == pc = "stuck" /\ \E t \in todo : RecoverOne(t, "failed")

ListMissed ==
  /\ pc = "stuck" /\ todo = {}
  /\ pc' = "missed"
  /\ todo' = Copies({i \in Candidates : rows[i].next <= now})
  /\ UNCHANGED <<clock, rows, logs, now, cur, attempt, wake, until, call,
                 bounds, made, hist>>

RecoverMissed == pc = "missed" /\ \E t \in todo : RecoverOne(t, "missed")

Recovered ==
  /\ pc = "missed" /\ todo = {}
  /\ NextIteration
  /\ UNCHANGED <<clock, rows, logs, todo, wake, until, call, bounds, made,
                 hist>>

(***************************************************************************)
(* The loop: the earliest candidate, then a sleep or its execution.        *)
(***************************************************************************)
GetNextDue ==
  /\ pc = "look"
  /\ pc' = "decide" /\ now' = clock
  /\ cur' \in IF Candidates = {} THEN {NoTask}
              ELSE Copies({i \in Candidates : \A j \in Candidates :
                             rows[i].next <= rows[j].next})
  /\ UNCHANGED <<clock, rows, logs, attempt, todo, wake, until, call, bounds,
                 made, hist>>

IsDue == cur # NoTask /\ cur.row.next <= now

\* The event is cleared after the table was read.
Sleep ==
  /\ pc = "decide" /\ ~IsDue
  /\ pc' = "asleep" /\ ForgetLocals /\ wake' = FALSE
  /\ until' = IF cur = NoTask THEN now + MaxSleep
              ELSE Least({cur.row.next, now + MaxSleep})
  /\ UNCHANGED <<clock, rows, logs, todo, call, bounds, made, hist>>

\* A sleep that would outlast the bound of the clock ends with it.
TimeoutNever == FALSE
Timeout == clock >= Least({until, MaxTime})

WakeUp ==
  /\ pc = "asleep"
  /\ wake \/ Timeout
  /\ NextIteration /\ until' = 0
  /\ UNCHANGED <<clock, rows, logs, todo, wake, call, bounds, made, hist>>

(***************************************************************************)
(* _execute_task, on the copy of the task that the loop read.              *)
(***************************************************************************)
MarkRunning ==
  /\ pc = "decide" /\ IsDue
  /\ pc' = "dispatch" /\ attempt' = 0
  /\ UpdateStatus(cur.id, "running")
  /\ UNCHANGED <<clock, logs, now, cur, todo, wake, until, call, bounds, made,
                 hist>>

DispatchOk ==
  /\ pc = "dispatch"
  /\ pc' = "log" /\ now' = clock
  /\ hist' = [hist EXCEPT ![cur.row.who].ran = @ + 1]
  /\ UNCHANGED <<clock, rows, logs, cur, attempt, todo, wake, until, call,
                 bounds, made>>

DispatchFails ==
  /\ pc = "dispatch"
  /\ pc' = "retry" /\ attempt' = attempt + 1
  /\ UNCHANGED <<clock, rows, logs, now, cur, todo, wake, until, call, bounds,
                 made, hist>>

MoreAttemptsThanThose == attempt <= MaxRetries + 1
MoreAttempts == attempt <= MaxRetries

\* The attempt is counted and logged; the next one follows a backoff.
Retry ==
  /\ pc = "retry"
  /\ UpdateStatus(cur.id, "running") /\ SaveLog(cur.id)
  /\ IF MoreAttempts THEN pc' = "dispatch" /\ UNCHANGED now
     ELSE pc' = "fail" /\ now' = clock
  /\ UNCHANGED <<clock, cur, attempt, todo, wake, until, call, bounds, made,
                 hist>>

\* Where the row of a task goes when its last attempt failed.
AfterFailureUnset == IF cur.row.kind = "recurrent" THEN AdvanceRecurrent(cur)
                     ELSE UNCHANGED rows
AfterFailure == IF cur.row.kind = "recurrent" THEN AdvanceRecurrent(cur)
                ELSE UpdateStatus(cur.id, "failed")

GiveUp ==
  /\ pc = "fail"
  /\ NextIteration
  /\ AfterFailure
  /\ UNCHANGED <<clock, logs, todo, wake, until, call, bounds, made, hist>>

LogSuccess ==
  /\ pc = "log"
  /\ pc' = "close"
  /\ SaveLog(cur.id)
  /\ UNCHANGED <<clock, rows, now, cur, attempt, todo, wake, until, call,
                 bounds, made, hist>>

Spent(left) == IF left = Forever THEN Forever ELSE left - 1

Close ==
  IF cur.row.kind = "oneshot" \/ Spent(cur.row.left) = 0
  THEN UpdateStatus(cur.id, "completed")
  ELSE UpdateAfterExecution(cur.id, NextCron(cur.row.schedule, now),
                            Spent(cur.row.left))

FinalizeTask ==
  /\ pc = "close"
  /\ NextIteration
  /\ Close
  /\ UNCHANGED <<clock, logs, todo, wake, until, call, bounds, made, hist>>

\* A repository call fails: the loop goes on, a start does not.
RepoFails ==
  /\ \/ pc \notin {"off", "asleep", "dispatch", "decide"}
     \/ pc = "decide" /\ IsDue
  /\ faults < MaxFaults
  /\ faults' = faults + 1
  /\ pc' = IF pc \in {"builtin", "reconciled", "stuck", "missed"} THEN "off"
           ELSE "look"
  /\ ForgetLocals /\ todo' = {}
  /\ UNCHANGED <<clock, rows, logs, wake, until, call, calls, stops, made,
                 hist>>

\* stop cancels the loop wherever it is, and a crash does no less.
Stop ==
  /\ pc # "off" /\ stops < MaxStops
  /\ stops' = stops + 1
  /\ pc' = "off" /\ wake' = FALSE
  /\ ForgetLocals /\ todo' = {} /\ until' = 0
  /\ UNCHANGED <<clock, rows, logs, call, calls, faults, made, hist>>

(***************************************************************************)
(* The use case.  A call reads, writes and then invalidates; old is what   *)
(* the CLI editor was opened with, snap what the call itself read.         *)
(***************************************************************************)
Call == [op: Ops \cup {"none"}, at: {"idle", "editor", "read", "saved"},
         old: Task, snap: Task]
Idle == [op |-> "none", at |-> "idle", old |-> NoTask, snap |-> NoTask]

\* create_task counts before it saves.
CountBeforeCreate(c) ==
  /\ "create" \in Ops /\ call[c] = Idle /\ calls < MaxCalls
  /\ CountActive < MaxActive
  /\ call' = [call EXCEPT ![c] = [Idle EXCEPT !.op = "create", !.at = "read"]]
  /\ calls' = calls + 1
  /\ UNCHANGED <<clock, rows, logs, service, stops, faults, made, hist>>

SaveNew(c) ==
  /\ call[c].op = "create" /\ call[c].at = "read" /\ NewId \in Ids
  /\ \E k \in Kinds, s \in Schedules, l \in Lefts :
       /\ k = "oneshot" => l = Forever
       /\ SaveTask(NewId, ResolveNextRun(
            [NoRow EXCEPT !.who = made + 1, !.kind = k, !.schedule = s,
                          !.status = "pending", !.enabled = TRUE,
                          !.left = l]))
       /\ hist' = [hist EXCEPT ![made + 1] = [ran |-> 0, armed |-> 1,
                                              want |-> l]]
  /\ made' = made + 1
  /\ call' = [call EXCEPT ![c].at = "saved"]
  /\ UNCHANGED <<clock, logs, service, bounds>>

\* delete_task and update_task refuse the task of the daemon.
Protected(op, i) == i = Builtin /\ op \notin {"enable", "disable", "run"}

\* The other operations read the task first; the editor of the CLI opens on
\* what it read, and its update reads again.
ReadTask(c, op, i) ==
  /\ op \in Ops \ {"create"} /\ call[c] = Idle /\ calls < MaxCalls
  /\ Exists(i) /\ ~Protected(op, i)
  /\ call' = [call EXCEPT ![c] =
                IF op = "edit"
                THEN [Idle EXCEPT !.op = op, !.at = "editor", !.old = Copy(i)]
                ELSE [Idle EXCEPT !.op = op, !.at = "read", !.snap = Copy(i)]]
  /\ calls' = calls + 1
  /\ UNCHANGED <<clock, rows, logs, service, stops, faults, made, hist>>

SaveEditor(c) ==
  /\ call[c].at = "editor"
  /\ LET i == call[c].old.id
     IN call' = [call EXCEPT ![c] = IF Exists(i)
                   THEN [@ EXCEPT !.at = "read", !.snap = Copy(i)] ELSE Idle]
  /\ UNCHANGED <<clock, rows, logs, service, bounds, made, hist>>

\* enable_task re-arms what failed or was missed.
Enable(i, r) ==
  IF r.status \in {"failed", "missed"}
  THEN /\ SaveTask(i, ResolveNextRun([r EXCEPT !.enabled = TRUE,
                                               !.status = "pending"]))
       /\ hist' = [hist EXCEPT ![r.who].armed = @ + 1]
  ELSE UpdateEnabled(i, TRUE) /\ UNCHANGED hist

\* update_task with a field that invalidates the runtime state: the status
\* goes back to pending if the task it read was enabled.
Invalidated(r, new) ==
  ResolveNextRun([new EXCEPT !.status = IF r.enabled THEN "pending" ELSE @])

Reschedule(i, r) ==
  /\ \E s \in Schedules :
       SaveTask(i, Invalidated(r, [r EXCEPT !.schedule = s]))
  /\ hist' = [hist EXCEPT ![r.who].armed = @ + 1]

\* update_task with a name: the whole row is saved as it was read.
Rename(i, r) == SaveTask(i, r) /\ UNCHANGED hist

\* The CLI sends every editable field as the editor showed it; the edit
\* itself changes none that the model keeps.
Edit(i, r, old) ==
  /\ SaveTask(i, Invalidated(r, [r EXCEPT !.schedule = old.schedule,
                                          !.left = old.left,
                                          !.enabled = old.enabled]))
  /\ UNCHANGED hist

WriteTask(c) ==
  /\ call[c].at = "read" /\ call[c].op \notin {"create", "run"}
  /\ LET op == call[c].op
         i == call[c].snap.id
         r == call[c].snap.row
     IN \/ op = "enable" /\ Enable(i, r)
        \/ op = "disable" /\ UpdateEnabled(i, FALSE) /\ UNCHANGED hist
        \/ op = "delete" /\ SaveTask(i, NoRow) /\ UNCHANGED hist
        \/ op = "rename" /\ Rename(i, r)
        \/ op = "reschedule" /\ Reschedule(i, r)
        \/ op = "edit" /\ Edit(i, r, call[c].old.row)
  /\ call' = [call EXCEPT ![c].at = "saved"]
  /\ UNCHANGED <<clock, logs, service, bounds, made>>

\* run_task_now: the trigger once, outside the agenda, on the copy it read;
\* whether it succeeds or not, what it leaves is a log.
RunTaskNow(c) ==
  /\ call[c].at = "read" /\ call[c].op = "run"
  /\ SaveLog(call[c].snap.id)
  /\ call' = [call EXCEPT ![c] = Idle]
  /\ UNCHANGED <<clock, rows, service, bounds, made, hist>>

\* on_mutation: the loop's event, if there is a loop.
Invalidate(c) ==
  /\ call[c].at = "saved"
  /\ call' = [call EXCEPT ![c] = Idle]
  /\ wake' = (wake \/ pc # "off")
  /\ UNCHANGED <<clock, rows, logs, pc, now, cur, attempt, todo, until,
                 bounds, made, hist>>

(***************************************************************************)
(* The specification.                                                      *)
(***************************************************************************)
Init ==
  /\ clock = 0 /\ rows = [i \in Ids |-> NoRow] /\ logs = {}
  /\ pc = "off" /\ now = 0 /\ cur = NoTask /\ attempt = 0 /\ todo = {}
  /\ wake = FALSE /\ until = 0
  /\ call = [c \in Callers |-> Idle]
  /\ calls = 0 /\ stops = 0 /\ faults = 0 /\ made = 0
  /\ hist = [w \in Names |-> [ran |-> 0, armed |-> 0, want |-> Forever]]

Service ==
  \/ ReadBuiltin \/ ReconcileBuiltin
  \/ Start \/ RecoverStuck \/ ListMissed \/ RecoverMissed \/ Recovered
  \/ GetNextDue \/ Sleep \/ WakeUp \/ MarkRunning
  \/ DispatchOk \/ DispatchFails \/ Retry \/ GiveUp
  \/ LogSuccess \/ FinalizeTask

CallStep(c) ==
  \/ CountBeforeCreate(c) \/ SaveNew(c)
  \/ \E op \in Ops, i \in Ids : ReadTask(c, op, i)
  \/ SaveEditor(c) \/ WriteTask(c) \/ RunTaskNow(c) \/ Invalidate(c)

Next == \/ Service \/ RepoFails \/ Stop \/ Tick
        \/ \E c \in Callers : CallStep(c)

Safety == Init /\ [][Next]_vars

\* The loop's coroutine and the clock run; a trigger ends; a stopped daemon
\* is started again.  Nothing is assumed of the calls.
Spec == Safety /\ WF_vars(Service) /\ WF_vars(Tick)
-----------------------------------------------------------------------------
(***************************************************************************)
(* Properties.                                                             *)
(***************************************************************************)

\* Every variable has its type.
TypeOK ==
  /\ clock \in 0 .. MaxTime /\ rows \in [Ids -> Row]
  /\ logs \subseteq Ids
  /\ pc \in {"off", "builtin", "reconciled", "stuck", "missed", "look", "decide",
             "asleep", "dispatch", "retry", "fail", "log", "close"}
  /\ now \in 0 .. MaxTime /\ until \in Nat
  /\ cur \in Task /\ todo \subseteq Task
  /\ attempt \in 0 .. MaxRetries + 1
  /\ wake \in BOOLEAN
  /\ call \in [Callers -> Call]
  /\ calls \in 0 .. MaxCalls /\ made \in 0 .. MaxCalls
  /\ stops \in 0 .. MaxStops /\ faults \in 0 .. MaxFaults
  /\ hist \in [Names -> [ran: Nat, armed: Nat, want: Int \cup {Forever}]]

Executing == {"dispatch", "retry", "fail", "log", "close"}

\* From start on and while no repository call failed, a row is running
\* only if the loop is executing it, or if start has still to recover it:
\* nothing else would ever take it out of that status.
RunningIsExecuted ==
  pc \notin {"off", "builtin", "reconciled"} /\ faults = 0 =>
    \A i \in Ids : rows[i].status = "running" =>
      \/ pc \in Executing /\ cur.id = i
      \/ pc = "stuck" /\ \E t \in todo : t.id = i

\* A oneshot's trigger succeeds once for each time a user armed it (created
\* it, rescheduled it, or enabled it after a failure), crashes included.
OneshotRunsOnce ==
  \A i \in Ids : Exists(i) /\ rows[i].kind = "oneshot" =>
    hist[rows[i].who].ran <= hist[rows[i].who].armed

\* A recurrent with executions_remaining N runs N times; only an execution
\* that a stop or a failing repository cut may be run again.
CountdownHolds ==
  \A i \in Ids : Exists(i) /\ hist[rows[i].who].want # Forever =>
    hist[rows[i].who].ran <= hist[rows[i].who].want + stops + faults

\* A task runs as often as it was asked to, and is running while it runs.
RunsAsAsked == RunningIsExecuted /\ OneshotRunsOnce /\ CountdownHolds

\* A recurrent waits for a slot of its own cron: next_run and schedule agree.
NextRunIsASlot ==
  \A i \in Ids : Exists(i) /\ rows[i].kind = "recurrent" =>
    rows[i].next % rows[i].schedule = 0

\* No failure or absence of the daemon kills a recurrence.
RecurrenceSurvives ==
  \A i \in Ids : Exists(i) /\ rows[i].kind = "recurrent" =>
    /\ rows[i].status \notin {"failed", "missed"}
    /\ rows[i].left = Forever => rows[i].status # "completed"

\* A finished execution settles the row of the task it ran, not the row of
\* another task that was given the same id meanwhile.
\* Promised, and not kept by the code: README, section 5.
NoInheritance ==
  pc \in Executing => rows[cur.id].who \in {0, cur.row.who}

\* The loop does not sleep past a candidate: one that is due before the end
\* of its sleep was announced, or will be by the call that saved it.
\* Promised, and not kept by the code: README, section 5.
SleepsInformed ==
  pc = "asleep" /\ ~wake /\ (\A c \in Callers : call[c].at # "saved") =>
    \A i \in Candidates : rows[i].next >= until

\* Whatever is due, enabled and pending is attended: run, marked as missed or
\* moved to its next slot, unless a user disables, deletes or moves it.
Due(i) == i \in Candidates /\ rows[i].next <= clock
DueIsAttended == \A i \in Ids : Due(i) ~> ~Due(i)
=============================================================================
