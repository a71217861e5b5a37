--------------------------- MODULE SchedulerProofs ---------------------------
(***************************************************************************)
(* Proofs about SchedulerService, in four layers, each an inductive        *)
(* invariant relative to those before it:                                  *)
(*   Typed    the types, and that whoever acts on a copy of a row knows    *)
(*            the id it is of;                                             *)
(*   Traced   a copy is of the task that has the row now (NoDeletions);    *)
(*   OnSlots  and of the schedule that the row has (NoReschedules);        *)
(*   Accounts what a task has run, may still run and was asked to run      *)
(*            add up (OnlySwitches).                                       *)
(* The three hypotheses are about the calls of the use case in progress.   *)
(* Each is needed: the loop and the calls decide on copies, and a deletion,*)
(* a reschedule or the save of a whole row under a copy breaks what the    *)
(* next layer says (README, section 4).                                    *)
(***************************************************************************)
EXTENDS SchedulerService, FiniteSetTheorems, WellFoundedInduction, TLAPS

(***************************************************************************)
(* Types                                                                   *)
(***************************************************************************)
\* The calls that counted and have not created yet: each is one of those made.
Creators == {c \in Callers : call[c].op = "create" /\ call[c].at = "read"}
Counted == IsFiniteSet(Creators) /\ made + Cardinality(Creators) <= calls

\* The copies of rows that somebody holds.
Held == {cur} \cup todo \cup {call[c].snap : c \in Callers} \cup {call[c].old : c \in Callers}
Fresh == {Copy(i) : i \in Ids}

\* Who a row can be of.
Named(i, r) == r.who \in 0 .. made \/ (r.who = BuiltinName /\ i = Builtin)
AllNamed == /\ \A i \in Ids : Named(i, rows[i])
            /\ \A t \in Held : Named(t.id, t.row)

\* Whoever acts on a copy knows the id it is of.
Wired ==
  /\ cur = NoTask \/ cur.id \in Ids
  /\ pc \in Executing => cur.id \in Ids
  /\ pc = "builtin" => cur.id = Builtin /\ Builtin # 0
  /\ \A t \in todo : t.id \in Ids
  /\ \A c \in Callers : /\ call[c].at = "editor" => call[c].op = "edit" /\ call[c].old.id \in Ids
                        /\ call[c].at = "read" /\ call[c].op # "create" => call[c].snap.id \in Ids
  /\ pc = "dispatch" => attempt <= MaxRetries

Typed == TypeOK /\ Counted /\ AllNamed /\ Wired

LEMMA IdsAre ==
  ASSUME SchedulerAssumption
  PROVE  /\ Cardinality(Ids) \in Nat /\ Ids = 1 .. Cardinality(Ids) /\ 1 \in Ids
         /\ Ids \subseteq Nat \ {0}
         /\ Builtin # 0 => Builtin \in Ids
BY FS_CardinalityType DEF SchedulerAssumption

LEMMA SlotIs ==
  ASSUME NEW p \in Nat \ {0}, NEW a \in Nat
  PROVE  NextCron(p, a) \in Nat /\ NextCron(p, a) % p = 0
<1>1. a \div p \in Nat
  OBVIOUS
<1> DEFINE k == (a \div p) + 1
<1>2. k \in Nat
  BY <1>1
<1> HIDE DEF k
<1>3. k * p \in Nat /\ (k * p) % p = 0
  BY <1>2
<1> QED BY <1>3 DEF k, NextCron

LEMMA RowTypes ==
  ASSUME SchedulerAssumption
  PROVE  /\ NoRow \in Row /\ NoTask \in Task
         /\ \A i \in Ids : rows \in [Ids -> Row] => Copy(i) \in Task /\ rows[i] \in Row
         /\ \A S \in SUBSET Ids : rows \in [Ids -> Row] => Copies(S) \subseteq Task
         /\ Idle.snap = NoTask /\ Idle.old = NoTask
         /\ Idle \in Call
<1>1. NoRow \in Row
  <2>1. (CHOOSE s \in Schedules : TRUE) \in Schedules
    BY DEF SchedulerAssumption
  <2>2. 0 \in 0 .. BuiltinName
    BY DEF BuiltinName, SchedulerAssumption
  <2> QED BY <2>1, <2>2 DEF NoRow, Row, Kinds, Status
<1>2. NoTask \in Task
  BY <1>1 DEF NoTask, Task
<1> HIDE DEF NoRow, Row
<1> QED BY <1>1, <1>2 DEF Copy, Copies, Task, Idle, Call

LEMMA ResolvedIs ==
  ASSUME SchedulerAssumption, clock \in Nat, NEW r \in Row
  PROVE  /\ ResolveNextRun(r) \in Row
         /\ \A f \in {"who", "kind", "schedule", "status", "enabled", "left"} : ResolveNextRun(r)[f] = r[f]
         /\ r.kind = "recurrent" => ResolveNextRun(r).next % r.schedule = 0
<1>1. r.schedule \in Nat \ {0}
  BY DEF Row, SchedulerAssumption
<1>2. NextCron(r.schedule, clock) \in Nat /\ NextCron(r.schedule, clock) % r.schedule = 0
  BY <1>1, SlotIs
<1> DEFINE n == NextCron(r.schedule, clock)
<1>3. ResolveNextRun(r) = [r EXCEPT !.next = IF r.kind = "oneshot" THEN r.schedule ELSE n]
  BY DEF ResolveNextRun
<1> HIDE DEF n
<1>4. n \in Nat /\ n % r.schedule = 0
  BY <1>2 DEF n
<1> QED BY <1>1, <1>3, <1>4 DEF Row, Kinds

(***************************************************************************)
(* What each step writes                                                   *)
(***************************************************************************)
Wrote(i, r) == rows' \in [Ids -> Row] /\ rows'[i] = r /\ \A j \in Ids \ {i} : rows'[j] = rows[j]
Marked(i, s) == IF Exists(i) THEN [rows[i] EXCEPT !.status = s] ELSE rows[i]
Switched(i, b) == IF Exists(i) THEN [rows[i] EXCEPT !.enabled = b] ELSE rows[i]
Moved(t, l) == IF Exists(t.id)
               THEN [rows[t.id] EXCEPT !.status = "pending", !.left = l,
                                       !.next = NextCron(t.row.schedule, now)]
               ELSE rows[t.id]

LEMMA StatementIs ==
  ASSUME rows \in [Ids -> Row], NEW i \in Ids
  PROVE  /\ \A s \in Status : UpdateStatus(i, s) => Wrote(i, Marked(i, s))
         /\ \A b \in BOOLEAN : UpdateEnabled(i, b) => Wrote(i, Switched(i, b))
         /\ \A r \in Row : SaveTask(i, r) => Wrote(i, r)
<1>1. ASSUME NEW s \in Status, UpdateStatus(i, s) PROVE Wrote(i, Marked(i, s))
  BY <1>1 DEF UpdateStatus, Row, Wrote, Marked
<1>2. ASSUME NEW b \in BOOLEAN, UpdateEnabled(i, b) PROVE Wrote(i, Switched(i, b))
  BY <1>2 DEF UpdateEnabled, Row, Wrote, Switched
<1>3. ASSUME NEW r \in Row, SaveTask(i, r) PROVE Wrote(i, r)
  BY <1>3 DEF SaveTask, Wrote
<1> QED BY <1>1, <1>2, <1>3

\* The row of a recurrent goes to a slot after now.
LEMMA MovedIs ==
  ASSUME SchedulerAssumption, rows \in [Ids -> Row], now \in Nat, NEW t \in Task, t.id \in Ids,
         NEW l \in Int \cup {Forever}
  PROVE  /\ NextCron(t.row.schedule, now) \in Nat
         /\ NextCron(t.row.schedule, now) % t.row.schedule = 0
         /\ UpdateAfterExecution(t.id, NextCron(t.row.schedule, now), l) => Wrote(t.id, Moved(t, l))
<1> DEFINE n == NextCron(t.row.schedule, now)
           i == t.id
           new == [rows[i] EXCEPT !.status = "pending", !.next = n, !.left = l]
<1>1. t.row.schedule \in Nat \ {0}
  BY DEF Task, Row, SchedulerAssumption
<1>2. n \in Nat /\ n % t.row.schedule = 0
  BY <1>1, SlotIs
<1>3. new \in Row /\ new = [rows[i] EXCEPT !.status = "pending", !.left = l, !.next = n]
  <2> HIDE DEF n
  <2>1. rows[i] \in Row /\ n \in Nat
    BY <1>2
  <2>2. new \in Row
    BY <2>1 DEF Row, Status
  <2>3. new = [rows[i] EXCEPT !.status = "pending", !.left = l, !.next = n]
    BY <2>1 DEF Row
  <2> QED BY <2>2, <2>3
<1>4. ASSUME UpdateAfterExecution(i, n, l) PROVE Wrote(i, Moved(t, l))
  <2>1. CASE Exists(i)
    <3>1. rows' = [rows EXCEPT ![i] = new]
      BY <1>4, <2>1 DEF UpdateAfterExecution
    <3> HIDE DEF new
    <3>2. Wrote(i, new)
      BY <1>3, <3>1 DEF Wrote
    <3> QED BY <1>3, <2>1, <3>2 DEF Moved
  <2>2. CASE ~Exists(i)
    BY <1>4, <2>2 DEF UpdateAfterExecution, Wrote, Moved
  <2> QED BY <2>1, <2>2
<1> QED BY <1>2, <1>4

\* A copy is settled: what a start, a failure and an execution write of it.
LEMMA SettlingIs ==
  ASSUME SchedulerAssumption, rows \in [Ids -> Row], now \in Nat, NEW t \in Task, t.id \in Ids
  PROVE  /\ \A s \in Status : Settle(t, s) =>
              Wrote(t.id, IF t.row.kind = "oneshot" THEN Marked(t.id, s) ELSE Moved(t, t.row.left))
         /\ t = cur /\ AfterFailure =>
              Wrote(cur.id, IF cur.row.kind = "oneshot" THEN Marked(cur.id, "failed")
                            ELSE Moved(cur, cur.row.left))
         /\ t = cur /\ Close =>
              Wrote(cur.id, IF cur.row.kind = "oneshot" \/ Spent(cur.row.left) = 0
                            THEN Marked(cur.id, "completed") ELSE Moved(cur, Spent(cur.row.left)))
<1>1. t.row.left \in Int \cup {Forever} /\ t.row.kind \in {"oneshot", "recurrent"}
  BY DEF Task, Row, Kinds
<1>2. Spent(t.row.left) \in Int \cup {Forever}
  BY <1>1 DEF Spent
<1>3. "failed" \in Status /\ "completed" \in Status
  BY DEF Status
<1>4. AdvanceRecurrent(t) => Wrote(t.id, Moved(t, t.row.left))
  BY <1>1, MovedIs DEF AdvanceRecurrent
<1> QED BY <1>1, <1>2, <1>3, <1>4, StatementIs, MovedIs DEF Settle, AfterFailure, Close

LEMMA LeastOfTwo ==
  ASSUME NEW a \in Nat, NEW b \in Nat
  PROVE  Least({a, b}) \in {a, b} /\ Least({a, b}) <= a /\ Least({a, b}) <= b
<1>1. \E x \in {a, b} : \A y \in {a, b} : x <= y
  <2>1. CASE a <= b
    BY <2>1
  <2>2. CASE b <= a
    BY <2>2
  <2> QED BY <2>1, <2>2
<1> QED BY <1>1 DEF Least

(***************************************************************************)
(* The copies: a step keeps those there are, drops some, or reads a row.   *)
(***************************************************************************)
LEMMA ServiceHolds ==
  ASSUME call' = call, cur' \in {cur, NoTask} \cup Fresh, todo' \subseteq todo \cup Fresh
  PROVE  Held' \subseteq Held \cup {NoTask} \cup Fresh
BY DEF Held

LEMMA CallHolds ==
  ASSUME SchedulerAssumption, TypeOK, UNCHANGED <<cur, todo>>, NEW c \in Callers, NEW k,
         call' = [call EXCEPT ![c] = k],
         {k.snap, k.old} \subseteq {call[c].snap, call[c].old, NoTask} \cup Fresh
  PROVE  Held' \subseteq Held \cup {NoTask} \cup Fresh
<1>1. \A d \in Callers : call'[d] = IF d = c THEN k ELSE call[d]
  BY DEF TypeOK
<1> QED BY <1>1 DEF Held

LEMMA LoopHolds ==
  ASSUME SchedulerAssumption, [Next]_vars
  PROVE  cur' \in {cur, NoTask} \cup Fresh /\ todo' \subseteq todo \cup Fresh
<1>1. CASE Service \/ RepoFails \/ Stop \/ Tick \/ UNCHANGED vars
  <2>2. cur' \in {cur, NoTask} \cup Fresh
    <3>1. CASE ReadBuiltin
      BY <3>1, IdsAre DEF ReadBuiltin, Fresh
    <3>2. CASE GetNextDue
      BY <3>2 DEF GetNextDue, Candidates, Copies, Copy, Fresh
    <3>3. CASE ~ReadBuiltin /\ ~GetNextDue
      BY <1>1, <3>3 DEF Service, RepoFails, Stop, Tick, vars, service, ReconcileBuiltin, Start,
         RecoverStuck, RecoverOne, ListMissed, RecoverMissed, Recovered, Sleep, WakeUp, MarkRunning,
         DispatchOk, DispatchFails, Retry, GiveUp, LogSuccess, FinalizeTask, NextIteration, ForgetLocals
    <3> QED BY <3>1, <3>2, <3>3
  <2>3. todo' \subseteq todo \cup Fresh
    <3>1. CASE Start \/ ListMissed
      BY <3>1 DEF Start, ListMissed, Candidates, Copies, Copy, Fresh
    <3>2. CASE ~Start /\ ~ListMissed
      BY <1>1, <3>2 DEF Service, RepoFails, Stop, Tick, vars, service, ReadBuiltin, ReconcileBuiltin,
         RecoverStuck, RecoverOne, RecoverMissed, Recovered, GetNextDue, Sleep, WakeUp,
         MarkRunning, DispatchOk, DispatchFails, Retry, GiveUp, LogSuccess, FinalizeTask
    <3> QED BY <3>1, <3>2
  <2> QED BY <2>2, <2>3
<1>2. ASSUME NEW c \in Callers, CallStep(c) PROVE UNCHANGED <<cur, todo>>
  BY <1>2 DEF CallStep, CountBeforeCreate, SaveNew, ReadTask, SaveEditor, WriteTask, RunTaskNow,
     Invalidate, service
<1> QED BY <1>1, <1>2 DEF Next

LEMMA HeldIs ==
  ASSUME SchedulerAssumption, TypeOK, Wired, [Next]_vars
  PROVE  Held' \subseteq Held \cup {NoTask} \cup Fresh
<1>1. CASE Service \/ RepoFails \/ Stop \/ Tick \/ UNCHANGED vars
  <2>1. call' = call
    BY <1>1 DEF Service, RepoFails, Stop, Tick, vars, ReadBuiltin, ReconcileBuiltin, Start, RecoverStuck,
       RecoverOne, ListMissed, RecoverMissed, Recovered, GetNextDue, Sleep, WakeUp, MarkRunning, DispatchOk,
       DispatchFails, Retry, GiveUp, LogSuccess, FinalizeTask
  <2> QED BY <2>1, LoopHolds, ServiceHolds
<1>2. ASSUME NEW c \in Callers, CallStep(c)
      PROVE  Held' \subseteq Held \cup {NoTask} \cup Fresh
  <2>1. UNCHANGED <<cur, todo>>
    BY <1>2 DEF CallStep, CountBeforeCreate, SaveNew, ReadTask, SaveEditor, WriteTask, RunTaskNow,
       Invalidate, service
  <2>2. Idle.snap = NoTask /\ Idle.old = NoTask /\ call[c] \in Call
    BY RowTypes DEF TypeOK
  <2>3. \E k : /\ call' = [call EXCEPT ![c] = k]
               /\ {k.snap, k.old} \subseteq {call[c].snap, call[c].old, NoTask} \cup Fresh
    <3>1. CASE CountBeforeCreate(c) \/ RunTaskNow(c) \/ Invalidate(c)
      BY <2>2, <3>1 DEF CountBeforeCreate, RunTaskNow, Invalidate, Idle
    <3>2. CASE SaveNew(c) \/ WriteTask(c)
      <4> DEFINE k == [call[c] EXCEPT !.at = "saved"]
      <4>1. call' = [call EXCEPT ![c] = k]
        BY <3>2 DEF SaveNew, WriteTask
      <4>2. k.snap = call[c].snap /\ k.old = call[c].old
        BY <2>2 DEF Call
      <4> QED BY <4>1, <4>2
    <3>3. ASSUME NEW op \in Ops, NEW i \in Ids, ReadTask(c, op, i)
          PROVE  \E k : /\ call' = [call EXCEPT ![c] = k]
                        /\ {k.snap, k.old} \subseteq {call[c].snap, call[c].old, NoTask} \cup Fresh
      <4> DEFINE e == [Idle EXCEPT !.op = op, !.at = "editor", !.old = Copy(i)]
                 r == [Idle EXCEPT !.op = op, !.at = "read", !.snap = Copy(i)]
      <4>1. call' = [call EXCEPT ![c] = e] \/ call' = [call EXCEPT ![c] = r]
        BY <3>3 DEF ReadTask
      <4>2. e.snap = NoTask /\ e.old = Copy(i) /\ r.snap = Copy(i) /\ r.old = NoTask
        BY DEF Idle
      <4>3. Copy(i) \in Fresh
        BY DEF Fresh
      <4> HIDE DEF e, r
      <4> QED BY <4>1, <4>2, <4>3
    <3>4. CASE SaveEditor(c)
      <4> DEFINE i == call[c].old.id
                 r == [call[c] EXCEPT !.at = "read", !.snap = Copy(i)]
      <4>1. (Exists(i) /\ call' = [call EXCEPT ![c] = r]) \/ call' = [call EXCEPT ![c] = Idle]
        BY <3>4 DEF SaveEditor
      <4>2. r.snap = Copy(i) /\ r.old = call[c].old
        BY <2>2 DEF Call
      <4>3. Copy(i) \in Fresh
        BY <3>4 DEF SaveEditor, Wired, Fresh
      <4> HIDE DEF r
      <4> QED BY <2>2, <4>1, <4>2, <4>3
    <3> QED BY <1>2, <3>1, <3>2, <3>3, <3>4 DEF CallStep
  <2> QED BY <2>1, <2>3, CallHolds
<1> QED BY <1>1, <1>2 DEF Next

-----------------------------------------------------------------------------
(***************************************************************************)
(* Every step, by what it writes                                           *)
(***************************************************************************)
LEMMA HeldTypes ==
  ASSUME Typed
  PROVE  /\ \A t \in Held : t \in Task /\ Named(t.id, t.row)
         /\ \A i \in Ids : rows[i] \in Row /\ Named(i, rows[i])
BY DEF Typed, TypeOK, AllNamed, Held, Call

LEMMA RecoverIs ==
  ASSUME SchedulerAssumption, Typed, NEW t \in todo, NEW s \in {"failed", "missed"}, RecoverOne(t, s)
  PROVE  /\ t \in Task /\ t.id \in Ids
         /\ Wrote(t.id, IF t.row.kind = "oneshot" THEN Marked(t.id, s) ELSE Moved(t, t.row.left))
<1>1. t \in Task /\ t.id \in Ids /\ now \in Nat /\ rows \in [Ids -> Row] /\ s \in Status
  BY DEF Typed, TypeOK, Wired, Status
<1>2. Settle(t, s)
  BY DEF RecoverOne
<1> QED BY <1>1, <1>2, SettlingIs

LEMMA ExecutionIs ==
  ASSUME SchedulerAssumption, Typed, cur.id \in Ids
  PROVE  /\ MarkRunning => Wrote(cur.id, Marked(cur.id, "running"))
         /\ Retry => Wrote(cur.id, Marked(cur.id, "running"))
         /\ GiveUp => Wrote(cur.id, IF cur.row.kind = "oneshot" THEN Marked(cur.id, "failed")
                                    ELSE Moved(cur, cur.row.left))
         /\ FinalizeTask =>
              Wrote(cur.id, IF cur.row.kind = "oneshot" \/ Spent(cur.row.left) = 0
                            THEN Marked(cur.id, "completed") ELSE Moved(cur, Spent(cur.row.left)))
<1>1. cur \in Task /\ now \in Nat /\ rows \in [Ids -> Row] /\ "running" \in Status
  BY DEF Typed, TypeOK, Status
<1>2. MarkRunning \/ Retry => UpdateStatus(cur.id, "running")
  BY DEF MarkRunning, Retry
<1>3. (GiveUp => AfterFailure) /\ (FinalizeTask => Close)
  BY DEF GiveUp, FinalizeTask
<1> QED BY <1>1, <1>2, <1>3, StatementIs, SettlingIs

\* The daemon's own task is recurrent and endless.
LEMMA MendedIs ==
  ASSUME SchedulerAssumption, clock \in Nat, NEW s \in Schedules, NEW r \in Row
  PROVE  /\ Mended(r, s) \in Row
         /\ \A f \in {"who", "kind", "left", "enabled"} : Mended(r, s)[f] = r[f]
         /\ Mended(r, s).status \in {r.status, "pending"} /\ Mended(r, s).schedule = s
         /\ Mended(r, s).status # "failed"
         /\ r.next % r.schedule = 0 => Mended(r, s).next % s = 0
         /\ ResolveNextRun(BuiltinTask(s)) \in Row
         /\ ResolveNextRun(BuiltinTask(s)).who = BuiltinName
         /\ ResolveNextRun(BuiltinTask(s)).kind = "recurrent"
         /\ ResolveNextRun(BuiltinTask(s)).left = Forever
         /\ ResolveNextRun(BuiltinTask(s)).status = "pending"
         /\ ResolveNextRun(BuiltinTask(s)).schedule = s
         /\ ResolveNextRun(BuiltinTask(s)).next % s = 0
<1>1. s \in Nat \ {0} /\ NextCron(s, clock) \in Nat /\ NextCron(s, clock) % s = 0
  BY SlotIs DEF SchedulerAssumption
<1> DEFINE n == NextCron(s, clock)
<1>2. /\ Mended(r, s) \in Row
      /\ \A f \in {"who", "kind", "left", "enabled"} : Mended(r, s)[f] = r[f]
      /\ Mended(r, s).status \in {r.status, "pending"} /\ Mended(r, s).schedule = s
      /\ Mended(r, s).status # "failed"
      /\ r.next % r.schedule = 0 => Mended(r, s).next % s = 0
  <2> DEFINE moved == s # r.schedule \/ (r.status = "failed" /\ r.next <= clock)
             next == IF moved THEN n ELSE r.next
             status == IF r.status = "failed" THEN "pending" ELSE r.status
  <2>1. Mended(r, s) = [r EXCEPT !.schedule = s, !.status = status, !.next = next]
    BY DEF Mended, Row
  <2>2. next \in Nat /\ (r.next % r.schedule = 0 => next % s = 0)
    <3> HIDE DEF n
    <3>1. n \in Nat /\ n % s = 0
      BY <1>1 DEF n
    <3> QED BY <3>1 DEF Row
  <2>3. status \in Status /\ status \in {r.status, "pending"} /\ status # "failed"
    BY DEF Row, Status
  <2> HIDE DEF next, status
  <2>4. /\ Mended(r, s).schedule = s /\ Mended(r, s).status = status /\ Mended(r, s).next = next
        /\ \A f \in {"who", "kind", "left", "enabled"} : Mended(r, s)[f] = r[f]
    BY <2>1 DEF Row
  <2>5. Mended(r, s) \in Row
    BY <2>1, <2>2, <2>3 DEF Row
  <2> QED BY <2>2, <2>3, <2>4, <2>5
<1>3. /\ BuiltinTask(s) \in Row /\ BuiltinTask(s).who = BuiltinName
      /\ BuiltinTask(s).kind = "recurrent" /\ BuiltinTask(s).left = Forever
      /\ BuiltinTask(s).status = "pending" /\ BuiltinTask(s).schedule = s
  <2>1. BuiltinName \in 0 .. BuiltinName
    BY DEF BuiltinName, SchedulerAssumption
  <2> QED BY <2>1, RowTypes DEF BuiltinTask, NoRow, Row, Kinds, Status
<1> QED BY <1>2, <1>3, ResolvedIs

LEMMA ReconcileIs ==
  ASSUME SchedulerAssumption, Typed, ReconcileBuiltin
  PROVE  /\ Builtin \in Ids /\ cur.id = Builtin /\ cur.row \in Row /\ clock \in Nat
         /\ \/ rows' = rows
            \/ \E s \in Schedules : \/ /\ cur.row = NoRow
                                       /\ Wrote(Builtin, ResolveNextRun(BuiltinTask(s)))
                                    \/ cur.row # NoRow /\ Wrote(Builtin, Mended(cur.row, s))
<1>1. /\ Builtin \in Ids /\ cur.id = Builtin /\ cur.row \in Row /\ clock \in Nat
      /\ rows \in [Ids -> Row]
  BY IdsAre DEF Typed, TypeOK, Wired, ReconcileBuiltin, Task
<1>2. PICK s \in Schedules :
        IF cur.row = NoRow THEN SeedBuiltin(s)
        ELSE IF Mended(cur.row, s) # cur.row THEN SaveTask(Builtin, Mended(cur.row, s))
             ELSE UNCHANGED rows
  BY DEF ReconcileBuiltin
<1>3. Mended(cur.row, s) \in Row /\ ResolveNextRun(BuiltinTask(s)) \in Row
  BY <1>1, MendedIs
<1> QED BY <1>1, <1>2, <1>3, StatementIs DEF SeedBuiltin

LEMMA GreatestIs ==
  ASSUME NEW n \in Nat, NEW S \in SUBSET (0 .. n), S # {}
  PROVE  Greatest(S) \in S /\ \A x \in S : x <= Greatest(S)
<1> DEFINE T == {n - x : x \in S}
<1>1. T \subseteq Nat /\ T # {}
  OBVIOUS
<1>2. PICK y \in T : \A z \in T : ~ (<<z, y>> \in OpToRel(<, Nat))
  BY <1>1, NatLessThanWellFounded, WFMin
<1>3. PICK g \in S : y = n - g
  BY <1>2
<1>4. \A x \in S : n - x \in T
  OBVIOUS
<1>5. \A x \in S : x <= g
  <2> TAKE x \in S
  <2>1. ~ (n - x < n - g)
    <3>1. \A z \in T : ~ (z < y)
      BY <1>1, <1>2 DEF OpToRel
    <3> QED BY <1>3, <1>4, <3>1
  <2>2. x \in Int /\ g \in Int
    OBVIOUS
  <2> HIDE DEF T
  <2> QED BY <2>1, <2>2
<1>6. \E m \in S : \A x \in S : m >= x
  BY <1>5
<1> QED BY <1>6 DEF Greatest

LEMMA NewIdIs ==
  ASSUME SchedulerAssumption, Typed
  PROVE  NewId \notin {Builtin} \cup {i \in Ids : Exists(i)}
<1> DEFINE S == {Builtin} \cup {i \in Ids : Exists(i)} \cup logs
<1>1. Cardinality(Ids) \in Nat /\ S \in SUBSET (0 .. Cardinality(Ids)) /\ S # {}
  <2>1. logs \subseteq Ids
    BY DEF Typed, TypeOK
  <2>2. Builtin \in {0, 1}
    BY DEF SchedulerAssumption
  <2> QED BY <2>1, <2>2, IdsAre
<1>2. Greatest(S) \in S /\ \A x \in S : x <= Greatest(S)
  BY <1>1, GreatestIs
<1>3. NewId = Greatest(S) + 1
  BY DEF NewId
<1>4. \A x \in S : x \in Int
  BY <1>1
<1> HIDE DEF S
<1>5. NewId \notin S
  BY <1>2, <1>3, <1>4
<1> QED BY <1>5 DEF S

LEMMA CreatorsIs ==
  ASSUME SchedulerAssumption, Typed, NEW c \in Creators
  PROVE  made + 1 \in 1 .. MaxCalls /\ IsFiniteSet(Creators \ {c})
         /\ made + 1 + Cardinality(Creators \ {c}) <= calls
<1>1. IsFiniteSet(Creators) /\ made + Cardinality(Creators) <= calls
  BY DEF Typed, Counted
<1>2. /\ IsFiniteSet(Creators \ {c}) /\ Cardinality(Creators \ {c}) = Cardinality(Creators) - 1
      /\ Cardinality(Creators) \in Nat /\ Cardinality(Creators \ {c}) \in Nat
  BY <1>1, FS_RemoveElement, FS_CardinalityType
<1>3. made \in Nat /\ calls \in 0 .. MaxCalls /\ MaxCalls \in Nat
  BY DEF Typed, TypeOK, SchedulerAssumption
<1> QED BY <1>1, <1>2, <1>3

LEMMA SaveNewIs ==
  ASSUME SchedulerAssumption, Typed, NEW c \in Callers, SaveNew(c)
  PROVE  /\ c \in Creators /\ NewId \in Ids /\ ~Exists(NewId) /\ NewId # Builtin
         /\ made' = made + 1 /\ made + 1 \in 1 .. MaxCalls
         /\ \E r \in Row : /\ Wrote(NewId, r) /\ r.who = made + 1 /\ r.status = "pending"
                           /\ r.left \in Lefts /\ (r.kind = "oneshot" => r.left = Forever)
                           /\ r.kind = "recurrent" => r.next % r.schedule = 0
                           /\ hist' = [hist EXCEPT ![made + 1] = [ran |-> 0, armed |-> 1, want |-> r.left]]
<1>1. PICK k \in Kinds, s \in Schedules, l \in Lefts :
        /\ k = "oneshot" => l = Forever
        /\ SaveTask(NewId, ResolveNextRun(
            [NoRow EXCEPT !.who = made + 1, !.kind = k, !.schedule = s,
                          !.status = "pending", !.enabled = TRUE,
                          !.left = l]))
        /\ hist' = [hist EXCEPT ![made + 1] = [ran |-> 0, armed |-> 1, want |-> l]]
  BY DEF SaveNew
<1> DEFINE new == [NoRow EXCEPT !.who = made + 1, !.kind = k, !.schedule = s, !.status = "pending",
                                !.enabled = TRUE, !.left = l]
           r == ResolveNextRun(new)
<1>2. NewId \in Ids /\ made' = made + 1 /\ c \in Creators /\ rows \in [Ids -> Row] /\ clock \in Nat
  BY DEF SaveNew, Creators, Typed, TypeOK
<1>3. made + 1 \in 1 .. MaxCalls /\ made + 1 \in 0 .. BuiltinName
  <2>1. made + 1 \in 1 .. MaxCalls
    BY <1>2, CreatorsIs
  <2>2. MaxCalls \in Nat
    BY DEF SchedulerAssumption
  <2> QED BY <2>1, <2>2 DEF BuiltinName
<1>4. /\ new \in Row /\ new.who = made + 1 /\ new.kind = k /\ new.schedule = s /\ new.left = l
      /\ new.status = "pending"
  <2>1. l \in Int \cup {Forever}
    BY DEF SchedulerAssumption
  <2> QED BY <1>3, <2>1, RowTypes DEF NoRow, Row, Status
<1>5. SaveTask(NewId, r)
  BY <1>1
<1> HIDE DEF new
<1>6. /\ r \in Row /\ r.who = made + 1 /\ r.kind = k /\ r.left = l /\ r.status = "pending"
      /\ r.kind = "recurrent" => r.next % r.schedule = 0
  BY <1>2, <1>4, ResolvedIs
<1> HIDE DEF r
<1>7. Wrote(NewId, r)
  BY <1>2, <1>5, <1>6, StatementIs
<1> QED BY <1>1, <1>2, <1>3, <1>6, <1>7, NewIdIs

\* What the operations of the use case make of the row they read.
Armed(r) == ResolveNextRun([r EXCEPT !.enabled = TRUE, !.status = "pending"])
Scheduled(r, s) == Invalidated(r, [r EXCEPT !.schedule = s])
Edited(r, old) == Invalidated(r, [r EXCEPT !.schedule = old.schedule, !.left = old.left,
                                           !.enabled = old.enabled])

LEMMA EditsAre ==
  ASSUME SchedulerAssumption, clock \in Nat, NEW r \in Row
  PROVE  /\ Armed(r) \in Row /\ Armed(r).status = "pending"
         /\ \A f \in {"who", "kind", "schedule", "left"} : Armed(r)[f] = r[f]
         /\ Armed(r).kind = "recurrent" => Armed(r).next % Armed(r).schedule = 0
         /\ \A s \in Schedules :
              /\ Scheduled(r, s) \in Row /\ Scheduled(r, s).status \in {r.status, "pending"}
              /\ \A f \in {"who", "kind", "left"} : Scheduled(r, s)[f] = r[f]
              /\ Scheduled(r, s).kind = "recurrent" => Scheduled(r, s).next % Scheduled(r, s).schedule = 0
         /\ \A old \in Row :
              /\ Edited(r, old) \in Row /\ Edited(r, old).status \in {r.status, "pending"}
              /\ \A f \in {"who", "kind"} : Edited(r, old)[f] = r[f]
              /\ \A f \in {"schedule", "left"} : Edited(r, old)[f] = old[f]
              /\ Edited(r, old).kind = "recurrent" => Edited(r, old).next % Edited(r, old).schedule = 0
<1>1. /\ Armed(r) \in Row /\ Armed(r).status = "pending"
      /\ \A f \in {"who", "kind", "schedule", "left"} : Armed(r)[f] = r[f]
      /\ Armed(r).kind = "recurrent" => Armed(r).next % Armed(r).schedule = 0
  <2> DEFINE n == [r EXCEPT !.enabled = TRUE, !.status = "pending"]
  <2>1. /\ n \in Row /\ n.status = "pending"
        /\ \A f \in {"who", "kind", "schedule", "left"} : n[f] = r[f]
    BY DEF Row, Status
  <2> HIDE DEF n
  <2>2. Armed(r) = ResolveNextRun(n)
    BY DEF Armed, n
  <2> QED BY <2>1, <2>2, ResolvedIs
<1>2. ASSUME NEW s \in Schedules
      PROVE  /\ Scheduled(r, s) \in Row /\ Scheduled(r, s).status \in {r.status, "pending"}
             /\ \A f \in {"who", "kind", "left"} : Scheduled(r, s)[f] = r[f]
             /\ Scheduled(r, s).kind = "recurrent"
                  => Scheduled(r, s).next % Scheduled(r, s).schedule = 0
  <2> DEFINE n == [[r EXCEPT !.schedule = s] EXCEPT !.status = IF r.enabled THEN "pending" ELSE @]
  <2>1. /\ n \in Row /\ n.status \in {r.status, "pending"}
        /\ \A f \in {"who", "kind", "left"} : n[f] = r[f]
    BY DEF Row, Status
  <2> HIDE DEF n
  <2>2. Scheduled(r, s) = ResolveNextRun(n)
    BY DEF Scheduled, Invalidated, n
  <2> QED BY <2>1, <2>2, ResolvedIs
<1>3. ASSUME NEW old \in Row
      PROVE  /\ Edited(r, old) \in Row /\ Edited(r, old).status \in {r.status, "pending"}
             /\ \A f \in {"who", "kind"} : Edited(r, old)[f] = r[f]
             /\ \A f \in {"schedule", "left"} : Edited(r, old)[f] = old[f]
             /\ Edited(r, old).kind = "recurrent" => Edited(r, old).next % Edited(r, old).schedule = 0
  <2> DEFINE m == [r EXCEPT !.schedule = old.schedule, !.left = old.left, !.enabled = old.enabled]
             n == [m EXCEPT !.status = IF r.enabled THEN "pending" ELSE @]
  <2>1. /\ m \in Row /\ m.status = r.status
        /\ \A f \in {"who", "kind"} : m[f] = r[f]
        /\ \A f \in {"schedule", "left"} : m[f] = old[f]
    BY DEF Row
  <2>2. Edited(r, old) = ResolveNextRun(n)
    BY DEF Edited, Invalidated
  <2> HIDE DEF m
  <2>3. /\ n \in Row /\ n.status \in {r.status, "pending"}
        /\ \A f \in {"who", "kind"} : n[f] = r[f]
        /\ \A f \in {"schedule", "left"} : n[f] = old[f]
    BY <2>1 DEF Row, Status
  <2> HIDE DEF n
  <2> QED BY <2>2, <2>3, ResolvedIs
<1> QED BY <1>1, <1>2, <1>3

LEMMA WriteTaskIs ==
  ASSUME SchedulerAssumption, Typed, NEW c \in Callers, WriteTask(c),
         NEW i, i = call[c].snap.id, NEW r, r = call[c].snap.row
  PROVE  /\ i \in Ids /\ r \in Row /\ clock \in Nat /\ call[c].old.row \in Row
         /\ call[c].op \in Ops /\ call[c].snap \in Held /\ call[c].old \in Held
         /\ \/ call[c].op = "enable" /\ r.status \in {"failed", "missed"}
               /\ Wrote(i, Armed(r)) /\ hist' = [hist EXCEPT ![r.who].armed = @ + 1]
            \/ call[c].op = "enable" /\ Wrote(i, Switched(i, TRUE)) /\ hist' = hist
            \/ call[c].op = "disable" /\ Wrote(i, Switched(i, FALSE)) /\ hist' = hist
            \/ call[c].op = "delete" /\ Wrote(i, NoRow) /\ hist' = hist
            \/ call[c].op = "rename" /\ Wrote(i, r) /\ hist' = hist
            \/ call[c].op = "reschedule" /\ (\E s \in Schedules : Wrote(i, Scheduled(r, s)))
               /\ hist' = [hist EXCEPT ![r.who].armed = @ + 1]
            \/ call[c].op = "edit" /\ Wrote(i, Edited(r, call[c].old.row)) /\ hist' = hist
<1>1. call[c] \in Call /\ call[c].at = "read" /\ call[c].op \notin {"create", "run"}
  BY DEF WriteTask, Typed, TypeOK
<1>2. call[c].snap \in Task /\ call[c].old \in Task /\ call[c].op \in Ops \cup {"none"}
  BY <1>1 DEF Call
<1>3. /\ i \in Ids /\ r \in Row /\ clock \in Nat /\ rows \in [Ids -> Row] /\ call[c].old.row \in Row
      /\ call[c].snap \in Held /\ call[c].old \in Held
  BY <1>1, <1>2 DEF Typed, TypeOK, Wired, Task, Held
<1>4. /\ NoRow \in Row /\ Armed(r) \in Row /\ Edited(r, call[c].old.row) \in Row
      /\ \A s \in Schedules : Scheduled(r, s) \in Row
  BY <1>3, EditsAre, RowTypes
<1>5. \/ call[c].op = "enable" /\ Enable(i, r)
      \/ call[c].op = "disable" /\ UpdateEnabled(i, FALSE) /\ UNCHANGED hist
      \/ call[c].op = "delete" /\ SaveTask(i, NoRow) /\ UNCHANGED hist
      \/ call[c].op = "rename" /\ Rename(i, r)
      \/ call[c].op = "reschedule" /\ Reschedule(i, r)
      \/ call[c].op = "edit" /\ Edit(i, r, call[c].old.row)
  BY DEF WriteTask
<1>6. call[c].op \in Ops
  BY <1>2, <1>5
<1>7. /\ \A w \in Row : SaveTask(i, w) => Wrote(i, w)
      /\ \A b \in BOOLEAN : UpdateEnabled(i, b) => Wrote(i, Switched(i, b))
  BY <1>3, StatementIs
<1>8. CASE call[c].op = "enable" /\ Enable(i, r)
  BY <1>3, <1>4, <1>6, <1>7, <1>8 DEF Enable, Armed
<1>9. CASE call[c].op = "disable" /\ UpdateEnabled(i, FALSE) /\ UNCHANGED hist
  BY <1>3, <1>6, <1>7, <1>9
<1>10. CASE call[c].op = "delete" /\ SaveTask(i, NoRow) /\ UNCHANGED hist
  BY <1>3, <1>4, <1>6, <1>7, <1>10
<1>11. CASE call[c].op = "rename" /\ Rename(i, r)
  BY <1>3, <1>6, <1>7, <1>11 DEF Rename
<1>12. CASE call[c].op = "reschedule" /\ Reschedule(i, r)
  BY <1>3, <1>4, <1>6, <1>7, <1>12 DEF Reschedule, Scheduled
<1>13. CASE call[c].op = "edit" /\ Edit(i, r, call[c].old.row)
  BY <1>3, <1>4, <1>6, <1>7, <1>13 DEF Edit, Edited
<1> QED BY <1>5, <1>8, <1>9, <1>10, <1>11, <1>12, <1>13
-----------------------------------------------------------------------------
(***************************************************************************)
(* Types are kept                                                          *)
(***************************************************************************)
RowsOk == rows \in [Ids -> Row] /\ \A i \in Ids : Named(i, rows[i])

LEMMA WroteIsOk ==
  ASSUME Typed, made \in Nat, made' \in Nat, made <= made', NEW i \in Ids, NEW r, Wrote(i, r),
         r.who \in 0 .. made' \/ (r.who = BuiltinName /\ i = Builtin)
  PROVE  RowsOk'
<1>1. \A j \in Ids : rows[j].who \in 0 .. made \/ (rows[j].who = BuiltinName /\ j = Builtin)
  BY HeldTypes DEF Named
<1>2. \A j \in Ids : rows'[j].who \in 0 .. made' \/ (rows'[j].who = BuiltinName /\ j = Builtin)
  BY <1>1 DEF Wrote
<1> QED BY <1>2 DEF RowsOk, Named, Wrote, BuiltinName

LEMMA MarksKeepWho ==
  ASSUME rows \in [Ids -> Row], NEW i \in Ids
  PROVE  /\ \A s : Marked(i, s).who = rows[i].who
         /\ \A b : Switched(i, b).who = rows[i].who
         /\ \A t, l : t.id = i => Moved(t, l).who = rows[i].who
BY DEF Marked, Switched, Moved, Row

LEMMA RowsKept ==
  ASSUME SchedulerAssumption, Typed, [Next]_vars
  PROVE  RowsOk'
<1>1. /\ rows \in [Ids -> Row] /\ made \in Nat /\ cur \in Held /\ todo \subseteq Held
      /\ \A i \in Ids : rows[i].who \in 0 .. made \/ (rows[i].who = BuiltinName /\ i = Builtin)
  BY HeldTypes DEF Typed, TypeOK, Held, Named
<1>2. ASSUME UNCHANGED <<rows, made>> PROVE RowsOk'
  BY <1>1, <1>2 DEF RowsOk, Named, BuiltinName
<1>3. ASSUME NEW t \in todo, NEW s \in {"failed", "missed"}, RecoverOne(t, s) PROVE RowsOk'
  <2>1. made' = made
    BY <1>3 DEF RecoverOne
  <2>2. t.id \in Ids /\ \E r : Wrote(t.id, r) /\ r.who = rows[t.id].who
    BY <1>1, <1>3, RecoverIs, MarksKeepWho
  <2> QED BY <1>1, <2>1, <2>2, WroteIsOk
<1>4. CASE MarkRunning \/ Retry \/ GiveUp \/ FinalizeTask
  <2>1. made' = made
    BY <1>4 DEF MarkRunning, Retry, GiveUp, FinalizeTask
  <2>2. cur.id \in Ids
    BY <1>4 DEF MarkRunning, Retry, GiveUp, FinalizeTask, IsDue, Typed, Wired, Executing
  <2>3. \E r : Wrote(cur.id, r) /\ r.who = rows[cur.id].who
    BY <1>1, <1>4, <2>2, ExecutionIs, MarksKeepWho
  <2> QED BY <1>1, <2>1, <2>2, <2>3, WroteIsOk
<1>5. CASE ReconcileBuiltin
  <2>1. made' = made
    BY <1>5 DEF ReconcileBuiltin
  <2>2. cur.row.who \in 0 .. made \/ cur.row.who = BuiltinName
    BY <1>1, HeldTypes DEF Named
  <2>3. CASE rows' = rows
    BY <1>2, <2>1, <2>3
  <2>4. ASSUME NEW s \in Schedules, cur.row = NoRow, Wrote(Builtin, ResolveNextRun(BuiltinTask(s)))
        PROVE  RowsOk'
    <3>1. ResolveNextRun(BuiltinTask(s)).who = BuiltinName /\ Builtin \in Ids
      BY <1>5, ReconcileIs, MendedIs
    <3> QED BY <1>1, <2>1, <2>4, <3>1, WroteIsOk
  <2>5. ASSUME NEW s \in Schedules, Wrote(Builtin, Mended(cur.row, s))
        PROVE  RowsOk'
    <3>1. Mended(cur.row, s).who = cur.row.who /\ Builtin \in Ids
      BY <1>5, ReconcileIs, MendedIs
    <3> QED BY <1>1, <2>1, <2>2, <2>5, <3>1, WroteIsOk
  <2> QED BY <1>5, <2>3, <2>4, <2>5, ReconcileIs
<1>6. ASSUME NEW c \in Callers, SaveNew(c) PROVE RowsOk'
  <2>1. /\ NewId \in Ids /\ made' = made + 1 /\ made' \in Nat /\ made <= made'
        /\ \E r : Wrote(NewId, r) /\ r.who = made'
    <3>1. /\ NewId \in Ids /\ made' = made + 1
          /\ \E r \in Row : Wrote(NewId, r) /\ r.who = made + 1
      BY <1>6, SaveNewIs
    <3> QED BY <1>1, <3>1
  <2> QED BY <1>1, <2>1, WroteIsOk
<1>7. ASSUME NEW c \in Callers, WriteTask(c) PROVE RowsOk'
  <2> DEFINE i == call[c].snap.id
             r == call[c].snap.row
  <2>1. made' = made
    BY <1>7 DEF WriteTask
  <2>2. i \in Ids /\ (r.who \in 0 .. made \/ (r.who = BuiltinName /\ i = Builtin))
    BY <1>7, WriteTaskIs, HeldTypes DEF Named
  <2>3. i \in Ids /\ \E w : Wrote(i, w) /\ w.who \in {rows[i].who, r.who, 0}
    <3>1. NoRow.who = 0
      BY DEF NoRow
    <3>2. i \in Ids /\ r \in Row /\ clock \in Nat /\ call[c].old.row \in Row
      BY <1>7, WriteTaskIs
    <3>3. /\ Armed(r).who = r.who /\ Edited(r, call[c].old.row).who = r.who
          /\ \A s \in Schedules : Scheduled(r, s).who = r.who
          /\ \A b : Switched(i, b).who = rows[i].who
      BY <1>1, <3>2, EditsAre, MarksKeepWho
    <3>4. \/ Wrote(i, Armed(r)) \/ Wrote(i, Switched(i, TRUE)) \/ Wrote(i, Switched(i, FALSE))
          \/ Wrote(i, NoRow) \/ Wrote(i, r) \/ Wrote(i, Edited(r, call[c].old.row))
          \/ \E s \in Schedules : Wrote(i, Scheduled(r, s))
      BY <1>7, WriteTaskIs
    <3> QED BY <3>1, <3>2, <3>3, <3>4
  <2> QED BY <1>1, <2>1, <2>2, <2>3, WroteIsOk
<1>8. CASE \/ ReadBuiltin \/ Start \/ ListMissed \/ Recovered \/ GetNextDue \/ Sleep \/ WakeUp
           \/ DispatchOk \/ DispatchFails \/ LogSuccess \/ RepoFails \/ Stop \/ Tick
           \/ UNCHANGED vars
  BY <1>2, <1>8 DEF ReadBuiltin, Start, ListMissed, Recovered, GetNextDue, Sleep, WakeUp, DispatchOk,
     DispatchFails, LogSuccess, RepoFails, Stop, Tick, vars, bounds
<1>9. ASSUME NEW c \in Callers,
             \/ CountBeforeCreate(c) \/ SaveEditor(c) \/ RunTaskNow(c) \/ Invalidate(c)
             \/ \E op \in Ops, i \in Ids : ReadTask(c, op, i)
      PROVE  RowsOk'
  BY <1>2, <1>9 DEF CountBeforeCreate, SaveEditor, RunTaskNow, Invalidate, ReadTask
<1> QED BY <1>3, <1>4, <1>5, <1>6, <1>7, <1>8, <1>9 DEF Next, Service, RecoverStuck, RecoverMissed, CallStep

LEMMA CountedKept ==
  ASSUME SchedulerAssumption, Typed, [Next]_vars
  PROVE  Counted' /\ made' \in Nat /\ made <= made'
<1>1. /\ made \in Nat /\ calls \in Nat /\ call \in [Callers -> Call] /\ Counted
      /\ \A c \in Callers : call[c].at = "editor" => call[c].op = "edit"
  BY DEF Typed, TypeOK, Wired
<1>2. ASSUME UNCHANGED <<calls, made>>, Creators' = Creators
      PROVE  Counted' /\ made' \in Nat /\ made <= made'
  BY <1>1, <1>2 DEF Counted
<1>3. CASE Service \/ RepoFails \/ Stop \/ Tick \/ UNCHANGED vars
  <2>1. UNCHANGED <<call, calls, made>>
    BY <1>3 DEF Service, RepoFails, Stop, Tick, vars, bounds, ReadBuiltin, ReconcileBuiltin, Start,
       RecoverStuck, RecoverOne, ListMissed, RecoverMissed, Recovered, GetNextDue, Sleep, WakeUp,
       MarkRunning, DispatchOk, DispatchFails, Retry, GiveUp, LogSuccess, FinalizeTask
  <2> QED BY <1>2, <2>1 DEF Creators
<1>4. ASSUME NEW c \in Callers, CountBeforeCreate(c)
      PROVE  Counted' /\ made' \in Nat /\ made <= made'
  <2>1. made' = made /\ calls' = calls + 1 /\ call[c] = Idle
    BY <1>4 DEF CountBeforeCreate
  <2>2. c \notin Creators /\ Creators' = Creators \cup {c}
    BY <1>1, <1>4, <2>1 DEF Creators, CountBeforeCreate, Idle
  <2>3. /\ IsFiniteSet(Creators \cup {c}) /\ Cardinality(Creators \cup {c}) = Cardinality(Creators) + 1
        /\ Cardinality(Creators) \in Nat
    BY <1>1, <2>2, FS_AddElement, FS_CardinalityType DEF Counted
  <2> QED BY <1>1, <2>1, <2>2, <2>3 DEF Counted
<1>5. ASSUME NEW c \in Callers, SaveNew(c)
      PROVE  Counted' /\ made' \in Nat /\ made <= made'
  <2>1. made' = made + 1 /\ calls' = calls /\ call' = [call EXCEPT ![c].at = "saved"] /\ c \in Creators
    BY <1>5 DEF SaveNew, bounds, Creators
  <2>2. Creators' = Creators \ {c}
    BY <1>1, <2>1 DEF Creators, Call
  <2> QED BY <1>1, <2>1, <2>2, CreatorsIs DEF Counted
<1>6. ASSUME NEW c \in Callers, NEW op \in Ops, NEW i \in Ids, ReadTask(c, op, i)
      PROVE  Counted' /\ made' \in Nat /\ made <= made'
  <2>1. made' = made /\ calls' = calls + 1 /\ call[c] = Idle /\ op # "create"
    BY <1>6 DEF ReadTask
  <2>2. Creators' = Creators
    BY <1>1, <1>6, <2>1 DEF Creators, ReadTask, Idle
  <2>3. Cardinality(Creators) \in Nat
    BY <1>1, FS_CardinalityType DEF Counted
  <2> QED BY <1>1, <2>1, <2>2, <2>3 DEF Counted
<1>7. ASSUME NEW c \in Callers, SaveEditor(c) \/ WriteTask(c) \/ RunTaskNow(c) \/ Invalidate(c)
      PROVE  Counted' /\ made' \in Nat /\ made <= made'
  <2>1. made' = made /\ calls' = calls
    BY <1>7 DEF SaveEditor, WriteTask, RunTaskNow, Invalidate, bounds
  <2>2. Creators' = Creators
    <3>1. c \notin Creators
      BY <1>1, <1>7 DEF Creators, SaveEditor, WriteTask, RunTaskNow, Invalidate
    <3>2. /\ \A d \in Callers \ {c} : call'[d] = call[d]
          /\ ~(call'[c].op = "create" /\ call'[c].at = "read")
      <4>1. call[c] \in Call
        BY <1>1
      <4>2. CASE SaveEditor(c)
        BY <1>1, <4>1, <4>2 DEF SaveEditor, Idle, Call
      <4>3. CASE WriteTask(c)
        BY <1>1, <4>1, <4>3 DEF WriteTask, Call
      <4>4. CASE RunTaskNow(c) \/ Invalidate(c)
        BY <1>1, <4>1, <4>4 DEF RunTaskNow, Invalidate, Idle
      <4> QED BY <1>7, <4>2, <4>3, <4>4
    <3> QED BY <3>1, <3>2 DEF Creators
  <2> QED BY <1>2, <2>1, <2>2
<1> QED BY <1>3, <1>4, <1>5, <1>6, <1>7 DEF Next, CallStep

LEMMA NamedKept ==
  ASSUME SchedulerAssumption, Typed, [Next]_vars
  PROVE  AllNamed'
<1>1. \A i \in Ids : rows'[i].who \in 0 .. made' \/ (rows'[i].who = BuiltinName /\ i = Builtin)
  BY RowsKept DEF RowsOk, Named, BuiltinName
<1>2. made \in Nat /\ made' \in Nat /\ made <= made'
  BY CountedKept DEF Typed, TypeOK
<1>3. \A t \in Held' : t.row.who \in 0 .. made' \/ (t.row.who = BuiltinName /\ t.id = Builtin)
  <2> TAKE t \in Held'
  <2>1. CASE t \in Held
    BY <1>2, <2>1, HeldTypes DEF Named
  <2>2. CASE t = NoTask
    BY <1>2, <2>2 DEF NoTask, NoRow
  <2>3. ASSUME NEW i \in Ids, t = Copy(i) PROVE t.row = rows[i] /\ t.id = i
    BY <2>3 DEF Copy
  <2>4. CASE t \in Fresh
    BY <1>2, <2>3, <2>4, HeldTypes DEF Named, Fresh
  <2> QED BY <2>1, <2>2, <2>4, HeldIs DEF Typed
<1> QED BY <1>1, <1>3 DEF AllNamed, Named, BuiltinName

LEMMA WiredKept ==
  ASSUME SchedulerAssumption, Typed, [Next]_vars
  PROVE  Wired'
<1>1. \A i \in Ids : Copy(i).id = i /\ Copy(i) \in Task
  BY RowTypes DEF Copy, Typed, TypeOK
<1>2. Wired /\ call \in [Callers -> Call] /\ attempt \in Nat /\ MaxRetries \in Nat
  BY DEF Typed, TypeOK, SchedulerAssumption
<1>3. CASE Service \/ RepoFails \/ Stop \/ Tick \/ UNCHANGED vars
  <2>1. call' = call
    BY <1>3 DEF Service, RepoFails, Stop, Tick, vars, ReadBuiltin, ReconcileBuiltin, Start, RecoverStuck,
       RecoverOne, ListMissed, RecoverMissed, Recovered, GetNextDue, Sleep, WakeUp, MarkRunning, DispatchOk,
       DispatchFails, Retry, GiveUp, LogSuccess, FinalizeTask
  <2>2. ASSUME cur' = NoTask, todo' \subseteq todo, pc' \notin Executing \cup {"builtin", "dispatch"}
        PROVE  Wired'
    BY <1>2, <2>1, <2>2 DEF Wired
  <2>3. ASSUME UNCHANGED cur, todo' \subseteq todo, cur.id \in Ids, pc' # "builtin",
               pc' = "dispatch" => attempt' <= MaxRetries
        PROVE  Wired'
    BY <1>2, <2>1, <2>3 DEF Wired
  <2>4. CASE ReadBuiltin
    BY <1>1, <1>2, <2>1, <2>4, IdsAre DEF ReadBuiltin, Wired, Executing
  <2>5. CASE Start \/ ListMissed
    BY <1>2, <2>1, <2>5 DEF Start, ListMissed, Copies, Candidates, Wired, Executing
  <2>6. CASE RecoverStuck \/ RecoverMissed
    BY <1>2, <2>1, <2>6 DEF RecoverStuck, RecoverMissed, RecoverOne, Wired
  <2>7. CASE GetNextDue
    BY <1>1, <1>2, <2>1, <2>7 DEF GetNextDue, Copies, Candidates, Wired, Executing
  <2>8. CASE ReconcileBuiltin \/ Recovered \/ Sleep \/ WakeUp \/ GiveUp \/ FinalizeTask
    BY <2>2, <2>8 DEF ReconcileBuiltin, Recovered, Sleep, WakeUp, GiveUp, FinalizeTask, NextIteration,
       ForgetLocals, Executing
  <2>9. CASE RepoFails \/ Stop
    BY <2>2, <2>9 DEF RepoFails, Stop, ForgetLocals, Executing
  <2>10. CASE MarkRunning
    BY <1>2, <2>3, <2>10 DEF MarkRunning, IsDue, Wired
  <2>11. CASE DispatchOk \/ DispatchFails \/ Retry \/ LogSuccess
    BY <1>2, <2>3, <2>11 DEF DispatchOk, DispatchFails, Retry, LogSuccess, MoreAttempts, Wired, Executing
  <2>12. CASE Tick \/ UNCHANGED vars
    BY <1>2, <2>1, <2>12 DEF Tick, vars, service, Wired
  <2> QED BY <1>3, <2>4, <2>5, <2>6, <2>7, <2>8, <2>9, <2>10, <2>11, <2>12 DEF Service
<1>4. ASSUME NEW c \in Callers, CallStep(c) PROVE Wired'
  <2>1. UNCHANGED <<pc, cur, todo, attempt>>
    BY <1>4 DEF CallStep, CountBeforeCreate, SaveNew, ReadTask, SaveEditor, WriteTask, RunTaskNow,
       Invalidate, service
  <2> DEFINE Knows(k) == /\ k.at = "editor" => k.op = "edit" /\ k.old.id \in Ids
                         /\ k.at = "read" /\ k.op # "create" => k.snap.id \in Ids
  <2>2. call[c] \in Call /\ Knows(call[c])
    BY <1>2 DEF Wired
  <2>3. (\A d \in Callers \ {c} : call'[d] = call[d]) /\ Knows(call'[c])
    <3>1. CASE CountBeforeCreate(c)
      BY <1>2, <3>1 DEF CountBeforeCreate, Idle
    <3>2. CASE RunTaskNow(c) \/ Invalidate(c)
      BY <1>2, <3>2 DEF RunTaskNow, Invalidate, Idle
    <3>3. CASE SaveNew(c) \/ WriteTask(c)
      <4> DEFINE k == [call[c] EXCEPT !.at = "saved"]
      <4>1. call' = [call EXCEPT ![c] = k]
        BY <3>3 DEF SaveNew, WriteTask
      <4>2. k.at = "saved"
        BY <2>2 DEF Call
      <4> HIDE DEF k
      <4> QED BY <1>2, <4>1, <4>2
    <3>4. ASSUME NEW op \in Ops, NEW i \in Ids, ReadTask(c, op, i)
          PROVE  (\A d \in Callers \ {c} : call'[d] = call[d]) /\ Knows(call'[c])
      BY <1>1, <1>2, <3>4 DEF ReadTask, Idle
    <3>5. CASE SaveEditor(c)
      BY <1>1, <1>2, <2>2, <3>5 DEF SaveEditor, Idle, Call
    <3> QED BY <1>4, <3>1, <3>2, <3>3, <3>4, <3>5 DEF CallStep
  <2> QED BY <1>2, <2>1, <2>3 DEF Wired
<1> QED BY <1>3, <1>4 DEF Next

LEMMA HeldStayTasks ==
  ASSUME SchedulerAssumption, Typed, [Next]_vars
  PROVE  \A t \in Held' : t \in Task
<1>1. \A i \in Ids : Copy(i) \in Task
  BY RowTypes DEF Typed, TypeOK
<1> QED BY <1>1, HeldIs, HeldTypes, RowTypes DEF Typed, Fresh

Histories == [ran: Nat, armed: Nat, want: Int \cup {Forever}]

LEMMA HistoryIs ==
  ASSUME hist \in [Names -> Histories], NEW w
  PROVE  /\ [hist EXCEPT ![w].ran = @ + 1] \in [Names -> Histories]
         /\ [hist EXCEPT ![w].armed = @ + 1] \in [Names -> Histories]
         /\ \A h \in Histories : [hist EXCEPT ![w] = h] \in [Names -> Histories]
<1>1. CASE w \in Names
  <2>1. hist[w] \in Histories
    BY <1>1
  <2>2. /\ [hist[w] EXCEPT !.ran = @ + 1] \in Histories
        /\ [hist[w] EXCEPT !.armed = @ + 1] \in Histories
    BY <2>1 DEF Histories
  <2> QED BY <1>1, <2>2
<1>2. CASE w \notin Names
  BY <1>2
<1> QED BY <1>1, <1>2

LEMMA TypeKept ==
  ASSUME SchedulerAssumption, Typed, [Next]_vars
  PROVE  TypeOK'
<1>1. /\ TypeOK /\ Wired /\ MaxTime \in Nat /\ MaxRetries \in Nat /\ MaxSleep \in Nat /\ MaxCalls \in Nat
      /\ MaxStops \in Nat /\ MaxFaults \in Nat /\ 0 \in 0 .. MaxTime
  BY DEF Typed, SchedulerAssumption
<1>2. /\ rows' \in [Ids -> Row] /\ cur' \in Task /\ todo' \subseteq Task
      /\ \A c \in Callers : call'[c].snap \in Task /\ call'[c].old \in Task
  BY RowsKept, HeldStayTasks DEF RowsOk, Held
<1>3. made' \in Nat /\ made' <= calls'
  <2>1. Counted' /\ made' \in Nat /\ calls' \in Nat
    <3>1. calls' \in {calls, calls + 1}
      BY <1>1 DEF Next, vars, bounds, Service, RepoFails, Stop, Tick, ReadBuiltin, ReconcileBuiltin, Start,
         RecoverStuck, RecoverOne, ListMissed, RecoverMissed, Recovered, GetNextDue, Sleep, WakeUp,
         MarkRunning, DispatchOk, DispatchFails, Retry, GiveUp, LogSuccess, FinalizeTask, CallStep,
         CountBeforeCreate, SaveNew, ReadTask, SaveEditor, WriteTask, RunTaskNow, Invalidate
    <3> QED BY <1>1, <3>1, CountedKept DEF TypeOK
  <2>2. Cardinality(Creators') \in Nat
    BY <2>1, FS_CardinalityType DEF Counted
  <2> QED BY <2>1, <2>2 DEF Counted
<1>4. /\ cur.id \in Ids => logs \cup {cur.id} \subseteq Ids
      /\ \A t \in todo : logs \cup {t.id} \subseteq Ids
      /\ cur.row.next \in Nat
  BY <1>1 DEF TypeOK, Wired, Task, Row
<1>5. CASE Service
  <2>1. UNCHANGED <<clock, call, calls, stops, faults, made>>
    BY <1>5 DEF Service, bounds, ReadBuiltin, ReconcileBuiltin, Start,
       RecoverStuck, RecoverOne, ListMissed, RecoverMissed, Recovered, GetNextDue, Sleep, WakeUp,
       MarkRunning, DispatchOk, DispatchFails, Retry, GiveUp, LogSuccess, FinalizeTask
  <2>2. logs' \subseteq Ids
    <3>1. CASE RecoverStuck \/ RecoverMissed
      BY <1>4, <3>1 DEF RecoverStuck, RecoverMissed, RecoverOne, SaveLog
    <3>2. CASE Retry \/ LogSuccess
      BY <1>1, <1>4, <3>2 DEF Retry, LogSuccess, SaveLog, Wired, Executing
    <3>3. CASE ~(RecoverStuck \/ RecoverMissed \/ Retry \/ LogSuccess)
      BY <1>1, <1>5, <3>3 DEF TypeOK, Service, ReadBuiltin, ReconcileBuiltin, Start,
         ListMissed, Recovered, GetNextDue, Sleep, WakeUp,
         MarkRunning, DispatchOk, DispatchFails, GiveUp, FinalizeTask
    <3> QED BY <3>1, <3>2, <3>3
  <2>3. /\ pc' \in {"off", "builtin", "reconciled", "stuck", "missed", "look", "decide",
                    "asleep", "dispatch", "retry", "fail", "log", "close"}
        /\ now' \in 0 .. MaxTime /\ wake' \in BOOLEAN
    BY <1>1, <1>5 DEF TypeOK, Service, ReadBuiltin, ReconcileBuiltin, Start, RecoverStuck,
       RecoverOne, ListMissed, RecoverMissed, Recovered, GetNextDue, Sleep, WakeUp, MarkRunning,
       DispatchOk, DispatchFails, Retry, GiveUp, LogSuccess, FinalizeTask, NextIteration, ForgetLocals
  <2>4. attempt' \in 0 .. MaxRetries + 1
    <3>1. CASE DispatchFails
      BY <1>1, <3>1 DEF DispatchFails, TypeOK, Wired
    <3>2. CASE ~DispatchFails
      BY <1>1, <1>5, <3>2, SMTT(30) DEF TypeOK, Service, ReadBuiltin, ReconcileBuiltin, Start, RecoverStuck,
         RecoverOne, ListMissed, RecoverMissed, Recovered, GetNextDue, Sleep, WakeUp, MarkRunning,
         DispatchOk, Retry, GiveUp, LogSuccess, FinalizeTask, NextIteration, ForgetLocals
    <3> QED BY <3>1, <3>2
  <2>5. until' \in Nat
    <3>1. CASE Sleep
      <4>1. now + MaxSleep \in Nat
        BY <1>1 DEF TypeOK
      <4>2. Least({cur.row.next, now + MaxSleep}) \in Nat
        BY <1>4, <4>1, LeastOfTwo
      <4> QED BY <3>1, <4>1, <4>2 DEF Sleep
    <3>2. CASE ~Sleep
      BY <1>1, <1>5, <3>2, SMTT(30) DEF TypeOK, Service, ReadBuiltin, ReconcileBuiltin, Start, RecoverStuck,
         RecoverOne, ListMissed, RecoverMissed, Recovered, GetNextDue, WakeUp, MarkRunning,
         DispatchOk, DispatchFails, Retry, GiveUp, LogSuccess, FinalizeTask
    <3> QED BY <3>1, <3>2
  <2>6. hist' \in [Names -> [ran: Nat, armed: Nat, want: Int \cup {Forever}]]
    <3>1. CASE DispatchOk
      <4>1. hist' = [hist EXCEPT ![cur.row.who].ran = @ + 1]
        BY <3>1 DEF DispatchOk
      <4> QED BY <1>1, <4>1, HistoryIs DEF TypeOK, Histories
    <3>2. CASE ~DispatchOk
      BY <1>1, <1>5, <3>2 DEF TypeOK, Service, ReadBuiltin, ReconcileBuiltin, Start, RecoverStuck,
         RecoverOne, ListMissed, RecoverMissed, Recovered, GetNextDue, Sleep, WakeUp, MarkRunning,
         DispatchFails, Retry, GiveUp, LogSuccess, FinalizeTask
    <3> QED BY <3>1, <3>2
  <2> QED BY <1>1, <1>2, <2>1, <2>2, <2>3, <2>4, <2>5, <2>6 DEF TypeOK
<1>6. CASE RepoFails \/ Stop \/ Tick \/ UNCHANGED vars
  <2>1. CASE RepoFails
    BY <1>1, <1>2, <2>1 DEF RepoFails, ForgetLocals, TypeOK
  <2>2. CASE Stop
    <3>0. stops' \in 0 .. MaxStops
      BY <1>1, <2>2 DEF Stop, TypeOK
    <3>1. /\ pc' = "off" /\ wake' = FALSE /\ now' = 0
          /\ attempt' = 0 /\ until' = 0
          /\ UNCHANGED <<clock, logs, call, calls, faults, made, hist>>
      BY <2>2 DEF Stop, ForgetLocals
    <3>2. now' \in 0 .. MaxTime /\ until' \in Nat /\ attempt' \in 0 .. MaxRetries + 1
      BY <1>1, <3>1
    <3>3. UNCHANGED <<clock, logs, call, calls, faults, made, hist>> /\ wake' \in BOOLEAN /\ pc' = "off"
      BY <3>1
    <3> QED BY <1>1, <1>2, <3>0, <3>2, <3>3 DEF TypeOK
  <2>3. CASE Tick
    BY <1>1, <2>3 DEF Tick, TypeOK, service, bounds
  <2>4. CASE UNCHANGED vars
    BY <1>1, <2>4 DEF vars, TypeOK, service, bounds
  <2> QED BY <1>6, <2>1, <2>2, <2>3, <2>4
<1>7. ASSUME NEW c \in Callers, CallStep(c) PROVE TypeOK'
  <2>1. /\ UNCHANGED <<clock, pc, now, cur, attempt, todo, until, stops, faults>>
        /\ wake' \in BOOLEAN /\ calls' \in 0 .. MaxCalls
    <3>1. UNCHANGED <<clock, pc, now, cur, attempt, todo, until, stops, faults>>
      BY <1>7 DEF CallStep, CountBeforeCreate, SaveNew, ReadTask, SaveEditor, WriteTask, RunTaskNow,
         Invalidate, service, bounds
    <3>2. wake' \in BOOLEAN
      BY <1>1, <1>7 DEF TypeOK, CallStep, CountBeforeCreate, SaveNew, ReadTask, SaveEditor, WriteTask, RunTaskNow,
         Invalidate, service
    <3>3. calls' = calls \/ (calls < MaxCalls /\ calls' = calls + 1)
      BY <1>7 DEF CallStep, CountBeforeCreate, SaveNew, ReadTask, SaveEditor, WriteTask, RunTaskNow,
         Invalidate, bounds
    <3> QED BY <1>1, <3>1, <3>2, <3>3 DEF TypeOK
  <2>2. made' \in 0 .. MaxCalls
    BY <1>1, <1>3, <2>1
  <2>3. call' \in [Callers -> Call]
    <3>1. Idle \in Call /\ call[c] \in Call /\ call \in [Callers -> Call]
      BY <1>1, RowTypes DEF TypeOK
    <3>2. CASE CountBeforeCreate(c)
      BY <3>1, <3>2 DEF CountBeforeCreate, Call
    <3>3. CASE RunTaskNow(c) \/ Invalidate(c)
      BY <3>1, <3>3 DEF RunTaskNow, Invalidate
    <3>4. CASE SaveNew(c) \/ WriteTask(c)
      <4> DEFINE k == [call[c] EXCEPT !.at = "saved"]
      <4>1. call' = [call EXCEPT ![c] = k]
        BY <3>4 DEF SaveNew, WriteTask
      <4>2. k \in Call
        BY <3>1 DEF Call
      <4> HIDE DEF k
      <4> QED BY <3>1, <4>1, <4>2
    <3>5. ASSUME NEW op \in Ops, NEW i \in Ids, ReadTask(c, op, i)
          PROVE  call' \in [Callers -> Call]
      <4>1. Copy(i) \in Task
        BY <1>1, RowTypes DEF TypeOK
      <4>2. /\ [Idle EXCEPT !.op = op, !.at = "editor", !.old = Copy(i)] \in Call
            /\ [Idle EXCEPT !.op = op, !.at = "read", !.snap = Copy(i)] \in Call
        BY <3>1, <4>1 DEF Call
      <4> QED BY <3>1, <3>5, <4>2 DEF ReadTask
    <3>6. CASE SaveEditor(c)
      <4> DEFINE i == call[c].old.id
      <4>1. i \in Ids /\ Copy(i) \in Task
        BY <1>1, <3>6, RowTypes DEF TypeOK, Wired, SaveEditor
      <4>2. [call[c] EXCEPT !.at = "read", !.snap = Copy(i)] \in Call
        BY <3>1, <4>1 DEF Call
      <4> QED BY <3>1, <3>6, <4>2 DEF SaveEditor
    <3> QED BY <1>7, <3>2, <3>3, <3>4, <3>5, <3>6 DEF CallStep
  <2>4. logs' \subseteq Ids
    <3>1. CASE RunTaskNow(c)
      BY <1>1, <3>1 DEF RunTaskNow, SaveLog, TypeOK, Wired
    <3>2. CASE ~RunTaskNow(c)
      BY <1>1, <1>7, <3>2 DEF TypeOK, CallStep, CountBeforeCreate, SaveNew, ReadTask, SaveEditor, WriteTask,
         Invalidate
    <3> QED BY <3>1, <3>2
  <2>5. hist' \in [Names -> [ran: Nat, armed: Nat, want: Int \cup {Forever}]]
    <3>1. CASE SaveNew(c)
      <4>1. PICK r \in Row :
              hist' = [hist EXCEPT ![made + 1] = [ran |-> 0, armed |-> 1, want |-> r.left]]
        BY <3>1, SaveNewIs
      <4>2. [ran |-> 0, armed |-> 1, want |-> r.left] \in [ran: Nat, armed: Nat, want: Int \cup {Forever}]
        BY DEF Row
      <4> DEFINE h == [ran |-> 0, armed |-> 1, want |-> r.left]
      <4>3. h \in Histories /\ hist' = [hist EXCEPT ![made + 1] = h]
        BY <4>1, <4>2 DEF Histories
      <4>4. hist \in [Names -> Histories]
        BY <1>1 DEF TypeOK, Histories
      <4> HIDE DEF h
      <4>5. hist' \in [Names -> Histories]
        BY <4>3, <4>4, HistoryIs
      <4> QED BY <4>5 DEF Histories
    <3>2. CASE WriteTask(c)
      <4> DEFINE w == call[c].snap.row.who
                 more == [hist EXCEPT ![w].armed = @ + 1]
      <4>1. hist' = hist \/ hist' = more
        BY <3>2, WriteTaskIs
      <4>2. hist \in [Names -> Histories]
        BY <1>1 DEF TypeOK, Histories
      <4>4. more \in [Names -> Histories]
        BY <4>2, HistoryIs
      <4> HIDE DEF more
      <4>3. hist' \in [Names -> Histories]
        BY <4>1, <4>2, <4>4
      <4> QED BY <4>3 DEF Histories
    <3>3. CASE ~SaveNew(c) /\ ~WriteTask(c)
      BY <1>1, <1>7, <3>3 DEF TypeOK, CallStep, CountBeforeCreate, ReadTask, SaveEditor, RunTaskNow,
         Invalidate
    <3> QED BY <3>1, <3>2, <3>3
  <2> QED BY <1>1, <1>2, <2>1, <2>2, <2>3, <2>4, <2>5 DEF TypeOK
<1> QED BY <1>5, <1>6, <1>7 DEF Next

LEMMA TypedInit == ASSUME SchedulerAssumption, Init PROVE Typed
<1>1. /\ clock = 0 /\ rows = [i \in Ids |-> NoRow] /\ logs = {}
      /\ pc = "off" /\ now = 0 /\ cur = NoTask /\ attempt = 0 /\ todo = {}
      /\ wake = FALSE /\ until = 0 /\ call = [c \in Callers |-> Idle]
      /\ calls = 0 /\ stops = 0 /\ faults = 0 /\ made = 0
      /\ hist = [w \in Names |-> [ran |-> 0, armed |-> 0, want |-> Forever]]
  BY DEF Init
<1>2. NoRow \in Row /\ NoTask \in Task /\ Idle \in Call /\ Idle.at = "idle"
  BY RowTypes DEF Idle
<1>3. TypeOK
  <2>1. rows \in [Ids -> Row] /\ call \in [Callers -> Call]
    BY <1>1, <1>2
  <2>2. hist \in [Names -> [ran: Nat, armed: Nat, want: Int \cup {Forever}]]
    BY <1>1
  <2>3. /\ clock \in 0 .. MaxTime /\ logs \subseteq Ids /\ pc = "off" /\ now \in 0 .. MaxTime
        /\ until \in Nat /\ attempt \in 0 .. MaxRetries + 1 /\ wake \in BOOLEAN
        /\ calls \in 0 .. MaxCalls /\ made \in 0 .. MaxCalls
        /\ stops \in 0 .. MaxStops /\ faults \in 0 .. MaxFaults
    <3>1. /\ MaxTime \in Nat /\ MaxRetries \in Nat /\ MaxCalls \in Nat
          /\ MaxStops \in Nat /\ MaxFaults \in Nat
      BY DEF SchedulerAssumption
    <3>2. /\ clock = 0 /\ logs = {} /\ pc = "off" /\ now = 0 /\ attempt = 0 /\ wake = FALSE
          /\ until = 0 /\ calls = 0 /\ stops = 0 /\ faults = 0 /\ made = 0
      BY <1>1
    <3>3. /\ clock \in 0 .. MaxTime /\ now \in 0 .. MaxTime /\ until \in Nat
          /\ attempt \in 0 .. MaxRetries + 1 /\ calls \in 0 .. MaxCalls /\ made \in 0 .. MaxCalls
          /\ stops \in 0 .. MaxStops /\ faults \in 0 .. MaxFaults
      BY <3>1, <3>2
    <3>4. logs \subseteq Ids /\ pc = "off" /\ wake \in BOOLEAN
      BY <3>2
    <3> QED BY <3>3, <3>4
  <2>4. cur \in Task /\ todo \subseteq Task
    BY <1>1, <1>2
  <2> QED BY <2>1, <2>2, <2>3, <2>4 DEF TypeOK
<1>4. Counted
  <2>1. Creators = {}
    BY <1>1, <1>2 DEF Creators
  <2> QED BY <1>1, <2>1, FS_EmptySet DEF Counted
<1>5. AllNamed
  <2>1. NoRow.who = 0 /\ NoTask.row = NoRow /\ Idle.snap = NoTask /\ Idle.old = NoTask
    BY DEF NoRow, NoTask, Idle
  <2>2. \A t \in Held : t = NoTask
    BY <1>1, <2>1 DEF Held
  <2> QED BY <1>1, <2>1, <2>2 DEF AllNamed, Named
<1>6. Wired
  BY <1>1, <1>2 DEF Wired, Executing
<1> QED BY <1>3, <1>4, <1>5, <1>6 DEF Typed

LEMMA TypedKept ==
  ASSUME SchedulerAssumption, Typed, [Next]_vars PROVE Typed'
BY TypeKept, CountedKept, NamedKept, WiredKept DEF Typed

\* Every variable of the scheduler keeps its type in every behaviour: in
\* particular no interleaving of calls creates more tasks than were counted,
\* an INSERT is given an id of no task, and next_run is always a time.
THEOREM TypesHold == Safety => []TypeOK
<1>1. Init => Typed
  BY SchedulerAssumption, TypedInit
<1>2. Typed /\ [Next]_vars => Typed'
  BY SchedulerAssumption, TypedKept
<1>3. Typed => TypeOK
  BY DEF Typed
<1> QED BY <1>1, <1>2, <1>3, PTL DEF Safety
-----------------------------------------------------------------------------
(***************************************************************************)
(* Without deletions: a copy is of the task that has the row               *)
(***************************************************************************)
\* A recurrence that is alive, and an id without a row.
Alive(r) == r.who # 0 /\ r.kind = "recurrent" =>
              r.status \notin {"failed", "missed"} /\ (r.left = Forever => r.status # "completed")
Blank(r) == r.who = 0 => r = NoRow

\* What a copy shares with the row, whatever happened since it was read.
Likeness(r, x) == x.who = r.who /\ x.kind = r.kind /\ (x.left = Forever <=> r.left = Forever)
Same(t) == t.row.who # 0 => t.id \in Ids /\ Likeness(t.row, rows[t.id])

\* Whoever acts on a copy has that of a task, and an editor writes on the
\* task it was opened on; only a start has a list.
Reads ==
  /\ \A t \in todo : t.row.who # 0
  /\ pc \notin {"stuck", "missed"} => todo = {}
  /\ cur # NoTask /\ pc # "builtin" => cur.row.who # 0
  /\ pc \in Executing => cur # NoTask
  /\ \A c \in Callers :
       LET k == call[c] IN
       /\ k.at = "editor" => k.old.row.who # 0
       /\ k.at = "read" /\ k.op # "create" => k.snap.row.who # 0
       /\ k.at = "read" /\ k.op = "edit" => k.old.row.who # 0 /\ k.old.id = k.snap.id
BuiltinRow == Builtin # 0 => rows[Builtin].who \in {0, BuiltinName}
Endless(r) == r.who = BuiltinName => r.kind = "recurrent" /\ r.left = Forever
Distinct == \A i, j \in Ids : rows[i].who # 0 /\ rows[i].who = rows[j].who => i = j

Traced ==
  /\ \A i \in Ids : Alive(rows[i]) /\ Blank(rows[i]) /\ Endless(rows[i])
  /\ \A t \in Held : Same(t) /\ Alive(t.row) /\ Blank(t.row) /\ Endless(t.row)
  /\ Reads /\ BuiltinRow /\ Distinct

NoDeletions == "delete" \notin Ops

\* What a step makes of a row: the same task, or a new one where there was none.
Evolves(i) ==
  /\ rows[i].who # 0 => Likeness(rows[i], rows'[i])
  /\ Alive(rows'[i]) /\ Blank(rows'[i]) /\ Endless(rows'[i])
  /\ rows'[i].who # rows[i].who => \/ rows'[i].who = BuiltinName /\ i = Builtin
                                   \/ rows'[i].who = made + 1 /\ made' = made + 1 /\ i = NewId

LEMMA StaysEvolves ==
  ASSUME Typed, Traced, NEW i \in Ids, rows'[i] = rows[i]
  PROVE  Evolves(i)
BY DEF Traced, Evolves, Likeness

LEMMA WroteEvolves ==
  ASSUME Typed, Traced, NEW i \in Ids, NEW r, Wrote(i, r), rows'[i] = r => Evolves(i)
  PROVE  \A j \in Ids : Evolves(j)
BY StaysEvolves DEF Wrote

\* A settled copy leaves its recurrence alive.
LEMMA MarkedEvolves ==
  ASSUME SchedulerAssumption, Typed, Traced, NEW t \in Held, t.row.who # 0,
         NEW s \in Status, rows'[t.id] = Marked(t.id, s),
         \/ t.row.kind = "oneshot" \/ s \in {"running", "pending"}
         \/ s = "completed" /\ t.row.left # Forever
  PROVE  Evolves(t.id)
<1>1. t.id \in Ids /\ Likeness(t.row, rows[t.id])
  BY DEF Traced, Same
<1>2. rows[t.id] \in Row /\ Alive(rows[t.id]) /\ Blank(rows[t.id]) /\ Endless(rows[t.id])
  BY <1>1, HeldTypes DEF Traced
<1>3. rows'[t.id] = [rows[t.id] EXCEPT !.status = s]
  BY <1>1 DEF Marked, Exists, Likeness
<1>4. /\ rows'[t.id].status = s
      /\ \A f \in {"who", "kind", "left"} : rows'[t.id][f] = rows[t.id][f]
  BY <1>2, <1>3 DEF Row
<1> QED BY <1>1, <1>2, <1>4 DEF Evolves, Likeness, Alive, Blank, Endless

LEMMA MovedEvolves ==
  ASSUME SchedulerAssumption, Typed, Traced, NEW t \in Held, t.row.who # 0, NEW l,
         l = Forever <=> t.row.left = Forever, rows'[t.id] = Moved(t, l)
  PROVE  Evolves(t.id)
<1>1. t.id \in Ids /\ Likeness(t.row, rows[t.id])
  BY DEF Traced, Same
<1>2. rows[t.id] \in Row /\ Alive(rows[t.id]) /\ Blank(rows[t.id]) /\ Endless(rows[t.id])
  BY <1>1, HeldTypes DEF Traced
<1> DEFINE n == NextCron(t.row.schedule, now)
<1>3. rows'[t.id] = [rows[t.id] EXCEPT !.status = "pending", !.left = l, !.next = n]
  BY <1>1 DEF Moved, Exists, Likeness
<1> HIDE DEF n
<1>4. /\ rows'[t.id].status = "pending" /\ rows'[t.id].left = l
      /\ \A f \in {"who", "kind"} : rows'[t.id][f] = rows[t.id][f]
  BY <1>2, <1>3 DEF Row
<1> QED BY <1>1, <1>2, <1>4 DEF Evolves, Likeness, Alive, Blank, Endless

LEMMA SpentIs ==
  ASSUME SchedulerAssumption, NEW l \in Int \cup {Forever}
  PROVE  /\ Spent(l) = Forever <=> l = Forever
         /\ Spent(l) = 0 => l = 1
         /\ l \in Int => Spent(l) = l - 1
<1>1. Forever \notin Int
  BY DEF SchedulerAssumption
<1> QED BY <1>1 DEF Spent

LEMMA RowsEvolve ==
  ASSUME SchedulerAssumption, NoDeletions, Typed, Traced, [Next]_vars
  PROVE  \A i \in Ids : Evolves(i)
<1>1. cur \in Held /\ todo \subseteq Held /\ \A t \in todo : t.row.who # 0 /\ t \in Task
  BY DEF Held, Traced, Reads, Typed, TypeOK
<1>2. ASSUME rows' = rows PROVE \A i \in Ids : Evolves(i)
  BY <1>2, StaysEvolves
<1>3. ASSUME NEW t \in todo, NEW s \in {"failed", "missed"}, RecoverOne(t, s)
      PROVE  \A i \in Ids : Evolves(i)
  <2>1. /\ t.id \in Ids
        /\ Wrote(t.id, IF t.row.kind = "oneshot" THEN Marked(t.id, s) ELSE Moved(t, t.row.left))
    BY <1>3, RecoverIs
  <2>2. CASE t.row.kind = "oneshot"
    <3>1. Wrote(t.id, Marked(t.id, s)) /\ s \in Status
      BY <2>1, <2>2 DEF Status
    <3>2. rows'[t.id] = Marked(t.id, s) => Evolves(t.id)
      BY <1>1, <2>2, <3>1, MarkedEvolves
    <3> QED BY <2>1, <3>1, <3>2, WroteEvolves
  <2>3. CASE t.row.kind # "oneshot"
    <3>1. Wrote(t.id, Moved(t, t.row.left))
      BY <2>1, <2>3
    <3>2. rows'[t.id] = Moved(t, t.row.left) => Evolves(t.id)
      BY <1>1, MovedEvolves
    <3> QED BY <2>1, <3>1, <3>2, WroteEvolves
  <2> QED BY <2>2, <2>3
<1>4. CASE MarkRunning \/ Retry \/ GiveUp \/ FinalizeTask
  <2>1. cur.id \in Ids /\ cur.row.who # 0 /\ cur.row.left \in Int \cup {Forever}
    BY <1>4 DEF MarkRunning, Retry, GiveUp, FinalizeTask, IsDue, Typed, TypeOK, Wired, Executing, Traced,
       Reads, Task, Row
  <2>2. ASSUME NEW s \in Status, Wrote(cur.id, Marked(cur.id, s)),
               \/ cur.row.kind = "oneshot" \/ s = "running"
               \/ s = "completed" /\ cur.row.left # Forever
        PROVE  \A i \in Ids : Evolves(i)
    <3>1. rows'[cur.id] = Marked(cur.id, s) => Evolves(cur.id)
      BY <1>1, <2>1, <2>2, MarkedEvolves
    <3> QED BY <2>1, <2>2, <3>1, WroteEvolves
  <2>3. ASSUME NEW l, Wrote(cur.id, Moved(cur, l)), l = Forever <=> cur.row.left = Forever
        PROVE  \A i \in Ids : Evolves(i)
    <3>1. rows'[cur.id] = Moved(cur, l) => Evolves(cur.id)
      BY <1>1, <2>1, <2>3, MovedEvolves
    <3> QED BY <2>1, <2>3, <3>1, WroteEvolves
  <2>4. /\ "running" \in Status /\ "failed" \in Status /\ "completed" \in Status
        /\ 1 # Forever
    BY DEF Status, SchedulerAssumption
  <2>5. CASE MarkRunning \/ Retry
    BY <2>1, <2>2, <2>4, <2>5, ExecutionIs
  <2>6. CASE GiveUp
    <3>1. CASE cur.row.kind = "oneshot"
      BY <2>1, <2>2, <2>4, <2>6, <3>1, ExecutionIs
    <3>2. CASE cur.row.kind # "oneshot"
      BY <2>1, <2>3, <2>6, <3>2, ExecutionIs
    <3> QED BY <3>1, <3>2
  <2>7. CASE FinalizeTask
    <3>1. CASE cur.row.kind = "oneshot" \/ Spent(cur.row.left) = 0
      <4>1. cur.row.kind = "oneshot" \/ cur.row.left # Forever
        BY <2>1, <2>4, <3>1, SpentIs
      <4>2. Wrote(cur.id, Marked(cur.id, "completed"))
        BY <2>1, <2>7, <3>1, ExecutionIs
      <4> QED BY <2>2, <2>4, <4>1, <4>2
    <3>2. CASE ~(cur.row.kind = "oneshot" \/ Spent(cur.row.left) = 0)
      <4>1. Wrote(cur.id, Moved(cur, Spent(cur.row.left)))
        BY <2>1, <2>7, <3>2, ExecutionIs
      <4> QED BY <2>1, <2>3, <4>1, SpentIs
    <3> QED BY <3>1, <3>2
  <2> QED BY <1>4, <2>5, <2>6, <2>7
<1>5. CASE ReconcileBuiltin
  <2>1. /\ Builtin \in Ids /\ cur.id = Builtin /\ cur.row \in Row /\ clock \in Nat /\ Builtin # 0
    BY <1>5, ReconcileIs, IdsAre
  <2>2. /\ rows[Builtin].who \in {0, BuiltinName} /\ Endless(rows[Builtin]) /\ Same(cur)
        /\ Alive(cur.row) /\ Blank(cur.row) /\ Endless(cur.row)
    BY <1>1, <2>1 DEF Traced, BuiltinRow
  <2>3. BuiltinName # 0
    BY DEF BuiltinName, SchedulerAssumption
  <2>4. ASSUME NEW s \in Schedules, Wrote(Builtin, ResolveNextRun(BuiltinTask(s)))
        PROVE  \A i \in Ids : Evolves(i)
    <3> DEFINE b == ResolveNextRun(BuiltinTask(s))
    <3>1. b.who = BuiltinName /\ b.kind = "recurrent" /\ b.left = Forever /\ b.status = "pending"
      BY <2>1, MendedIs
    <3> HIDE DEF b
    <3>2. rows'[Builtin] = b => Evolves(Builtin)
      BY <2>2, <2>3, <3>1 DEF Evolves, Likeness, Alive, Blank, Endless
    <3>3. Wrote(Builtin, b)
      BY <2>4 DEF b
    <3> QED BY <2>1, <3>2, <3>3, WroteEvolves
  <2>5. ASSUME NEW s \in Schedules, cur.row # NoRow, Wrote(Builtin, Mended(cur.row, s))
        PROVE  \A i \in Ids : Evolves(i)
    <3> DEFINE m == Mended(cur.row, s)
    <3>1. /\ m.who = cur.row.who /\ m.kind = cur.row.kind /\ m.left = cur.row.left
          /\ m.status \in {cur.row.status, "pending"}
      BY <2>1, MendedIs
    <3>2. Wrote(Builtin, m)
      BY <2>5
    <3> HIDE DEF m
    <3>3. cur.row.who # 0 /\ Likeness(cur.row, rows[Builtin])
      BY <2>1, <2>2, <2>5 DEF Blank, Same
    <3>4. rows'[Builtin] = m => Evolves(Builtin)
      BY <2>2, <3>1, <3>3 DEF Evolves, Likeness, Alive, Blank, Endless
    <3> QED BY <2>1, <3>2, <3>4, WroteEvolves
  <2> QED BY <1>2, <1>5, <2>4, <2>5, ReconcileIs
<1>6. ASSUME NEW c \in Callers, SaveNew(c)
      PROVE  \A i \in Ids : Evolves(i)
  <2>1. /\ NewId \in Ids /\ ~Exists(NewId) /\ made' = made + 1 /\ made + 1 \in 1 .. MaxCalls
        /\ \E r \in Row : Wrote(NewId, r) /\ r.who = made + 1 /\ r.status = "pending"
    BY <1>6, SaveNewIs
  <2>2. PICK r \in Row : Wrote(NewId, r) /\ r.who = made + 1 /\ r.status = "pending"
    BY <2>1
  <2>3. made + 1 # 0 /\ made + 1 # BuiltinName
    BY <2>1 DEF BuiltinName, SchedulerAssumption
  <2>4. rows'[NewId] = r => Evolves(NewId)
    BY <2>1, <2>2, <2>3 DEF Evolves, Exists, Alive, Blank, Endless
  <2> QED BY <2>1, <2>2, <2>4, WroteEvolves
<1>7. ASSUME NEW c \in Callers, WriteTask(c)
      PROVE  \A i \in Ids : Evolves(i)
  <2> DEFINE i == call[c].snap.id
             r == call[c].snap.row
             old == call[c].old.row
  <2>1. /\ i \in Ids /\ r \in Row /\ clock \in Nat /\ old \in Row
        /\ call[c].op \in Ops /\ call[c].snap \in Held /\ call[c].old \in Held
    BY <1>7, WriteTaskIs
  <2>2. /\ r.who # 0 /\ Likeness(r, rows[i]) /\ Alive(r) /\ Endless(r)
        /\ call[c].op = "edit" => Likeness(old, rows[i])
    BY <1>7, <2>1 DEF WriteTask, Traced, Reads, Same
  <2>3. rows[i] \in Row /\ Alive(rows[i]) /\ Endless(rows[i]) /\ rows[i].who # 0
    BY <2>1, <2>2, HeldTypes DEF Traced, Likeness
  <2>4. ASSUME NEW w \in Row, Wrote(i, w), Likeness(rows[i], w), w.status \in {r.status, "pending"}
        PROVE  \A j \in Ids : Evolves(j)
    <3>1. rows'[i] = w => Evolves(i)
      BY <2>2, <2>3, <2>4 DEF Evolves, Likeness, Alive, Blank, Endless
    <3> QED BY <2>1, <2>4, <3>1, WroteEvolves
  <2>5. ASSUME NEW b \in BOOLEAN, Wrote(i, Switched(i, b))
        PROVE  \A j \in Ids : Evolves(j)
    <3> DEFINE w == [rows[i] EXCEPT !.enabled = b]
    <3>1. \A f \in {"who", "kind", "left", "status"} : w[f] = rows[i][f]
      BY <2>3 DEF Row
    <3>2. Wrote(i, w)
      BY <2>3, <2>5 DEF Switched, Exists
    <3> HIDE DEF w
    <3>3. rows'[i] = w => Evolves(i)
      BY <2>3, <3>1 DEF Evolves, Likeness, Alive, Blank, Endless
    <3> QED BY <2>1, <3>2, <3>3, WroteEvolves
  <2>6. /\ Armed(r) \in Row /\ Likeness(rows[i], Armed(r)) /\ Armed(r).status \in {r.status, "pending"}
        /\ Likeness(rows[i], r) /\ r.status \in {r.status, "pending"}
    <3>1. /\ Armed(r) \in Row /\ Armed(r).status = "pending"
          /\ Armed(r).who = r.who /\ Armed(r).kind = r.kind /\ Armed(r).left = r.left
      BY <2>1, EditsAre
    <3> QED BY <2>2, <3>1 DEF Likeness
  <2>9. ASSUME NEW s \in Schedules
        PROVE  /\ Scheduled(r, s) \in Row /\ Likeness(rows[i], Scheduled(r, s))
               /\ Scheduled(r, s).status \in {r.status, "pending"}
    <3>1. /\ Scheduled(r, s) \in Row /\ Scheduled(r, s).status \in {r.status, "pending"}
          /\ Scheduled(r, s).who = r.who /\ Scheduled(r, s).kind = r.kind /\ Scheduled(r, s).left = r.left
      BY <2>1, EditsAre
    <3> QED BY <2>2, <3>1 DEF Likeness
  <2>10. ASSUME call[c].op = "edit"
         PROVE  /\ Edited(r, old) \in Row /\ Likeness(rows[i], Edited(r, old))
                /\ Edited(r, old).status \in {r.status, "pending"}
    <3>1. /\ Edited(r, old) \in Row /\ Edited(r, old).status \in {r.status, "pending"}
          /\ Edited(r, old).who = r.who /\ Edited(r, old).kind = r.kind /\ Edited(r, old).left = old.left
      BY <2>1, EditsAre, ZenonT(60)
    <3> QED BY <2>2, <2>10, <3>1 DEF Likeness
  <2>7. call[c].op # "delete"
    BY <2>1 DEF NoDeletions
  <2>8. \/ Wrote(i, Armed(r)) \/ Wrote(i, Switched(i, TRUE)) \/ Wrote(i, Switched(i, FALSE))
        \/ Wrote(i, r) \/ (\E s \in Schedules : Wrote(i, Scheduled(r, s)))
        \/ call[c].op = "edit" /\ Wrote(i, Edited(r, old))
    BY <1>7, <2>7, WriteTaskIs
  <2> HIDE DEF i, r, old
  <2> QED BY <2>1, <2>4, <2>5, <2>6, <2>8, <2>9, <2>10
<1>8. CASE \/ ReadBuiltin \/ Start \/ ListMissed \/ Recovered \/ GetNextDue \/ Sleep \/ WakeUp
           \/ DispatchOk \/ DispatchFails \/ LogSuccess \/ RepoFails \/ Stop \/ Tick
           \/ UNCHANGED vars
  BY <1>2, <1>8 DEF ReadBuiltin, Start, ListMissed, Recovered, GetNextDue, Sleep, WakeUp, DispatchOk,
     DispatchFails, LogSuccess, RepoFails, Stop, Tick, vars
<1>9. ASSUME NEW c \in Callers,
             \/ CountBeforeCreate(c) \/ SaveEditor(c) \/ RunTaskNow(c) \/ Invalidate(c)
             \/ \E op \in Ops, i \in Ids : ReadTask(c, op, i)
      PROVE  \A i \in Ids : Evolves(i)
  BY <1>2, <1>9 DEF CountBeforeCreate, SaveEditor, RunTaskNow, Invalidate, ReadTask
<1> QED BY <1>3, <1>4, <1>5, <1>6, <1>7, <1>8, <1>9 DEF Next, Service, RecoverStuck, RecoverMissed, CallStep

LEMMA CopiesFollow ==
  ASSUME SchedulerAssumption, NoDeletions, Typed, Traced, [Next]_vars, NEW t \in Held'
  PROVE  /\ t.row.who # 0 => t.id \in Ids /\ Likeness(t.row, rows'[t.id])
         /\ Alive(t.row) /\ Blank(t.row) /\ Endless(t.row)
<1>1. \A i \in Ids : Evolves(i)
  BY RowsEvolve
<1>2. CASE t \in Held
  <2>1. Same(t) /\ Alive(t.row) /\ Blank(t.row) /\ Endless(t.row)
    BY <1>2 DEF Traced
  <2> QED BY <1>1, <2>1 DEF Same, Evolves, Likeness
<1>3. CASE t = NoTask
  <2>1. t.row = NoRow /\ NoRow.who = 0 /\ BuiltinName # 0
    BY <1>3 DEF NoTask, NoRow, BuiltinName, SchedulerAssumption
  <2> QED BY <2>1 DEF Alive, Blank, Endless
<1>4. CASE t \in Fresh
  <2>1. PICK i \in Ids : t.id = i /\ t.row = rows[i]
    BY <1>4 DEF Fresh, Copy
  <2>2. Alive(rows[i]) /\ Blank(rows[i]) /\ Endless(rows[i]) /\ Evolves(i)
    BY <1>1 DEF Traced
  <2> QED BY <2>1, <2>2 DEF Evolves
<1> QED BY <1>2, <1>3, <1>4, HeldIs DEF Typed

\* A name is of one row only: a new one was not in use.
LEMMA DistinctKept ==
  ASSUME SchedulerAssumption, NoDeletions, Typed, Traced, [Next]_vars
  PROVE  (BuiltinRow /\ Distinct)'
<1>1. \A i \in Ids : Evolves(i)
  BY RowsEvolve
<1>2. made \in Nat /\ made' <= MaxCalls /\ MaxCalls \in Nat /\ (Builtin # 0 => Builtin \in Ids)
  BY TypedKept, IdsAre, SMTT(30) DEF Typed, TypeOK, SchedulerAssumption
<1>3. ASSUME NEW i \in Ids
      PROVE  \/ rows'[i].who = rows[i].who
             \/ rows'[i].who = BuiltinName /\ i = Builtin
             \/ rows'[i].who = made + 1 /\ made + 1 <= MaxCalls /\ i = NewId
  BY <1>1, <1>2, <1>3 DEF Evolves
<1>4. ASSUME NEW i \in Ids
      PROVE  rows[i].who \in 0 .. made \/ (rows[i].who = BuiltinName /\ i = Builtin)
  BY <1>4, HeldTypes DEF Named
<1>5. BuiltinRow'
  <2>1. Builtin # 0 => rows'[Builtin].who \in {0, BuiltinName}
    BY <1>2, <1>3, NewIdIs DEF Traced, BuiltinRow
  <2> QED BY <2>1 DEF BuiltinRow, BuiltinName
<1>6. Distinct'
  <2>1. SUFFICES ASSUME NEW i \in Ids, NEW j \in Ids, rows'[i].who # 0, rows'[i].who = rows'[j].who
                 PROVE  i = j
    BY DEF Distinct
  <2>2. BuiltinName = MaxCalls + 1
    BY DEF BuiltinName
  <2>3. rows[i].who # 0 /\ rows[i].who = rows[j].who => i = j
    BY DEF Traced, Distinct
  <2>4. CASE rows'[i].who = rows[i].who /\ rows'[j].who = rows[j].who
    BY <2>1, <2>3, <2>4
  <2>7. ASSUME made + 1 <= MaxCalls
        PROVE  BuiltinName # made + 1 /\ \A k \in Ids : rows[k].who # made + 1
    <3>1. BuiltinName # made + 1 /\ made + 1 \notin 0 .. made
      BY <1>2, <2>2, <2>7
    <3> QED BY <1>4, <3>1
  <2>8. \A k \in Ids : rows[k].who = BuiltinName => k = Builtin
    <3>1. BuiltinName \notin 0 .. made
      BY <2>2 DEF Typed, TypeOK
    <3> QED BY <1>4, <3>1
  <2>5. CASE rows'[i].who # rows[i].who
    BY <1>3, <2>1, <2>5, <2>7, <2>8
  <2>6. CASE rows'[j].who # rows[j].who
    BY <1>3, <2>1, <2>6, <2>7, <2>8
  <2> QED BY <2>4, <2>5, <2>6
<1> QED BY <1>5, <1>6

LEMMA ReadsKept ==
  ASSUME SchedulerAssumption, Typed, Traced, [Next]_vars
  PROVE  Reads'
<1> DEFINE Reader(k) == /\ k.at = "editor" => k.old.row.who # 0
                        /\ k.at = "read" /\ k.op # "create" => k.snap.row.who # 0
                        /\ k.at = "read" /\ k.op = "edit" => k.old.row.who # 0 /\ k.old.id = k.snap.id
           Loop == /\ \A t \in todo : t.row.who # 0
                   /\ pc \notin {"stuck", "missed"} => todo = {}
                   /\ cur # NoTask /\ pc # "builtin" => cur.row.who # 0
                   /\ pc \in Executing => cur # NoTask
<1>1. Loop /\ (\A c \in Callers : Reader(call[c])) /\ call \in [Callers -> Call]
  BY DEF Traced, Reads, Typed, TypeOK
<1>2. Loop' /\ (\A c \in Callers : Reader(call'[c])) => Reads'
  BY DEF Reads, Executing, NoTask, NoRow
<1>3. NoRow.who = 0 /\ NoTask.row = NoRow
  BY DEF NoRow, NoTask
<1>4. CASE Service \/ RepoFails \/ Stop \/ Tick \/ UNCHANGED vars
  <2>1. call' = call
    BY <1>4 DEF Service, RepoFails, Stop, Tick, vars, ReadBuiltin, ReconcileBuiltin, Start, RecoverStuck,
       RecoverOne, ListMissed, RecoverMissed, Recovered, GetNextDue, Sleep, WakeUp, MarkRunning, DispatchOk,
       DispatchFails, Retry, GiveUp, LogSuccess, FinalizeTask
  <2>2. ASSUME ReadBuiltin PROVE Loop'
    BY <1>1, <2>2 DEF ReadBuiltin, Executing
  <2>3. ASSUME Start PROVE Loop'
    BY <1>1, <2>3 DEF Start, Copies, Exists, Executing
  <2>4. ASSUME ListMissed PROVE Loop'
    BY <1>1, <2>4 DEF ListMissed, Copies, Candidates, Exists, Executing
  <2>5. ASSUME RecoverStuck \/ RecoverMissed PROVE Loop'
    BY <1>1, <2>5 DEF RecoverStuck, RecoverMissed, RecoverOne, Executing
  <2>6. ASSUME GetNextDue PROVE Loop'
    BY <1>1, <2>6 DEF GetNextDue, Copies, Candidates, Exists, Executing, NoTask
  <2>7. ASSUME \/ ReconcileBuiltin \/ Recovered \/ Sleep \/ WakeUp \/ GiveUp \/ FinalizeTask PROVE Loop'
    BY <1>1, <2>7 DEF ReconcileBuiltin, Recovered, Sleep, WakeUp, GiveUp, FinalizeTask, NextIteration,
       ForgetLocals, Executing, NoTask
  <2>8. ASSUME RepoFails \/ Stop PROVE Loop'
    BY <1>1, <2>8 DEF RepoFails, Stop, ForgetLocals, Executing, NoTask
  <2>9. ASSUME MarkRunning \/ DispatchOk \/ DispatchFails \/ Retry \/ LogSuccess PROVE Loop'
    BY <1>1, <2>9 DEF MarkRunning, IsDue, DispatchOk, DispatchFails, Retry, LogSuccess, Executing
  <2>10. ASSUME Tick \/ UNCHANGED vars PROVE Loop'
    BY <1>1, <2>10 DEF Tick, vars, service
  <2>11. Loop'
    BY <1>4, <2>2, <2>3, <2>4, <2>5, <2>6, <2>7, <2>8, <2>9, <2>10 DEF Service
  <2> QED BY <1>1, <1>2, <2>1, <2>11
<1>5. ASSUME NEW c \in Callers, CallStep(c) PROVE Reads'
  <2>1. UNCHANGED <<pc, cur, todo>>
    BY <1>5 DEF CallStep, CountBeforeCreate, SaveNew, ReadTask, SaveEditor, WriteTask, RunTaskNow,
       Invalidate, service
  <2>2. Loop'
    BY <1>1, <2>1
  <2>3. (\A d \in Callers \ {c} : call'[d] = call[d]) /\ Reader(call'[c])
    <3>1. CASE CountBeforeCreate(c)
      BY <1>1, <3>1 DEF CountBeforeCreate, Idle
    <3>2. CASE RunTaskNow(c) \/ Invalidate(c)
      BY <1>1, <3>2 DEF RunTaskNow, Invalidate, Idle
    <3>3. CASE SaveNew(c) \/ WriteTask(c)
      <4> DEFINE k == [call[c] EXCEPT !.at = "saved"]
      <4>1. call' = [call EXCEPT ![c] = k]
        BY <3>3 DEF SaveNew, WriteTask
      <4>2. k.at = "saved"
        BY <1>1 DEF Call
      <4> HIDE DEF k
      <4> QED BY <1>1, <4>1, <4>2
    <3>4. ASSUME NEW op \in Ops, NEW i \in Ids, ReadTask(c, op, i)
          PROVE  (\A d \in Callers \ {c} : call'[d] = call[d]) /\ Reader(call'[c])
      <4>1. Copy(i).row.who # 0
        BY <3>4 DEF ReadTask, Copy, Exists
      <4> QED BY <1>1, <3>4, <4>1 DEF ReadTask, Idle
    <3>5. CASE SaveEditor(c)
      <4> DEFINE i == call[c].old.id
                 k == [call[c] EXCEPT !.at = "read", !.snap = Copy(i)]
      <4>1. \/ Exists(i) /\ call' = [call EXCEPT ![c] = k]
            \/ call' = [call EXCEPT ![c] = Idle]
        BY <3>5 DEF SaveEditor
      <4>2. /\ k.at = "read" /\ k.op = call[c].op /\ k.old = call[c].old /\ k.snap.id = i
            /\ k.snap.row = rows[i]
        BY <1>1 DEF Call, Copy
      <4>3. call[c].old.row.who # 0
        BY <1>1, <3>5 DEF SaveEditor
      <4>4. Reader(Idle)
        BY DEF Idle
      <4> HIDE DEF k
      <4>5. Exists(i) => Reader(k)
        BY <4>2, <4>3 DEF Exists
      <4> QED BY <1>1, <4>1, <4>4, <4>5
    <3> QED BY <1>5, <3>1, <3>2, <3>3, <3>4, <3>5 DEF CallStep
  <2>4. \A d \in Callers : Reader(call'[d])
    BY <1>1, <2>3
  <2> QED BY <1>2, <2>2, <2>4
<1> QED BY <1>4, <1>5 DEF Next

LEMMA TracedInit == ASSUME SchedulerAssumption, Init PROVE Traced
<1>1. /\ \A i \in Ids : rows[i] = NoRow
      /\ \A c \in Callers : call[c] = Idle
      /\ cur = NoTask /\ todo = {} /\ pc = "off"
  BY DEF Init
<1>2. /\ NoRow.who = 0 /\ NoTask.row = NoRow /\ BuiltinName # 0
      /\ Idle.snap = NoTask /\ Idle.old = NoTask /\ Idle.at = "idle"
  BY DEF NoRow, NoTask, Idle, BuiltinName, SchedulerAssumption
<1>3. Alive(NoRow) /\ Blank(NoRow) /\ Endless(NoRow) /\ Same(NoTask)
  BY <1>2 DEF Alive, Blank, Endless, Same
<1>4. \A t \in Held : t = NoTask
  BY <1>1, <1>2 DEF Held
<1>5. Reads
  BY <1>1, <1>2 DEF Reads, Executing
<1>6. BuiltinRow /\ Distinct
  BY <1>1, <1>2, IdsAre DEF BuiltinRow, Distinct
<1> QED BY <1>1, <1>2, <1>3, <1>4, <1>5, <1>6 DEF Traced

LEMMA TracedKept ==
  ASSUME SchedulerAssumption, NoDeletions, Typed, Traced, [Next]_vars
  PROVE  Traced'
<1>1. \A i \in Ids : Alive(rows'[i]) /\ Blank(rows'[i]) /\ Endless(rows'[i])
  BY RowsEvolve DEF Evolves
<1>2. \A t \in Held' : /\ t.row.who # 0 => t.id \in Ids /\ Likeness(t.row, rows'[t.id])
                       /\ Alive(t.row) /\ Blank(t.row) /\ Endless(t.row)
  BY CopiesFollow
<1>3. Reads' /\ BuiltinRow' /\ Distinct'
  BY ReadsKept, DistinctKept
<1> QED BY <1>1, <1>2, <1>3 DEF Traced, Same, Likeness, Alive, Blank, Endless, NoRow, BuiltinName

\* A recurrent task is never left failed or missed, and one without a
\* countdown never completed, whatever fails and whenever the daemon stops:
\* the settling of a start and of a given-up execution moves it to its next
\* slot, and no call writes back a copy that is not of the task of the row.
\* It takes that no task is deleted: an id whose task is deleted may be given
\* to another one, and then the loop settles that row by the copy of the first.
THEOREM RecurrencesSurvive ==
  ASSUME NoDeletions PROVE Safety => []RecurrenceSurvives
<1>1. Init => Typed /\ Traced
  BY SchedulerAssumption, TypedInit, TracedInit
<1>2. Typed /\ Traced /\ [Next]_vars => Typed' /\ Traced'
  BY SchedulerAssumption, TypedKept, TracedKept
<1>3. Traced => RecurrenceSurvives
  BY DEF Traced, Alive, RecurrenceSurvives, Exists
<1> QED BY <1>1, <1>2, <1>3, PTL DEF Safety
-----------------------------------------------------------------------------
(***************************************************************************)
(* Without a reschedule either: a copy is of the row's schedule            *)
(***************************************************************************)
NoReschedules == "delete" \notin Ops /\ "reschedule" \notin Ops

OnSlot(r) == r.who # 0 /\ r.kind = "recurrent" => r.next % r.schedule = 0
Agrees(t) == t.row.who # 0 => rows[t.id].schedule = t.row.schedule

\* The row of the daemon's task is the one whose schedule changes, when the
\* daemon boots: the loop has no copy then, and a call that has one only
\* switches the task or runs it.
OnSlots ==
  /\ \A i \in Ids : OnSlot(rows[i])
  /\ \A t \in Held : OnSlot(t.row)
  /\ \A t \in Held : t = cur \/ t \in todo \/ t.id # Builtin => Agrees(t)
  /\ \A c \in Callers :
       /\ call[c].at = "editor" => call[c].old.id # Builtin
       /\ call[c].at = "read" /\ call[c].op \in {"edit", "rename"} => call[c].snap.id # Builtin

\* What a step makes of a row: its schedule stays, and next_run is a slot of it.
KeepsSlot(i) ==
  /\ OnSlot(rows'[i])
  /\ rows[i].who # 0 => \/ rows'[i].schedule = rows[i].schedule
                        \/ i = Builtin /\ cur' = NoTask /\ todo' = {}

LEMMA StaysOnSlot ==
  ASSUME OnSlots, NEW i \in Ids, rows'[i] = rows[i]
  PROVE  KeepsSlot(i)
BY DEF OnSlots, KeepsSlot

LEMMA WroteOnSlot ==
  ASSUME OnSlots, NEW i \in Ids, NEW r, Wrote(i, r), rows'[i] = r => KeepsSlot(i)
  PROVE  \A j \in Ids : KeepsSlot(j)
BY StaysOnSlot DEF Wrote

LEMMA SwitchesKeepSlots ==
  ASSUME SchedulerAssumption, Typed, OnSlots, NEW i \in Ids
  PROVE  /\ \A s : Wrote(i, Marked(i, s)) => \A j \in Ids : KeepsSlot(j)
         /\ \A b : Wrote(i, Switched(i, b)) => \A j \in Ids : KeepsSlot(j)
<1>1. rows[i] \in Row /\ OnSlot(rows[i])
  BY HeldTypes DEF OnSlots
<1>2. ASSUME NEW r, Wrote(i, r), \A f \in {"who", "kind", "schedule", "next"} : r[f] = rows[i][f]
      PROVE  \A j \in Ids : KeepsSlot(j)
  <2>1. rows'[i] = r => KeepsSlot(i)
    BY <1>1, <1>2 DEF KeepsSlot, OnSlot
  <2> QED BY <1>2, <2>1, WroteOnSlot
<1>3. ASSUME NEW s, Wrote(i, Marked(i, s)) PROVE \A j \in Ids : KeepsSlot(j)
  <2>1. \A f \in {"who", "kind", "schedule", "next"} : Marked(i, s)[f] = rows[i][f]
    BY <1>1 DEF Marked, Row
  <2> QED BY <1>2, <1>3, <2>1
<1>4. ASSUME NEW b, Wrote(i, Switched(i, b)) PROVE \A j \in Ids : KeepsSlot(j)
  <2>1. \A f \in {"who", "kind", "schedule", "next"} : Switched(i, b)[f] = rows[i][f]
    BY <1>1 DEF Switched, Row
  <2> QED BY <1>2, <1>4, <2>1
<1> QED BY <1>3, <1>4

\* A settled recurrent goes to a slot of the schedule it has.
LEMMA MovesKeepSlots ==
  ASSUME SchedulerAssumption, Typed, Traced, OnSlots, NEW t \in {cur} \cup todo, t.row.who # 0,
         NEW l, Wrote(t.id, Moved(t, l))
  PROVE  \A j \in Ids : KeepsSlot(j)
<1>1. t \in Held /\ t \in Task /\ now \in Nat /\ rows \in [Ids -> Row]
  BY DEF Held, Typed, TypeOK
<1>2. t.id \in Ids /\ rows[t.id].who # 0 /\ rows[t.id].schedule = t.row.schedule
  BY <1>1 DEF Traced, Same, Likeness, OnSlots, Agrees
<1> DEFINE n == NextCron(t.row.schedule, now)
<1>3. n % t.row.schedule = 0
  <2>1. t.row.schedule \in Nat \ {0}
    BY <1>1 DEF Task, Row, SchedulerAssumption
  <2> QED BY <1>1, <2>1, SlotIs
<1>4. Moved(t, l) = [rows[t.id] EXCEPT !.status = "pending", !.left = l, !.next = n]
  BY <1>2 DEF Moved, Exists
<1> HIDE DEF n
<1>5. /\ Moved(t, l).next = n
      /\ \A f \in {"who", "kind", "schedule"} : Moved(t, l)[f] = rows[t.id][f]
  BY <1>1, <1>2, <1>4 DEF Row
<1> HIDE DEF Moved
<1>6. rows'[t.id] = Moved(t, l) => KeepsSlot(t.id)
  BY <1>2, <1>3, <1>5 DEF KeepsSlot, OnSlot
<1> QED BY <1>2, <1>6, WroteOnSlot

LEMMA WritesKeepSlots ==
  ASSUME SchedulerAssumption, NoReschedules, Typed, Traced, OnSlots, NEW c \in Callers, WriteTask(c)
  PROVE  \A j \in Ids : KeepsSlot(j)
<1> DEFINE i == call[c].snap.id
           r == call[c].snap.row
           old == call[c].old.row
<1>1. /\ i \in Ids /\ r \in Row /\ clock \in Nat /\ old \in Row /\ call[c].op \in Ops
      /\ call[c].snap \in Held /\ call[c].old \in Held /\ call[c].at = "read"
  BY WriteTaskIs DEF WriteTask
<1>2. /\ r.who # 0 /\ Likeness(r, rows[i]) /\ Alive(r) /\ Endless(r) /\ OnSlot(r)
      /\ i # Builtin => rows[i].schedule = r.schedule
  BY <1>1 DEF WriteTask, Traced, Reads, Same, OnSlots, Agrees
<1>3. ASSUME NEW w, Wrote(i, w), i # Builtin, w.schedule = r.schedule,
             w.kind = "recurrent" => w.next % w.schedule = 0
      PROVE  \A j \in Ids : KeepsSlot(j)
  <2>1. rows'[i] = w => KeepsSlot(i)
    BY <1>2, <1>3 DEF KeepsSlot, OnSlot
  <2> QED BY <1>1, <1>3, <2>1, WroteOnSlot
<1>4. CASE Wrote(i, Armed(r)) /\ r.status \in {"failed", "missed"}
  <2>1. i # Builtin
    <3>1. r.kind # "recurrent"
      BY <1>2, <1>4 DEF Alive
    <3>2. i = Builtin => r.who = BuiltinName
      BY <1>1, <1>2, IdsAre DEF Traced, BuiltinRow, Likeness
    <3> QED BY <1>2, <3>1, <3>2 DEF Endless
  <2>2. Armed(r).schedule = r.schedule /\ (Armed(r).kind = "recurrent" => Armed(r).next % Armed(r).schedule = 0)
    BY <1>1, EditsAre
  <2> QED BY <1>3, <1>4, <2>1, <2>2
<1>5. CASE call[c].op = "rename" /\ Wrote(i, r)
  <2>1. i # Builtin /\ (r.kind = "recurrent" => r.next % r.schedule = 0)
    BY <1>1, <1>2, <1>5 DEF OnSlots, OnSlot
  <2> QED BY <1>3, <1>5, <2>1
<1>6. CASE call[c].op = "edit" /\ Wrote(i, Edited(r, old))
  <2>1. i # Builtin /\ old.who # 0 /\ call[c].old.id = i
    BY <1>1, <1>6 DEF OnSlots, Traced, Reads
  <2>2. rows[i].schedule = old.schedule
    BY <1>1, <2>1 DEF OnSlots, Agrees
  <2>3. /\ Edited(r, old).schedule = old.schedule
        /\ Edited(r, old).kind = "recurrent" => Edited(r, old).next % Edited(r, old).schedule = 0
    BY <1>1, EditsAre, ZenonT(60)
  <2> QED BY <1>2, <1>3, <1>6, <2>1, <2>2, <2>3
<1>7. CASE Wrote(i, Switched(i, TRUE)) \/ Wrote(i, Switched(i, FALSE))
  BY <1>1, <1>7, SwitchesKeepSlots
<1>8. call[c].op \notin {"delete", "reschedule"}
  BY <1>1 DEF NoReschedules
<1> HIDE DEF i, r, old
<1>9. \/ Wrote(i, Armed(r)) /\ r.status \in {"failed", "missed"}
      \/ Wrote(i, Switched(i, TRUE)) \/ Wrote(i, Switched(i, FALSE))
      \/ call[c].op = "rename" /\ Wrote(i, r)
      \/ call[c].op = "edit" /\ Wrote(i, Edited(r, old))
  BY <1>8, WriteTaskIs DEF i, r, old
<1> QED BY <1>4, <1>5, <1>6, <1>7, <1>9

LEMMA RowsKeepSlots ==
  ASSUME SchedulerAssumption, NoReschedules, Typed, Traced, OnSlots, [Next]_vars
  PROVE  \A i \in Ids : KeepsSlot(i)
<1>1. cur \in Held /\ \A t \in todo : t.row.who # 0
  BY DEF Held, Traced, Reads
<1>2. ASSUME rows' = rows PROVE \A i \in Ids : KeepsSlot(i)
  BY <1>2, StaysOnSlot
<1>3. ASSUME NEW t \in todo, NEW s \in {"failed", "missed"}, RecoverOne(t, s)
      PROVE  \A i \in Ids : KeepsSlot(i)
  <2>1. /\ t.id \in Ids
        /\ Wrote(t.id, IF t.row.kind = "oneshot" THEN Marked(t.id, s) ELSE Moved(t, t.row.left))
    BY <1>3, RecoverIs
  <2>2. CASE t.row.kind = "oneshot"
    BY <2>1, <2>2, SwitchesKeepSlots
  <2>3. CASE t.row.kind # "oneshot"
    BY <1>1, <2>1, <2>3, MovesKeepSlots
  <2> QED BY <2>2, <2>3
<1>4. CASE MarkRunning \/ Retry \/ GiveUp \/ FinalizeTask
  <2>1. cur.id \in Ids /\ cur.row.who # 0
    BY <1>4 DEF MarkRunning, Retry, GiveUp, FinalizeTask, IsDue, Typed, Wired, Executing, Traced, Reads
  <2>2. (\E s : Wrote(cur.id, Marked(cur.id, s))) \/ (\E l : Wrote(cur.id, Moved(cur, l)))
    BY <1>4, <2>1, ExecutionIs
  <2> QED BY <2>1, <2>2, SwitchesKeepSlots, MovesKeepSlots
<1>5. CASE ReconcileBuiltin
  <2>1. /\ Builtin \in Ids /\ cur.id = Builtin /\ cur.row \in Row /\ clock \in Nat
        /\ OnSlot(cur.row) /\ Blank(cur.row) /\ Alive(cur.row) /\ Endless(cur.row) /\ Same(cur)
    BY <1>1, <1>5, ReconcileIs DEF OnSlots, Traced
  <2>2. cur' = NoTask /\ todo' = {}
    BY <1>5 DEF ReconcileBuiltin, ForgetLocals, Traced, Reads
  <2>3. ASSUME NEW w, Wrote(Builtin, w), w.next % w.schedule = 0
        PROVE  \A i \in Ids : KeepsSlot(i)
    <3>1. rows'[Builtin] = w => KeepsSlot(Builtin)
      BY <2>2, <2>3 DEF KeepsSlot, OnSlot
    <3> QED BY <2>1, <2>3, <3>1, WroteOnSlot
  <2>4. ASSUME NEW s \in Schedules, Wrote(Builtin, ResolveNextRun(BuiltinTask(s)))
        PROVE  \A i \in Ids : KeepsSlot(i)
    <3> DEFINE b == ResolveNextRun(BuiltinTask(s))
    <3>1. b.next % s = 0 /\ b.schedule = s
      BY <2>1, MendedIs
    <3>2. Wrote(Builtin, b)
      BY <2>4
    <3> HIDE DEF b
    <3> QED BY <2>3, <3>1, <3>2
  <2>5. ASSUME NEW s \in Schedules, cur.row # NoRow, Wrote(Builtin, Mended(cur.row, s))
        PROVE  \A i \in Ids : KeepsSlot(i)
    <3>1. cur.row.who # 0 /\ cur.row.kind = "recurrent"
      <4>1. cur.row.who # 0 /\ cur.row.who = rows[Builtin].who
        BY <2>1, <2>5 DEF Blank, Same, Likeness
      <4>2. cur.row.who = BuiltinName
        BY <2>1, <4>1, IdsAre DEF Traced, BuiltinRow
      <4> QED BY <2>1, <4>1, <4>2 DEF Endless
    <3>2. Mended(cur.row, s).next % Mended(cur.row, s).schedule = 0
      BY <2>1, <3>1, MendedIs DEF OnSlot
    <3> QED BY <2>3, <2>5, <3>2
  <2> QED BY <1>2, <1>5, <2>4, <2>5, ReconcileIs
<1>6. ASSUME NEW c \in Callers, SaveNew(c)
      PROVE  \A i \in Ids : KeepsSlot(i)
  <2>1. PICK r \in Row : Wrote(NewId, r) /\ (r.kind = "recurrent" => r.next % r.schedule = 0)
    BY <1>6, SaveNewIs
  <2>2. NewId \in Ids /\ ~Exists(NewId)
    BY <1>6, SaveNewIs
  <2>3. rows'[NewId] = r => KeepsSlot(NewId)
    BY <2>1, <2>2 DEF KeepsSlot, OnSlot, Exists
  <2> QED BY <2>1, <2>2, <2>3, WroteOnSlot
<1>7. ASSUME NEW c \in Callers, WriteTask(c)
      PROVE  \A i \in Ids : KeepsSlot(i)
  BY <1>7, WritesKeepSlots
<1>8. CASE \/ ReadBuiltin \/ Start \/ ListMissed \/ Recovered \/ GetNextDue \/ Sleep \/ WakeUp
           \/ DispatchOk \/ DispatchFails \/ LogSuccess \/ RepoFails \/ Stop \/ Tick
           \/ UNCHANGED vars
  BY <1>2, <1>8 DEF ReadBuiltin, Start, ListMissed, Recovered, GetNextDue, Sleep, WakeUp, DispatchOk,
     DispatchFails, LogSuccess, RepoFails, Stop, Tick, vars
<1>9. ASSUME NEW c \in Callers,
             \/ CountBeforeCreate(c) \/ SaveEditor(c) \/ RunTaskNow(c) \/ Invalidate(c)
             \/ \E op \in Ops, i \in Ids : ReadTask(c, op, i)
      PROVE  \A i \in Ids : KeepsSlot(i)
  BY <1>2, <1>9 DEF CountBeforeCreate, SaveEditor, RunTaskNow, Invalidate, ReadTask
<1> QED BY <1>3, <1>4, <1>5, <1>6, <1>7, <1>8, <1>9 DEF Next, Service, RecoverStuck, RecoverMissed, CallStep

LEMMA ProtectedKept ==
  ASSUME SchedulerAssumption, Typed, OnSlots, [Next]_vars, NEW c \in Callers
  PROVE  /\ call'[c].at = "editor" => call'[c].old.id # Builtin
         /\ call'[c].at = "read" /\ call'[c].op \in {"edit", "rename"} => call'[c].snap.id # Builtin
<1> DEFINE Spares(k) == /\ k.at = "editor" => k.old.id # Builtin
                        /\ k.at = "read" /\ k.op \in {"edit", "rename"} => k.snap.id # Builtin
<1>1. call \in [Callers -> Call] /\ Spares(call[c])
  BY DEF Typed, TypeOK, OnSlots
<1>2. CASE Service \/ RepoFails \/ Stop \/ Tick \/ UNCHANGED vars
  <2>1. call' = call
    BY <1>2 DEF Service, RepoFails, Stop, Tick, vars, ReadBuiltin, ReconcileBuiltin, Start, RecoverStuck,
       RecoverOne, ListMissed, RecoverMissed, Recovered, GetNextDue, Sleep, WakeUp, MarkRunning, DispatchOk,
       DispatchFails, Retry, GiveUp, LogSuccess, FinalizeTask
  <2> QED BY <1>1, <2>1
<1>3. ASSUME NEW d \in Callers, CallStep(d) PROVE Spares(call'[c])
  <2>1. CASE CountBeforeCreate(d)
    BY <1>1, <2>1 DEF CountBeforeCreate, Idle
  <2>2. CASE RunTaskNow(d) \/ Invalidate(d)
    BY <1>1, <2>2 DEF RunTaskNow, Invalidate, Idle
  <2>3. CASE SaveNew(d) \/ WriteTask(d)
    <3> DEFINE k == [call[d] EXCEPT !.at = "saved"]
    <3>1. call' = [call EXCEPT ![d] = k]
      BY <2>3 DEF SaveNew, WriteTask
    <3>2. k.at = "saved"
      BY <1>1 DEF Call
    <3> HIDE DEF k
    <3> QED BY <1>1, <3>1, <3>2
  <2>4. ASSUME NEW op \in Ops, NEW i \in Ids, ReadTask(d, op, i) PROVE Spares(call'[c])
    <3>1. op \in {"edit", "rename"} => i # Builtin
      BY <2>4 DEF ReadTask, Protected
    <3>2. Copy(i).id = i
      BY DEF Copy
    <3> QED BY <1>1, <2>4, <3>1, <3>2 DEF ReadTask, Idle
  <2>5. CASE SaveEditor(d)
    <3> DEFINE i == call[d].old.id
               k == [call[d] EXCEPT !.at = "read", !.snap = Copy(i)]
    <3>1. call' = [call EXCEPT ![d] = k] \/ call' = [call EXCEPT ![d] = Idle]
      BY <2>5 DEF SaveEditor
    <3>2. k.at = "read" /\ k.snap.id = i
      BY <1>1 DEF Call, Copy
    <3>3. i # Builtin
      BY <2>5 DEF SaveEditor, OnSlots
    <3>4. Spares(Idle)
      BY DEF Idle
    <3> HIDE DEF k
    <3>5. Spares(k)
      BY <3>2, <3>3
    <3> QED BY <1>1, <3>1, <3>4, <3>5
  <2> QED BY <1>3, <2>1, <2>2, <2>3, <2>4, <2>5 DEF CallStep
<1> QED BY <1>2, <1>3 DEF Next

LEMMA OnSlotsInit == ASSUME SchedulerAssumption, Init PROVE OnSlots
<1>1. /\ \A i \in Ids : rows[i] = NoRow
      /\ \A c \in Callers : call[c] = Idle
      /\ cur = NoTask /\ todo = {}
  BY DEF Init
<1>2. /\ NoRow.who = 0 /\ NoTask.row = NoRow
      /\ Idle.snap = NoTask /\ Idle.old = NoTask /\ Idle.at = "idle"
  BY DEF NoRow, NoTask, Idle
<1>3. \A t \in Held : t = NoTask
  BY <1>1, <1>2 DEF Held
<1> QED BY <1>1, <1>2, <1>3 DEF OnSlots, OnSlot, Agrees

LEMMA OnSlotsKept ==
  ASSUME SchedulerAssumption, NoReschedules, Typed, Traced, OnSlots, [Next]_vars
  PROVE  OnSlots'
<1>1. \A i \in Ids : KeepsSlot(i)
  BY RowsKeepSlots
<1>2. NoTask.row.who = 0
  BY DEF NoTask, NoRow
<1>3. \A t \in Held' : OnSlot(t.row)
  BY <1>2, HeldIs DEF Typed, OnSlots, OnSlot, Fresh, Copy
<1>4. ASSUME NEW t \in Held', t = cur' \/ t \in todo' \/ t.id # Builtin, t.row.who # 0
      PROVE  rows'[t.id].schedule = t.row.schedule
  <2>1. t # NoTask
    BY <1>2, <1>4
  <2>2. t.id = Builtin => cur' # NoTask \/ todo' # {}
    BY <1>4, <2>1
  <2>3. CASE t \in Fresh
    BY <1>1, <1>4, <2>2, <2>3 DEF Fresh, Copy, KeepsSlot
  <2>4. CASE t \in Held /\ (t = cur \/ t \in todo \/ t.id # Builtin)
    <3>1. t.id \in Ids /\ rows[t.id].who # 0 /\ rows[t.id].schedule = t.row.schedule
      BY <1>4, <2>4 DEF Traced, Same, Likeness, OnSlots, Agrees
    <3> QED BY <1>1, <2>2, <3>1 DEF KeepsSlot
  <2>5. t \in Held \cup {NoTask} \cup Fresh /\ (t = cur' \/ t \in todo' => t \in {cur, NoTask} \cup todo \cup Fresh)
    BY HeldIs, LoopHolds DEF Typed
  <2> QED BY <1>4, <2>1, <2>3, <2>4, <2>5
<1>5. \A c \in Callers :
        /\ call'[c].at = "editor" => call'[c].old.id # Builtin
        /\ call'[c].at = "read" /\ call'[c].op \in {"edit", "rename"} => call'[c].snap.id # Builtin
  BY ProtectedKept
<1> QED BY <1>1, <1>3, <1>4, <1>5 DEF OnSlots, OnSlot, Agrees, KeepsSlot

\* The next_run of a recurrent task is always a slot of its own cron: every
\* write that changes one of them is of both, or computes next_run from the
\* schedule that the row has.  It takes that nobody reschedules a task (nor
\* deletes it), for the loop settles a task by the schedule it read, which a
\* reschedule may have replaced meanwhile; the daemon's own task is
\* rescheduled, but before its loop has read anything.
THEOREM RecurrentsWaitForASlot ==
  ASSUME NoReschedules PROVE Safety => []NextRunIsASlot
<1>1. Init => Typed /\ Traced /\ OnSlots
  BY SchedulerAssumption, TypedInit, TracedInit, OnSlotsInit
<1>2. Typed /\ Traced /\ OnSlots /\ [Next]_vars => Typed' /\ Traced' /\ OnSlots'
  BY SchedulerAssumption, TypedKept, TracedKept, OnSlotsKept DEF NoReschedules, NoDeletions
<1>3. OnSlots => NextRunIsASlot
  BY DEF OnSlots, OnSlot, NextRunIsASlot, Exists
<1> QED BY <1>1, <1>2, <1>3, PTL DEF Safety
-----------------------------------------------------------------------------
(***************************************************************************)
(* Without calls that save a whole row as they read it: the accounts       *)
(***************************************************************************)
\* The calls write by the columns they change, and save a whole row only to
\* create it or to re-arm a oneshot; a countdown starts at one or more.
OnlySwitches ==
  /\ Ops \subseteq {"create", "enable", "disable", "run"}
  /\ Lefts \subseteq (Nat \ {0}) \cup {Forever}

Bit(b) == IF b THEN 1 ELSE 0
\* An execution that may still succeed, and one that did and is not settled.
Started(i) == pc \in {"dispatch", "retry"} /\ cur.id = i
Ran(i) == pc \in {"log", "close"} /\ cur.id = i

\* The executions that an arming may still give; those that a countdown may exceed.
Claims(i) == Bit(rows[i].status = "pending") + Bit(Started(i))
Excess(i) == stops + faults + Bit(Ran(i))

OneshotAccount(r, h, claims) == r.kind = "oneshot" => r.left = Forever /\ h.ran + claims <= h.armed
CountdownAccount(r, h, cuts, excess) ==
  h.want # Forever => IF r.status = "completed" THEN h.ran <= h.want + cuts
                      ELSE r.left >= 1 /\ h.ran + r.left <= h.want + excess

Accounted(i) ==
  LET h == hist[rows[i].who] IN
  /\ h.want = Forever <=> rows[i].left = Forever
  /\ OneshotAccount(rows[i], h, Claims(i))
  /\ CountdownAccount(rows[i], h, stops + faults, Excess(i))

\* A copy the loop settles by has the row's countdown, and that is not over.
Counts(t) == t.row.who # 0 /\ t.row.kind = "recurrent" =>
               /\ rows[t.id].left = t.row.left
               /\ t.row.left # Forever => rows[t.id].status # "completed"

Accounts ==
  /\ \A i \in Ids : Exists(i) => Accounted(i)
  /\ hist[BuiltinName].want = Forever
  /\ \A t \in {cur} \cup todo : Counts(t)
  /\ pc = "decide" /\ cur # NoTask => rows[cur.id].status = "pending"
  /\ RunningIsExecuted

LEMMA NamesAre ==
  ASSUME SchedulerAssumption, Typed
  PROVE  /\ \A i \in Ids : Exists(i) => rows[i].who \in Names
         /\ hist \in [Names -> Histories] /\ stops \in Nat /\ faults \in Nat
         /\ BuiltinName \in Names /\ BuiltinName # 0
<1>1. BuiltinName \in Nat \ {0}
  BY DEF BuiltinName, SchedulerAssumption
<1>2. \A i \in Ids : rows[i].who \in 0 .. BuiltinName
  BY HeldTypes DEF Row
<1> HIDE DEF BuiltinName
<1> QED BY <1>1, <1>2 DEF Typed, TypeOK, Histories, Names, Exists

\* What the settling of a copy makes of its row.
LEMMA SettledIs ==
  ASSUME SchedulerAssumption, Typed, Traced, NEW t \in Held, t.row.who # 0
  PROVE  /\ t.id \in Ids /\ Exists(t.id) /\ Likeness(t.row, rows[t.id])
         /\ \A s : /\ Marked(t.id, s).status = s
                   /\ \A f \in {"who", "kind", "left"} : Marked(t.id, s)[f] = rows[t.id][f]
         /\ \A l : /\ Moved(t, l).status = "pending" /\ Moved(t, l).left = l
                   /\ \A f \in {"who", "kind"} : Moved(t, l)[f] = rows[t.id][f]
<1>1. t.id \in Ids /\ Exists(t.id) /\ Likeness(t.row, rows[t.id])
  BY DEF Traced, Same, Likeness, Exists
<1>2. rows[t.id] \in Row
  BY <1>1, HeldTypes
<1>3. ASSUME NEW s
      PROVE  /\ Marked(t.id, s).status = s
             /\ \A f \in {"who", "kind", "left"} : Marked(t.id, s)[f] = rows[t.id][f]
  BY <1>1, <1>2 DEF Marked, Row
<1>4. ASSUME NEW l
      PROVE  /\ Moved(t, l).status = "pending" /\ Moved(t, l).left = l
             /\ \A f \in {"who", "kind"} : Moved(t, l)[f] = rows[t.id][f]
  <2> DEFINE n == NextCron(t.row.schedule, now)
  <2>1. Moved(t, l) = [rows[t.id] EXCEPT !.status = "pending", !.left = l, !.next = n]
    BY <1>1 DEF Moved
  <2> HIDE DEF n, Moved
  <2> QED BY <1>2, <2>1 DEF Row
<1> QED BY <1>1, <1>3, <1>4

\* The calls: a switch, or the re-arming of a oneshot.
LEMMA SwitchIs ==
  ASSUME SchedulerAssumption, OnlySwitches, Typed, Traced, Accounts, NEW c \in Callers, WriteTask(c)
  PROVE  \E i \in Ids : \E w :
           /\ Wrote(i, w) /\ Exists(i)
           /\ \A f \in {"who", "kind", "left"} : w[f] = rows[i][f]
           /\ \/ /\ rows[i].kind = "oneshot" /\ w.status = "pending"
                 /\ hist' = [hist EXCEPT ![rows[i].who].armed = @ + 1]
              \/ w.status = rows[i].status /\ hist' = hist
<1> DEFINE i == call[c].snap.id
           r == call[c].snap.row
<1>1. /\ i \in Ids /\ r \in Row /\ clock \in Nat /\ call[c].op \in Ops /\ call[c].snap \in Held
      /\ call[c].at = "read"
  BY WriteTaskIs DEF WriteTask
<1>2. call[c].op \notin {"delete", "rename", "reschedule", "edit", "create"}
  BY <1>1 DEF OnlySwitches, WriteTask
<1>3. r.who # 0 /\ Likeness(r, rows[i]) /\ Alive(r) /\ Exists(i) /\ Accounted(i) /\ rows[i] \in Row
  BY <1>1, <1>2, HeldTypes DEF Traced, Reads, Same, Likeness, Exists, Accounts
<1>4. CASE Wrote(i, Armed(r)) /\ r.status \in {"failed", "missed"}
           /\ hist' = [hist EXCEPT ![r.who].armed = @ + 1]
  <2>1. r.kind = "oneshot"
    BY <1>1, <1>3, <1>4 DEF Alive, Row, Kinds
  <2>2. rows[i].kind = "oneshot" /\ rows[i].who = r.who /\ rows[i].left = r.left
    BY <1>3, <2>1 DEF Likeness, Accounted, OneshotAccount
  <2>3. /\ Armed(r).status = "pending" /\ Armed(r).who = r.who /\ Armed(r).kind = r.kind
        /\ Armed(r).left = r.left
    BY <1>1, EditsAre
  <2> DEFINE w == Armed(r)
  <2>4. /\ w.status = "pending" /\ w.who = rows[i].who /\ w.kind = rows[i].kind
        /\ w.left = rows[i].left
    BY <2>1, <2>2, <2>3
  <2>5. Wrote(i, w) /\ hist' = [hist EXCEPT ![rows[i].who].armed = @ + 1]
    BY <1>4, <2>2
  <2> HIDE DEF i, r, w
  <2> QED BY <1>1, <1>3, <2>2, <2>4, <2>5
<1>5. ASSUME NEW b \in BOOLEAN, Wrote(i, Switched(i, b)), hist' = hist
      PROVE  \E w : /\ Wrote(i, w) /\ Exists(i)
                    /\ \A f \in {"who", "kind", "left"} : w[f] = rows[i][f]
                    /\ w.status = rows[i].status /\ hist' = hist
  <2>1. \A f \in {"who", "kind", "left", "status"} : Switched(i, b)[f] = rows[i][f]
    BY <1>3 DEF Switched, Row
  <2> QED BY <1>3, <1>5, <2>1
<1> HIDE DEF i, r
<1>6. \/ /\ Wrote(i, Armed(r)) /\ r.status \in {"failed", "missed"}
         /\ hist' = [hist EXCEPT ![r.who].armed = @ + 1]
      \/ Wrote(i, Switched(i, TRUE)) /\ hist' = hist
      \/ Wrote(i, Switched(i, FALSE)) /\ hist' = hist
  BY <1>2, WriteTaskIs DEF i, r
<1> QED BY <1>1, <1>4, <1>5, <1>6

(***************************************************************************)
(* A row that a step does not settle: its account follows                  *)
(***************************************************************************)
Follows(i) ==
  LET w == rows[i].who IN
  /\ rows'[i].who = w /\ rows'[i].kind = rows[i].kind /\ rows'[i].left = rows[i].left
  /\ hist'[w].want = hist[w].want /\ hist'[w].ran = hist[w].ran
  /\ rows[i].kind = "oneshot" => Claims(i)' + hist[w].armed <= Claims(i) + hist'[w].armed
  /\ rows[i].left # Forever => (rows'[i].status = "completed" <=> rows[i].status = "completed")
  /\ stops + faults <= stops' + faults'
  /\ Excess(i) <= Excess(i)'

LEMMA AccountFollows ==
  ASSUME SchedulerAssumption, Typed, Typed', NEW i \in Ids, Exists(i), Accounted(i), Follows(i)
  PROVE  Accounted(i)'
<1> DEFINE w == rows[i].who
<1>1. /\ w \in Names /\ hist \in [Names -> Histories] /\ stops \in Nat /\ faults \in Nat
      /\ rows[i] \in Row
  BY NamesAre, HeldTypes
<1>2. hist' \in [Names -> Histories] /\ stops' \in Nat /\ faults' \in Nat /\ rows'[i] \in Row
  BY SMTT(30) DEF Typed, TypeOK, Histories
<1>3. /\ hist[w].ran \in Nat /\ hist[w].armed \in Nat /\ hist[w].want \in Int \cup {Forever}
      /\ hist'[w].armed \in Nat /\ rows[i].left \in Int \cup {Forever} /\ rows[i].kind \in Kinds
  BY <1>1, <1>2 DEF Histories, Row
<1>4. Claims(i) \in Nat /\ Claims(i)' \in Nat
  BY DEF Claims, Bit
<1>5. Excess(i) \in Nat /\ Excess(i)' \in Nat
  BY <1>1, <1>2 DEF Excess, Bit
<1>6. /\ rows'[i].who = w /\ rows'[i].kind = rows[i].kind /\ rows'[i].left = rows[i].left
      /\ hist'[w].want = hist[w].want /\ hist'[w].ran = hist[w].ran
      /\ rows[i].kind = "oneshot" => Claims(i)' + hist[w].armed <= Claims(i) + hist'[w].armed
      /\ rows[i].left # Forever => (rows'[i].status = "completed" <=> rows[i].status = "completed")
      /\ stops + faults <= stops' + faults' /\ Excess(i) <= Excess(i)'
  BY DEF Follows
<1>7. /\ hist[w].want = Forever <=> rows[i].left = Forever
      /\ OneshotAccount(rows[i], hist[w], Claims(i))
      /\ CountdownAccount(rows[i], hist[w], stops + faults, Excess(i))
  BY DEF Accounted
<1> HIDE DEF w
<1>8. OneshotAccount(rows'[i], hist'[w], Claims(i)')
  <2> SUFFICES ASSUME rows[i].kind = "oneshot"
               PROVE  rows'[i].left = Forever /\ hist'[w].ran + Claims(i)' <= hist'[w].armed
    BY <1>6 DEF OneshotAccount
  <2>1. rows[i].left = Forever /\ hist[w].ran + Claims(i) <= hist[w].armed
    BY <1>7 DEF OneshotAccount
  <2>2. Claims(i)' + hist[w].armed <= Claims(i) + hist'[w].armed
    BY <1>6
  <2> QED BY <1>3, <1>4, <1>6, <2>1, <2>2, SMTT(30)
<1>9. CountdownAccount(rows'[i], hist'[w], stops' + faults', Excess(i)')
  <2> SUFFICES ASSUME hist[w].want # Forever
               PROVE  CountdownAccount(rows'[i], hist'[w], stops' + faults', Excess(i)')
    BY <1>6 DEF CountdownAccount
  <2>1. hist[w].want \in Int /\ rows[i].left \in Int /\ rows[i].left # Forever
    BY <1>3, <1>7
  <2>2. CASE rows[i].status = "completed"
    BY <1>1, <1>2, <1>3, <1>6, <1>7, <2>1, <2>2 DEF CountdownAccount
  <2>3. CASE rows[i].status # "completed"
    BY <1>3, <1>5, <1>6, <1>7, <2>1, <2>3 DEF CountdownAccount
  <2> QED BY <2>2, <2>3
<1> QED BY <1>6, <1>7, <1>8, <1>9 DEF Accounted

\* Two counters that grow have a sum that grows, and a flag over it goes up
\* with it or with the counters.
LEMMA SumsGrow ==
  \A a, b, c, d \in Nat :
    /\ a + b \in Nat /\ c + d \in Nat
    /\ a <= c /\ b <= d => a + b <= c + d
OBVIOUS

LEMMA BitsGrow ==
  \A a, b \in Nat, x, y \in {0, 1} : a <= b /\ (x <= y \/ a < b) => a + x <= b + y
OBVIOUS

\* A row that stays, with an execution that goes on or is cut.
LEMMA StaysFollows ==
  ASSUME SchedulerAssumption, Typed, Typed', NEW i \in Ids, Exists(i),
         rows'[i] = rows[i], hist'[rows[i].who] = hist[rows[i].who],
         Started(i)' => Started(i), stops <= stops', faults <= faults',
         Ran(i) => Ran(i)' \/ stops + faults < stops' + faults'
  PROVE  Follows(i)
<1>1. /\ stops \in Nat /\ faults \in Nat /\ stops' \in Nat /\ faults' \in Nat
      /\ hist[rows[i].who].armed \in Nat
  <2>1. hist \in [Names -> Histories] /\ rows[i].who \in Names
    BY NamesAre
  <2> QED BY <2>1, SMTT(30) DEF Typed, TypeOK, Histories
<1>2. Claims(i)' \in Nat /\ Claims(i) \in Nat /\ Claims(i)' <= Claims(i)
  BY DEF Claims, Bit
<1>3. stops + faults <= stops' + faults'
  BY <1>1, SumsGrow, Zenon
<1>4. Bit(Ran(i)) \in {0, 1} /\ Bit(Ran(i)') \in {0, 1}
  BY DEF Bit
<1>5. stops + faults \in Nat /\ stops' + faults' \in Nat
  BY <1>1, SumsGrow, Zenon
<1>6. Bit(Ran(i)) <= Bit(Ran(i)') \/ stops + faults < stops' + faults'
  BY DEF Bit
<1>7. stops + faults + Bit(Ran(i)) <= stops' + faults' + Bit(Ran(i)')
  BY <1>3, <1>4, <1>5, <1>6, BitsGrow, Zenon
<1>8. Excess(i) <= Excess(i)'
  BY <1>7 DEF Excess
<1> QED BY <1>1, <1>2, <1>3, <1>8, SMTT(30) DEF Follows

\* A start or a failure settles a copy without an execution that succeeded.
LEMMA SettleFollows ==
  ASSUME SchedulerAssumption, Typed, Typed', Traced, Accounts, NEW t \in {cur} \cup todo, t.row.who # 0,
         NEW s \in {"failed", "missed"},
         Wrote(t.id, IF t.row.kind = "oneshot" THEN Marked(t.id, s) ELSE Moved(t, t.row.left)),
         UNCHANGED <<hist, stops, faults>>,
         {pc, pc'} \cap {"dispatch", "retry", "log", "close"} = {},
         NEW i \in Ids, Exists(i)
  PROVE  Follows(i)
<1>1. t \in Held /\ Counts(t) /\ t \in Task
  BY DEF Held, Accounts, Typed, TypeOK
<1>2. ~Started(i) /\ ~Started(i)' /\ ~Ran(i) /\ ~Ran(i)'
  BY DEF Started, Ran
<1>3. /\ stops \in Nat /\ faults \in Nat /\ rows[i].who \in Names /\ hist \in [Names -> Histories]
      /\ rows[i] \in Row /\ Accounted(i)
  BY NamesAre, HeldTypes DEF Accounts
<1>4. CASE i # t.id
  <2>1. rows'[i] = rows[i]
    BY <1>4 DEF Wrote
  <2> QED BY <1>2, <1>3, <2>1, StaysFollows
<1>5. CASE i = t.id
  <2>1. t.row.kind = rows[i].kind /\ (t.row.left = Forever <=> rows[i].left = Forever)
    BY <1>1, <1>5, SettledIs DEF Likeness
  <2>2. Excess(i)' = Excess(i) /\ Excess(i) \in Nat
    BY <1>2, <1>3 DEF Excess, Bit
  <2>3. CASE t.row.kind = "oneshot"
    <3>1. rows'[i] = Marked(i, s)
      BY <1>5, <2>3 DEF Wrote
    <3>2. rows'[i].status = s /\ \A f \in {"who", "kind", "left"} : rows'[i][f] = rows[i][f]
      BY <1>1, <1>5, <3>1, SettledIs
    <3>3. Claims(i)' <= Claims(i) /\ Claims(i) \in Nat /\ Claims(i)' \in Nat
      BY <1>2, <3>2 DEF Claims, Bit
    <3>4. rows[i].left = Forever
      BY <1>3, <2>1, <2>3 DEF Accounted, OneshotAccount
    <3>5. hist[rows[i].who].armed \in Nat
      BY <1>3 DEF Histories
    <3> QED BY <1>3, <2>2, <3>2, <3>3, <3>4, <3>5 DEF Follows
  <2>4. CASE t.row.kind # "oneshot"
    <3>1. rows'[i] = Moved(t, t.row.left) /\ t.row.kind = "recurrent"
      BY <1>1, <1>5, <2>4 DEF Wrote, Task, Row, Kinds
    <3>2. rows[i].left = t.row.left /\ (t.row.left # Forever => rows[i].status # "completed")
      BY <1>1, <1>5, <3>1 DEF Counts
    <3>3. /\ rows'[i].status = "pending" /\ rows'[i].left = rows[i].left
          /\ \A f \in {"who", "kind"} : rows'[i][f] = rows[i][f]
      BY <1>1, <1>5, <3>1, <3>2, SettledIs
    <3> QED BY <1>3, <2>1, <2>2, <2>4, <3>2, <3>3 DEF Follows
  <2> QED BY <2>3, <2>4
<1> QED BY <1>4, <1>5

Settles(i) == \/ ReconcileBuiltin /\ i = Builtin
              \/ FinalizeTask /\ i = cur.id
              \/ DispatchOk /\ i = cur.id

\* The task of an execution has its row.
LEMMA ExecutedIs ==
  ASSUME SchedulerAssumption, Typed, Traced, Accounts, pc \in Executing \/ (pc = "decide" /\ IsDue)
  PROVE  /\ cur \in Held /\ cur \in Task /\ cur # NoTask /\ cur.row.who # 0
         /\ cur.id \in Ids /\ Exists(cur.id) /\ rows[cur.id].who = cur.row.who
         /\ Accounted(cur.id) /\ Counts(cur)
<1>1. cur # NoTask /\ cur.row.who # 0 /\ cur \in Held /\ cur \in Task /\ Counts(cur)
  BY DEF Traced, Reads, IsDue, Executing, Held, Typed, TypeOK, Accounts
<1> QED BY <1>1, SettledIs DEF Accounts, Likeness

LEMMA MarkFollows ==
  ASSUME SchedulerAssumption, Typed, Typed', Traced, Accounts, MarkRunning \/ Retry,
         NEW i \in Ids, Exists(i)
  PROVE  Follows(i)
<1>1. /\ cur \in Held /\ cur \in Task /\ cur.row.who # 0 /\ cur.id \in Ids /\ Accounted(cur.id)
      /\ Counts(cur)
  BY ExecutedIs DEF MarkRunning, Retry, Executing
<1>2. /\ Wrote(cur.id, Marked(cur.id, "running")) /\ cur' = cur
      /\ UNCHANGED <<hist, stops, faults>>
      /\ pc' \in {"dispatch", "fail"} /\ ~Ran(i) /\ ~Ran(i)'
  <2>1. Wrote(cur.id, Marked(cur.id, "running"))
    BY <1>1, ExecutionIs
  <2> QED BY <2>1 DEF MarkRunning, Retry, bounds, Ran
<1>3. /\ stops \in Nat /\ faults \in Nat /\ rows[i].who \in Names /\ hist \in [Names -> Histories]
      /\ rows[i] \in Row
  BY NamesAre, HeldTypes
<1>4. CASE i # cur.id
  <2>1. rows'[i] = rows[i] /\ ~Started(i)'
    BY <1>2, <1>4 DEF Wrote, Started
  <2> QED BY <1>2, <1>3, <2>1, StaysFollows
<1>5. CASE i = cur.id
  <2>1. rows'[i].status = "running" /\ \A f \in {"who", "kind", "left"} : rows'[i][f] = rows[i][f]
    BY <1>1, <1>2, <1>5, SettledIs DEF Wrote
  <2>2. rows[i].left # Forever => rows[i].status # "completed"
    <3>1. rows[i].left # Forever => cur.row.kind = "recurrent" /\ cur.row.left # Forever
      BY <1>1, <1>3, <1>5, SettledIs DEF Accounted, OneshotAccount, Likeness, Row, Kinds
    <3> QED BY <1>1, <1>5, <3>1 DEF Counts
  <2>3. Claims(i)' <= Claims(i) /\ Claims(i)' \in Nat /\ Claims(i) \in Nat
    <3>1. (MarkRunning => rows[i].status = "pending") /\ (Retry => Started(i))
      BY <1>5 DEF MarkRunning, Retry, IsDue, Started, Accounts
    <3>2. Bit(rows'[i].status = "pending") = 0 /\ Bit(Started(i)') \in 0 .. 1 /\ Bit(Started(i)) \in 0 .. 1
      BY <2>1 DEF Bit
    <3> QED BY <2>1, <3>1, <3>2 DEF Claims, Bit
  <2>4. Excess(i)' = Excess(i) /\ Excess(i) \in Nat /\ hist[rows[i].who].armed \in Nat
    BY <1>2, <1>3 DEF Excess, Bit, Histories
  <2> QED BY <1>2, <1>3, <2>1, <2>2, <2>3, <2>4 DEF Follows
<1> QED BY <1>4, <1>5

LEMMA SwitchFollows ==
  ASSUME SchedulerAssumption, OnlySwitches, Typed, Typed', Traced, Accounts,
         NEW c \in Callers, WriteTask(c), NEW i \in Ids, Exists(i)
  PROVE  Follows(i)
<1>1. PICK j \in Ids : \E w :
        /\ Wrote(j, w) /\ Exists(j)
        /\ \A f \in {"who", "kind", "left"} : w[f] = rows[j][f]
        /\ \/ /\ rows[j].kind = "oneshot" /\ w.status = "pending"
              /\ hist' = [hist EXCEPT ![rows[j].who].armed = @ + 1]
           \/ w.status = rows[j].status /\ hist' = hist
  BY SwitchIs
<1>2. UNCHANGED <<stops, faults>> /\ Started(i)' = Started(i) /\ Ran(i)' = Ran(i)
  BY DEF WriteTask, bounds, service, Started, Ran
<1>3. /\ stops \in Nat /\ faults \in Nat /\ rows[i].who \in Names /\ hist \in [Names -> Histories]
      /\ rows[i] \in Row /\ rows[j].who \in Names /\ Accounted(i)
  BY <1>1, NamesAre, HeldTypes DEF Accounts
<1>4. CASE i # j
  <2>1. rows'[i] = rows[i] /\ rows[i].who # rows[j].who
    BY <1>1, <1>4 DEF Wrote, Traced, Distinct, Exists
  <2>2. hist'[rows[i].who] = hist[rows[i].who]
    BY <1>1, <1>3, <2>1
  <2> QED BY <1>2, <1>3, <2>1, <2>2, StaysFollows
<1>5. CASE i = j
  <2> DEFINE h == hist[rows[i].who]
             g == hist'[rows[i].who]
  <2>1. /\ \A f \in {"who", "kind", "left"} : rows'[i][f] = rows[i][f]
        /\ \/ rows[i].kind = "oneshot" /\ g = [h EXCEPT !.armed = @ + 1]
           \/ rows'[i].status = rows[i].status /\ g = h
    BY <1>1, <1>3, <1>5 DEF Wrote
  <2>2. h \in Histories
    BY <1>3
  <2>3. h.armed \in Nat /\ g.want = h.want /\ g.ran = h.ran
        /\ (g.armed = h.armed \/ (rows[i].kind = "oneshot" /\ g.armed = h.armed + 1))
    BY <2>1, <2>2 DEF Histories
  <2>4. /\ Claims(i)' \in Nat /\ Claims(i) \in Nat /\ Claims(i)' <= Claims(i) + 1
        /\ rows'[i].status = rows[i].status => Claims(i)' = Claims(i)
    BY <1>2 DEF Claims, Bit
  <2>5. rows[i].kind = "oneshot" => Claims(i)' + h.armed <= Claims(i) + g.armed
    <3>1. CASE g.armed = h.armed + 1
      BY <2>3, <2>4, <3>1
    <3>2. CASE g.armed # h.armed + 1
      <4>1. rows'[i].status = rows[i].status /\ g = h
        BY <2>1, <2>2, <3>2 DEF Histories
      <4> QED BY <2>3, <2>4, <4>1
    <3> QED BY <3>1, <3>2
  <2>6. rows[i].left # Forever => rows'[i].status = rows[i].status
    BY <1>3, <2>1 DEF Accounted, OneshotAccount
  <2>7. Excess(i)' = Excess(i) /\ Excess(i) \in Nat
    BY <1>2, <1>3 DEF Excess, Bit
  <2> HIDE DEF h, g
  <2>8. /\ rows'[i].who = rows[i].who /\ rows'[i].kind = rows[i].kind /\ rows'[i].left = rows[i].left
        /\ stops + faults <= stops' + faults' /\ Excess(i) <= Excess(i)'
    BY <1>2, <1>3, <2>1, <2>7
  <2> QED BY <2>3, <2>5, <2>6, <2>8 DEF Follows, h, g
<1> QED BY <1>4, <1>5

LEMMA RowFollows ==
  ASSUME SchedulerAssumption, OnlySwitches, Typed, Typed', Traced, Accounts, [Next]_vars,
         NEW i \in Ids, Exists(i)
  PROVE  Follows(i) \/ Settles(i)
<1>1. /\ stops \in Nat /\ faults \in Nat /\ rows[i].who \in Names /\ hist \in [Names -> Histories]
      /\ \A t \in todo : t.row.who # 0
  BY NamesAre DEF Traced, Reads
<1>2. ASSUME rows'[i] = rows[i], hist'[rows[i].who] = hist[rows[i].who], UNCHANGED <<stops, faults>>,
             Started(i)' => Started(i), Ran(i) => Ran(i)'
      PROVE  Follows(i)
  BY <1>1, <1>2, StaysFollows
<1>3. ASSUME NEW t \in todo, NEW s \in {"failed", "missed"}, RecoverOne(t, s), pc \in {"stuck", "missed"}
      PROVE  Follows(i)
  <2>1. Wrote(t.id, IF t.row.kind = "oneshot" THEN Marked(t.id, s) ELSE Moved(t, t.row.left))
    BY <1>3, RecoverIs
  <2>2. UNCHANGED <<hist, stops, faults, pc>>
    BY <1>3 DEF RecoverOne, bounds
  <2> QED BY <1>1, <1>3, <2>1, <2>2, SettleFollows
<1>4. CASE MarkRunning \/ Retry
  BY <1>4, MarkFollows
<1>5. CASE GiveUp
  <2>1. cur.id \in Ids /\ cur.row.who # 0
    BY <1>5, ExecutedIs DEF GiveUp, Executing
  <2>2. Wrote(cur.id, IF cur.row.kind = "oneshot" THEN Marked(cur.id, "failed") ELSE Moved(cur, cur.row.left))
    BY <1>5, <2>1, ExecutionIs
  <2>3. UNCHANGED <<hist, stops, faults>> /\ pc = "fail" /\ pc' = "look"
    BY <1>5 DEF GiveUp, NextIteration, bounds
  <2> QED BY <2>1, <2>2, <2>3, SettleFollows
<1>6. CASE (ReconcileBuiltin /\ i # Builtin) \/ (FinalizeTask /\ i # cur.id)
  <2>1. rows'[i] = rows[i]
    <3>1. CASE ReconcileBuiltin /\ i # Builtin
      BY <3>1, ReconcileIs DEF Wrote
    <3>2. CASE FinalizeTask /\ i # cur.id
      <4>1. cur.id \in Ids
        BY <3>2, ExecutedIs DEF FinalizeTask, Executing
      <4>2. \E r : Wrote(cur.id, r)
        BY <3>2, <4>1, ExecutionIs
      <4> QED BY <3>2, <4>2 DEF Wrote
    <3> QED BY <1>6, <3>1, <3>2
  <2>2. /\ UNCHANGED <<hist, stops, faults>> /\ pc' \in {"reconciled", "look"}
        /\ pc = "builtin" \/ i # cur.id
    BY <1>6 DEF ReconcileBuiltin, FinalizeTask, NextIteration, bounds
  <2> QED BY <1>2, <2>1, <2>2 DEF Started, Ran
<1>7. CASE DispatchOk /\ i # cur.id
  <2>1. rows[i].who # cur.row.who
    BY <1>7, ExecutedIs DEF DispatchOk, Executing, Traced, Distinct, Exists
  <2>2. hist'[rows[i].who] = hist[rows[i].who]
    BY <1>1, <1>7, <2>1 DEF DispatchOk
  <2>3. rows' = rows /\ UNCHANGED <<stops, faults, cur>> /\ pc = "dispatch" /\ pc' = "log"
    BY <1>7 DEF DispatchOk, bounds
  <2> QED BY <1>2, <1>7, <2>2, <2>3 DEF Started, Ran
<1>8. CASE DispatchFails \/ LogSuccess \/ Tick \/ UNCHANGED vars
  BY <1>2, <1>8 DEF DispatchFails, LogSuccess, Tick, vars, service, bounds, Started, Ran
<1>9. CASE \/ ReadBuiltin \/ Start \/ ListMissed \/ Recovered \/ GetNextDue \/ Sleep \/ WakeUp
  BY <1>2, <1>9 DEF ReadBuiltin, Start, ListMissed, Recovered, GetNextDue, Sleep, WakeUp, NextIteration,
     bounds, Started, Ran
<1>10. CASE RepoFails \/ Stop
  <2>1. /\ rows' = rows /\ hist' = hist /\ pc' \in {"off", "look"}
        /\ (stops' = stops + 1 /\ faults' = faults) \/ (faults' = faults + 1 /\ stops' = stops)
    BY <1>10 DEF RepoFails, Stop
  <2>2. stops <= stops' /\ faults <= faults' /\ stops + faults < stops' + faults' /\ ~Started(i)'
    BY <1>1, <2>1 DEF Started
  <2> QED BY <2>1, <2>2, StaysFollows
<1>11. ASSUME NEW c \in Callers, SaveNew(c) PROVE Follows(i)
  <2>1. PICK r : Wrote(NewId, r) /\ hist' = [hist EXCEPT ![made + 1] = [ran |-> 0, armed |-> 1, want |-> r.left]]
    BY <1>11, SaveNewIs
  <2>2. i # NewId /\ made + 1 \in 1 .. MaxCalls
    BY <1>11, SaveNewIs
  <2>3. rows[i].who # made + 1
    <3>1. rows[i].who \in 0 .. made \/ rows[i].who = MaxCalls + 1
      BY HeldTypes DEF Named, BuiltinName
    <3>2. made \in Nat /\ MaxCalls \in Nat
      BY DEF Typed, TypeOK, SchedulerAssumption
    <3> QED BY <2>2, <3>1, <3>2
  <2>4. hist'[rows[i].who] = hist[rows[i].who] /\ rows'[i] = rows[i]
    BY <1>1, <2>1, <2>2, <2>3 DEF Wrote
  <2> QED BY <1>2, <1>11, <2>4 DEF SaveNew, service, bounds, Started, Ran
<1>12. ASSUME NEW c \in Callers, WriteTask(c) PROVE Follows(i)
  BY <1>12, SwitchFollows
<1>13. ASSUME NEW c \in Callers,
             \/ CountBeforeCreate(c) \/ SaveEditor(c) \/ RunTaskNow(c) \/ Invalidate(c)
             \/ \E op \in Ops, j \in Ids : ReadTask(c, op, j)
      PROVE  Follows(i)
  BY <1>2, <1>13 DEF CountBeforeCreate, SaveEditor, RunTaskNow, Invalidate, ReadTask, service, bounds,
     Started, Ran
<1> QED BY <1>3, <1>4, <1>5, <1>6, <1>7, <1>8, <1>9, <1>10, <1>11, <1>12, <1>13
        DEF Next, Service, RecoverStuck, RecoverMissed, CallStep, Settles

\* The executions that the step settles, and the rows that it creates.
LEMMA RanAccounted ==
  ASSUME SchedulerAssumption, Typed, Typed', Traced, Accounts, DispatchOk,
         NEW i \in Ids, i = cur.id
  PROVE  Accounted(i)'
<1> DEFINE h == hist[rows[i].who]
           g == hist'[rows'[i].who]
<1>1. /\ cur.id \in Ids /\ Exists(cur.id) /\ Accounted(cur.id) /\ Counts(cur) /\ cur \in Held
      /\ cur \in Task /\ cur.row.who # 0 /\ rows[i].who = cur.row.who
  BY ExecutedIs DEF DispatchOk, Executing
<1>2. /\ stops \in Nat /\ faults \in Nat /\ rows[i].who \in Names /\ hist \in [Names -> Histories]
      /\ rows[i] \in Row /\ Likeness(cur.row, rows[i])
  BY <1>1, NamesAre, HeldTypes, SettledIs
<1>3. /\ rows' = rows /\ cur' = cur /\ stops' = stops /\ faults' = faults /\ pc = "dispatch" /\ pc' = "log"
      /\ hist' = [hist EXCEPT ![rows[i].who].ran = @ + 1]
  BY <1>1 DEF DispatchOk, bounds
<1>4. h \in Histories /\ g = [h EXCEPT !.ran = @ + 1]
  BY <1>2, <1>3
<1>5. h.ran \in Nat /\ h.armed \in Nat /\ g.ran = h.ran + 1 /\ g.armed = h.armed /\ g.want = h.want
  BY <1>4 DEF Histories
<1>6. Claims(i) \in Nat /\ Claims(i)' \in Nat /\ Claims(i)' = Claims(i) - 1
  BY <1>3 DEF Claims, Bit, Started
<1>7. Excess(i) = stops + faults /\ Excess(i)' = stops + faults + 1
  BY <1>2, <1>3 DEF Excess, Bit, Ran
<1>8. /\ h.want = Forever <=> rows[i].left = Forever
      /\ OneshotAccount(rows[i], h, Claims(i))
      /\ CountdownAccount(rows[i], h, stops + faults, Excess(i))
  BY <1>1 DEF Accounted
<1>9. rows[i].left # Forever => rows[i].status # "completed" /\ rows[i].left \in Int
  <2>1. rows[i].left # Forever => cur.row.kind = "recurrent" /\ cur.row.left # Forever
    BY <1>1, <1>2, <1>8 DEF OneshotAccount, Likeness, Row, Kinds
  <2> QED BY <1>1, <1>2, <2>1 DEF Counts, Row
<1> HIDE DEF h, g
<1>10. OneshotAccount(rows[i], g, Claims(i)')
  BY <1>5, <1>6, <1>8 DEF OneshotAccount
<1>11. CountdownAccount(rows[i], g, stops + faults, Excess(i)')
  <2> SUFFICES ASSUME h.want # Forever PROVE CountdownAccount(rows[i], g, stops + faults, Excess(i)')
    BY <1>5 DEF CountdownAccount
  <2>1. rows[i].status # "completed" /\ rows[i].left \in Int /\ h.want \in Int
    BY <1>4, <1>8, <1>9 DEF Histories
  <2> QED BY <1>2, <1>5, <1>7, <1>8, <2>1 DEF CountdownAccount
<1> QED BY <1>3, <1>5, <1>8, <1>10, <1>11 DEF Accounted, g, h

LEMMA FinishedAccounted ==
  ASSUME SchedulerAssumption, Typed, Typed', Traced, Accounts, FinalizeTask,
         NEW i \in Ids, i = cur.id
  PROVE  Accounted(i)'
<1> DEFINE h == hist[rows[i].who]
           l == Spent(cur.row.left)
<1>1. /\ cur.id \in Ids /\ Exists(cur.id) /\ Accounted(cur.id) /\ Counts(cur) /\ cur \in Held
      /\ cur \in Task /\ cur.row.who # 0
  BY ExecutedIs DEF FinalizeTask, Executing
<1>2. /\ stops \in Nat /\ faults \in Nat /\ rows[i].who \in Names /\ hist \in [Names -> Histories]
      /\ rows[i] \in Row /\ Likeness(cur.row, rows[i]) /\ cur.row \in Row
  BY <1>1, NamesAre, HeldTypes, SettledIs DEF Task
<1>3. /\ UNCHANGED <<hist, stops, faults>> /\ pc = "close" /\ pc' = "look"
      /\ Wrote(i, IF cur.row.kind = "oneshot" \/ l = 0 THEN Marked(i, "completed") ELSE Moved(cur, l))
  BY <1>1, ExecutionIs DEF FinalizeTask, NextIteration, bounds
<1>4. h \in Histories /\ cur.row.left \in Int \cup {Forever} /\ cur.row.kind \in Kinds
  BY <1>2 DEF Row
<1>5. Claims(i)' = Bit(rows'[i].status = "pending") /\ Claims(i) \in Nat /\ Claims(i)' \in Nat
  BY <1>3 DEF Claims, Bit, Started
<1>6. Excess(i) = stops + faults + 1 /\ Excess(i)' = stops + faults
  BY <1>2, <1>3 DEF Excess, Bit, Ran
<1>7. /\ h.want = Forever <=> rows[i].left = Forever
      /\ OneshotAccount(rows[i], h, Claims(i))
      /\ CountdownAccount(rows[i], h, stops + faults, Excess(i))
  BY <1>1 DEF Accounted
<1>8. /\ l = Forever <=> cur.row.left = Forever
      /\ l = 0 => cur.row.left = 1
      /\ cur.row.left \in Int => l = cur.row.left - 1
  BY <1>4, SpentIs
<1>9. cur.row.kind = rows[i].kind /\ (cur.row.left = Forever <=> rows[i].left = Forever)
  BY <1>2 DEF Likeness
<1>10. \A s : /\ Marked(i, s).status = s
              /\ \A f \in {"who", "kind", "left"} : Marked(i, s)[f] = rows[i][f]
  BY <1>1, SettledIs
<1>11. /\ Moved(cur, l).status = "pending" /\ Moved(cur, l).left = l
       /\ \A f \in {"who", "kind"} : Moved(cur, l)[f] = rows[i][f]
  BY <1>1, SettledIs
<1>12. rows[i].left # Forever =>
         /\ cur.row.kind = "recurrent" /\ cur.row.left = rows[i].left /\ cur.row.left \in Int
         /\ rows[i].status # "completed" /\ h.want \in Int
         /\ rows[i].left >= 1 /\ h.ran + rows[i].left <= h.want + stops + faults + 1
  <2>1. rows[i].left # Forever => cur.row.kind = "recurrent" /\ h.want # Forever /\ h.want \in Int
    BY <1>4, <1>7, <1>9 DEF OneshotAccount, Kinds, Histories
  <2>2. rows[i].left # Forever => /\ cur.row.left = rows[i].left /\ cur.row.left \in Int
                                  /\ rows[i].status # "completed"
    BY <1>1, <1>4, <1>9, <2>1 DEF Counts
  <2>3. rows[i].left # Forever => rows[i].left >= 1 /\ h.ran + rows[i].left <= h.want + Excess(i)
    BY <1>7, <2>1, <2>2 DEF CountdownAccount
  <2>4. h.ran \in Nat
    BY <1>4 DEF Histories
  <2> HIDE DEF h
  <2>5. rows[i].left # Forever => h.ran + rows[i].left <= h.want + stops + faults + 1
    BY <1>2, <1>6, <2>1, <2>2, <2>3, <2>4
  <2> QED BY <2>1, <2>2, <2>3, <2>5
<1>13. h.ran \in Nat /\ h.armed \in Nat
  BY <1>4 DEF Histories
<1> HIDE DEF h, l
<1>14. CASE cur.row.kind = "oneshot" \/ l = 0
  <2>1. rows'[i].status = "completed" /\ \A f \in {"who", "kind", "left"} : rows'[i][f] = rows[i][f]
    BY <1>3, <1>10, <1>14 DEF Wrote
  <2>2. OneshotAccount(rows'[i], h, Claims(i)')
    <3>1. Claims(i)' = 0
      BY <1>5, <2>1 DEF Bit
    <3> QED BY <1>5, <1>7, <1>13, <2>1, <3>1 DEF OneshotAccount
  <2>3. CountdownAccount(rows'[i], h, stops + faults, Excess(i)')
    <3> SUFFICES ASSUME h.want # Forever PROVE h.ran <= h.want + (stops + faults)
      BY <2>1 DEF CountdownAccount
    <3>1. rows[i].left # Forever
      BY <1>7
    <3> QED BY <1>2, <1>12, <1>13, <3>1, SMTT(30)
  <2>4. rows'[i].who = rows[i].who /\ rows'[i].left = rows[i].left
    BY <2>1
  <2> QED BY <1>3, <1>7, <2>2, <2>3, <2>4 DEF Accounted, h
<1>15. CASE ~(cur.row.kind = "oneshot" \/ l = 0)
  <2>1. /\ rows'[i].status = "pending" /\ rows'[i].left = l /\ rows'[i].kind = rows[i].kind
        /\ rows'[i].who = rows[i].who
    BY <1>3, <1>11, <1>15 DEF Wrote
  <2>2. OneshotAccount(rows'[i], h, Claims(i)')
    BY <1>9, <1>15, <2>1 DEF OneshotAccount
  <2>3. CountdownAccount(rows'[i], h, stops + faults, Excess(i)')
    <3> SUFFICES ASSUME h.want # Forever
                 PROVE  l >= 1 /\ h.ran + l <= h.want + (stops + faults)
      BY <1>6, <2>1 DEF CountdownAccount
    <3>1. rows[i].left # Forever
      BY <1>7
    <3>2. l = rows[i].left - 1 /\ rows[i].left \in Int /\ l # 0
      BY <1>8, <1>12, <1>15, <3>1
    <3>3. h.want \in Int /\ rows[i].left >= 1 /\ h.ran + rows[i].left <= h.want + stops + faults + 1
      BY <1>12, <3>1
    <3>4. l \in Int /\ l >= 1
      BY <3>2, <3>3
    <3>5. stops \in Int /\ faults \in Int /\ h.ran \in Int
      BY <1>2, <1>13
    <3>6. h.ran + l <= h.want + (stops + faults)
      <4>1. \A a, b, w, p, f \in Int : a + b <= w + p + f + 1 => a + (b - 1) <= w + (p + f)
        OBVIOUS
      <4>2. h.ran + (rows[i].left - 1) <= h.want + (stops + faults)
        BY <3>2, <3>3, <3>5, <4>1, Zenon
      <4> QED BY <3>2, <4>2
    <3> QED BY <3>4, <3>6
  <2>4. h.want = Forever <=> rows'[i].left = Forever
    BY <1>7, <1>8, <1>9, <2>1
  <2> QED BY <1>3, <2>1, <2>2, <2>3, <2>4 DEF Accounted, h
<1> QED BY <1>14, <1>15

LEMMA NewAccounted ==
  ASSUME SchedulerAssumption, OnlySwitches, Typed, Typed', Traced, Accounts, NEW c \in Callers, SaveNew(c),
         NEW n, n = NewId
  PROVE  Accounted(n)'
<1>1. PICK r \in Row : /\ Wrote(n, r) /\ r.who = made + 1 /\ r.status = "pending"
                       /\ r.left \in Lefts /\ (r.kind = "oneshot" => r.left = Forever)
                       /\ hist' = [hist EXCEPT ![made + 1] = [ran |-> 0, armed |-> 1, want |-> r.left]]
  BY SaveNewIs
<1>2. /\ n \in Ids /\ ~Exists(n) /\ made + 1 \in 1 .. MaxCalls /\ stops \in Nat /\ faults \in Nat
      /\ hist \in [Names -> Histories] /\ MaxCalls \in Nat
  BY SaveNewIs, NamesAre DEF SchedulerAssumption
<1>3. made + 1 \in Names
  BY <1>2 DEF Names, BuiltinName
<1>4. UNCHANGED <<pc, cur, stops, faults>>
  BY DEF SaveNew, service, bounds
<1> DEFINE g == [ran |-> 0, armed |-> 1, want |-> r.left]
<1>5. rows'[n] = r /\ hist'[rows'[n].who] = g
  BY <1>1, <1>2, <1>3 DEF Wrote
<1>6. g.ran = 0 /\ g.armed = 1 /\ g.want = r.left
  OBVIOUS
<1> HIDE DEF g
<1>7. ~Started(n)
  <2>1. Started(n) => Exists(n)
    BY ExecutedIs DEF Started, Executing
  <2> QED BY <1>2, <2>1
<1>8. Claims(n)' = 1
  BY <1>1, <1>4, <1>5, <1>7 DEF Claims, Bit, Started
<1>9. Excess(n)' \in Nat /\ stops' + faults' \in Nat
  BY <1>2, <1>4 DEF Excess, Bit
<1>10. OneshotAccount(r, g, Claims(n)')
  BY <1>1, <1>6, <1>8 DEF OneshotAccount
<1>11. CountdownAccount(r, g, stops' + faults', Excess(n)')
  <2>1. r.left # Forever => r.left \in Nat \ {0}
    BY <1>1 DEF OnlySwitches
  <2> QED BY <1>1, <1>6, <1>9, <2>1 DEF CountdownAccount
<1> QED BY <1>5, <1>6, <1>10, <1>11 DEF Accounted

LEMMA BuiltinAccounted ==
  ASSUME SchedulerAssumption, Traced', hist'[BuiltinName].want = Forever, Builtin \in Ids, Exists(Builtin)'
  PROVE  Accounted(Builtin)'
<1>1. BuiltinName' = BuiltinName /\ BuiltinName # 0 /\ Builtin # 0
  BY IdsAre DEF BuiltinName, SchedulerAssumption
<1>2. rows'[Builtin].who = BuiltinName
  BY <1>1 DEF Traced, BuiltinRow, Exists
<1>3. rows'[Builtin].kind = "recurrent" /\ rows'[Builtin].left = Forever
  BY <1>1, <1>2 DEF Traced, Endless
<1> QED BY <1>2, <1>3 DEF Accounted, OneshotAccount, CountdownAccount

LEMMA WantsKept ==
  ASSUME SchedulerAssumption, Typed, Accounts, [Next]_vars
  PROVE  hist'[BuiltinName].want = Forever
<1>1. /\ hist \in [Names -> Histories] /\ BuiltinName \in Names /\ hist[BuiltinName].want = Forever
  BY NamesAre DEF Accounts
<1>2. ASSUME NEW w, hist' = [hist EXCEPT ![w].ran = @ + 1] \/ hist' = [hist EXCEPT ![w].armed = @ + 1]
      PROVE  hist'[BuiltinName].want = Forever
  <2> DEFINE h == hist[BuiltinName]
  <2>1. h \in Histories
    BY <1>1
  <2>2. [h EXCEPT !.ran = @ + 1].want = h.want /\ [h EXCEPT !.armed = @ + 1].want = h.want
    BY <2>1 DEF Histories
  <2> QED BY <1>1, <1>2, <2>2
<1>3. ASSUME NEW c \in Callers, SaveNew(c) PROVE hist'[BuiltinName].want = Forever
  <2>1. PICK r \in Row : hist' = [hist EXCEPT ![made + 1] = [ran |-> 0, armed |-> 1, want |-> r.left]]
    BY <1>3, SaveNewIs
  <2>2. made + 1 # BuiltinName
    <3>1. made + 1 \in 1 .. MaxCalls /\ MaxCalls \in Nat
      BY <1>3, SaveNewIs DEF SchedulerAssumption
    <3> QED BY <3>1 DEF BuiltinName
  <2> QED BY <1>1, <2>1, <2>2
<1>4. ASSUME NEW c \in Callers, WriteTask(c) PROVE hist'[BuiltinName].want = Forever
  <2>1. \/ hist' = hist
        \/ hist' = [hist EXCEPT ![call[c].snap.row.who].armed = @ + 1]
    BY <1>4, WriteTaskIs
  <2> QED BY <1>1, <1>2, <2>1
<1>5. CASE DispatchOk
  BY <1>2, <1>5 DEF DispatchOk
<1>6. ASSUME hist' = hist PROVE hist'[BuiltinName].want = Forever
  BY <1>1, <1>6
<1>7. CASE Service /\ ~DispatchOk
  BY <1>6, <1>7 DEF Service, ReadBuiltin, ReconcileBuiltin, Start, RecoverStuck, RecoverOne, ListMissed,
     RecoverMissed, Recovered, GetNextDue, Sleep, WakeUp, MarkRunning, DispatchFails, Retry, GiveUp,
     LogSuccess, FinalizeTask
<1>8. CASE RepoFails \/ Stop \/ Tick \/ UNCHANGED vars
  BY <1>6, <1>8 DEF RepoFails, Stop, Tick, vars
<1>9. ASSUME NEW c \in Callers,
             \/ CountBeforeCreate(c) \/ SaveEditor(c) \/ RunTaskNow(c) \/ Invalidate(c)
             \/ \E op \in Ops, j \in Ids : ReadTask(c, op, j)
      PROVE  hist'[BuiltinName].want = Forever
  BY <1>6, <1>9 DEF CountBeforeCreate, SaveEditor, RunTaskNow, Invalidate, ReadTask
<1> QED BY <1>3, <1>4, <1>5, <1>7, <1>8, <1>9 DEF Next, CallStep

LEMMA RowAccounted ==
  ASSUME SchedulerAssumption, OnlySwitches, Typed, Typed', Traced, Traced', Accounts, [Next]_vars,
         NEW i \in Ids, Exists(i)'
  PROVE  Accounted(i)'
<1>1. hist'[BuiltinName].want = Forever
  BY WantsKept
<1>2. CASE i = Builtin
  BY <1>1, <1>2, BuiltinAccounted
<1>3. CASE Exists(i) /\ i # Builtin
  <2>1. Accounted(i) /\ (Follows(i) \/ Settles(i))
    BY <1>3, RowFollows DEF Accounts
  <2>2. CASE Follows(i)
    BY <1>3, <2>1, <2>2, AccountFollows
  <2>3. CASE Settles(i)
    BY <1>3, <2>3, RanAccounted, FinishedAccounted DEF Settles
  <2> QED BY <2>1, <2>2, <2>3
<1>4. CASE ~Exists(i) /\ i # Builtin
  <2>1. Evolves(i)
    BY RowsEvolve DEF OnlySwitches, NoDeletions
  <2>2. rows'[i].who # rows[i].who
    BY <1>4 DEF Exists
  <2>3. i = NewId /\ made' = made + 1
    BY <1>4, <2>1, <2>2 DEF Evolves
  <2>4. made \in Nat
    BY DEF Typed, TypeOK
  <2>5. \E c \in Callers : SaveNew(c)
    <3>1. made' # made
      BY <2>3, <2>4
    <3>2. CASE Service \/ RepoFails \/ Stop \/ Tick \/ UNCHANGED vars
      BY <3>1, <3>2 DEF Service, RepoFails, Stop, Tick, vars, ReadBuiltin, ReconcileBuiltin, Start,
         RecoverStuck, RecoverOne, ListMissed, RecoverMissed, Recovered, GetNextDue, Sleep, WakeUp,
         MarkRunning, DispatchOk, DispatchFails, Retry, GiveUp, LogSuccess, FinalizeTask
    <3>3. ASSUME NEW c \in Callers, CallStep(c) PROVE SaveNew(c)
      BY <3>1, <3>3 DEF CallStep, CountBeforeCreate, SaveEditor, RunTaskNow, Invalidate, ReadTask, WriteTask
    <3> QED BY <3>2, <3>3 DEF Next
  <2> QED BY <2>3, <2>5, NewAccounted
<1> QED BY <1>2, <1>3, <1>4

(***************************************************************************)
(* The copies that the loop settles by, and the status of running          *)
(***************************************************************************)
LEMMA FreshCounts ==
  ASSUME SchedulerAssumption, Typed, Traced, [Next]_vars,
         NEW t \in Fresh, t \in {cur'} \cup todo', t \notin {cur} \cup todo, t.row.who # 0
  PROVE  rows' = rows /\ (t.row.left # Forever => rows[t.id].status # "completed")
<1>1. PICK i \in Ids : t.id = i /\ t.row = rows[i]
  BY DEF Fresh, Copy
<1>2. CASE ReadBuiltin
  <2>1. t = Copy(Builtin)
    BY <1>2 DEF ReadBuiltin
  <2>2. t.row.left = Forever
    BY <1>1, <1>2, <2>1, IdsAre DEF ReadBuiltin, Copy, Traced, BuiltinRow, Endless
  <2> QED BY <1>2, <2>2 DEF ReadBuiltin
<1>3. CASE Start \/ ListMissed \/ GetNextDue
  <2>1. rows' = rows /\ \E j \in Ids : t = Copy(j) /\ rows[j].status \in {"running", "pending"}
    <3>1. CASE Start
      BY <3>1 DEF Start, Copies, Copy
    <3>2. CASE ListMissed
      BY <3>2 DEF ListMissed, Copies, Copy, Candidates
    <3>3. CASE GetNextDue
      <4>1. t = cur' /\ t # NoTask
        BY <3>3 DEF GetNextDue, NoTask, NoRow
      <4> QED BY <3>3, <4>1 DEF GetNextDue, Copies, Copy, Candidates
    <3> QED BY <1>3, <3>1, <3>2, <3>3
  <2> QED BY <2>1 DEF Copy
<1>4. CASE ~(ReadBuiltin \/ Start \/ ListMissed \/ GetNextDue)
  <2>1. cur' \in {cur, NoTask} /\ todo' \subseteq todo
    <3>1. CASE Service \/ RepoFails \/ Stop \/ Tick \/ UNCHANGED vars
      BY <1>4, <3>1 DEF Service, RepoFails, Stop, Tick, vars, service, ReconcileBuiltin, RecoverStuck,
         RecoverOne, RecoverMissed, Recovered, Sleep, WakeUp, MarkRunning, DispatchOk, DispatchFails, Retry,
         GiveUp, LogSuccess, FinalizeTask, NextIteration, ForgetLocals
    <3>2. ASSUME NEW c \in Callers, CallStep(c) PROVE UNCHANGED <<cur, todo>>
      BY <3>2 DEF CallStep, CountBeforeCreate, SaveNew, ReadTask, SaveEditor, WriteTask, RunTaskNow,
         Invalidate, service
    <3> QED BY <3>1, <3>2 DEF Next
  <2> QED BY <2>1 DEF NoTask, NoRow
<1> QED BY <1>2, <1>3, <1>4

LEMMA CountsKept ==
  ASSUME SchedulerAssumption, OnlySwitches, Typed, Typed', Traced, Accounts, [Next]_vars,
         NEW t \in {cur'} \cup todo'
  PROVE  Counts(t)'
<1> SUFFICES ASSUME t.row.who # 0, t.row.kind = "recurrent"
             PROVE  /\ rows'[t.id].left = t.row.left
                    /\ t.row.left # Forever => rows'[t.id].status # "completed"
  BY DEF Counts
<1>1. NoTask.row.who = 0
  BY DEF NoTask, NoRow
<1>2. t \in {cur} \cup todo \cup Fresh
  BY <1>1, LoopHolds
<1>3. CASE t \in {cur} \cup todo
  <2>1. t \in Held /\ Counts(t)
    BY <1>3 DEF Held, Accounts
  <2>2. t.id \in Ids /\ Exists(t.id)
    BY <2>1, SettledIs
  <2>3. rows[t.id].left = t.row.left /\ (t.row.left # Forever => rows[t.id].status # "completed")
    BY <2>1 DEF Counts
  <2>4. CASE Follows(t.id)
    BY <2>3, <2>4 DEF Follows
  <2>5. CASE ReconcileBuiltin \/ FinalizeTask
    <3>1. cur' = NoTask /\ todo' = {}
      BY <2>5 DEF ReconcileBuiltin, FinalizeTask, NextIteration, ForgetLocals, Traced, Reads
    <3> QED BY <1>1, <3>1
  <2>6. CASE DispatchOk
    BY <2>3, <2>6 DEF DispatchOk
  <2> QED BY <2>2, <2>4, <2>5, <2>6, RowFollows DEF Settles
<1>4. CASE t \in Fresh /\ t \notin {cur} \cup todo
  <2>1. rows' = rows /\ (t.row.left # Forever => rows[t.id].status # "completed")
    BY <1>4, FreshCounts
  <2> QED BY <1>4, <2>1 DEF Fresh, Copy
<1> QED BY <1>2, <1>3, <1>4

\* Nobody but the loop takes a task out of pending.
LEMMA DecidesKept ==
  ASSUME SchedulerAssumption, OnlySwitches, Typed, Traced, Accounts, [Next]_vars,
         pc' = "decide", cur' # NoTask
  PROVE  rows'[cur'.id].status = "pending"
<1>1. CASE GetNextDue
  BY <1>1 DEF GetNextDue, Copies, Candidates
<1>2. ASSUME pc = "decide", cur' = cur PROVE rows[cur'.id].status = "pending"
  BY <1>2 DEF Accounts
<1>3. CASE (Service /\ ~GetNextDue) \/ RepoFails \/ Stop \/ Tick \/ UNCHANGED vars
  <2>1. pc = "decide" /\ cur' = cur /\ rows' = rows
    BY <1>3 DEF Service, RepoFails, Stop, Tick, vars, service, ReadBuiltin, ReconcileBuiltin, Start,
       RecoverStuck, RecoverOne, ListMissed, RecoverMissed, Recovered, Sleep, WakeUp, MarkRunning,
       DispatchOk, DispatchFails, Retry, GiveUp, LogSuccess, FinalizeTask, NextIteration
  <2> QED BY <1>2, <2>1
<1>4. ASSUME NEW c \in Callers, CallStep(c) PROVE rows'[cur'.id].status = "pending"
  <2>1. pc = "decide" /\ cur' = cur
    BY <1>4 DEF CallStep, CountBeforeCreate, SaveNew, ReadTask, SaveEditor, WriteTask, RunTaskNow,
       Invalidate, service
  <2>2. rows[cur.id].status = "pending" /\ cur.id \in Ids /\ Exists(cur.id)
    BY <1>2, <2>1, SettledIs DEF Traced, Reads, Held
  <2>3. CASE SaveNew(c)
    BY <2>1, <2>2, <2>3, SaveNewIs DEF Wrote
  <2>4. CASE WriteTask(c)
    BY <2>1, <2>2, <2>4, SwitchIs DEF Wrote
  <2>5. CASE ~SaveNew(c) /\ ~WriteTask(c)
    BY <1>4, <2>1, <2>2, <2>5 DEF CallStep, CountBeforeCreate, ReadTask, SaveEditor, RunTaskNow, Invalidate
  <2> QED BY <2>3, <2>4, <2>5
<1> QED BY <1>1, <1>3, <1>4 DEF Next

LEMMA RunningKept ==
  ASSUME SchedulerAssumption, OnlySwitches, Typed, Typed', Traced, Accounts, [Next]_vars
  PROVE  RunningIsExecuted'
<1> DEFINE Watched == pc \notin {"off", "builtin", "reconciled"} /\ faults = 0
           Run(i) == rows[i].status = "running"
<1>1. SUFFICES ASSUME Watched', NEW i \in Ids, Run(i)'
               PROVE  \/ pc' \in Executing /\ cur'.id = i
                      \/ pc' = "stuck" /\ \E t \in todo' : t.id = i
  BY DEF RunningIsExecuted, Executing
<1>2. Watched /\ Run(i) => \/ pc \in Executing /\ cur.id = i
                           \/ pc = "stuck" /\ \E t \in todo : t.id = i
  BY DEF Accounts, RunningIsExecuted
<1>3. faults \in Nat /\ \A t \in todo : t.row.who # 0 /\ t \in Held
  BY DEF Typed, TypeOK, Traced, Reads, Held
<1>4. CASE ReadBuiltin \/ ReconcileBuiltin \/ RepoFails \/ Stop
  BY <1>1, <1>3, <1>4 DEF ReadBuiltin, ReconcileBuiltin, RepoFails, Stop
<1>5. CASE Start
  <2>1. rows' = rows /\ pc' = "stuck"
        /\ todo' = Copies({j \in Ids : Exists(j) /\ rows[j].status = "running"})
    BY <1>5 DEF Start
  <2>2. NoRow.status # "running"
    BY DEF NoRow
  <2>3. Exists(i) /\ rows[i].status = "running"
    BY <1>1, <2>1, <2>2 DEF Exists, Traced, Blank
  <2>4. [id |-> i, row |-> rows[i]] \in todo'
    BY <2>1, <2>3 DEF Copies
  <2> QED BY <2>1, <2>4
<1>6. ASSUME NEW t \in todo, NEW s \in {"failed", "missed"}, RecoverOne(t, s), pc \in {"stuck", "missed"}
      PROVE  pc' = "stuck" /\ \E u \in todo' : u.id = i
  <2>1. Wrote(t.id, IF t.row.kind = "oneshot" THEN Marked(t.id, s) ELSE Moved(t, t.row.left))
    BY <1>6, RecoverIs
  <2>2. t.id \in Ids /\ rows'[t.id].status # "running"
    BY <1>3, <2>1, RecoverIs, <1>6, SettledIs, SMTT(30) DEF Wrote
  <2>3. i # t.id /\ rows'[i] = rows[i]
    BY <1>1, <2>1, <2>2 DEF Wrote
  <2>4. pc' = pc /\ todo' = todo \ {t} /\ faults' = faults
    BY <1>6 DEF RecoverOne, bounds
  <2> QED BY <1>1, <1>2, <1>6, <2>3, <2>4 DEF Executing
<1>7. CASE ListMissed \/ Recovered \/ GetNextDue \/ Sleep \/ WakeUp
  <2>1. /\ rows' = rows /\ faults' = faults
        /\ pc \in {"stuck", "missed", "look", "decide", "asleep"} /\ (pc = "stuck" => todo = {})
    BY <1>7 DEF ListMissed, Recovered, GetNextDue, Sleep, WakeUp, bounds
  <2> QED BY <1>1, <1>2, <2>1 DEF Executing
<1>8. CASE MarkRunning \/ Retry
  <2>1. cur.id \in Ids
    BY <1>8, ExecutedIs DEF MarkRunning, Retry, Executing
  <2>2. Wrote(cur.id, Marked(cur.id, "running"))
    BY <1>8, <2>1, ExecutionIs
  <2>3. pc \in {"decide", "retry"} /\ cur' = cur /\ pc' \in {"dispatch", "fail"} /\ faults' = faults
    BY <1>8 DEF MarkRunning, Retry, bounds
  <2>4. i # cur.id => rows'[i] = rows[i]
    BY <2>2 DEF Wrote
  <2>5. i # cur.id => ~Run(i)
    BY <1>1, <1>2, <2>3 DEF Executing
  <2> QED BY <1>1, <2>3, <2>4, <2>5 DEF Executing
<1>9. CASE GiveUp \/ FinalizeTask
  <2>1. cur \in Held /\ cur.row.who # 0 /\ cur.id \in Ids
    BY <1>9, ExecutedIs DEF GiveUp, FinalizeTask, Executing
  <2>2. \/ \E s \in {"failed", "completed"} : Wrote(cur.id, Marked(cur.id, s))
        \/ \E l : Wrote(cur.id, Moved(cur, l))
    BY <1>9, <2>1, ExecutionIs
  <2>3. rows'[cur.id].status # "running" /\ \A j \in Ids \ {cur.id} : rows'[j] = rows[j]
    BY <2>1, <2>2, SettledIs DEF Wrote
  <2>4. pc \in {"fail", "close"} /\ faults' = faults
    BY <1>9 DEF GiveUp, FinalizeTask, bounds
  <2> QED BY <1>1, <1>2, <2>3, <2>4
<1>10. CASE DispatchOk \/ DispatchFails \/ LogSuccess \/ Tick \/ UNCHANGED vars
  BY <1>1, <1>2, <1>10 DEF DispatchOk, DispatchFails, LogSuccess, Tick, vars, service, bounds, Executing
<1>11. ASSUME NEW c \in Callers, CallStep(c)
       PROVE  \/ pc' \in Executing /\ cur'.id = i
              \/ pc' = "stuck" /\ \E t \in todo' : t.id = i
  <2>1. UNCHANGED <<pc, cur, todo, faults>>
    BY <1>11 DEF CallStep, CountBeforeCreate, SaveNew, ReadTask, SaveEditor, WriteTask, RunTaskNow,
       Invalidate, service, bounds
  <2>2. Run(i)' => Run(i)
    <3>1. CASE SaveNew(c)
      BY <3>1, SaveNewIs DEF Wrote
    <3>2. CASE WriteTask(c)
      BY <3>2, SwitchIs DEF Wrote
    <3>3. CASE ~SaveNew(c) /\ ~WriteTask(c)
      BY <1>11, <3>3 DEF CallStep, CountBeforeCreate, ReadTask, SaveEditor, RunTaskNow, Invalidate
    <3> QED BY <3>1, <3>2, <3>3
  <2> QED BY <1>1, <1>2, <2>1, <2>2
<1> QED BY <1>4, <1>5, <1>6, <1>7, <1>8, <1>9, <1>10, <1>11 DEF Next, Service, RecoverStuck, RecoverMissed

LEMMA AccountsInit == ASSUME SchedulerAssumption, Init PROVE Accounts
<1>1. /\ \A i \in Ids : rows[i] = NoRow
      /\ cur = NoTask /\ todo = {} /\ pc = "off"
      /\ hist = [w \in Names |-> [ran |-> 0, armed |-> 0, want |-> Forever]]
  BY DEF Init
<1>2. NoRow.who = 0 /\ NoTask.row = NoRow
  BY DEF NoRow, NoTask
<1>3. BuiltinName \in Names
  BY DEF Names, BuiltinName, SchedulerAssumption
<1> QED BY <1>1, <1>2, <1>3 DEF Accounts, Exists, Counts, RunningIsExecuted

LEMMA AccountsKept ==
  ASSUME SchedulerAssumption, OnlySwitches, Typed, Typed', Traced, Traced', Accounts, [Next]_vars
  PROVE  Accounts'
<1>1. \A i \in Ids : Exists(i)' => Accounted(i)'
  BY RowAccounted
<1>2. hist'[BuiltinName].want = Forever /\ RunningIsExecuted'
  BY WantsKept, RunningKept
<1>3. \A t \in {cur'} \cup todo' : Counts(t)'
  BY CountsKept
<1>4. pc' = "decide" /\ cur' # NoTask => rows'[cur'.id].status = "pending"
  BY DecidesKept
<1> QED BY <1>1, <1>2, <1>3, <1>4 DEF Accounts, BuiltinName, NoTask, NoRow

LEMMA AccountsAreKept ==
  ASSUME SchedulerAssumption, Typed, Accounts PROVE RunsAsAsked
<1>1. RunningIsExecuted
  BY DEF Accounts
<1>2. \A i \in Ids : Exists(i) => Accounted(i) /\ rows[i].who \in Names /\ hist \in [Names -> Histories]
  BY NamesAre DEF Accounts
<1>3. stops \in Nat /\ faults \in Nat
  BY NamesAre
<1>4. OneshotRunsOnce
  <2> SUFFICES ASSUME NEW i \in Ids, Exists(i), rows[i].kind = "oneshot"
               PROVE  hist[rows[i].who].ran <= hist[rows[i].who].armed
    BY DEF OneshotRunsOnce
  <2>1. hist[rows[i].who].ran + Claims(i) <= hist[rows[i].who].armed
    BY <1>2 DEF Accounted, OneshotAccount
  <2>2. Claims(i) \in Nat /\ hist[rows[i].who] \in Histories
    BY <1>2 DEF Claims, Bit
  <2>3. hist[rows[i].who].ran \in Nat /\ hist[rows[i].who].armed \in Nat
    BY <2>2 DEF Histories
  <2> QED BY <2>1, <2>2, <2>3
<1>5. CountdownHolds
  <2> SUFFICES ASSUME NEW i \in Ids, Exists(i), hist[rows[i].who].want # Forever
               PROVE  hist[rows[i].who].ran <= hist[rows[i].who].want + stops + faults
    BY DEF CountdownHolds
  <2> DEFINE h == hist[rows[i].who]
  <2>1. h \in Histories /\ rows[i] \in Row /\ rows[i].left # Forever
        /\ CountdownAccount(rows[i], h, stops + faults, Excess(i))
    BY <1>2, HeldTypes DEF Accounted
  <2>2. h.ran \in Nat /\ h.want \in Int /\ rows[i].left \in Int
    BY <2>1 DEF Histories, Row
  <2>3. CASE rows[i].status = "completed"
    BY <1>3, <2>1, <2>2, <2>3 DEF CountdownAccount
  <2>4. CASE rows[i].status # "completed"
    <3>1. Excess(i) \in Nat /\ Excess(i) <= stops + faults + 1
      BY <1>3 DEF Excess, Bit
    <3>2. rows[i].left >= 1 /\ h.ran + rows[i].left <= h.want + Excess(i)
      BY <2>1, <2>4 DEF CountdownAccount
    <3>3. \A a, b, w, p, f, e \in Int : b >= 1 /\ a + b <= w + e /\ e <= p + f + 1 => a <= w + p + f
      OBVIOUS
    <3>4. stops \in Int /\ faults \in Int /\ h.ran \in Int /\ h.want \in Int /\ Excess(i) \in Int
      BY <1>3, <2>2, <3>1
    <3> QED BY <2>2, <3>1, <3>2, <3>3, <3>4, Zenon
  <2> QED BY <2>3, <2>4
<1> QED BY <1>1, <1>4, <1>5 DEF RunsAsAsked

\* What the agenda owes a task, crashes, failing repository calls and every
\* interleaving with the calls included: a row is running only while the loop
\* executes it or a start has still to recover it; a oneshot's trigger
\* succeeds at most once for each time a user armed it; and a recurrent with
\* executions_remaining N runs at most N times, plus one for each execution
\* that a stop or a failing repository call cut before it was settled.  It
\* takes calls that write the columns they change (a rename, an edit or a
\* reschedule saves the whole row as it was read: run v_stuck), and a
\* countdown that starts at one or more, which no code validates.
THEOREM TasksRunAsAsked ==
  ASSUME OnlySwitches PROVE Safety => []RunsAsAsked
<1>1. Init => Typed /\ Traced /\ Accounts
  BY SchedulerAssumption, TypedInit, TracedInit, AccountsInit
<1>2. NoDeletions
  BY DEF OnlySwitches, NoDeletions
<1>3. Typed /\ Traced /\ Accounts /\ [Next]_vars => Typed' /\ Traced' /\ Accounts'
  <2> SUFFICES ASSUME Typed, Traced, Accounts, [Next]_vars PROVE Typed' /\ Traced' /\ Accounts'
    OBVIOUS
  <2>1. Typed' /\ Traced'
    BY <1>2, SchedulerAssumption, TypedKept, TracedKept
  <2> QED BY <2>1, SchedulerAssumption, AccountsKept
<1>4. Typed /\ Accounts => RunsAsAsked
  BY SchedulerAssumption, AccountsAreKept
<1> QED BY <1>1, <1>3, <1>4, PTL DEF Safety
=============================================================================
