--------------------------- MODULE BackgroundQueue ---------------------------
(***************************************************************************)
(* The durable queue of background delegations                             *)
(* (inaki/agents/delegation/background_queue.py) and the bg_tasks table it *)
(* writes (sqlite_task_store.py).                                          *)
(*                                                                         *)
(* The queue is one asyncio program: whatever runs between two awaits is   *)
(* one action here, and every await is a place where the other coroutines  *)
(* may run.  A delegation runs as one or more LEGS ("tramos"): the child   *)
(* may close a leg with a question, the parent answers with resume, and    *)
(* the next leg continues the same row.  Store writes go through the one   *)
(* FIFO of the aiosqlite connection (disk); a coroutine that persists      *)
(* waits until its statement has been applied.                             *)
(***************************************************************************)
EXTENDS Naturals, Sequences, FiniteSets

CONSTANTS
  Tasks,          \* delegations that may be enqueued, each at most once
  MaxConcurrent,  \* slots of the semaphore (max_concurrent)
  Budget,         \* max_iterations, counted in legs: a leg spends one unit
  Scopes,         \* conversations: (caller, channel, chat)
  ScopeOf,        \* the conversation each delegation was asked from
  Silent,         \* the conversations no live channel can be notified on
  Keep,           \* "this column is not in the UPDATE"
  TurnsDuringStop,\* may a parent's turn still call the queue while it stops?
  Retention,      \* may a start find rows older than the retention?
  MaxStops,       \* bound: stops and crashes of the daemon
  MaxFaults       \* bound: store operations that fail

Terminales == {"delivered", "cancelled", "dismissed"}
Status == Terminales \cup
          {"queued", "running", "delivering", "delivery_failed",
           "interrupted", "awaiting_input"}
Absent == "absent"       \* no row, or no object, with that id
Legs == 1 .. Budget

ASSUME QueueAssumption ==
  /\ MaxConcurrent \in Nat \ {0}
  /\ Budget \in Nat \ {0}
  /\ ScopeOf \in [Tasks -> Scopes]
  /\ Silent \subseteq Scopes
  /\ TurnsDuringStop \in BOOLEAN
  /\ Retention \in BOOLEAN
  /\ MaxStops \in Nat /\ MaxFaults \in Nat
  /\ Keep \notin Status /\ Keep # Absent
  /\ Keep \notin BOOLEAN /\ Keep \notin Nat

VARIABLES
  phase,          \* the daemon: down, up, draining, cutting, sweeping
  store,          \* _store: open, or none after a failed _abrir_store
  registrando,    \* ids whose INSERT was applied, their enqueue not resumed
  tasks,          \* _tasks: ids in the dict, the live delegations
  task,           \* the BackgroundTask object behind each id
  queue,          \* _queue: the FIFO the consumer reads
  pc,             \* where each leg's coroutine is suspended
  handles,        \* _handles: the leg cancel would cut (0: none)
  en_entrega,     \* _en_entrega: first legs that resume took out of handles
  resume,         \* the resume coroutine of each id; not idle: _reanudando
  reanudaciones,  \* _reanudaciones: answers waiting for their leg
  sin_persistir,  \* _sin_persistir: ids whose persistence broke
  aviso,          \* the startup notice: groups to do, group being told
  sweep,          \* <<t, status>> listed by _cerrar_huerfanas at stop
  disk,           \* statements handed to the connection, not yet applied
  rows,           \* the bg_tasks table
  stops, faults,  \* how many of each bound were used
  asked,          \* history: <<t, n>>, a turn of the parent was told how
                  \*          leg n left t (its question, or its interruption)
  told            \* history: how often the result of t was dispatched

process == <<phase, store, stops>>
legvars == <<pc, handles, en_entrega>>
apivars == <<resume, reanudaciones>>
durable == <<rows, faults>>
history == <<asked, told>>
vars == <<process, registrando, tasks, task, queue, legvars, apivars,
          sin_persistir, aviso, sweep, disk, durable, history>>

(***************************************************************************)
(* Records.  finished_at identifies a pause in the code; so does the leg   *)
(* that paused, which iterations_used ("used") counts.  cut is             *)
(* transcript_incomplete.                                                  *)
(***************************************************************************)
Record == [status: Status \cup {Absent}, notified: BOOLEAN,
           used: 0 .. Budget, cut: BOOLEAN]
Change == [status: Status \cup {Keep}, notified: BOOLEAN \cup {Keep},
           used: (0 .. Budget) \cup {Keep}, cut: BOOLEAN \cup {Keep}]
Statement == [to: SUBSET Tasks, set: Change,
              by: {"leg", "resume", "cancel", "aviso", "row"},
              leg: 0 .. Budget]

NoRecord == [status |-> Absent, notified |-> TRUE, used |-> 0, cut |-> FALSE]
NoChange == [status |-> Keep, notified |-> Keep, used |-> Keep, cut |-> Keep]
NewTask == [NoRecord EXCEPT !.status = "queued"]

\* The record r after the assignments (or the UPDATE) c.
New(old, new) == IF new = Keep THEN old ELSE new
Apply(r, c) == [status |-> New(r.status, c.status),
                notified |-> New(r.notified, c.notified),
                used |-> New(r.used, c.used), cut |-> New(r.cut, c.cut)]

To(s) == [NoChange EXCEPT !.status = s]
ToDelivering(n) == [To("delivering") EXCEPT !.used = n]
ToAwaiting(n) == [To("awaiting_input") EXCEPT !.used = n, !.notified = FALSE]
Notified == [NoChange EXCEPT !.notified = TRUE]
ToQueuedAgain == [To("queued") EXCEPT !.notified = TRUE]
ToDismissed == [To("dismissed") EXCEPT !.notified = TRUE]
TranscriptCut == [NoChange EXCEPT !.cut = TRUE]

(***************************************************************************)
(* Persistence.                                                            *)
(***************************************************************************)
Durable(t) == store = "open" /\ t \notin sin_persistir

PersistirAdelantado(t, c, by, n) ==
  disk' = IF Durable(t)
          THEN <<[to |-> {t}, set |-> c, by |-> by, leg |-> n]>> \o disk
          ELSE disk

Persistir(t, c, by, n) ==
  disk' = IF Durable(t)
          THEN Append(disk, [to |-> {t}, set |-> c, by |-> by, leg |-> n])
          ELSE disk

\* The transitions after which an answer that did not run is forgotten.
OlvidaRespuesta == Terminales \cup {"interrupted"}

\* The only mutator of a live delegation: the object first, then the row.
Transicionar(t, c, by, n) ==
  /\ task' = [task EXCEPT ![t] = Apply(@, c)]
  /\ tasks' = IF c.status \in Terminales THEN tasks \ {t} ELSE tasks
  /\ reanudaciones' = IF c.status \in OlvidaRespuesta
                      THEN reanudaciones \ {t} ELSE reanudaciones
  /\ Persistir(t, c, by, n)

\* The coroutine of kind `by` (leg n) of t still waits for its statement.
Writing(t, by, n) ==
  \E i \in DOMAIN disk : t \in disk[i].to /\ disk[i].by = by /\ disk[i].leg = n

Pcs == {"none", "sem", "starting", "child", "snapshot", "marking", "pausing",
        "asking", "handing", "dispatching", "closing"}
Holding == {x \in Tasks \X Legs : pc[x[1]][x[2]] \notin {"none", "sem"}}
Goto(t, n, place) == pc' = [pc EXCEPT ![t][n] = place]

\* Leg n of t resumes at `from`: its coroutine is there and its own
\* statement, if any, has been applied.
AtSinEsperar(t, n, from) == pc[t][n] = from
At(t, n, from) == pc[t][n] = from /\ ~Writing(t, "leg", n)

\* A parent's turn (or the operator) may call the queue.
MayCall == \/ phase = "up"
           \/ TurnsDuringStop /\ phase \in {"draining", "cutting", "sweeping"}

(***************************************************************************)
(* enqueue: the INSERT gives the id, and only when it returns does the     *)
(* delegation enter the dict and the FIFO.  A failed INSERT, or no store,  *)
(* leaves a delegation with an in-memory id.                               *)
(***************************************************************************)
Nueva(t) ==
  task[t].status = Absent /\ rows[t].status = Absent /\ t \notin registrando

EnElDict(t) ==
  /\ task' = [task EXCEPT ![t] = NewTask]
  /\ tasks' = tasks \cup {t}
  /\ queue' = Append(queue, t)

Registrar(t) ==
  /\ MayCall /\ Nueva(t) /\ store = "open"
  /\ rows' = [rows EXCEPT ![t] = NewTask]
  /\ registrando' = registrando \cup {t}
  /\ UNCHANGED <<process, tasks, task, queue, legvars, apivars, sin_persistir,
                 aviso, sweep, disk, faults, history>>

Enqueue(t) ==
  /\ MayCall /\ t \in registrando
  /\ registrando' = registrando \ {t}
  /\ EnElDict(t)
  /\ UNCHANGED <<process, legvars, apivars, sin_persistir, aviso, sweep, disk,
                 durable, history>>

EnqueueEnMemoria(t) ==
  /\ MayCall /\ Nueva(t)
  /\ \/ /\ store = "open" /\ faults < MaxFaults
        /\ faults' = faults + 1
        /\ sin_persistir' = sin_persistir \cup {t}
     \/ store = "none" /\ UNCHANGED <<sin_persistir, faults>>
  /\ EnElDict(t)
  /\ UNCHANGED <<process, registrando, legvars, apivars, aviso, sweep, disk,
                 rows, history>>

(***************************************************************************)
(* The consumer launches one coroutine per queued id; an id that left the  *)
(* dict while it waited is skipped.                                        *)
(***************************************************************************)
Loop ==
  /\ phase = "up" /\ queue # <<>>
  /\ queue' = Tail(queue)
  /\ LET t == Head(queue)
         n == task[t].used + 1
     IN IF t \in tasks
        THEN /\ Goto(t, n, "sem")
             /\ handles' = [handles EXCEPT ![t] = n]
        ELSE UNCHANGED <<pc, handles>>
  /\ UNCHANGED <<process, registrando, tasks, task, en_entrega, apivars,
                 sin_persistir, aviso, sweep, disk, durable, history>>

\* Whoever takes a leg out of _handles.
ConHandle(t) == handles
SinHandle(t) == [handles EXCEPT ![t] = 0]

\* The leg's coroutine ends: its done callback forgets that handle only.
OlvidarHandle(t, n) ==
  /\ Goto(t, n, "none")
  /\ handles' = IF handles[t] = n THEN SinHandle(t) ELSE handles
  /\ en_entrega' = en_entrega \ {<<t, n>>}

\* _run_task: a slot of the semaphore, then the first transition.
RunTask(t, n) ==
  /\ pc[t][n] = "sem"
  /\ Cardinality(Holding) < MaxConcurrent
  /\ IF t \in tasks
     THEN /\ Transicionar(t, To("running"), "leg", n)
          /\ Goto(t, n, "starting")
          /\ UNCHANGED <<handles, en_entrega>>
     ELSE /\ OlvidarHandle(t, n)
          /\ UNCHANGED <<task, tasks, reanudaciones, disk>>
  /\ UNCHANGED <<process, registrando, queue, resume, sin_persistir, aviso,
                 sweep, durable, history>>

(***************************************************************************)
(* The child.  _ejecutar_hijo takes the pending answer when the leg        *)
(* starts; the child then ends in a result (success, failure or timeout:   *)
(* all of them are delivered) or asks a question.                          *)
(***************************************************************************)
EjecutarHijo(t, n) ==
  /\ At(t, n, "starting")
  /\ Goto(t, n, "child")
  /\ reanudaciones' = reanudaciones \ {t}
  /\ UNCHANGED <<process, registrando, tasks, task, queue, handles,
                 en_entrega, resume, sin_persistir, aviso, sweep, disk,
                 durable, history>>

\* The result is written in the same transition, before the dispatch.
Entregar(t, n) ==
  /\ Transicionar(t, ToDelivering(n), "leg", n)
  /\ Goto(t, n, "handing")

HijoTermina(t, n) ==
  /\ pc[t][n] = "child"
  /\ Entregar(t, n)
  /\ UNCHANGED <<process, registrando, queue, handles, en_entrega, resume,
                 sin_persistir, aviso, sweep, durable, history>>

\* A leg that used n units leaves at least one for the next.
QuedaCero(n) == Budget - n >= 0
QuedaParaOtro(n) == Budget - n >= 1

\* _desenlace_de_pausa: a question pauses only when the delegation has a
\* durable transcript and budget; otherwise it is delivered as a result.
HijoPregunta(t, n) ==
  /\ pc[t][n] = "child"
  /\ IF Durable(t) /\ QuedaParaOtro(n)
     THEN /\ Goto(t, n, "snapshot")
          /\ UNCHANGED <<tasks, task, reanudaciones, disk>>
     ELSE Entregar(t, n)
  /\ UNCHANGED <<process, registrando, queue, handles, en_entrega, resume,
                 sin_persistir, aviso, sweep, durable, history>>

\* A recorder that could not write, or a snapshot that failed: the
\* transcript is marked incomplete and the outcome is not resumable.
TranscriptRoto(t, n) ==
  /\ pc[t][n] \in {"child", "snapshot"}
  /\ faults < MaxFaults
  /\ faults' = faults + 1
  /\ task' = [task EXCEPT ![t] = Apply(@, TranscriptCut)]
  /\ Persistir(t, TranscriptCut, "leg", n)
  /\ Goto(t, n, "marking")
  /\ UNCHANGED <<process, registrando, tasks, queue, handles, en_entrega,
                 apivars, sin_persistir, aviso, sweep, rows, history>>

SinPausa(t, n) ==
  /\ At(t, n, "marking")
  /\ Entregar(t, n)
  /\ UNCHANGED <<process, registrando, queue, handles, en_entrega, resume,
                 sin_persistir, aviso, sweep, durable, history>>

(***************************************************************************)
(* _pausar: the pause is written, then the question is dispatched to the   *)
(* parent; the leg stays alive inside that dispatch.                       *)
(***************************************************************************)
SigueEnUnaPausa(t, n) == task[t].status = "awaiting_input"
SigueEnLaPausa(t, n) == task[t].status = "awaiting_input" /\ task[t].used = n

Pausar(t, n) ==
  /\ pc[t][n] = "snapshot"
  /\ Transicionar(t, ToAwaiting(n), "leg", n)
  /\ Goto(t, n, "pausing")
  /\ UNCHANGED <<process, registrando, queue, handles, en_entrega, resume,
                 sin_persistir, aviso, sweep, durable, history>>

\* A pause that could not be written is delivered as not resumable.
Preguntar(t, n) ==
  /\ At(t, n, "pausing")
  /\ IF t \in sin_persistir /\ SigueEnLaPausa(t, n)
     THEN Entregar(t, n)
     ELSE /\ Goto(t, n, "asking")
          /\ UNCHANGED <<tasks, task, reanudaciones, disk>>
  /\ UNCHANGED <<process, registrando, queue, handles, en_entrega, resume,
                 sin_persistir, aviso, sweep, durable, history>>

\* The parent's turn with the question succeeded: notified is set only if
\* the delegation is still in the pause this leg announced.
PreguntaDespachada(t, n) ==
  /\ pc[t][n] = "asking"
  /\ asked' = asked \cup {<<t, n>>}
  /\ IF SigueEnLaPausa(t, n)
     THEN /\ task' = [task EXCEPT ![t] = Apply(@, Notified)]
          /\ Persistir(t, Notified, "leg", n)
     ELSE UNCHANGED <<task, disk>>
  /\ Goto(t, n, "closing")
  /\ UNCHANGED <<process, registrando, tasks, queue, handles, en_entrega,
                 apivars, sin_persistir, aviso, sweep, durable, told>>

\* All attempts failed: only the error column is written.
PreguntaFallida(t, n) ==
  /\ pc[t][n] = "asking"
  /\ IF SigueEnLaPausa(t, n)
     THEN Persistir(t, NoChange, "leg", n) ELSE UNCHANGED disk
  /\ Goto(t, n, "closing")
  /\ UNCHANGED <<process, registrando, tasks, task, queue, handles,
                 en_entrega, apivars, sin_persistir, aviso, sweep, durable,
                 history>>

(***************************************************************************)
(* The result is dispatched once it is on disk: a turn of the parent, up   *)
(* to three attempts.  _rescatar_task_atascada takes the same two exits.   *)
(***************************************************************************)
Despachar(t, n) ==
  /\ At(t, n, "handing")
  /\ Goto(t, n, "dispatching")
  /\ UNCHANGED <<process, registrando, tasks, task, queue, handles,
                 en_entrega, apivars, sin_persistir, aviso, sweep, disk,
                 durable, history>>

ResultadoDespachado(t, n) ==
  /\ pc[t][n] = "dispatching"
  /\ told' = [told EXCEPT ![t] = @ + 1]
  /\ Transicionar(t, To("delivered"), "leg", n)
  /\ Goto(t, n, "closing")
  /\ UNCHANGED <<process, registrando, queue, handles, en_entrega, resume,
                 sin_persistir, aviso, sweep, durable, asked>>

ResultadoFallido(t, n) ==
  /\ pc[t][n] = "dispatching"
  /\ Transicionar(t, To("delivery_failed"), "leg", n)
  /\ Goto(t, n, "closing")
  /\ UNCHANGED <<process, registrando, queue, handles, en_entrega, resume,
                 sin_persistir, aviso, sweep, durable, history>>

FinDelTramo(t, n) ==
  /\ At(t, n, "closing")
  /\ OlvidarHandle(t, n)
  /\ UNCHANGED <<process, registrando, tasks, task, queue, apivars,
                 sin_persistir, aviso, sweep, disk, durable, history>>

LegStep(t, n) ==
  \/ EjecutarHijo(t, n) \/ HijoTermina(t, n) \/ HijoPregunta(t, n)
  \/ TranscriptRoto(t, n) \/ SinPausa(t, n) \/ Pausar(t, n)
  \/ Preguntar(t, n) \/ PreguntaDespachada(t, n) \/ PreguntaFallida(t, n)
  \/ Despachar(t, n) \/ ResultadoDespachado(t, n) \/ ResultadoFallido(t, n)
  \/ FinDelTramo(t, n)

(***************************************************************************)
(* cancel: the decision and the change of the dict come before the first   *)
(* await.  A delivering task is never cut: its coroutine is the parent's   *)
(* turn.                                                                   *)
(***************************************************************************)
Cancel(t) ==
  /\ MayCall /\ t \in tasks
  /\ \/ /\ task[t].status \in {"awaiting_input", "delivery_failed",
                               "interrupted"}
        /\ Transicionar(t, ToDismissed, "cancel", 0)
        /\ UNCHANGED legvars
     \/ /\ task[t].status \in {"queued", "running"}
        /\ Transicionar(t, To("cancelled"), "cancel", 0)
        /\ handles' = SinHandle(t)
        /\ IF handles[t] = 0 THEN UNCHANGED pc ELSE Goto(t, handles[t], "none")
        /\ UNCHANGED en_entrega
  /\ UNCHANGED <<process, registrando, queue, resume, sin_persistir, aviso,
                 sweep, durable, history>>

\* A paused row the dict does not hold (the rehydration failed): the row
\* alone is dismissed.  It is read behind the writes already in the FIFO.
CancelDeTerminada(t) ==
  /\ MayCall /\ Durable(t) /\ t \notin tasks
  /\ rows[t].status = "awaiting_input"
  /\ ~\E i \in DOMAIN disk : t \in disk[i].to
  /\ disk' = Append(disk, [to |-> {t}, set |-> ToDismissed,
                           by |-> "row", leg |-> 0])
  /\ UNCHANGED <<process, registrando, tasks, task, queue, legvars, apivars,
                 sin_persistir, aviso, sweep, durable, history>>

(***************************************************************************)
(* resume: the checks and the reservation are synchronous; reopening the   *)
(* transcript is an await, so what could change is checked again after it. *)
(***************************************************************************)
SigueEsperandoSinEstado(t) == t \in tasks
SigueEsperando(t) == t \in tasks /\ task[t].status = "awaiting_input"

Resume(t) ==
  /\ phase = "up" /\ Durable(t)
  /\ SigueEsperando(t) /\ resume[t] = "idle" /\ ~task[t].cut
  /\ QuedaParaOtro(task[t].used)
  /\ resume' = [resume EXCEPT ![t] = "reopening"]
  /\ UNCHANGED <<process, registrando, tasks, task, queue, legvars,
                 reanudaciones, sin_persistir, aviso, sweep, disk, durable,
                 history>>

\* The first leg, if it is still inside the dispatch of its question, stops
\* being what cancel would cut, but stop must still find it.
EnEntregaOlvidada(t) == en_entrega
EnEntrega(t) == IF handles[t] = 0 THEN en_entrega
                ELSE en_entrega \cup {<<t, handles[t]>>}

Reencolar(t) ==
  /\ resume[t] = "reopening" /\ SigueEsperando(t) /\ phase = "up"
  /\ task' = [task EXCEPT ![t] = Apply(@, ToQueuedAgain)]
  /\ reanudaciones' = reanudaciones \cup {t}
  /\ en_entrega' = EnEntrega(t)
  /\ handles' = SinHandle(t)
  /\ Persistir(t, ToQueuedAgain, "resume", 0)
  /\ resume' = [resume EXCEPT ![t] = "requeuing"]
  /\ UNCHANGED <<process, registrando, tasks, queue, pc, sin_persistir, aviso,
                 sweep, durable, history>>

\* After the write, only what is still queued goes back to the FIFO.
VuelveSiEsperaba(t) == IF t \in tasks /\ task[t].status = "awaiting_input"
                       THEN Append(queue, t) ELSE queue
VuelveALaCola(t) == IF t \in tasks /\ task[t].status = "queued"
                    THEN Append(queue, t) ELSE queue

Reanudada(t) ==
  /\ resume[t] = "requeuing" /\ ~Writing(t, "resume", 0)
  /\ queue' = VuelveALaCola(t)
  /\ resume' = [resume EXCEPT ![t] = "idle"]
  /\ UNCHANGED <<process, registrando, tasks, task, legvars, reanudaciones,
                 sin_persistir, aviso, sweep, disk, durable, history>>

\* A cancel or a stop won while the transcript was read.
LlegoTarde(t) == ~SigueEsperando(t) \/ phase # "up"

ReanudarTarde(t) ==
  /\ resume[t] = "reopening" /\ LlegoTarde(t)
  /\ resume' = [resume EXCEPT ![t] = "idle"]
  /\ UNCHANGED <<process, registrando, tasks, task, queue, legvars,
                 reanudaciones, sin_persistir, aviso, sweep, disk, durable,
                 history>>

\* The transcript could not be read, or it cannot be resumed from: then the
\* mark is written before the reservation is released.
ReaperturaFallida(t) ==
  /\ resume[t] = "reopening" /\ faults < MaxFaults
  /\ faults' = faults + 1
  /\ \/ /\ resume' = [resume EXCEPT ![t] = "idle"]
        /\ UNCHANGED <<task, disk>>
     \/ /\ SigueEsperando(t)
        /\ task' = [task EXCEPT ![t] = Apply(@, TranscriptCut)]
        /\ Persistir(t, TranscriptCut, "resume", 0)
        /\ resume' = [resume EXCEPT ![t] = "marking"]
  /\ UNCHANGED <<process, registrando, tasks, queue, legvars, reanudaciones,
                 sin_persistir, aviso, sweep, rows, history>>

ReaperturaMarcada(t) ==
  /\ resume[t] = "marking" /\ ~Writing(t, "resume", 0)
  /\ resume' = [resume EXCEPT ![t] = "idle"]
  /\ UNCHANGED <<process, registrando, tasks, task, queue, legvars,
                 reanudaciones, sin_persistir, aviso, sweep, disk, durable,
                 history>>

ResumeStep(t) ==
  \/ Reencolar(t) \/ Reanudada(t) \/ ReanudarTarde(t)
  \/ ReaperturaFallida(t) \/ ReaperturaMarcada(t)

(***************************************************************************)
(* The one notice after a start: what the restart cut, the deliveries it   *)
(* swept and the questions nobody was told, grouped by conversation; each  *)
(* group is one turn of the parent.                                        *)
(***************************************************************************)
Notice == [pc: {"off", "talking", "saving", "done"}, todo: SUBSET Tasks,
           now: SUBSET Tasks, body: SUBSET (Tasks \X (0 .. Budget))]
AvisoApagado == [pc |-> "off", todo |-> {}, now |-> {}, body |-> {}]
PorAvisar == {"interrupted", "delivery_failed", "awaiting_input"}

\* The loop goes on to the next conversation; its text is composed from
\* what the group is by now.
Siguiente(todo) ==
  IF todo = {} THEN {[AvisoApagado EXCEPT !.pc = "done"]}
  ELSE {LET group == {t \in todo : ScopeOf[t] = s}
        IN [pc |-> "talking", todo |-> todo \ group, now |-> group,
            body |-> {<<t, task[t].used>> :
                        t \in {u \in group : task[u].status \in PorAvisar}}]
        : s \in {ScopeOf[t] : t \in todo}}

AvisarTrasArranque ==
  /\ phase = "up" /\ store = "open" /\ aviso.pc = "off"
  /\ aviso' \in Siguiente({t \in tasks : /\ ~task[t].notified
                                        /\ task[t].status \in PorAvisar
                                        /\ ScopeOf[t] \notin Silent})
  /\ UNCHANGED <<process, registrando, tasks, task, queue, legvars, apivars,
                 sin_persistir, sweep, disk, durable, history>>

\* The whole group is marked once the turn is on the parent's history.
MarcarAvisadas ==
  /\ aviso.pc = "talking"
  /\ asked' = asked \cup aviso.body
  /\ task' = [t \in Tasks |-> IF t \in aviso.now THEN Apply(task[t], Notified)
                              ELSE task[t]]
  /\ tasks' = tasks \ {t \in aviso.now : task[t].status = "interrupted"}
  /\ disk' = Append(disk, [to |-> aviso.now, set |-> Notified,
                           by |-> "aviso", leg |-> 0])
  /\ aviso' = [aviso EXCEPT !.pc = "saving"]
  /\ UNCHANGED <<process, registrando, queue, legvars, apivars, sin_persistir,
                 sweep, durable, told>>

AvisoGuardado ==
  /\ aviso.pc = "saving" /\ ~\E i \in DOMAIN disk : disk[i].by = "aviso"
  /\ aviso' \in Siguiente(aviso.todo)
  /\ UNCHANGED <<process, registrando, tasks, task, queue, legvars, apivars,
                 sin_persistir, sweep, disk, durable, history>>

AvisoFallido ==
  /\ aviso.pc = "talking"
  /\ aviso' \in Siguiente(aviso.todo)
  /\ UNCHANGED <<process, registrando, tasks, task, queue, legvars, apivars,
                 sin_persistir, sweep, disk, durable, history>>

AvisoStep == MarcarAvisadas \/ AvisoGuardado \/ AvisoFallido

(***************************************************************************)
(* The connection applies one statement.  A failure reaches the coroutine  *)
(* that waits for it, if there still is one.                               *)
(***************************************************************************)
Escribir ==
  /\ disk # <<>>
  /\ disk' = Tail(disk)
  /\ LET w == Head(disk)
         waits == {t \in w.to : \/ w.by \in {"resume", "cancel"}
                                \/ w.by = "leg" /\ pc[t][w.leg] # "none"}
     IN \/ /\ rows' = [t \in Tasks |->
                         IF t \in w.to /\ rows[t].status # Absent
                         THEN Apply(rows[t], w.set) ELSE rows[t]]
           /\ UNCHANGED <<sin_persistir, faults>>
        \/ /\ faults < MaxFaults
           /\ faults' = faults + 1
           /\ sin_persistir' = sin_persistir \cup waits
           /\ UNCHANGED rows
  /\ UNCHANGED <<process, registrando, tasks, task, queue, legvars, apivars,
                 aviso, sweep, history>>

(***************************************************************************)
(* stop, crash and start.                                                  *)
(***************************************************************************)
Huerfana == {"queued", "running", "delivering"}

\* What _cerrar_huerfanas writes on a row it listed with that status.
CierreSinAviso(listed) ==
  To(IF listed = "delivering" THEN "delivery_failed" ELSE "interrupted")
CierreInterrumpida(listed) == [To("interrupted") EXCEPT !.notified = FALSE]
Cierre(listed) == IF listed = "delivering"
                  THEN [To("delivery_failed") EXCEPT !.notified = FALSE]
                  ELSE [To("interrupted") EXCEPT !.notified = FALSE]

\* The notice and the consumer are cancelled and awaited.
Stop ==
  /\ phase = "up" /\ stops < MaxStops
  /\ phase' = "draining" /\ stops' = stops + 1
  /\ aviso' = AvisoApagado
  /\ UNCHANGED <<store, registrando, tasks, task, queue, legvars, apivars,
                 sin_persistir, sweep, disk, durable, history>>

\* The dict says interrupted before any child is cut; the answers that did
\* not run are lost with the process.
CortarHijos ==
  /\ phase = "draining"
  /\ phase' = "cutting"
  /\ task' = [t \in Tasks |->
                IF t \in tasks /\ task[t].status \in {"queued", "running"}
                THEN Apply(task[t], To("interrupted")) ELSE task[t]]
  /\ reanudaciones' = {}
  /\ pc' = [t \in Tasks |-> [n \in Legs |->
              IF handles[t] = n \/ <<t, n>> \in en_entrega
              THEN "none" ELSE pc[t][n]]]
  /\ handles' = [t \in Tasks |-> 0]
  /\ en_entrega' = {}
  /\ UNCHANGED <<store, stops, registrando, tasks, queue, resume,
                 sin_persistir, aviso, sweep, disk, durable, history>>

\* The listing goes through the same FIFO as the writes before it.
ListarHuerfanas ==
  /\ phase = "cutting" /\ disk = <<>>
  /\ phase' = "sweeping"
  /\ \/ /\ sweep' = {<<t, rows[t].status>> : t \in {u \in Tasks :
                       store = "open" /\ rows[u].status \in Huerfana}}
        /\ UNCHANGED faults
     \/ /\ faults < MaxFaults
        /\ faults' = faults + 1
        /\ sweep' = {}
  /\ UNCHANGED <<store, stops, registrando, tasks, task, queue, legvars,
                 apivars, sin_persistir, aviso, disk, rows, history>>

\* A row whose persistence broke is left to the next start.
CerrarHuerfana(x) ==
  /\ phase = "sweeping" /\ disk = <<>> /\ x \in sweep
  /\ sweep' = sweep \ {x}
  /\ \/ /\ Durable(x[1])
        /\ rows' = [rows EXCEPT ![x[1]] = Apply(@, Cierre(x[2]))]
        /\ UNCHANGED faults
     \/ /\ Durable(x[1]) /\ faults < MaxFaults
        /\ faults' = faults + 1
        /\ UNCHANGED rows
     \/ ~Durable(x[1]) /\ UNCHANGED <<rows, faults>>
  /\ UNCHANGED <<process, registrando, tasks, task, queue, legvars, apivars,
                 sin_persistir, aviso, disk, history>>

\* Everything the process held is gone; task keeps the last object of each
\* id, which nothing reads again unless the id is rehydrated.
MemoriaPerdida ==
  /\ phase' = "down" /\ store' = "none"
  /\ registrando' = {} /\ tasks' = {} /\ queue' = <<>>
  /\ pc' = [t \in Tasks |-> [n \in Legs |-> "none"]]
  /\ handles' = [t \in Tasks |-> 0] /\ en_entrega' = {}
  /\ resume' = [t \in Tasks |-> "idle"] /\ reanudaciones' = {}
  /\ sin_persistir' = {} /\ aviso' = AvisoApagado /\ sweep' = {}
  /\ disk' = <<>>

FinDelStop ==
  /\ phase = "sweeping" /\ sweep = {} /\ disk = <<>>
  /\ MemoriaPerdida
  /\ UNCHANGED <<stops, task, durable, history>>

\* A kill: the statements not yet applied are lost too.
Crash ==
  /\ phase # "down" /\ stops < MaxStops
  /\ stops' = stops + 1
  /\ MemoriaPerdida
  /\ UNCHANGED <<task, durable, history>>

\* Rows the retention may delete at a start (by age: these have waited).
Podable(r) == r.status \in Terminales \cup {"interrupted", "awaiting_input"}

Rehidratable(r) == \/ r.status \in {"delivery_failed", "awaiting_input"}
                   \/ r.status = "interrupted" /\ ~r.notified

\* A row after the sweep and the retention of a start.
Barrida(t, failed, gone) ==
  CASE t \in gone -> NoRecord
    [] rows[t].status \in Huerfana /\ t \notin failed ->
         Apply(rows[t], Cierre(rows[t].status))
    [] OTHER -> rows[t]

Fallo(b) == IF b THEN 1 ELSE 0

\* start: open, sweep, prune, rehydrate, in that order; a step that fails
\* costs its rows, not the start.
Start ==
  /\ phase = "down"
  /\ phase' = "up"
  /\ \/ /\ store' = "open"
        /\ \E failed \in SUBSET {t \in Tasks : rows[t].status \in Huerfana},
              gone \in SUBSET {t \in Tasks : Retention /\ Podable(rows[t])},
              rehydrates \in BOOLEAN :
             /\ faults' = faults + Fallo(failed # {}) + Fallo(~rehydrates)
             /\ faults' <= MaxFaults
             /\ rows' = [t \in Tasks |-> Barrida(t, failed, gone)]
             /\ tasks' = {t \in Tasks : rehydrates /\ Rehidratable(rows'[t])}
             /\ task' = [t \in Tasks |-> IF t \in tasks' THEN rows'[t]
                                         ELSE task[t]]
     \/ /\ faults < MaxFaults
        /\ faults' = faults + 1
        /\ store' = "none"
        /\ UNCHANGED <<tasks, task, rows>>
  /\ UNCHANGED <<stops, registrando, queue, legvars, apivars, sin_persistir,
                 aviso, sweep, disk, history>>

StopStep == \/ CortarHijos \/ ListarHuerfanas \/ FinDelStop
            \/ \E x \in sweep : CerrarHuerfana(x)

(***************************************************************************)
(* The specification.                                                      *)
(***************************************************************************)
Init ==
  /\ phase = "down" /\ store = "none" /\ stops = 0 /\ faults = 0
  /\ registrando = {} /\ tasks = {} /\ queue = <<>>
  /\ task = [t \in Tasks |-> NoRecord] /\ rows = [t \in Tasks |-> NoRecord]
  /\ pc = [t \in Tasks |-> [n \in Legs |-> "none"]]
  /\ handles = [t \in Tasks |-> 0] /\ en_entrega = {}
  /\ resume = [t \in Tasks |-> "idle"] /\ reanudaciones = {}
  /\ sin_persistir = {} /\ aviso = AvisoApagado /\ sweep = {} /\ disk = <<>>
  /\ asked = {} /\ told = [t \in Tasks |-> 0]

Calls == \E t \in Tasks :
           \/ Registrar(t) \/ Enqueue(t) \/ EnqueueEnMemoria(t)
           \/ Cancel(t) \/ CancelDeTerminada(t) \/ Resume(t)

Next ==
  \/ Calls
  \/ Loop \/ \E t \in Tasks, n \in Legs : RunTask(t, n) \/ LegStep(t, n)
  \/ \E t \in Tasks : ResumeStep(t)
  \/ AvisarTrasArranque \/ AvisoStep \/ Escribir
  \/ Stop \/ StopStep \/ Crash \/ Start

Safety == Init /\ [][Next]_vars

\* What the event loop, the sqlite thread and the supervisor guarantee: a
\* ready coroutine runs, a child ends within its timeout, a parent's turn
\* ends, a stopped daemon is started again.
Fairness ==
  /\ WF_vars(Loop) /\ WF_vars(Escribir)
  /\ \A t \in Tasks, n \in Legs :
       WF_vars(RunTask(t, n)) /\ WF_vars(LegStep(t, n))
  /\ \A t \in Tasks : WF_vars(ResumeStep(t))
  /\ WF_vars(AvisoStep) /\ WF_vars(StopStep) /\ WF_vars(Start)

Spec == Safety /\ Fairness

-----------------------------------------------------------------------------
(***************************************************************************)
(* Properties.                                                             *)
(***************************************************************************)

\* Every variable has its type.
TypeOK ==
  /\ phase \in {"down", "up", "draining", "cutting", "sweeping"}
  /\ store \in {"open", "none"} /\ stops \in Nat /\ faults \in Nat
  /\ registrando \subseteq Tasks /\ tasks \subseteq Tasks
  /\ queue \in Seq(Tasks)
  /\ task \in [Tasks -> Record] /\ rows \in [Tasks -> Record]
  /\ pc \in [Tasks -> [Legs -> Pcs]]
  /\ handles \in [Tasks -> 0 .. Budget]
  /\ en_entrega \subseteq Tasks \X Legs
  /\ resume \in [Tasks -> {"idle", "reopening", "requeuing", "marking"}]
  /\ reanudaciones \subseteq Tasks /\ sin_persistir \subseteq Tasks
  /\ aviso \in Notice
  /\ sweep \subseteq Tasks \X Huerfana
  /\ disk \in Seq(Statement)
  /\ asked \subseteq Tasks \X (0 .. Budget)
  /\ told \in [Tasks -> Nat]

\* stop finds every coroutine it has to cut: a leg that is alive is either
\* the handle of its delegation or in _en_entrega, also when the next leg
\* took the handle while the first was still in the parent's turn.
TramosRastreados ==
  \A t \in Tasks, n \in Legs :
    pc[t][n] # "none" => handles[t] = n \/ <<t, n>> \in en_entrega

\* cancel never cuts a turn of the parent: while a delegation is queued or
\* running, its handle is a leg that has not begun to dispatch anything.
CancelNoCortaEntregas ==
  \A t \in tasks, n \in Legs :
    task[t].status \in {"queued", "running"} /\ handles[t] = n =>
      pc[t][n] \in {"sem", "starting", "child", "snapshot", "marking"}

\* A delegation never has two children: what waits in the FIFO waits once,
\* and no leg of it is still before its dispatch.
UnSoloHijo ==
  \A i \in DOMAIN queue : queue[i] \in tasks =>
    /\ \A j \in DOMAIN queue : queue[j] = queue[i] => j = i
    /\ \A n \in Legs :
         pc[queue[i]][n] \in {"none", "pausing", "asking", "closing"}

\* A leg after the first always starts with the parent's answer: without it
\* the child would begin again from the original prompt.
RespuestaLlega ==
  \A t \in Tasks, n \in Legs :
    pc[t][n] = "starting" /\ n > 1 => t \in reanudaciones

\* Whatever is queued still has budget for one more leg.
QuedaPresupuesto ==
  \A t \in tasks :
    task[t].status \in {"queued", "running"} => task[t].used < Budget

\* The table follows the dict: with no statement in flight, the row of a live
\* delegation says what the object says, unless its persistence broke.
DictYDiscoCoinciden ==
  phase = "up" /\ disk = <<>> =>
    \A t \in tasks : Durable(t) =>
      rows[t].status = task[t].status /\ rows[t].used = task[t].used

\* The result is on disk before the parent hears of it, and a question is
\* dispatched over a pause that a restart would find.
PersistirAntesDeDespachar ==
  \A t \in Tasks, n \in Legs :
    /\ pc[t][n] = "dispatching" /\ Durable(t) =>
         rows[t].status = "delivering"
    /\ pc[t][n] = "asking" /\ SigueEnLaPausa(t, n) =>
         rows[t].status = "awaiting_input" /\ rows[t].used = n

\* No result is dispatched twice, whatever is cancelled, resumed, stopped or
\* restarted in between.
ResultadoUnaSolaVez == \A t \in Tasks : told[t] <= 1

\* A pause marked as notified is one whose question reached the parent: the
\* restart re-sends the others and never this one.
PreguntaNoSilenciada ==
  \A t \in Tasks :
    rows[t].status = "awaiting_input" /\ rows[t].notified =>
      <<t, rows[t].used>> \in asked

\* A delegation whose result reached the parent is never reported as
\* interrupted by a restart.
EntregadaNoEsInterrumpida ==
  \A t \in Tasks : rows[t].status = "interrupted" => told[t] = 0

\* No delegation is lost: with no statement in flight, a running daemon
\* either holds an unsettled row in its dict, where the parent sees it, or
\* has told the parent that it was interrupted.
NadaSePierde ==
  phase = "up" /\ store = "open" /\ disk = <<>> =>
    \A t \in Tasks : rows[t].status \notin Terminales \cup {Absent} =>
      \/ t \in tasks \cup registrando
      \/ rows[t].status = "interrupted" /\ <<t, rows[t].used>> \in asked

\* A result is settled before, while and after the parent hears of it.
ResultadoAsentado ==
  PersistirAntesDeDespachar /\ ResultadoUnaSolaVez /\ EntregadaNoEsInterrumpida

\* Nobody is left without news: neither the child of what it asked, nor the
\* parent of a delegation.
NadieSinNoticia == RespuestaLlega /\ NadaSePierde

\* No delegation of the dict stays queued, running or delivering for ever:
\* it is delivered, fails visibly, waits for an answer, or the process ends.
SeAsienta ==
  \A t \in Tasks : (t \in tasks /\ task[t].status \in Huerfana) ~>
                    ~(t \in tasks /\ task[t].status \in Huerfana)

\* A reservation of resume is always released, so a pause can be retried.
ReservaLiberada == \A t \in Tasks : resume[t] # "idle" ~> resume[t] = "idle"

\* Whatever the event loop has begun it ends.
TodoSeAsienta == SeAsienta /\ ReservaLiberada

(***************************************************************************)
(* What the coroutines know of one another while the consumer lives: the   *)
(* facts that make the bookkeeping above inductive.                        *)
(***************************************************************************)
Viva == phase \in {"up", "draining"}
Callado == {"none", "pausing", "asking", "closing"}
Previo == {"sem", "starting", "child", "snapshot", "marking"}

\* An id without an object has left no trace in the process.
SinRastro ==
  /\ \A t \in registrando : task[t].status = Absent
  /\ \A t \in Tasks : task[t].status = Absent =>
       /\ t \notin tasks /\ handles[t] = 0 /\ resume[t] = "idle"
       /\ \A i \in DOMAIN queue : queue[i] # t
       /\ \A n \in Legs : pc[t][n] = "none"

\* A dead process holds nothing; a stopping one has cut every leg.
Parado ==
  /\ phase = "down" =>
       /\ tasks = {} /\ queue = <<>> /\ registrando = {}
       /\ \A t \in Tasks : resume[t] = "idle"
  /\ ~Viva => \A t \in Tasks : /\ handles[t] = 0
                               /\ \A n \in Legs : pc[t][n] = "none"

\* The leg that works for a live delegation is the only one, its place says
\* the status, and before the dispatch it is the leg after the spent ones.
UnTramoActivo ==
  \A t \in tasks, n \in Legs : pc[t][n] \notin Callado =>
    /\ \A m \in Legs : pc[t][m] \notin Callado => m = n
    /\ pc[t][n] = "sem" => task[t].status = "queued"
    /\ pc[t][n] \in Previo \ {"sem"} => task[t].status = "running"
    /\ pc[t][n] \in {"handing", "dispatching"} => task[t].status = "delivering"
    /\ pc[t][n] \in Previo => n = task[t].used + 1

\* While the consumer lives, what waits in the FIFO is queued, without a
\* handle, and its resume, if there was one, has finished.
EnEspera ==
  Viva => \A i \in DOMAIN queue : queue[i] \in tasks =>
    /\ task[queue[i]].status = "queued" /\ handles[queue[i]] = 0
    /\ resume[queue[i]] # "requeuing"

\* What a resume has requeued and not yet put in the FIFO has no leg at work.
Reencolandose ==
  \A t \in tasks : resume[t] = "requeuing" /\ task[t].status = "queued" =>
    /\ Viva /\ handles[t] = 0
    /\ \A i \in DOMAIN queue : queue[i] # t
    /\ \A n \in Legs : pc[t][n] \in Callado

\* Whatever pauses can afford one leg: in memory, and in every row and
\* statement in flight, so that a restart brings back pauses that resume.
PausaConPresupuesto ==
  /\ \A t \in tasks :
       task[t].status = "awaiting_input" => task[t].used < Budget
  /\ \A t \in Tasks, n \in Legs : pc[t][n] = "snapshot" => n < Budget

PausaGuardada ==
  /\ \A t \in Tasks :
       rows[t].status = "awaiting_input" => rows[t].used < Budget
  /\ \A i \in DOMAIN disk :
       /\ disk[i].set.status = "awaiting_input" =>
            disk[i].set.used # Keep /\ disk[i].set.used < Budget
       /\ disk[i].set.status = Keep => disk[i].set.used = Keep

\* The bookkeeping of coroutines, handles, FIFO and budget as a whole: it
\* holds in every state and implies the structural properties above.
Contabilidad ==
  /\ SinRastro /\ Parado /\ UnTramoActivo /\ EnEspera /\ Reencolandose
  /\ UnSoloHijo /\ TramosRastreados /\ CancelNoCortaEntregas
  /\ QuedaPresupuesto /\ PausaConPresupuesto

Coherente == TypeOK /\ Contabilidad /\ PausaGuardada

\* The table follows the lifecycle that the queue promises of its rows.
Lifecycle == INSTANCE DelegationLifecycle
               WITH status <- [t \in Tasks |-> rows[t].status], told <- told
CumpleElCicloDeVida == Lifecycle!Safety
=============================================================================
