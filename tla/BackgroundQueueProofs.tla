------------------------ MODULE BackgroundQueueProofs ------------------------
(***************************************************************************)
(* Proofs about the background queue, for every set of delegations, every  *)
(* budget and every number of stops and faults.                            *)
(*                                                                         *)
(* Coherente is the inductive invariant: the types, the bookkeeping of     *)
(* coroutines (Contabilidad) and the budget of what is paused on disk.     *)
(* The structural properties of the runs are conjuncts of it.              *)
(***************************************************************************)
EXTENDS BackgroundQueue, TLAPS

-----------------------------------------------------------------------------
(* Records and changes. *)

\* Apply keeps the columns a change leaves alone and sets the others.
LEMMA ApplyRecord ==
  ASSUME NEW r \in Record, NEW c \in Change
  PROVE  /\ Apply(r, c) \in Record
         /\ Apply(r, c).status = IF c.status = Keep THEN r.status ELSE c.status
         /\ Apply(r, c).used = IF c.used = Keep THEN r.used ELSE c.used
<1>1. New(r.status, c.status) \in Status \cup {Absent}
  BY DEF New, Record, Change
<1>2. New(r.notified, c.notified) \in BOOLEAN
  BY DEF New, Record, Change
<1>3. New(r.used, c.used) \in 0 .. Budget
  BY DEF New, Record, Change
<1>4. New(r.cut, c.cut) \in BOOLEAN
  BY DEF New, Record, Change
<1>5. Apply(r, c) \in Record
  BY <1>1, <1>2, <1>3, <1>4 DEF Apply, Record
<1> QED
  BY <1>5 DEF Apply, New

\* The changes that only set a status.
LEMMA ToChange ==
  ASSUME NEW s \in Status
  PROVE  /\ To(s) \in Change /\ To(s).status = s /\ To(s).used = Keep
         /\ [To(s) EXCEPT !.notified = FALSE] \in Change
         /\ [To(s) EXCEPT !.notified = FALSE].status = s
         /\ [To(s) EXCEPT !.notified = FALSE].used = Keep
BY DEF To, NoChange, Change

\* The changes that end a tramo set the units spent as well.
LEMMA LegChange ==
  ASSUME NEW n \in 0 .. Budget
  PROVE  /\ ToDelivering(n) \in Change /\ ToDelivering(n).used = n
         /\ ToDelivering(n).status = "delivering"
         /\ ToAwaiting(n) \in Change /\ ToAwaiting(n).used = n
         /\ ToAwaiting(n).status = "awaiting_input"
BY DEF ToDelivering, ToAwaiting, To, NoChange, Change, Status, Terminales

\* The changes that leave both the status and the units alone, and the two
\* that cancel and resume write.
LEMMA OtherChange ==
  /\ NoChange \in Change /\ NoChange.status = Keep /\ NoChange.used = Keep
  /\ Notified \in Change /\ Notified.status = Keep /\ Notified.used = Keep
  /\ TranscriptCut \in Change
  /\ TranscriptCut.status = Keep /\ TranscriptCut.used = Keep
  /\ ToQueuedAgain \in Change
  /\ ToQueuedAgain.status = "queued" /\ ToQueuedAgain.used = Keep
  /\ ToDismissed \in Change
  /\ ToDismissed.status = "dismissed" /\ ToDismissed.used = Keep
BY DEF NoChange, Notified, TranscriptCut, ToQueuedAgain, ToDismissed, To,
       Change, Status, Terminales

\* No status is the mark of an untouched column.
LEMMA StatusIsNotKeep ==
  ASSUME NEW s \in Status PROVE s # Keep /\ s # Absent
BY QueueAssumption DEF Status, Terminales, Absent

\* A change of a status, and the record it makes of a live object.
LEMMA ApplyStatus ==
  ASSUME NEW r \in Record, NEW c \in Change, c.status \in Status
  PROVE  /\ Apply(r, c) \in Record /\ Apply(r, c).status = c.status
         /\ Apply(r, c).used = IF c.used = Keep THEN r.used ELSE c.used
BY ApplyRecord, StatusIsNotKeep

\* A change that keeps the status and the units keeps them in the record.
LEMMA ApplyKeep ==
  ASSUME NEW r \in Record, NEW c \in Change, c.status = Keep, c.used = Keep
  PROVE  /\ Apply(r, c) \in Record /\ Apply(r, c).status = r.status
         /\ Apply(r, c).used = r.used
BY ApplyRecord

-----------------------------------------------------------------------------
(* The effect of the helpers every action is built from, point by point. *)

\* What a coroutine hands to the connection is a statement of its change.
LEMMA PersistirEfecto ==
  ASSUME TypeOK, NEW t \in Tasks, NEW c \in Change,
         NEW by \in {"leg", "resume", "cancel", "aviso", "row"},
         NEW n \in 0 .. Budget, Persistir(t, c, by, n)
  PROVE  /\ disk' \in Seq(Statement)
         /\ \A i \in DOMAIN disk' :
              \/ i \in DOMAIN disk /\ disk'[i] = disk[i]
              \/ disk'[i].set = c
<1> DEFINE w == [to |-> {t}, set |-> c, by |-> by, leg |-> n]
<1>1. w \in Statement /\ w.set = c
  BY DEF Statement
<1>2. disk \in Seq(Statement)
  BY DEF TypeOK
<1>3. disk' = Append(disk, w) \/ disk' = disk
  BY DEF Persistir
<1> QED
  BY <1>1, <1>2, <1>3

\* Transicionar: the object of t, the dict, the answers, the statement.
LEMMA TransicionarEfecto ==
  ASSUME TypeOK, NEW t \in Tasks, NEW c \in Change, c.status \in Status,
         NEW by \in {"leg", "resume", "cancel", "aviso", "row"},
         NEW n \in 0 .. Budget, Transicionar(t, c, by, n)
  PROVE  /\ task' \in [Tasks -> Record]
         /\ \A u \in Tasks \ {t} : task'[u] = task[u]
         /\ task'[t].status = c.status
         /\ task'[t].used = IF c.used = Keep THEN task[t].used ELSE c.used
         /\ tasks' = IF c.status \in Terminales THEN tasks \ {t} ELSE tasks
         /\ reanudaciones' \subseteq Tasks
         /\ disk' \in Seq(Statement)
         /\ \A i \in DOMAIN disk' :
              \/ i \in DOMAIN disk /\ disk'[i] = disk[i]
              \/ disk'[i].set = c
<1>1. /\ task \in [Tasks -> Record] /\ task[t] \in Record
      /\ reanudaciones \subseteq Tasks
  BY DEF TypeOK
<1>2. task' = [task EXCEPT ![t] = Apply(task[t], c)]
  BY DEF Transicionar
<1>3. /\ Apply(task[t], c) \in Record /\ Apply(task[t], c).status = c.status
      /\ Apply(task[t], c).used =
           IF c.used = Keep THEN task[t].used ELSE c.used
  BY <1>1, ApplyStatus
<1>4. reanudaciones' \subseteq Tasks
  BY <1>1 DEF Transicionar
<1>5. tasks' = IF c.status \in Terminales THEN tasks \ {t} ELSE tasks
  BY DEF Transicionar
<1>6. Persistir(t, c, by, n)
  BY DEF Transicionar
<1> QED
  BY <1>1, <1>2, <1>3, <1>4, <1>5, <1>6, PersistirEfecto

\* One leg moves, the others stay.
LEMMA GotoEfecto ==
  ASSUME TypeOK, NEW t \in Tasks, NEW n \in Legs, NEW place \in Pcs,
         Goto(t, n, place)
  PROVE  /\ pc' \in [Tasks -> [Legs -> Pcs]] /\ pc'[t][n] = place
         /\ \A u \in Tasks, m \in Legs :
              u # t \/ m # n => pc'[u][m] = pc[u][m]
<1>1. pc \in [Tasks -> [Legs -> Pcs]]
  BY DEF TypeOK
<1> QED
  BY <1>1 DEF Goto

-----------------------------------------------------------------------------
(* The bookkeeping when one leg moves. *)

Hijo == {"starting", "child", "snapshot", "marking"}

\* The moves of a leg of a live delegation: place, status and spent units.
Mismo(t) == task'[t].status = task[t].status /\ task'[t].used = task[t].used

Movimiento(t, n, place) ==
  \/ /\ pc[t][n] = "sem" /\ place = "starting"
     /\ task'[t].status = "running" /\ task'[t].used = task[t].used
  \/ pc[t][n] \in Hijo /\ place \in Hijo /\ Mismo(t)
  \/ /\ pc[t][n] \in Hijo /\ place = "handing"
     /\ task'[t].status = "delivering" /\ task'[t].used = n
  \/ /\ pc[t][n] = "snapshot" /\ place = "pausing"
     /\ task'[t].status = "awaiting_input" /\ task'[t].used = n
  \/ /\ pc[t][n] = "pausing" /\ place = "handing"
     /\ task[t].status = "awaiting_input" /\ task[t].used = n
     /\ task'[t].status = "delivering" /\ task'[t].used = n
  \/ /\ pc[t][n] \in Callado /\ place \in Callado \ {"none"} /\ Mismo(t)
  \/ pc[t][n] = "handing" /\ place = "dispatching" /\ Mismo(t)
  \/ /\ pc[t][n] = "dispatching" /\ place = "closing"
     /\ task'[t].status = "delivery_failed" /\ task'[t].used = task[t].used

\* A delegation that is not queued, running or delivering has no leg at work.
LEMMA SinTramoActivo ==
  ASSUME UnTramoActivo, TypeOK, NEW t \in tasks, NEW n \in Legs,
         task[t].status \notin {"queued", "running", "delivering"}
  PROVE  pc[t][n] \in Callado
<1>1. pc[t][n] \in Pcs
  BY DEF TypeOK
<1> QED
  BY <1>1 DEF UnTramoActivo, Pcs, Callado, Previo

\* A move of one leg keeps the bookkeeping.
LEMMA PasoDelTramo ==
  ASSUME TypeOK, Contabilidad, NEW t \in Tasks, NEW n \in Legs,
         NEW place \in Pcs, place # "none", pc[t][n] # "none",
         pc'[t][n] = place,
         \A u \in Tasks, m \in Legs : u # t \/ m # n => pc'[u][m] = pc[u][m],
         \A u \in Tasks \ {t} : Mismo(u),
         tasks' = tasks \/ tasks' = tasks \ {t},
         task'[t].status # Absent,
         place = "snapshot" => n < Budget,
         t \in tasks' => Movimiento(t, n, place),
         UNCHANGED <<phase, registrando, queue, handles, en_entrega, resume>>
  PROVE  Contabilidad'
<1> USE DEF Contabilidad, Mismo
<1>a. /\ tasks \subseteq Tasks /\ tasks' \subseteq tasks
      /\ registrando \subseteq Tasks
      /\ \A u \in Tasks, m \in Legs : pc[u][m] \in Pcs
  BY DEF TypeOK
<1>b. Viva /\ Viva'
  BY DEF Parado, Viva
<1>c. task[t].status # Absent
  BY DEF SinRastro
<1>d. \A m \in Legs : t \in tasks /\ task[t].status = "awaiting_input" =>
        pc[t][m] \in Callado
  BY SinTramoActivo
<1>1. SinRastro'
  BY <1>a, <1>c DEF SinRastro
<1>2. Parado'
  BY <1>b DEF Parado, Viva
<1>3. UnTramoActivo'
  BY <1>a, <1>d DEF UnTramoActivo, Movimiento, Callado, Previo, Hijo
<1>4. EnEspera'
  BY <1>a, <1>b DEF EnEspera, UnSoloHijo, Movimiento, Callado, Hijo
<1>5. Reencolandose'
  BY <1>a, <1>b
     DEF Reencolandose, UnTramoActivo, Movimiento, Callado, Previo, Hijo
<1>6. UnSoloHijo'
  BY <1>a, <1>b DEF UnSoloHijo, EnEspera, Movimiento, Callado, Hijo
<1>7. TramosRastreados'
  BY DEF TramosRastreados
<1>8. CancelNoCortaEntregas'
  BY <1>a
     DEF CancelNoCortaEntregas, UnTramoActivo, Movimiento, Callado, Previo,
         Hijo
<1>9. QuedaPresupuesto'
  BY <1>a
     DEF QuedaPresupuesto, UnTramoActivo, Movimiento, Callado, Previo, Hijo
<1>10. PausaConPresupuesto'
  BY <1>a
     DEF PausaConPresupuesto, UnTramoActivo, Movimiento, Callado, Previo, Hijo
<1> QED
  BY <1>1, <1>2, <1>3, <1>4, <1>5, <1>6, <1>7, <1>8, <1>9, <1>10

-----------------------------------------------------------------------------
(* The steps of a leg keep the invariant. *)

\* A statement that does not pause, or pauses with budget, keeps what is in
\* flight and on disk affordable.
LEMMA GuardadaEscribe ==
  ASSUME PausaGuardada, NEW c, rows' = rows,
         \A i \in DOMAIN disk' :
           \/ i \in DOMAIN disk /\ disk'[i] = disk[i]
           \/ disk'[i].set = c,
         c.status = "awaiting_input" => c.used # Keep /\ c.used < Budget,
         c.status = Keep => c.used = Keep
  PROVE  PausaGuardada'
BY DEF PausaGuardada

\* With the table and the statements unchanged there is nothing to check.
LEMMA GuardadaIgual ==
  ASSUME PausaGuardada, UNCHANGED <<rows, disk>> PROVE PausaGuardada'
BY DEF PausaGuardada

\* The number of a leg is a number of spent units.
LEMMA LegRange == ASSUME NEW n \in Legs PROVE n \in 0 .. Budget /\ n \in Nat
BY QueueAssumption DEF Legs

\* A transition of a leg that stays in the dict (or leaves it for good).
LEMMA PasoConTransicion ==
  ASSUME Coherente, NEW t \in Tasks, NEW n \in Legs, NEW c \in Change,
         c.status \in Status, NEW place \in Pcs, place # "none",
         pc[t][n] # "none", place # "snapshot",
         Transicionar(t, c, "leg", n), Goto(t, n, place),
         c.status = "awaiting_input" => c.used # Keep /\ c.used < Budget,
         c.status \in Terminales \/ Movimiento(t, n, place),
         UNCHANGED <<phase, store, stops, registrando, queue, handles,
                     en_entrega, resume, sin_persistir, aviso, sweep, rows,
                     faults, asked>>,
         told' \in [Tasks -> Nat]
  PROVE  Coherente'
<1> USE DEF Coherente
<1>1. n \in 0 .. Budget
  BY LegRange
<1>2. /\ task' \in [Tasks -> Record]
      /\ \A u \in Tasks \ {t} : task'[u] = task[u]
      /\ task'[t].status = c.status
      /\ tasks' = IF c.status \in Terminales THEN tasks \ {t} ELSE tasks
      /\ reanudaciones' \subseteq Tasks
      /\ disk' \in Seq(Statement)
      /\ \A i \in DOMAIN disk' :
           \/ i \in DOMAIN disk /\ disk'[i] = disk[i]
           \/ disk'[i].set = c
  BY <1>1, TransicionarEfecto
<1>3. /\ pc' \in [Tasks -> [Legs -> Pcs]] /\ pc'[t][n] = place
      /\ \A u \in Tasks, m \in Legs : u # t \/ m # n => pc'[u][m] = pc[u][m]
  BY GotoEfecto
<1>4. TypeOK'
  BY <1>2, <1>3 DEF TypeOK
<1>5. Contabilidad'
  <2>1. task'[t].status # Absent
    BY <1>2, StatusIsNotKeep
  <2>2. t \in tasks' => Movimiento(t, n, place)
    BY <1>2
  <2>3. \A u \in Tasks \ {t} : Mismo(u)
    BY <1>2 DEF Mismo
  <2>4. tasks' = tasks \/ tasks' = tasks \ {t}
    BY <1>2
  <2> QED
    BY <1>3, <2>1, <2>2, <2>3, <2>4, PasoDelTramo
<1>6. PausaGuardada'
  BY <1>2, StatusIsNotKeep, GuardadaEscribe
<1> QED
  BY <1>4, <1>5, <1>6

\* The result of a child, or of a pause that could not be written, is handed
\* over.
LEMMA EntregarCoherente ==
  ASSUME Coherente, NEW t \in Tasks, NEW n \in Legs, Entregar(t, n),
         \/ pc[t][n] \in Hijo
         \/ pc[t][n] = "pausing" /\ SigueEnLaPausa(t, n),
         UNCHANGED <<phase, store, stops, registrando, queue, handles,
                     en_entrega, resume, sin_persistir, aviso, sweep, rows,
                     faults, asked, told>>
  PROVE  Coherente'
<1> DEFINE c == ToDelivering(n)
<1>1. n \in 0 .. Budget
  BY LegRange
<1>2. /\ c \in Change /\ c.status = "delivering" /\ c.used = n
      /\ "delivering" \in Status
  BY <1>1, LegChange DEF Status
<1>3. Transicionar(t, c, "leg", n) /\ Goto(t, n, "handing")
  BY DEF Entregar
<1>4. task'[t].status = "delivering" /\ task'[t].used = n
  <2> HIDE DEF c
  <2> QED
    BY <1>1, <1>2, <1>3, TransicionarEfecto, QueueAssumption DEF Coherente
<1>5. Movimiento(t, n, "handing")
  BY <1>4 DEF Movimiento, SigueEnLaPausa
<1>6. told' \in [Tasks -> Nat] /\ pc[t][n] # "none" /\ "handing" \in Pcs
  BY DEF Coherente, TypeOK, Hijo, Pcs
<1> HIDE DEF c
<1> QED
  BY <1>2, <1>3, <1>5, <1>6, PasoConTransicion

\* A move of a leg that writes nothing about the status or the units.
LEMMA PasoCallado ==
  ASSUME Coherente, NEW t \in Tasks, NEW n \in Legs, NEW place \in Pcs,
         place # "none", pc[t][n] # "none", Goto(t, n, place),
         place = "snapshot" => n < Budget,
         Mismo(t) => Movimiento(t, n, place),
         task' \in [Tasks -> Record],
         \A u \in Tasks : Mismo(u),
         disk' \in Seq(Statement),
         NEW c, c.status = Keep, c.used = Keep,
         \A i \in DOMAIN disk' :
           \/ i \in DOMAIN disk /\ disk'[i] = disk[i]
           \/ disk'[i].set = c,
         UNCHANGED <<phase, store, stops, registrando, tasks, queue, handles,
                     en_entrega, resume, sin_persistir, aviso, sweep, rows,
                     told>>,
         reanudaciones' \subseteq Tasks, faults' \in Nat,
         asked' \subseteq Tasks \X (0 .. Budget)
  PROVE  Coherente'
<1> USE DEF Coherente
<1>1. /\ pc' \in [Tasks -> [Legs -> Pcs]] /\ pc'[t][n] = place
      /\ \A u \in Tasks, m \in Legs : u # t \/ m # n => pc'[u][m] = pc[u][m]
  BY GotoEfecto
<1>2. TypeOK'
  BY <1>1 DEF TypeOK
<1>3. Contabilidad'
  <2>1. task[t].status # Absent
    BY DEF Contabilidad, SinRastro
  <2>2. task'[t].status # Absent /\ Movimiento(t, n, place)
    BY <2>1 DEF Mismo
  <2>3. \A u \in Tasks \ {t} : Mismo(u)
    OBVIOUS
  <2> QED
    BY <1>1, <2>2, <2>3, PasoDelTramo
<1>4. PausaGuardada'
  BY StatusIsNotKeep, GuardadaEscribe DEF Status
<1> QED
  BY <1>2, <1>3, <1>4

-----------------------------------------------------------------------------
(* The steps of one leg. *)

\* What a transition that only sets a status does to the object.
LEMMA TransicionarTo ==
  ASSUME Coherente, NEW t \in Tasks, NEW s \in Status, NEW n \in 0 .. Budget,
         NEW by \in {"leg", "resume", "cancel", "aviso", "row"},
         Transicionar(t, To(s), by, n)
  PROVE  task'[t].status = s /\ task'[t].used = task[t].used
<1> DEFINE c == To(s)
<1>1. c \in Change /\ c.status = s /\ c.used = Keep
  BY ToChange
<1>2. Transicionar(t, c, by, n) /\ TypeOK
  BY DEF Coherente
<1> HIDE DEF c
<1> QED
  BY <1>1, <1>2, TransicionarEfecto

\* A leg whose coroutine ended, and a leg that is cut, leave the others be:
\* places are only vacated, handles only forgotten, objects only dropped.
LEMMA Marco ==
  ASSUME TypeOK, Contabilidad,
         \A u \in Tasks, m \in Legs : pc'[u][m] \in {pc[u][m], "none"},
         \A u \in Tasks : handles'[u] \in {handles[u], 0},
         \A u \in Tasks, m \in Legs :
           handles'[u] = m => handles[u] = m /\ pc'[u][m] = pc[u][m],
         TramosRastreados',
         tasks' \subseteq tasks, \A u \in tasks' : Mismo(u),
         \A u \in Tasks : task'[u].status = Absent <=> task[u].status = Absent,
         \A u \in registrando' : u \in Tasks /\ task[u].status = Absent,
         queue' = queue,
         \A u \in Tasks : \/ resume'[u] = resume[u]
                          \/ resume'[u] = "idle"
                          \/ /\ resume'[u] # "requeuing"
                             /\ task[u].status # Absent,
         \/ phase' = phase
              /\ (phase = "down" => registrando' = {} /\ resume' = resume)
         \/ Viva /\ Viva'
         \/ ~Viva /\ ~Viva' /\ phase' # "down"
  PROVE  Contabilidad'
<1> USE DEF Contabilidad, Mismo
<1>a. tasks \subseteq Tasks /\ \A u \in Tasks, m \in Legs : pc[u][m] \in Pcs
  BY DEF TypeOK
<1>b. Viva <=> Viva'
  BY DEF Viva
<1>c. 0 \notin Legs /\ "none" \in Callado
  BY QueueAssumption DEF Legs, Callado
<1>1. SinRastro'
  BY DEF SinRastro
<1>2. Parado'
  BY <1>b DEF Parado, Viva
<1>3. UnTramoActivo'
  BY <1>a, <1>c DEF UnTramoActivo
<1>4. EnEspera'
  BY <1>a, <1>b DEF EnEspera
<1>5. Reencolandose'
  BY <1>a, <1>b, <1>c DEF Reencolandose
<1>6. UnSoloHijo'
  BY <1>a DEF UnSoloHijo
<1>7. CancelNoCortaEntregas'
  BY <1>a DEF CancelNoCortaEntregas
<1>8. QuedaPresupuesto'
  BY DEF QuedaPresupuesto
<1>9. PausaConPresupuesto'
  BY <1>a DEF PausaConPresupuesto
<1> QED
  BY <1>1, <1>2, <1>3, <1>4, <1>5, <1>6, <1>7, <1>8, <1>9

\* Nothing about legs, handles, the dict or the FIFO moves.
LEMMA MarcoQuieto ==
  ASSUME TypeOK, Contabilidad, TypeOK',
         UNCHANGED <<pc, handles, en_entrega, queue, registrando, resume>>,
         tasks' \subseteq tasks, \A u \in Tasks : Mismo(u),
         \/ phase' = phase
         \/ Viva /\ Viva'
         \/ ~Viva /\ ~Viva' /\ phase' # "down"
  PROVE  Contabilidad'
<1>1. TramosRastreados'
  BY DEF Contabilidad, TramosRastreados
<1>2. \A u \in registrando : u \in Tasks /\ task[u].status = Absent
  BY DEF Contabilidad, SinRastro, TypeOK
<1>3. phase = "down" => registrando = {}
  BY DEF Contabilidad, Parado
<1>4. tasks' \subseteq Tasks
  BY DEF TypeOK
<1> QED
  BY <1>1, <1>2, <1>3, <1>4, Marco DEF Mismo

\* The done callback of a leg (_olvidar_handle).
LEMMA OlvidarCoherente ==
  ASSUME Coherente, NEW t \in Tasks, NEW n \in Legs, OlvidarHandle(t, n),
         UNCHANGED <<process, registrando, task, tasks, queue, apivars,
                     sin_persistir, aviso, sweep, disk, durable, history>>
  PROVE  Coherente'
<1> USE DEF Coherente, process, apivars, durable, history
<1>0. n # 0 /\ n \in 0 .. Budget
  BY QueueAssumption DEF Legs
<1>1. TypeOK'
  <2>1. /\ pc \in [Tasks -> [Legs -> Pcs]]
        /\ handles \in [Tasks -> 0 .. Budget]
        /\ en_entrega \subseteq Tasks \X Legs
    BY DEF TypeOK
  <2>2. pc' \in [Tasks -> [Legs -> Pcs]]
    BY <2>1 DEF OlvidarHandle, Goto, Pcs
  <2>3. handles' \in [Tasks -> 0 .. Budget]
    BY <2>1, QueueAssumption DEF OlvidarHandle, SinHandle
  <2>4. en_entrega' \subseteq Tasks \X Legs
    BY <2>1 DEF OlvidarHandle
  <2> QED
    BY <2>2, <2>3, <2>4 DEF TypeOK
<1>2. \A u \in Tasks, m \in Legs :
        pc'[u][m] = IF u = t /\ m = n THEN "none" ELSE pc[u][m]
  BY DEF OlvidarHandle, Goto, TypeOK
<1>3. \A u \in Tasks :
        handles'[u] = IF u = t /\ handles[t] = n THEN 0 ELSE handles[u]
  BY DEF OlvidarHandle, SinHandle, TypeOK
<1>4. TramosRastreados'
  BY <1>2, <1>3 DEF Contabilidad, TramosRastreados, OlvidarHandle
<1>5. Contabilidad'
  <2>1. \A u \in registrando : u \in Tasks /\ task[u].status = Absent
    BY DEF Contabilidad, SinRastro, TypeOK
  <2>2. phase = "down" => registrando = {}
    BY DEF Contabilidad, Parado
  <2>3. /\ \A u \in Tasks, m \in Legs : pc'[u][m] \in {pc[u][m], "none"}
        /\ \A u \in Tasks : handles'[u] \in {handles[u], 0}
    BY <1>2, <1>3
  <2>4. 0 \notin Legs
    BY QueueAssumption DEF Legs
  <2>5. \A u \in Tasks, m \in Legs :
          handles'[u] = m => handles[u] = m /\ pc'[u][m] = pc[u][m]
    BY <1>2, <1>3, <2>4
  <2>6. tasks' \subseteq tasks /\ \A u \in tasks' : Mismo(u)
    BY DEF Mismo
  <2> QED
    BY <1>4, <2>1, <2>2, <2>3, <2>5, <2>6, Marco
<1>6. PausaGuardada'
  BY GuardadaIgual
<1> QED
  BY <1>1, <1>5, <1>6

\* _run_task: the slot, then running; or the leg ends, being too late.
LEMMA RunTaskCoherente ==
  ASSUME Coherente, NEW t \in Tasks, NEW n \in Legs, RunTask(t, n)
  PROVE  Coherente'
<1> USE DEF process, durable, history, legvars, apivars
<1>0. n \in 0 .. Budget
  BY LegRange
<1>1. CASE t \in tasks
  <2> DEFINE c == To("running")
  <2>1. c \in Change /\ c.status = "running" /\ "running" \in Status
    BY ToChange DEF Status
  <2>2. Transicionar(t, c, "leg", n) /\ Goto(t, n, "starting")
    BY <1>1 DEF RunTask
  <2>3. task'[t].status = "running" /\ task'[t].used = task[t].used
    BY <1>0, <2>1, <2>2, TransicionarTo
  <2>4. Movimiento(t, n, "starting")
    BY <2>3 DEF Movimiento, RunTask
  <2>5. told' \in [Tasks -> Nat] /\ pc[t][n] # "none" /\ "starting" \in Pcs
    BY DEF Coherente, TypeOK, RunTask, Pcs
  <2>6. UNCHANGED <<phase, store, stops, registrando, queue, handles,
                    en_entrega, resume, sin_persistir, aviso, sweep, rows,
                    faults, asked>>
    BY <1>1 DEF RunTask
  <2> HIDE DEF c
  <2> QED
    BY <2>1, <2>2, <2>4, <2>5, <2>6, PasoConTransicion
<1>2. CASE t \notin tasks
  BY <1>2, OlvidarCoherente DEF RunTask
<1> QED
  BY <1>1, <1>2

\* _ejecutar_hijo takes the answer and runs the child.
LEMMA EjecutarHijoCoherente ==
  ASSUME Coherente, NEW t \in Tasks, NEW n \in Legs, EjecutarHijo(t, n)
  PROVE  Coherente'
<1> USE DEF process, durable, history, legvars, apivars
<1>1. /\ pc[t][n] = "starting" /\ Goto(t, n, "child") /\ "child" \in Pcs
      /\ UNCHANGED task
  BY DEF EjecutarHijo, At, Pcs
<1>2. Mismo(t) => Movimiento(t, n, "child")
  BY <1>1 DEF Movimiento, Hijo
<1>3. /\ task' \in [Tasks -> Record] /\ \A u \in Tasks : Mismo(u)
      /\ disk' \in Seq(Statement) /\ disk' = disk
      /\ reanudaciones' \subseteq Tasks /\ faults' \in Nat
      /\ asked' \subseteq Tasks \X (0 .. Budget)
  BY DEF EjecutarHijo, Coherente, TypeOK, Mismo
<1>4. UNCHANGED <<phase, store, stops, registrando, tasks, queue, handles,
                  en_entrega, resume, sin_persistir, aviso, sweep, rows, told>>
  BY DEF EjecutarHijo
<1> QED
  BY <1>1, <1>2, <1>3, <1>4, OtherChange, PasoCallado

\* The child ends in a result.
LEMMA HijoTerminaCoherente ==
  ASSUME Coherente, NEW t \in Tasks, NEW n \in Legs, HijoTermina(t, n)
  PROVE  Coherente'
<1> USE DEF process, durable, history, legvars, apivars
<1>1. pc[t][n] \in Hijo /\ Entregar(t, n)
  BY DEF HijoTermina, Hijo
<1>2. UNCHANGED <<phase, store, stops, registrando, queue, handles,
                  en_entrega, resume, sin_persistir, aviso, sweep, rows,
                  faults, asked, told>>
  BY DEF HijoTermina
<1> QED
  BY <1>1, <1>2, EntregarCoherente

\* A question over a broken transcript is delivered as a result.
LEMMA SinPausaCoherente ==
  ASSUME Coherente, NEW t \in Tasks, NEW n \in Legs, SinPausa(t, n)
  PROVE  Coherente'
<1> USE DEF process, durable, history, legvars, apivars
<1>1. pc[t][n] \in Hijo /\ Entregar(t, n)
  BY DEF SinPausa, At, Hijo
<1>2. UNCHANGED <<phase, store, stops, registrando, queue, handles,
                  en_entrega, resume, sin_persistir, aviso, sweep, rows,
                  faults, asked, told>>
  BY DEF SinPausa
<1> QED
  BY <1>1, <1>2, EntregarCoherente

\* The child asks: its snapshot is taken, or the question is delivered.
LEMMA HijoPreguntaCoherente ==
  ASSUME Coherente, NEW t \in Tasks, NEW n \in Legs, HijoPregunta(t, n)
  PROVE  Coherente'
<1> USE DEF process, durable, history, legvars, apivars
<1>0. pc[t][n] = "child" /\ pc[t][n] \in Hijo /\ "snapshot" \in Pcs
  BY DEF HijoPregunta, Hijo, Pcs
<1>1. UNCHANGED <<phase, store, stops, registrando, queue, handles,
                  en_entrega, resume, sin_persistir, aviso, sweep, rows,
                  faults, asked, told>>
  BY DEF HijoPregunta
<1>2. CASE Entregar(t, n)
  BY <1>0, <1>1, <1>2, EntregarCoherente
<1>3. CASE /\ QuedaParaOtro(n) /\ Goto(t, n, "snapshot")
           /\ UNCHANGED <<tasks, task, reanudaciones, disk>>
  <2>1. n < Budget
    BY <1>3, QueueAssumption, LegRange DEF QuedaParaOtro
  <2>2. Mismo(t) => Movimiento(t, n, "snapshot")
    BY <1>0 DEF Movimiento, Hijo
  <2>3. /\ task' \in [Tasks -> Record] /\ \A u \in Tasks : Mismo(u)
        /\ disk' \in Seq(Statement) /\ disk' = disk
        /\ reanudaciones' \subseteq Tasks /\ faults' \in Nat
        /\ asked' \subseteq Tasks \X (0 .. Budget)
    BY <1>1, <1>3 DEF Coherente, TypeOK, Mismo
  <2> QED
    BY <1>0, <1>1, <1>3, <2>1, <2>2, <2>3, OtherChange, PasoCallado
<1> QED
  BY <1>2, <1>3 DEF HijoPregunta

\* A write of a leg that leaves the status and the units of its object.
LEMMA EscrituraCallada ==
  ASSUME Coherente, NEW t \in Tasks, NEW n \in 0 .. Budget, NEW c \in Change,
         NEW by \in {"leg", "resume", "cancel", "aviso", "row"},
         c.status = Keep, c.used = Keep,
         task' = [task EXCEPT ![t] = Apply(@, c)] \/ task' = task,
         Persistir(t, c, by, n)
  PROVE  /\ task' \in [Tasks -> Record] /\ \A u \in Tasks : Mismo(u)
         /\ disk' \in Seq(Statement)
         /\ \A i \in DOMAIN disk' :
              \/ i \in DOMAIN disk /\ disk'[i] = disk[i]
              \/ disk'[i].set = c
<1>1. TypeOK /\ task \in [Tasks -> Record] /\ task[t] \in Record
  BY DEF Coherente, TypeOK
<1>2. /\ Apply(task[t], c) \in Record
      /\ Apply(task[t], c).status = task[t].status
      /\ Apply(task[t], c).used = task[t].used
  BY <1>1, ApplyKeep
<1>3. task' \in [Tasks -> Record] /\ \A u \in Tasks : Mismo(u)
  BY <1>1, <1>2 DEF Mismo
<1> QED
  BY <1>1, <1>3, PersistirEfecto

\* The transcript breaks.
LEMMA TranscriptRotoCoherente ==
  ASSUME Coherente, NEW t \in Tasks, NEW n \in Legs, TranscriptRoto(t, n)
  PROVE  Coherente'
<1> USE DEF process, durable, history, legvars, apivars
<1>1. /\ pc[t][n] \in Hijo /\ pc[t][n] # "none" /\ "marking" \in Pcs
      /\ Goto(t, n, "marking") /\ Persistir(t, TranscriptCut, "leg", n)
      /\ task' = [task EXCEPT ![t] = Apply(@, TranscriptCut)]
  BY DEF TranscriptRoto, Hijo, Pcs
<1>2. Mismo(t) => Movimiento(t, n, "marking")
  BY <1>1 DEF Movimiento, Hijo
<1>3. /\ task' \in [Tasks -> Record] /\ \A u \in Tasks : Mismo(u)
      /\ disk' \in Seq(Statement)
      /\ \A i \in DOMAIN disk' : \/ i \in DOMAIN disk /\ disk'[i] = disk[i]
                                 \/ disk'[i].set = TranscriptCut
  BY <1>1, LegRange, OtherChange, EscrituraCallada
<1>4. /\ reanudaciones' \subseteq Tasks /\ faults' \in Nat
      /\ asked' \subseteq Tasks \X (0 .. Budget)
  BY DEF TranscriptRoto, Coherente, TypeOK
<1>5. UNCHANGED <<phase, store, stops, registrando, tasks, queue, handles,
                  en_entrega, resume, sin_persistir, aviso, sweep, rows, told>>
  BY DEF TranscriptRoto
<1> QED
  BY <1>1, <1>2, <1>3, <1>4, <1>5, OtherChange, PasoCallado

\* The pause is written, with budget for another leg.
LEMMA PausarCoherente ==
  ASSUME Coherente, NEW t \in Tasks, NEW n \in Legs, Pausar(t, n)
  PROVE  Coherente'
<1> USE DEF process, durable, history, legvars, apivars
<1> DEFINE c == ToAwaiting(n)
<1>0. n \in 0 .. Budget
  BY LegRange
<1>1. /\ c \in Change /\ c.status = "awaiting_input" /\ c.used = n
      /\ "awaiting_input" \in Status
  BY <1>0, LegChange DEF Status
<1>2. Transicionar(t, c, "leg", n) /\ Goto(t, n, "pausing")
  BY DEF Pausar
<1>3. n # Keep /\ n < Budget
  BY <1>0, QueueAssumption
     DEF Pausar, Coherente, Contabilidad, PausaConPresupuesto
<1>4. task'[t].status = "awaiting_input" /\ task'[t].used = n
  <2> HIDE DEF c
  <2> QED
    BY <1>0, <1>1, <1>2, <1>3, TransicionarEfecto DEF Coherente
<1>5. Movimiento(t, n, "pausing")
  BY <1>4 DEF Movimiento, Pausar
<1>6. told' \in [Tasks -> Nat] /\ pc[t][n] # "none" /\ "pausing" \in Pcs
  BY DEF Coherente, TypeOK, Pausar, Pcs
<1>7. UNCHANGED <<phase, store, stops, registrando, queue, handles,
                  en_entrega, resume, sin_persistir, aviso, sweep, rows,
                  faults, asked>>
  BY DEF Pausar
<1> HIDE DEF c
<1> QED
  BY <1>1, <1>2, <1>3, <1>5, <1>6, <1>7, PasoConTransicion

\* The pause is on disk and its question leaves, or it is delivered.
LEMMA PreguntarCoherente ==
  ASSUME Coherente, NEW t \in Tasks, NEW n \in Legs, Preguntar(t, n)
  PROVE  Coherente'
<1> USE DEF process, durable, history, legvars, apivars
<1>0. pc[t][n] = "pausing" /\ "asking" \in Pcs
  BY DEF Preguntar, At, Pcs
<1>1. UNCHANGED <<phase, store, stops, registrando, queue, handles,
                  en_entrega, resume, sin_persistir, aviso, sweep, rows,
                  faults, asked, told>>
  BY DEF Preguntar
<1>2. CASE SigueEnLaPausa(t, n) /\ Entregar(t, n)
  BY <1>0, <1>1, <1>2, EntregarCoherente
<1>3. CASE /\ Goto(t, n, "asking")
           /\ UNCHANGED <<tasks, task, reanudaciones, disk>>
  <2>1. Mismo(t) => Movimiento(t, n, "asking")
    BY <1>0 DEF Movimiento, Callado
  <2>2. /\ task' \in [Tasks -> Record] /\ \A u \in Tasks : Mismo(u)
        /\ disk' \in Seq(Statement) /\ disk' = disk
        /\ reanudaciones' \subseteq Tasks /\ faults' \in Nat
        /\ asked' \subseteq Tasks \X (0 .. Budget)
    BY <1>1, <1>3 DEF Coherente, TypeOK, Mismo
  <2> QED
    BY <1>0, <1>1, <1>3, <2>1, <2>2, OtherChange, PasoCallado
<1> QED
  BY <1>2, <1>3 DEF Preguntar

\* The parent was told the question.
LEMMA PreguntaDespachadaCoherente ==
  ASSUME Coherente, NEW t \in Tasks, NEW n \in Legs, PreguntaDespachada(t, n)
  PROVE  Coherente'
<1> USE DEF process, durable, history, legvars, apivars
<1>1. pc[t][n] = "asking" /\ Goto(t, n, "closing") /\ "closing" \in Pcs
  BY DEF PreguntaDespachada, Pcs
<1>2. Mismo(t) => Movimiento(t, n, "closing")
  BY <1>1 DEF Movimiento, Callado
<1>3. /\ task' \in [Tasks -> Record] /\ \A u \in Tasks : Mismo(u)
      /\ disk' \in Seq(Statement)
      /\ \A i \in DOMAIN disk' : \/ i \in DOMAIN disk /\ disk'[i] = disk[i]
                                 \/ disk'[i].set = Notified
  <2>1. CASE UNCHANGED <<task, disk>>
    BY <2>1 DEF Coherente, TypeOK, Mismo
  <2>2. CASE /\ task' = [task EXCEPT ![t] = Apply(@, Notified)]
             /\ Persistir(t, Notified, "leg", n)
    BY <2>2, LegRange, OtherChange, EscrituraCallada
  <2> QED
    BY <2>1, <2>2 DEF PreguntaDespachada
<1>4. /\ reanudaciones' \subseteq Tasks /\ faults' \in Nat
      /\ asked' \subseteq Tasks \X (0 .. Budget)
  BY LegRange DEF PreguntaDespachada, Coherente, TypeOK
<1>5. UNCHANGED <<phase, store, stops, registrando, tasks, queue, handles,
                  en_entrega, resume, sin_persistir, aviso, sweep, rows, told>>
  BY DEF PreguntaDespachada
<1> QED
  BY <1>1, <1>2, <1>3, <1>4, <1>5, OtherChange, PasoCallado

\* The parent could not be told the question.
LEMMA PreguntaFallidaCoherente ==
  ASSUME Coherente, NEW t \in Tasks, NEW n \in Legs, PreguntaFallida(t, n)
  PROVE  Coherente'
<1> USE DEF process, durable, history, legvars, apivars
<1>1. pc[t][n] = "asking" /\ Goto(t, n, "closing") /\ "closing" \in Pcs
  BY DEF PreguntaFallida, Pcs
<1>2. Mismo(t) => Movimiento(t, n, "closing")
  BY <1>1 DEF Movimiento, Callado
<1>3. /\ task' \in [Tasks -> Record] /\ \A u \in Tasks : Mismo(u)
      /\ disk' \in Seq(Statement)
      /\ \A i \in DOMAIN disk' : \/ i \in DOMAIN disk /\ disk'[i] = disk[i]
                                 \/ disk'[i].set = NoChange
  <2>1. CASE UNCHANGED <<task, disk>>
    BY <2>1 DEF Coherente, TypeOK, Mismo
  <2>2. CASE UNCHANGED task /\ Persistir(t, NoChange, "leg", n)
    BY <2>2, LegRange, OtherChange, EscrituraCallada
  <2> QED
    BY <2>1, <2>2 DEF PreguntaFallida
<1>4. /\ reanudaciones' \subseteq Tasks /\ faults' \in Nat
      /\ asked' \subseteq Tasks \X (0 .. Budget)
  BY DEF PreguntaFallida, Coherente, TypeOK
<1>5. UNCHANGED <<phase, store, stops, registrando, tasks, queue, handles,
                  en_entrega, resume, sin_persistir, aviso, sweep, rows, told>>
  BY DEF PreguntaFallida
<1> QED
  BY <1>1, <1>2, <1>3, <1>4, <1>5, OtherChange, PasoCallado

\* The result is on disk and its dispatch begins.
LEMMA DespacharCoherente ==
  ASSUME Coherente, NEW t \in Tasks, NEW n \in Legs, Despachar(t, n)
  PROVE  Coherente'
<1> USE DEF process, durable, history, legvars, apivars
<1>1. /\ pc[t][n] = "handing" /\ Goto(t, n, "dispatching")
      /\ "dispatching" \in Pcs
  BY DEF Despachar, At, Pcs
<1>2. Mismo(t) => Movimiento(t, n, "dispatching")
  BY <1>1 DEF Movimiento
<1>3. /\ task' \in [Tasks -> Record] /\ \A u \in Tasks : Mismo(u)
      /\ disk' \in Seq(Statement) /\ disk' = disk
      /\ reanudaciones' \subseteq Tasks /\ faults' \in Nat
      /\ asked' \subseteq Tasks \X (0 .. Budget)
  BY DEF Despachar, Coherente, TypeOK, Mismo
<1>4. UNCHANGED <<phase, store, stops, registrando, tasks, queue, handles,
                  en_entrega, resume, sin_persistir, aviso, sweep, rows, told>>
  BY DEF Despachar
<1> QED
  BY <1>1, <1>2, <1>3, <1>4, OtherChange, PasoCallado

\* The parent was told the result.
LEMMA ResultadoDespachadoCoherente ==
  ASSUME Coherente, NEW t \in Tasks, NEW n \in Legs,
         ResultadoDespachado(t, n)
  PROVE  Coherente'
<1> USE DEF process, durable, history, legvars, apivars
<1> DEFINE c == To("delivered")
<1>1. /\ c \in Change /\ c.status = "delivered" /\ "delivered" \in Status
      /\ "delivered" \in Terminales
  BY ToChange DEF Status, Terminales
<1>2. Transicionar(t, c, "leg", n) /\ Goto(t, n, "closing")
  BY DEF ResultadoDespachado
<1>3. told' \in [Tasks -> Nat] /\ pc[t][n] # "none" /\ "closing" \in Pcs
  BY DEF Coherente, TypeOK, ResultadoDespachado, Pcs
<1>4. UNCHANGED <<phase, store, stops, registrando, queue, handles,
                  en_entrega, resume, sin_persistir, aviso, sweep, rows,
                  faults, asked>>
  BY DEF ResultadoDespachado
<1> HIDE DEF c
<1> QED
  BY <1>1, <1>2, <1>3, <1>4, PasoConTransicion

\* The parent could not be told the result.
LEMMA ResultadoFallidoCoherente ==
  ASSUME Coherente, NEW t \in Tasks, NEW n \in Legs, ResultadoFallido(t, n)
  PROVE  Coherente'
<1> USE DEF process, durable, history, legvars, apivars
<1> DEFINE c == To("delivery_failed")
<1>1. /\ c \in Change /\ c.status = "delivery_failed"
      /\ "delivery_failed" \in Status
  BY ToChange DEF Status
<1>2. Transicionar(t, c, "leg", n) /\ Goto(t, n, "closing")
  BY DEF ResultadoFallido
<1>3. task'[t].status = "delivery_failed" /\ task'[t].used = task[t].used
  BY <1>1, <1>2, LegRange, TransicionarTo
<1>4. Movimiento(t, n, "closing")
  BY <1>3 DEF Movimiento, ResultadoFallido
<1>5. told' \in [Tasks -> Nat] /\ pc[t][n] # "none" /\ "closing" \in Pcs
  BY DEF Coherente, TypeOK, ResultadoFallido, Pcs
<1>6. UNCHANGED <<phase, store, stops, registrando, queue, handles,
                  en_entrega, resume, sin_persistir, aviso, sweep, rows,
                  faults, asked>>
  BY DEF ResultadoFallido
<1> HIDE DEF c
<1> QED
  BY <1>1, <1>2, <1>4, <1>5, <1>6, PasoConTransicion

\* Every step of a leg keeps the invariant.
LEMMA LegStepCoherente ==
  ASSUME Coherente, NEW t \in Tasks, NEW n \in Legs, LegStep(t, n)
  PROVE  Coherente'
<1>1. CASE FinDelTramo(t, n)
  BY <1>1, OlvidarCoherente DEF FinDelTramo, At
<1> QED
  BY <1>1, EjecutarHijoCoherente, HijoTerminaCoherente,
     HijoPreguntaCoherente, TranscriptRotoCoherente, SinPausaCoherente,
     PausarCoherente, PreguntarCoherente, PreguntaDespachadaCoherente,
     PreguntaFallidaCoherente, DespacharCoherente,
     ResultadoDespachadoCoherente, ResultadoFallidoCoherente DEF LegStep

-----------------------------------------------------------------------------
(* The steps of the other coroutines. *)

\* The actions that touch neither the legs, nor the dict, nor the FIFO.
LEMMA QuietoCoherente ==
  ASSUME Coherente, TypeOK', PausaGuardada',
         UNCHANGED <<pc, handles, en_entrega, queue, registrando, resume>>,
         tasks' \subseteq tasks, \A u \in Tasks : Mismo(u),
         \/ phase' = phase
         \/ Viva /\ Viva'
         \/ ~Viva /\ ~Viva' /\ phase' # "down"
  PROVE  Coherente'
BY MarcoQuieto DEF Coherente

\* The record of a delegation that was just enqueued.
LEMMA NewTaskRecord ==
  /\ NoRecord \in Record
  /\ NewTask \in Record /\ NewTask.status = "queued" /\ NewTask.used = 0
<1>1. 0 \in 0 .. Budget /\ "queued" \in Status
  BY QueueAssumption DEF Status
<1>2. NoRecord \in Record /\ NoRecord.used = 0
  BY <1>1 DEF NoRecord, Record
<1>3. NewTask = [NoRecord EXCEPT !.status = "queued"]
  BY DEF NewTask
<1>4. NewTask \in Record
  BY <1>1, <1>2, <1>3 DEF Record
<1> QED
  BY <1>2, <1>3, <1>4 DEF Record

\* An id takes its place in the dict and in the FIFO.
LEMMA EnElDictCoherente ==
  ASSUME Coherente, NEW t \in Tasks, task[t].status = Absent, EnElDict(t),
         MayCall, registrando' = registrando \ {t},
         sin_persistir' \subseteq Tasks, faults' \in Nat,
         UNCHANGED <<process, legvars, apivars, aviso, sweep, disk, rows,
                     history>>
  PROVE  Coherente'
<1> USE DEF Coherente, process, legvars, apivars, history
<1>0. /\ task \in [Tasks -> Record] /\ queue \in Seq(Tasks)
      /\ NewTask \in Record /\ NewTask.status = "queued" /\ NewTask.used = 0
  BY NewTaskRecord DEF TypeOK
<1>1. TypeOK'
  BY <1>0, SMTT(30) DEF TypeOK, EnElDict
<1>2. /\ task'[t] = NewTask /\ \A u \in Tasks \ {t} : task'[u] = task[u]
      /\ tasks' = tasks \cup {t} /\ t \notin tasks /\ handles[t] = 0
      /\ resume[t] = "idle" /\ \A m \in Legs : pc[t][m] = "none"
      /\ tasks \subseteq Tasks /\ registrando \subseteq Tasks
  BY <1>0 DEF EnElDict, Contabilidad, SinRastro, TypeOK
<1>3. \A i \in DOMAIN queue : queue[i] # t
  BY DEF Contabilidad, SinRastro
<1>4. /\ DOMAIN queue' = DOMAIN queue \cup {Len(queue) + 1}
      /\ \A i \in DOMAIN queue : queue'[i] = queue[i] /\ i # Len(queue) + 1
      /\ queue'[Len(queue) + 1] = t
  BY <1>0 DEF EnElDict
<1>5. phase # "down" /\ Budget > 0 /\ "queued" # Absent /\ 0 \notin Legs
  BY QueueAssumption DEF MayCall, Absent, Legs
<1>6. Contabilidad'
  <2> USE DEF Contabilidad
  <2>1. SinRastro'
    BY <1>0, <1>2, <1>4, <1>5 DEF SinRastro
  <2>2. Parado'
    BY <1>2, <1>5 DEF Parado, Viva
  <2>3. UnTramoActivo'
    BY <1>2 DEF UnTramoActivo, Callado
  <2>4. EnEspera'
    BY <1>0, <1>2, <1>3, <1>4 DEF EnEspera, Viva
  <2>5. Reencolandose'
    BY <1>2, <1>3, <1>4 DEF Reencolandose, Viva
  <2>6. UnSoloHijo'
    BY <1>2, <1>3, <1>4 DEF UnSoloHijo
  <2>7. TramosRastreados'
    BY DEF TramosRastreados
  <2>8. CancelNoCortaEntregas'
    BY <1>2, <1>5 DEF CancelNoCortaEntregas
  <2>9. QuedaPresupuesto'
    BY <1>0, <1>2, <1>5 DEF QuedaPresupuesto
  <2>10. PausaConPresupuesto'
    BY <1>0, <1>2 DEF PausaConPresupuesto
  <2> QED
    BY <2>1, <2>2, <2>3, <2>4, <2>5, <2>6, <2>7, <2>8, <2>9, <2>10
<1>7. PausaGuardada'
  BY GuardadaIgual
<1> QED
  BY <1>1, <1>6, <1>7

\* The INSERT of an enqueue.
LEMMA RegistrarCoherente ==
  ASSUME Coherente, NEW t \in Tasks, Registrar(t)
  PROVE  Coherente'
<1> USE DEF Coherente, process, legvars, apivars, history
<1>0. /\ rows \in [Tasks -> Record]
      /\ NewTask \in Record /\ NewTask.status = "queued"
  BY NewTaskRecord DEF TypeOK
<1>1. TypeOK'
  BY <1>0 DEF TypeOK, Registrar
<1>2. PausaGuardada'
  BY <1>0 DEF PausaGuardada, Registrar
<1>3. Contabilidad'
  <2>1. TramosRastreados'
    BY DEF Contabilidad, TramosRastreados, Registrar
  <2>2. \A u \in registrando' : u \in Tasks /\ task[u].status = Absent
    BY DEF Contabilidad, SinRastro, TypeOK, Registrar, Nueva
  <2>3. phase # "down" /\ phase' = phase
    BY DEF Registrar, MayCall
  <2>4. 0 \notin Legs /\ tasks \subseteq Tasks
    BY QueueAssumption DEF Legs, TypeOK
  <2>5. UNCHANGED <<pc, handles, queue, resume, tasks, task>>
    BY DEF Registrar
  <2> QED
    BY <2>1, <2>2, <2>3, <2>4, <2>5, Marco DEF Mismo
<1> QED
  BY <1>1, <1>2, <1>3

\* The rest of an enqueue, with or without a row.
LEMMA EnqueueCoherente ==
  ASSUME Coherente, NEW t \in Tasks, Enqueue(t) \/ EnqueueEnMemoria(t)
  PROVE  Coherente'
<1> USE DEF durable
<1>1. CASE Enqueue(t)
  BY <1>1, EnElDictCoherente
     DEF Enqueue, Coherente, TypeOK, Contabilidad, SinRastro
<1>2. CASE EnqueueEnMemoria(t)
  <2>1. /\ task[t].status = Absent /\ registrando' = registrando \ {t}
        /\ EnElDict(t) /\ MayCall
        /\ UNCHANGED <<process, legvars, apivars, aviso, sweep, disk, rows,
                       history>>
    BY <1>2 DEF EnqueueEnMemoria, Nueva
  <2>2. sin_persistir' \subseteq Tasks /\ faults' \in Nat
    BY <1>2 DEF EnqueueEnMemoria, Coherente, TypeOK
  <2> QED
    BY <2>1, <2>2, EnElDictCoherente
<1> QED
  BY <1>1, <1>2

\* The consumer takes the head of the FIFO.
LEMMA LoopCoherente ==
  ASSUME Coherente, Loop PROVE Coherente'
<1> USE DEF Coherente, process, legvars, apivars, history, durable
<1> DEFINE t == Head(queue)
           n == task[t].used + 1
<1>1. /\ queue \in Seq(Tasks) /\ queue # <<>> /\ queue' = Tail(queue)
      /\ t \in Tasks /\ t = queue[1] /\ 1 \in DOMAIN queue
      /\ \A i \in DOMAIN queue' :
           /\ i + 1 \in DOMAIN queue /\ queue'[i] = queue[i + 1]
           /\ i + 1 # 1
      /\ \A i, j \in DOMAIN queue' : i + 1 = j + 1 => i = j
      /\ Tail(queue) \in Seq(Tasks)
  BY SMTT(30) DEF Loop, TypeOK
<1>2. UNCHANGED <<phase, store, stops, registrando, tasks, task, en_entrega,
                  resume, reanudaciones, sin_persistir, aviso, sweep, disk,
                  rows, faults, asked, told>>
  BY DEF Loop
<1>3. PausaGuardada'
  BY <1>2, GuardadaIgual
<1>4. phase = "up" /\ Viva /\ Viva' /\ tasks \subseteq Tasks
  BY <1>2 DEF Loop, Viva, TypeOK
<1>5. 0 \notin Legs /\ "sem" \notin Callado /\ "sem" # "none"
  BY QueueAssumption DEF Legs, Callado
<1>6. CASE t \in tasks
  <2>1. /\ task[t].status = "queued" /\ handles[t] = 0
        /\ resume[t] # "requeuing"
        /\ \A j \in DOMAIN queue : queue[j] = t => j = 1
        /\ \A m \in Legs :
             pc[t][m] \in {"none", "pausing", "asking", "closing"}
    BY <1>1, <1>4, <1>6 DEF Contabilidad, EnEspera, UnSoloHijo
  <2>2. n \in Legs /\ n # 0
    BY <1>1, <1>6, <2>1, QueueAssumption
       DEF Contabilidad, QuedaPresupuesto, TypeOK, Record, Legs
  <2>3. Goto(t, n, "sem") /\ handles' = [handles EXCEPT ![t] = n]
    BY <1>6 DEF Loop
  <2>4. /\ pc' \in [Tasks -> [Legs -> Pcs]] /\ pc'[t][n] = "sem"
        /\ \A u \in Tasks, m \in Legs :
             u # t \/ m # n => pc'[u][m] = pc[u][m]
    BY <1>1, <2>2, <2>3, GotoEfecto DEF Pcs
  <2>5. /\ handles' \in [Tasks -> 0 .. Budget] /\ handles'[t] = n
        /\ \A u \in Tasks \ {t} : handles'[u] = handles[u]
    BY <1>1, <2>2, <2>3 DEF TypeOK, Legs
  <2>6. TypeOK'
    BY <1>1, <1>2, <2>4, <2>5 DEF TypeOK
  <2>a. n = task[t].used + 1
    OBVIOUS
  <2>b. \A i \in DOMAIN queue' :
          queue'[i] # t /\ \E k \in DOMAIN queue : queue'[i] = queue[k]
    BY <1>1, <2>1
  <2>c. t \in Tasks /\ task[t].status # Absent
    BY <1>1, <2>1 DEF Absent
  <2> HIDE DEF t, n
  <2>7. Contabilidad'
    <3> USE DEF Contabilidad
    <3>1. SinRastro'
      BY <1>2, <2>4, <2>5, <2>b, <2>c DEF SinRastro
    <3>2. Parado'
      BY <1>2, <1>4 DEF Parado, Viva
    <3>3. UnTramoActivo'
      BY <1>2, <1>4, <1>5, <2>1, <2>4, <2>a, <2>c
         DEF UnTramoActivo, Callado, Previo
    <3>4. EnEspera'
      BY <1>2, <1>4, <2>5, <2>b DEF EnEspera
    <3>5. Reencolandose'
      BY <1>2, <1>4, <2>1, <2>4, <2>5, <2>b DEF Reencolandose
    <3>6. UnSoloHijo'
      BY <1>1, <1>2, <2>1, <2>4 DEF UnSoloHijo
    <3>7. TramosRastreados'
      BY <1>2, <1>5, <2>1, <2>4, <2>5 DEF TramosRastreados
    <3>8. CancelNoCortaEntregas'
      BY <1>2, <1>4, <2>4, <2>5 DEF CancelNoCortaEntregas
    <3>9. QuedaPresupuesto'
      BY <1>2 DEF QuedaPresupuesto
    <3>10. PausaConPresupuesto'
      BY <1>2, <2>4 DEF PausaConPresupuesto
    <3> QED
      BY <3>1, <3>2, <3>3, <3>4, <3>5, <3>6, <3>7, <3>8, <3>9, <3>10
  <2> QED
    BY <1>3, <2>6, <2>7
<1>7. CASE t \notin tasks
  <2>1. UNCHANGED <<pc, handles>>
    BY <1>7 DEF Loop
  <2>2. TypeOK'
    BY <1>1, <1>2, <2>1 DEF TypeOK
  <2> HIDE DEF t, n
  <2>3. Contabilidad'
    <3> USE DEF Contabilidad
    <3>1. SinRastro'
      BY <1>1, <1>2, <2>1 DEF SinRastro
    <3>2. Parado' /\ UnTramoActivo' /\ TramosRastreados'
          /\ CancelNoCortaEntregas' /\ QuedaPresupuesto'
          /\ PausaConPresupuesto'
      BY <1>2, <1>4, <2>1
         DEF Parado, Viva, UnTramoActivo, TramosRastreados,
             CancelNoCortaEntregas, QuedaPresupuesto, PausaConPresupuesto
    <3>4. EnEspera'
      BY <1>1, <1>2, <1>4, <2>1 DEF EnEspera
    <3>5. Reencolandose'
      BY <1>1, <1>2, <1>4, <2>1 DEF Reencolandose
    <3>6. UnSoloHijo'
      BY <1>1, <1>2, <2>1 DEF UnSoloHijo
    <3> QED
      BY <3>1, <3>2, <3>4, <3>5, <3>6
  <2> QED
    BY <1>3, <2>2, <2>3
<1> QED
  BY <1>6, <1>7

\* cancel settles a delegation at once and never touches a dispatch.
LEMMA CancelCoherente ==
  ASSUME Coherente, NEW t \in Tasks, Cancel(t) PROVE Coherente'
<1> USE DEF Coherente, process, legvars, apivars, history, durable
<1>0. /\ t \in tasks /\ task[t].status # Absent /\ 0 \in 0 .. Budget
      /\ tasks \subseteq Tasks /\ phase # "down"
      /\ handles \in [Tasks -> 0 .. Budget] /\ pc \in [Tasks -> [Legs -> Pcs]]
  BY QueueAssumption DEF Cancel, MayCall, Contabilidad, SinRastro, TypeOK
<1>1. UNCHANGED <<phase, store, stops, registrando, queue, en_entrega, resume,
                  sin_persistir, aviso, sweep, rows, faults, asked, told>>
  BY DEF Cancel
<1>2. PICK c \in Change : /\ c.status \in Terminales /\ c.used = Keep
                          /\ Transicionar(t, c, "cancel", 0)
  BY ToChange, OtherChange DEF Cancel, Terminales, Status
<1>3. c.status \in Status /\ c.status # "awaiting_input"
  BY <1>2 DEF Status, Terminales
<1>4. /\ task' \in [Tasks -> Record]
      /\ \A u \in Tasks \ {t} : task'[u] = task[u]
      /\ task'[t].status = c.status /\ tasks' = tasks \ {t}
      /\ reanudaciones' \subseteq Tasks /\ disk' \in Seq(Statement)
      /\ \A i \in DOMAIN disk' :
           \/ i \in DOMAIN disk /\ disk'[i] = disk[i]
           \/ disk'[i].set = c
  BY <1>0, <1>2, <1>3, TransicionarEfecto
<1>5. /\ handles' \in [Tasks -> 0 .. Budget]
      /\ pc' \in [Tasks -> [Legs -> Pcs]]
      /\ \A u \in Tasks, m \in Legs : pc'[u][m] \in {pc[u][m], "none"}
      /\ \A u \in Tasks : handles'[u] \in {handles[u], 0}
      /\ \A u \in Tasks, m \in Legs :
           handles'[u] = m => handles[u] = m /\ pc'[u][m] = pc[u][m]
      /\ \A u \in Tasks, m \in Legs : pc'[u][m] # "none" =>
           pc'[u][m] = pc[u][m] /\ (handles[u] = m => handles'[u] = m)
  <2>1. CASE UNCHANGED <<pc, handles>>
    BY <1>0, <2>1
  <2>2. CASE /\ handles' = SinHandle(t)
             /\ IF handles[t] = 0 THEN UNCHANGED pc
                ELSE Goto(t, handles[t], "none")
    <3>1. /\ handles' = [handles EXCEPT ![t] = 0]
          /\ handles' \in [Tasks -> 0 .. Budget] /\ 0 \notin Legs
      BY <1>0, <2>2, QueueAssumption DEF SinHandle, Legs
    <3>2. CASE handles[t] = 0
      BY <1>0, <2>2, <3>1, <3>2
    <3>3. CASE handles[t] # 0
      <4>1. handles[t] \in Legs /\ "none" \in Pcs
        BY <1>0, <3>3, QueueAssumption DEF Legs, Pcs
      <4>2. /\ pc' \in [Tasks -> [Legs -> Pcs]] /\ pc'[t][handles[t]] = "none"
            /\ \A u \in Tasks, m \in Legs :
                 u # t \/ m # handles[t] => pc'[u][m] = pc[u][m]
        BY <2>2, <3>3, <4>1, GotoEfecto
      <4> QED
        BY <1>0, <3>1, <4>1, <4>2
    <3> QED
      BY <3>2, <3>3
  <2> QED
    BY <2>1, <2>2 DEF Cancel
<1>6. TypeOK'
  BY <1>1, <1>4, <1>5 DEF TypeOK
<1>7. Contabilidad'
  <2>1. TramosRastreados'
    BY <1>1, <1>5 DEF Contabilidad, TramosRastreados
  <2>2. \A u \in registrando' : u \in Tasks /\ task[u].status = Absent
    BY <1>1 DEF Contabilidad, SinRastro, TypeOK
  <2>3. \A u \in Tasks : task'[u].status = Absent <=> task[u].status = Absent
    BY <1>0, <1>3, <1>4, StatusIsNotKeep
  <2>4. tasks' \subseteq tasks /\ \A u \in tasks' : Mismo(u)
    BY <1>0, <1>4 DEF Mismo
  <2> QED
    BY <1>0, <1>1, <1>5, <2>1, <2>2, <2>3, <2>4, Marco
<1>8. PausaGuardada'
  BY <1>1, <1>2, <1>3, <1>4, StatusIsNotKeep, GuardadaEscribe
<1> QED
  BY <1>6, <1>7, <1>8

\* The dismissal of a row that the dict does not hold.
LEMMA CancelDeTerminadaCoherente ==
  ASSUME Coherente, NEW t \in Tasks, CancelDeTerminada(t) PROVE Coherente'
<1> USE DEF process, legvars, apivars, history, durable
<1> DEFINE w == [to |-> {t}, set |-> ToDismissed, by |-> "row", leg |-> 0]
<1>1. /\ w \in Statement /\ w.set = ToDismissed /\ disk \in Seq(Statement)
      /\ disk' = Append(disk, w)
  BY OtherChange, QueueAssumption
     DEF Statement, Coherente, TypeOK, CancelDeTerminada
<1> HIDE DEF w
<1>2. /\ disk' \in Seq(Statement)
      /\ \A i \in DOMAIN disk' : \/ i \in DOMAIN disk /\ disk'[i] = disk[i]
                                 \/ disk'[i].set = ToDismissed
  BY <1>1
<1>3. TypeOK'
  BY <1>2 DEF Coherente, TypeOK, CancelDeTerminada
<1>4. PausaGuardada'
  <2>1. UNCHANGED rows
    BY DEF CancelDeTerminada
  <2>2. "dismissed" # Keep
    BY StatusIsNotKeep DEF Status, Terminales
  <2> QED
    BY <1>2, <2>1, <2>2, OtherChange, GuardadaEscribe DEF Coherente
<1> QED
  BY <1>3, <1>4, QuietoCoherente DEF CancelDeTerminada, Mismo

\* The steps of resume that requeue nothing.
LEMMA ReservaCoherente ==
  ASSUME Coherente, NEW t \in Tasks, NEW r,
         r \in {"idle", "reopening", "marking"},
         resume' = [resume EXCEPT ![t] = r], task[t].status # Absent,
         TypeOK', PausaGuardada', \A u \in Tasks : Mismo(u),
         UNCHANGED <<phase, registrando, tasks, queue, pc, handles,
                     en_entrega>>,
         phase # "down"
  PROVE  Coherente'
<1> USE DEF Coherente
<1>1. \A u \in Tasks : \/ resume'[u] = resume[u]
                       \/ /\ resume'[u] # "requeuing"
                          /\ task[u].status # Absent
  BY DEF TypeOK
<1>2. TramosRastreados'
  BY DEF Contabilidad, TramosRastreados
<1>3. \A u \in registrando : u \in Tasks /\ task[u].status = Absent
  BY DEF Contabilidad, SinRastro, TypeOK
<1>4. tasks \subseteq Tasks
  BY DEF TypeOK
<1>5. \A u \in Tasks : task'[u].status = Absent <=> task[u].status = Absent
  BY DEF Mismo
<1> QED
  BY <1>1, <1>2, <1>3, <1>4, <1>5, Marco

\* A reservation that is held belongs to a live process and to an object.
LEMMA ReservaViva ==
  ASSUME Coherente, NEW t \in Tasks, resume[t] # "idle"
  PROVE  task[t].status # Absent /\ phase # "down"
BY DEF Coherente, Contabilidad, SinRastro, Parado

\* A reservation is taken, or released.
LEMMA ResumeCoherente ==
  ASSUME Coherente, NEW t \in Tasks,
         Resume(t) \/ ReanudarTarde(t) \/ ReaperturaMarcada(t)
  PROVE  Coherente'
<1> USE DEF process, legvars, apivars, history, durable
<1>1. PICK r \in {"idle", "reopening", "marking"} :
        resume' = [resume EXCEPT ![t] = r]
  BY DEF Resume, ReanudarTarde, ReaperturaMarcada
<1>2. task[t].status # Absent /\ phase # "down"
  BY ReservaViva
     DEF Resume, ReanudarTarde, ReaperturaMarcada, SigueEsperando, Absent
<1>3. UNCHANGED <<phase, store, stops, registrando, tasks, task, queue, pc,
                  handles, en_entrega, reanudaciones, sin_persistir, aviso,
                  sweep, disk, rows, faults, asked, told>>
  BY DEF Resume, ReanudarTarde, ReaperturaMarcada
<1>4. TypeOK'
  BY <1>1, <1>3 DEF Coherente, TypeOK
<1>5. PausaGuardada'
  BY <1>3, GuardadaIgual DEF Coherente
<1> QED
  BY <1>1, <1>2, <1>3, <1>4, <1>5, ReservaCoherente DEF Mismo

\* The transcript could not be reopened.
LEMMA ReaperturaFallidaCoherente ==
  ASSUME Coherente, NEW t \in Tasks, ReaperturaFallida(t) PROVE Coherente'
<1> USE DEF process, legvars, apivars, history, durable
<1>1. PICK r \in {"idle", "marking"} : resume' = [resume EXCEPT ![t] = r]
  BY DEF ReaperturaFallida
<1>2. task[t].status # Absent /\ phase # "down"
  BY ReservaViva DEF ReaperturaFallida
<1>3. /\ task' \in [Tasks -> Record] /\ \A u \in Tasks : Mismo(u)
      /\ disk' \in Seq(Statement)
      /\ \A i \in DOMAIN disk' : \/ i \in DOMAIN disk /\ disk'[i] = disk[i]
                                 \/ disk'[i].set = TranscriptCut
  <2>1. CASE UNCHANGED <<task, disk>>
    BY <2>1 DEF Coherente, TypeOK, Mismo
  <2>2. CASE /\ task' = [task EXCEPT ![t] = Apply(@, TranscriptCut)]
             /\ Persistir(t, TranscriptCut, "resume", 0)
    <3>1. 0 \in 0 .. Budget
      BY QueueAssumption
    <3> QED
      BY <2>2, <3>1, OtherChange, EscrituraCallada
  <2> QED
    BY <2>1, <2>2 DEF ReaperturaFallida
<1>4. UNCHANGED <<phase, store, stops, registrando, tasks, queue, pc,
                  handles, en_entrega, reanudaciones, sin_persistir, aviso,
                  sweep, rows, asked, told>>
  BY DEF ReaperturaFallida
<1>5. TypeOK'
  <2>1. faults' \in Nat
    BY DEF Coherente, TypeOK, ReaperturaFallida
  <2> QED
    BY <1>1, <1>3, <1>4, <2>1 DEF Coherente, TypeOK
<1>6. PausaGuardada'
  <2>1. "awaiting_input" # Keep
    BY StatusIsNotKeep DEF Status
  <2> QED
    BY <1>3, <1>4, <2>1, OtherChange, GuardadaEscribe DEF Coherente
<1> QED
  BY <1>1, <1>2, <1>3, <1>4, <1>5, <1>6, ReservaCoherente

\* resume requeues a pause: its legs are quiet and it can afford one more.
LEMMA ReencolarCoherente ==
  ASSUME Coherente, NEW t \in Tasks, Reencolar(t) PROVE Coherente'
<1> USE DEF Coherente, process, legvars, apivars, history, durable
<1>0. /\ t \in tasks /\ task[t].status = "awaiting_input" /\ phase = "up"
      /\ task \in [Tasks -> Record] /\ tasks \subseteq Tasks
      /\ registrando \subseteq Tasks
      /\ handles \in [Tasks -> 0 .. Budget] /\ 0 \in 0 .. Budget
      /\ \A u \in Tasks, m \in Legs : pc[u][m] \in Pcs
  BY QueueAssumption DEF Reencolar, SigueEsperando, TypeOK
<1>1. UNCHANGED <<phase, store, stops, registrando, tasks, queue, pc,
                  sin_persistir, aviso, sweep, rows, faults, asked, told>>
  BY DEF Reencolar
<1>2. /\ task' \in [Tasks -> Record] /\ task'[t].status = "queued"
      /\ task'[t].used = task[t].used
      /\ \A u \in Tasks \ {t} : task'[u] = task[u]
  <2>1. /\ Apply(task[t], ToQueuedAgain) \in Record
        /\ Apply(task[t], ToQueuedAgain).status = "queued"
        /\ Apply(task[t], ToQueuedAgain).used = task[t].used
    BY <1>0, OtherChange, ApplyStatus DEF Status
  <2> QED
    BY <1>0, <2>1 DEF Reencolar
<1>3. /\ disk' \in Seq(Statement)
      /\ \A i \in DOMAIN disk' : \/ i \in DOMAIN disk /\ disk'[i] = disk[i]
                                 \/ disk'[i].set = ToQueuedAgain
  BY <1>0, OtherChange, PersistirEfecto DEF Reencolar
<1>4. /\ handles' \in [Tasks -> 0 .. Budget] /\ handles'[t] = 0
      /\ \A u \in Tasks \ {t} : handles'[u] = handles[u]
  BY <1>0 DEF Reencolar, SinHandle
<1>5. /\ en_entrega' \subseteq Tasks \X Legs
      /\ en_entrega \subseteq en_entrega'
      /\ handles[t] # 0 => <<t, handles[t]>> \in en_entrega'
  BY <1>0, QueueAssumption DEF Reencolar, EnEntrega, TypeOK, Legs
<1>6. /\ resume' \in [Tasks -> {"idle", "reopening", "requeuing", "marking"}]
      /\ \A u \in Tasks \ {t} : resume'[u] = resume[u]
  BY DEF Reencolar, TypeOK
<1>7. reanudaciones' \subseteq Tasks
  BY DEF Reencolar, TypeOK
<1>8. TypeOK'
  BY <1>1, <1>2, <1>3, <1>4, <1>5, <1>6, <1>7 DEF TypeOK
<1>9. /\ \A m \in Legs : pc[t][m] \in Callado
      /\ \A i \in DOMAIN queue : queue[i] # t
      /\ Viva /\ Viva' /\ 0 \notin Legs
  BY <1>0, <1>1, SinTramoActivo, QueueAssumption
     DEF Contabilidad, EnEspera, Viva, Legs
<1>10. Contabilidad'
  <2> USE DEF Contabilidad
  <2>1. SinRastro'
    BY <1>0, <1>1, <1>2, <1>4, <1>6 DEF SinRastro, Absent
  <2>2. Parado'
    BY <1>0, <1>1, <1>9 DEF Parado, Viva
  <2>3. UnTramoActivo'
    BY <1>0, <1>1, <1>2, <1>9 DEF UnTramoActivo
  <2>4. EnEspera'
    BY <1>0, <1>1, <1>2, <1>4, <1>6, <1>9 DEF EnEspera
  <2>5. Reencolandose'
    BY <1>0, <1>1, <1>2, <1>4, <1>6, <1>9 DEF Reencolandose
  <2>6. UnSoloHijo'
    BY <1>1 DEF UnSoloHijo
  <2>7. TramosRastreados'
    BY <1>1, <1>4, <1>5, <1>9 DEF TramosRastreados
  <2>8. CancelNoCortaEntregas'
    BY <1>0, <1>1, <1>2, <1>4, <1>9 DEF CancelNoCortaEntregas
  <2>9. QuedaPresupuesto'
    BY <1>0, <1>1, <1>2 DEF QuedaPresupuesto, PausaConPresupuesto
  <2>10. PausaConPresupuesto'
    BY <1>0, <1>1, <1>2 DEF PausaConPresupuesto
  <2> QED
    BY <2>1, <2>2, <2>3, <2>4, <2>5, <2>6, <2>7, <2>8, <2>9, <2>10
<1>11. PausaGuardada'
  <2>1. "queued" # Keep
    BY StatusIsNotKeep DEF Status
  <2> QED
    BY <1>1, <1>3, <2>1, OtherChange, GuardadaEscribe
<1> QED
  BY <1>8, <1>10, <1>11

\* After the write, what is still queued enters the FIFO once.
LEMMA ReanudadaCoherente ==
  ASSUME Coherente, NEW t \in Tasks, Reanudada(t) PROVE Coherente'
<1> USE DEF Coherente, process, legvars, apivars, history, durable
<1>1. /\ resume[t] = "requeuing" /\ task[t].status # Absent /\ phase # "down"
      /\ resume' = [resume EXCEPT ![t] = "idle"]
      /\ queue' = VuelveALaCola(t) /\ queue \in Seq(Tasks)
      /\ tasks \subseteq Tasks
  BY ReservaViva DEF Reanudada, TypeOK
<1>2. UNCHANGED <<phase, store, stops, registrando, tasks, task, pc, handles,
                  en_entrega, reanudaciones, sin_persistir, aviso, sweep,
                  disk, rows, faults, asked, told>>
  BY DEF Reanudada
<1>3. queue' \in Seq(Tasks)
  BY <1>1 DEF VuelveALaCola
<1>4. TypeOK'
  BY <1>1, <1>2, <1>3 DEF TypeOK
<1>5. PausaGuardada'
  BY <1>2, GuardadaIgual
<1>6. CASE ~(t \in tasks /\ task[t].status = "queued")
  <2>1. queue' = queue
    BY <1>1, <1>6 DEF VuelveALaCola
  <2> QED
    BY <1>1, <1>2, <1>4, <1>5, <2>1, ReservaCoherente DEF Mismo
<1>7. CASE t \in tasks /\ task[t].status = "queued"
  <2>1. /\ Viva /\ Viva' /\ handles[t] = 0
        /\ \A i \in DOMAIN queue : queue[i] # t
        /\ \A m \in Legs : pc[t][m] \in Callado
    BY <1>2, <1>7, <1>1 DEF Contabilidad, Reencolandose, Viva
  <2>2. queue' = Append(queue, t)
    BY <1>1, <1>7 DEF VuelveALaCola
  <2>3. /\ DOMAIN queue' = DOMAIN queue \cup {Len(queue) + 1}
        /\ \A i \in DOMAIN queue : queue'[i] = queue[i] /\ i # Len(queue) + 1
        /\ queue'[Len(queue) + 1] = t
    BY <1>1, <2>2
  <2>4. /\ resume'[t] = "idle"
        /\ \A u \in Tasks \ {t} : resume'[u] = resume[u]
    BY <1>1 DEF TypeOK
  <2>5. Contabilidad'
    <3> USE DEF Contabilidad
    <3>1. SinRastro'
      BY <1>1, <1>2, <2>3, <2>4 DEF SinRastro
    <3>2. Parado'
      BY <1>1, <1>2, <2>1 DEF Parado, Viva
    <3>3. /\ UnTramoActivo' /\ TramosRastreados' /\ CancelNoCortaEntregas'
          /\ QuedaPresupuesto' /\ PausaConPresupuesto'
      BY <1>2 DEF UnTramoActivo, TramosRastreados, CancelNoCortaEntregas,
                  QuedaPresupuesto, PausaConPresupuesto
    <3>4. EnEspera'
      BY <1>1, <1>2, <1>7, <2>1, <2>3, <2>4 DEF EnEspera
    <3>5. Reencolandose'
      BY <1>1, <1>2, <2>1, <2>3, <2>4 DEF Reencolandose
    <3>6. UnSoloHijo'
      BY <1>2, <2>1, <2>3 DEF UnSoloHijo, Callado
    <3> QED
      BY <3>1, <3>2, <3>3, <3>4, <3>5, <3>6
  <2> QED
    BY <1>4, <1>5, <2>5
<1> QED
  BY <1>6, <1>7

\* The notice: what it does to the dict is to drop the interrupted.
LEMMA SiguienteTipo ==
  ASSUME TypeOK, NEW todo \in SUBSET Tasks, NEW x \in Siguiente(todo)
  PROVE  x \in Notice
<1>1. \A t \in Tasks : task[t].used \in 0 .. Budget
  BY DEF TypeOK, Record
<1>2. CASE todo = {}
  BY <1>2 DEF Siguiente, AvisoApagado, Notice
<1>3. CASE todo # {}
  BY <1>1, <1>3 DEF Siguiente, Notice
<1> QED
  BY <1>2, <1>3

\* The notice goes on to its next conversation.
LEMMA AvisoCoherente ==
  ASSUME Coherente, AvisarTrasArranque \/ AvisoGuardado \/ AvisoFallido
  PROVE  Coherente'
<1> USE DEF process, legvars, apivars, history, durable
<1>1. aviso.todo \in SUBSET Tasks /\ tasks \subseteq Tasks /\ TypeOK
  BY DEF Coherente, TypeOK, Notice
<1>2. aviso' \in Notice
  BY <1>1, SiguienteTipo DEF AvisarTrasArranque, AvisoGuardado, AvisoFallido
<1>3. UNCHANGED <<phase, store, stops, registrando, tasks, task, queue, pc,
                  handles, en_entrega, resume, reanudaciones, sin_persistir,
                  sweep, disk, rows, faults, asked, told>>
  BY DEF AvisarTrasArranque, AvisoGuardado, AvisoFallido
<1>4. TypeOK'
  BY <1>2, <1>3 DEF Coherente, TypeOK
<1>5. PausaGuardada'
  BY <1>3, GuardadaIgual DEF Coherente
<1> QED
  BY <1>3, <1>4, <1>5, QuietoCoherente DEF Mismo

\* The notice marks the group it told.
LEMMA MarcarAvisadasCoherente ==
  ASSUME Coherente, MarcarAvisadas PROVE Coherente'
<1> USE DEF process, legvars, apivars, history, durable
<1> DEFINE w == [to |-> aviso.now, set |-> Notified, by |-> "aviso",
                 leg |-> 0]
<1>1. /\ aviso \in Notice /\ task \in [Tasks -> Record]
      /\ asked \subseteq Tasks \X (0 .. Budget) /\ disk \in Seq(Statement)
  BY DEF Coherente, TypeOK
<1>2. /\ w \in Statement /\ w.set = Notified /\ disk' = Append(disk, w)
  BY <1>1, OtherChange, QueueAssumption DEF Statement, MarcarAvisadas, Notice
<1> HIDE DEF w
<1>3. /\ disk' \in Seq(Statement)
      /\ \A i \in DOMAIN disk' : \/ i \in DOMAIN disk /\ disk'[i] = disk[i]
                                 \/ disk'[i].set = Notified
  BY <1>1, <1>2
<1>4. \A t \in Tasks : /\ Apply(task[t], Notified) \in Record
                       /\ Apply(task[t], Notified).status = task[t].status
                       /\ Apply(task[t], Notified).used = task[t].used
  BY <1>1, OtherChange, ApplyKeep
<1>5. task' \in [Tasks -> Record] /\ \A u \in Tasks : Mismo(u)
  BY <1>1, <1>4 DEF MarcarAvisadas, Mismo
<1>6. /\ aviso' \in Notice /\ asked' \subseteq Tasks \X (0 .. Budget)
      /\ tasks' \subseteq tasks
  BY <1>1 DEF MarcarAvisadas, Notice
<1>7. UNCHANGED <<phase, store, stops, registrando, queue, pc, handles,
                  en_entrega, resume, reanudaciones, sin_persistir, sweep,
                  rows, faults, told>>
  BY DEF MarcarAvisadas
<1>8. TypeOK'
  BY <1>3, <1>5, <1>6, <1>7 DEF Coherente, TypeOK
<1>9. PausaGuardada'
  <2>1. "awaiting_input" # Keep
    BY StatusIsNotKeep DEF Status
  <2> QED
    BY <1>3, <1>7, <2>1, OtherChange, GuardadaEscribe DEF Coherente
<1> QED
  BY <1>5, <1>6, <1>7, <1>8, <1>9, QuietoCoherente

\* The connection applies or loses one statement.
LEMMA EscribirCoherente ==
  ASSUME Coherente, Escribir PROVE Coherente'
<1> USE DEF process, legvars, apivars, history
<1> DEFINE w == Head(disk)
<1>1. /\ disk \in Seq(Statement) /\ disk # <<>> /\ disk' = Tail(disk)
      /\ w \in Statement /\ w = disk[1] /\ 1 \in DOMAIN disk
      /\ \A i \in DOMAIN disk' :
           i + 1 \in DOMAIN disk /\ disk'[i] = disk[i + 1]
      /\ disk' \in Seq(Statement)
  BY DEF Escribir, Coherente, TypeOK
<1>2. /\ w.set \in Change /\ rows \in [Tasks -> Record] /\ faults \in Nat
      /\ sin_persistir \subseteq Tasks
  BY <1>1 DEF Statement, Coherente, TypeOK
<1>3. /\ w.set.status = "awaiting_input" =>
           w.set.used # Keep /\ w.set.used < Budget
      /\ w.set.status = Keep => w.set.used = Keep
      /\ \A t \in Tasks :
           rows[t].status = "awaiting_input" => rows[t].used < Budget
  BY <1>1 DEF Coherente, PausaGuardada
<1>4. /\ rows' \in [Tasks -> Record] /\ faults' \in Nat
      /\ sin_persistir' \subseteq Tasks
      /\ \A t \in Tasks : rows'[t] \in {rows[t], Apply(rows[t], w.set)}
  <2>1. CASE /\ rows' = [t \in Tasks |->
                           IF t \in w.to /\ rows[t].status # Absent
                           THEN Apply(rows[t], w.set) ELSE rows[t]]
             /\ UNCHANGED <<sin_persistir, faults>>
    <3>1. \A t \in Tasks : Apply(rows[t], w.set) \in Record
      BY <1>2, ApplyRecord
    <3> QED
      BY <1>2, <2>1, <3>1
  <2>2. CASE /\ faults' = faults + 1
             /\ UNCHANGED rows
             /\ sin_persistir' \subseteq sin_persistir \cup w.to
    <3>1. w.to \subseteq Tasks
      BY <1>1 DEF Statement
    <3> QED
      BY <1>2, <2>2, <3>1
  <2> QED
    BY <2>1, <2>2 DEF Escribir
<1>5. UNCHANGED <<phase, store, stops, registrando, tasks, task, queue, pc,
                  handles, en_entrega, resume, reanudaciones, aviso, sweep,
                  asked, told>>
  BY DEF Escribir
<1>6. TypeOK'
  BY <1>1, <1>4, <1>5 DEF Coherente, TypeOK
<1>7. PausaGuardada'
  <2>1. \A t \in Tasks :
          rows'[t].status = "awaiting_input" => rows'[t].used < Budget
    <3> SUFFICES ASSUME NEW t \in Tasks,
                        rows'[t].status = "awaiting_input"
                 PROVE  rows'[t].used < Budget
      OBVIOUS
    <3>1. CASE rows'[t] = rows[t]
      BY <1>3, <3>1
    <3>2. CASE rows'[t] = Apply(rows[t], w.set)
      <4>1. /\ rows'[t].status = IF w.set.status = Keep THEN rows[t].status
                                 ELSE w.set.status
            /\ rows'[t].used = IF w.set.used = Keep THEN rows[t].used
                               ELSE w.set.used
        BY <1>2, <3>2, ApplyRecord
      <4> HIDE DEF w
      <4> QED
        BY <1>3, <4>1
    <3> QED
      BY <1>4, <3>1, <3>2
  <2>2. \A i \in DOMAIN disk' :
          /\ disk'[i].set.status = "awaiting_input" =>
               disk'[i].set.used # Keep /\ disk'[i].set.used < Budget
          /\ disk'[i].set.status = Keep => disk'[i].set.used = Keep
    BY <1>1 DEF Coherente, PausaGuardada
  <2> QED
    BY <2>1, <2>2 DEF PausaGuardada
<1> QED
  BY <1>5, <1>6, <1>7, QuietoCoherente DEF Mismo

-----------------------------------------------------------------------------
(* stop, crash and start. *)

\* What a sweep writes on a row.
LEMMA CierreChange ==
  ASSUME NEW s \in Huerfana
  PROVE  /\ Cierre(s) \in Change
         /\ Cierre(s).status \in {"delivery_failed", "interrupted"}
<1>1. "delivery_failed" \in Status /\ "interrupted" \in Status
  BY DEF Status
<1> QED
  BY <1>1, ToChange DEF Cierre

\* stop begins.
LEMMA StopCoherente ==
  ASSUME Coherente, Stop PROVE Coherente'
<1> USE DEF process, legvars, apivars, history, durable
<1>1. TypeOK'
  BY DEF Coherente, TypeOK, Stop, AvisoApagado, Notice
<1>2. PausaGuardada'
  BY GuardadaIgual DEF Coherente, Stop
<1>3. Viva /\ Viva'
  BY DEF Stop, Viva
<1> QED
  BY <1>1, <1>2, <1>3, QuietoCoherente DEF Stop, Mismo, Coherente, TypeOK

\* stop leaves no leg alive and nothing queued or running in the dict.
LEMMA CortarHijosCoherente ==
  ASSUME Coherente, CortarHijos PROVE Coherente'
<1> USE DEF Coherente, process, legvars, apivars, history, durable
<1> DEFINE corta(t) == t \in tasks /\ task[t].status \in {"queued", "running"}
<1>0. tasks \subseteq Tasks /\ task \in [Tasks -> Record] /\ 0 \notin Legs
  BY QueueAssumption DEF TypeOK, Legs
<1>1. \A t \in Tasks : /\ Apply(task[t], To("interrupted")) \in Record
                       /\ Apply(task[t], To("interrupted")).status
                            = "interrupted"
  <2> DEFINE c == To("interrupted")
  <2>1. c \in Change /\ c.status = "interrupted" /\ c.status \in Status
    BY ToChange DEF Status
  <2> HIDE DEF c
  <2>2. \A t \in Tasks : /\ Apply(task[t], c) \in Record
                         /\ Apply(task[t], c).status = "interrupted"
    BY <1>0, <2>1, ApplyStatus
  <2> QED
    BY <2>2 DEF c
<1>2. /\ task' \in [Tasks -> Record]
      /\ \A t \in Tasks : IF corta(t) THEN task'[t].status = "interrupted"
                          ELSE task'[t] = task[t]
  BY <1>0, <1>1 DEF CortarHijos
<1>3. \A t \in Tasks, n \in Legs : pc'[t][n] = "none"
  BY DEF CortarHijos, Contabilidad, TramosRastreados
<1>4. pc' \in [Tasks -> [Legs -> Pcs]]
  <2>1. \A t \in Tasks, n \in Legs : pc[t][n] \in Pcs /\ "none" \in Pcs
    BY DEF TypeOK, Pcs
  <2> QED
    BY <2>1 DEF CortarHijos
<1>5. /\ handles' \in [Tasks -> 0 .. Budget] /\ en_entrega' = {}
      /\ reanudaciones' = {} /\ \A t \in Tasks : handles'[t] = 0
      /\ phase = "draining" /\ phase' = "cutting"
  BY QueueAssumption DEF CortarHijos
<1>6. UNCHANGED <<store, stops, registrando, tasks, queue, resume,
                  sin_persistir, aviso, sweep, disk, rows, faults, asked,
                  told>>
  BY DEF CortarHijos
<1>7. TypeOK'
  BY <1>2, <1>4, <1>5, <1>6 DEF TypeOK
<1>8. PausaGuardada'
  BY <1>6, GuardadaIgual
<1>9. Contabilidad'
  <2> HIDE DEF corta
  <2>1. \A t \in Tasks : /\ corta(t) => t \in tasks /\ "interrupted" # Absent
                         /\ t \in tasks /\ ~corta(t) =>
                              task[t].status \notin {"queued", "running"}
    BY DEF corta, Absent
  <2>2. registrando \subseteq Tasks
    BY DEF TypeOK
  <2> USE DEF Contabilidad
  <2>3. SinRastro'
    BY <1>0, <1>2, <1>3, <1>5, <1>6, <2>1, <2>2 DEF SinRastro
  <2>4. Parado'
    BY <1>3, <1>5 DEF Parado, Viva
  <2>5. UnTramoActivo'
    BY <1>0, <1>3, <1>6 DEF UnTramoActivo, Callado
  <2>6. EnEspera'
    BY <1>5 DEF EnEspera, Viva
  <2>7. Reencolandose' /\ QuedaPresupuesto' /\ PausaConPresupuesto'
    BY <1>0, <1>2, <1>3, <1>6, <2>1
       DEF Reencolandose, QuedaPresupuesto, PausaConPresupuesto
  <2>8. UnSoloHijo'
    BY <1>0, <1>3, <1>6 DEF UnSoloHijo
  <2>9. TramosRastreados' /\ CancelNoCortaEntregas'
    BY <1>0, <1>3, <1>5, <1>6 DEF TramosRastreados, CancelNoCortaEntregas
  <2> QED
    BY <2>3, <2>4, <2>5, <2>6, <2>7, <2>8, <2>9
<1> QED
  BY <1>7, <1>8, <1>9

\* stop lists the rows that are still open.
LEMMA ListarHuerfanasCoherente ==
  ASSUME Coherente, ListarHuerfanas PROVE Coherente'
<1> USE DEF process, legvars, apivars, history, durable
<1>1. sweep' \subseteq Tasks \X Huerfana /\ faults' \in Nat
  <2>1. faults \in Nat
    BY DEF Coherente, TypeOK
  <2>2. CASE sweep' = {}
    BY <2>1, <2>2 DEF ListarHuerfanas
  <2>3. CASE UNCHANGED faults /\
             sweep' = {<<t, rows[t].status>> : t \in {u \in Tasks :
                         store = "open" /\ rows[u].status \in Huerfana}}
    BY <2>1, <2>3
  <2> QED
    BY <2>2, <2>3 DEF ListarHuerfanas
<1>2. UNCHANGED <<store, stops, registrando, tasks, task, queue, pc, handles,
                  en_entrega, resume, reanudaciones, sin_persistir, aviso,
                  disk, rows, asked, told>>
  BY DEF ListarHuerfanas
<1>3. phase = "cutting" /\ phase' = "sweeping"
  BY DEF ListarHuerfanas
<1>4. TypeOK'
  BY <1>1, <1>2, <1>3 DEF Coherente, TypeOK
<1>5. PausaGuardada'
  BY <1>2, GuardadaIgual DEF Coherente
<1> QED
  BY <1>2, <1>3, <1>4, <1>5, QuietoCoherente DEF Mismo, Viva

\* stop closes a row.
LEMMA CerrarHuerfanaCoherente ==
  ASSUME Coherente, NEW x \in sweep, CerrarHuerfana(x) PROVE Coherente'
<1> USE DEF process, legvars, apivars, history, durable
<1>1. /\ x[1] \in Tasks /\ x[2] \in Huerfana /\ rows \in [Tasks -> Record]
      /\ faults \in Nat /\ sweep' \subseteq Tasks \X Huerfana
  BY DEF Coherente, TypeOK, CerrarHuerfana
<1>2. UNCHANGED <<phase, store, stops, registrando, tasks, task, queue, pc,
                  handles, en_entrega, resume, reanudaciones, sin_persistir,
                  aviso, disk, asked, told>>
  BY DEF CerrarHuerfana
<1> DEFINE c == Cierre(x[2])
<1>3. /\ Apply(rows[x[1]], c) \in Record
      /\ Apply(rows[x[1]], c).status \in {"delivery_failed", "interrupted"}
  <2>1. c \in Change /\ c.status \in Status
        /\ c.status \in {"delivery_failed", "interrupted"}
    BY <1>1, CierreChange DEF Status
  <2> HIDE DEF c
  <2> QED
    BY <1>1, <2>1, ApplyStatus
<1>4. /\ faults' \in Nat
      /\ rows' = rows \/ rows' = [rows EXCEPT ![x[1]] = Apply(@, c)]
  BY <1>1 DEF CerrarHuerfana
<1> HIDE DEF c
<1>5. /\ rows' \in [Tasks -> Record]
      /\ \A t \in Tasks :
           rows'[t].status = "awaiting_input" => rows'[t] = rows[t]
  BY <1>1, <1>3, <1>4
<1>6. TypeOK'
  BY <1>1, <1>2, <1>4, <1>5 DEF Coherente, TypeOK
<1>7. PausaGuardada'
  BY <1>2, <1>5 DEF Coherente, PausaGuardada
<1> QED
  BY <1>2, <1>6, <1>7, QuietoCoherente DEF Mismo

\* A process that ends holds nothing.
LEMMA MemoriaPerdidaCoherente ==
  ASSUME Coherente, MemoriaPerdida, stops' \in Nat,
         UNCHANGED <<task, durable, history>>
  PROVE  Coherente'
<1> USE DEF Coherente, durable, history, MemoriaPerdida
<1>1. TypeOK'
  <2>1. /\ handles' \in [Tasks -> 0 .. Budget] /\ "none" \in Pcs
        /\ AvisoApagado \in Notice
    BY QueueAssumption DEF Pcs, AvisoApagado, Notice
  <2>2. pc' \in [Tasks -> [Legs -> Pcs]]
    BY <2>1
  <2> QED
    BY <2>1, <2>2 DEF TypeOK
<1>2. Contabilidad'
  BY QueueAssumption
     DEF Contabilidad, SinRastro, Parado, Viva, UnTramoActivo, EnEspera,
         Reencolandose, UnSoloHijo, TramosRastreados, CancelNoCortaEntregas,
         QuedaPresupuesto, PausaConPresupuesto
<1>3. PausaGuardada'
  BY DEF PausaGuardada
<1> QED
  BY <1>1, <1>2, <1>3

\* start brings back only what waits for somebody.
LEMMA StartCoherente ==
  ASSUME Coherente, Start PROVE Coherente'
<1> USE DEF Coherente, legvars, apivars, history
<1>0. /\ rows \in [Tasks -> Record] /\ task \in [Tasks -> Record]
      /\ registrando = {} /\ tasks = {} /\ queue = <<>>
      /\ phase = "down" /\ phase' = "up" /\ faults \in Nat
      /\ \A t \in Tasks : /\ handles[t] = 0 /\ resume[t] = "idle"
                          /\ \A n \in Legs : pc[t][n] = "none"
  BY DEF TypeOK, Start, Contabilidad, Parado, Viva
<1>1. UNCHANGED <<stops, registrando, queue, pc, handles, en_entrega, resume,
                  reanudaciones, sin_persistir, aviso, sweep, disk, asked,
                  told>>
  BY DEF Start
<1>2. /\ store' \in {"open", "none"} /\ faults' \in Nat
      /\ rows' \in [Tasks -> Record] /\ task' \in [Tasks -> Record]
      /\ tasks' \subseteq {t \in Tasks : Rehidratable(rows'[t])}
      /\ \A t \in tasks' : task'[t] = rows'[t]
      /\ \A t \in Tasks :
           rows'[t].status = "awaiting_input" => rows'[t] = rows[t]
  <2>1. CASE store' # "open"
    BY <1>0, <2>1 DEF Start
  <2>2. CASE store' = "open"
    <3>1. PICK failed \in SUBSET {t \in Tasks : rows[t].status \in Huerfana},
               gone \in SUBSET {t \in Tasks :
                                  Retention /\ Podable(rows[t])},
               rehydrates \in BOOLEAN :
            /\ faults' = faults + Fallo(failed # {}) + Fallo(~rehydrates)
            /\ faults' <= MaxFaults
            /\ rows' = [t \in Tasks |-> Barrida(t, failed, gone)]
            /\ tasks' = {t \in Tasks : rehydrates /\ Rehidratable(rows'[t])}
            /\ task' = [t \in Tasks |-> IF t \in tasks' THEN rows'[t]
                                        ELSE task[t]]
      <4>1. store' # "none"
        BY <2>2
      <4> QED
        BY <4>1, Zenon DEF Start
    <3>2. \A t \in Tasks : rows[t].status \in Huerfana =>
            /\ Apply(rows[t], Cierre(rows[t].status)) \in Record
            /\ Apply(rows[t], Cierre(rows[t].status)).status
                 \in {"delivery_failed", "interrupted"}
      <4> SUFFICES ASSUME NEW t \in Tasks, rows[t].status \in Huerfana
                   PROVE  /\ Apply(rows[t], Cierre(rows[t].status)) \in Record
                          /\ Apply(rows[t], Cierre(rows[t].status)).status
                               \in {"delivery_failed", "interrupted"}
        OBVIOUS
      <4> DEFINE c == Cierre(rows[t].status)
      <4>1. c \in Change /\ c.status \in Status
            /\ c.status \in {"delivery_failed", "interrupted"}
        BY CierreChange DEF Status
      <4> HIDE DEF c
      <4>2. /\ Apply(rows[t], c) \in Record
            /\ Apply(rows[t], c).status = c.status
        BY <1>0, <4>1, ApplyStatus
      <4> QED
        BY <4>1, <4>2 DEF c
    <3>3. NoRecord \in Record /\ NoRecord.status = Absent
      BY NewTaskRecord DEF NoRecord
    <3>4. \A t \in Tasks : /\ rows'[t] \in Record
                           /\ \/ rows'[t] = rows[t]
                              \/ rows'[t].status # "awaiting_input"
      BY <1>0, <3>1, <3>2, <3>3 DEF Absent, Barrida
    <3>5. faults' \in Nat
      BY <1>0, <3>1 DEF Fallo
    <3>6. rows' \in [Tasks -> Record]
      BY <3>1, <3>4
    <3>7. /\ tasks' \subseteq {t \in Tasks : Rehidratable(rows'[t])}
          /\ task' = [t \in Tasks |-> IF t \in tasks' THEN rows'[t]
                                      ELSE task[t]]
      BY <3>1
    <3> QED
      BY <1>0, <2>2, <3>4, <3>5, <3>6, <3>7
  <2> QED
    BY <2>1, <2>2
<1>3. TypeOK'
  BY <1>0, <1>1, <1>2 DEF TypeOK
<1>4. PausaGuardada'
  BY <1>1, <1>2 DEF PausaGuardada
<1>5. \A t \in tasks' : /\ task'[t].status \in {"delivery_failed",
                              "awaiting_input", "interrupted"}
                        /\ task'[t].status = "awaiting_input" =>
                             task'[t].used < Budget
  BY <1>2, <1>4 DEF Rehidratable, PausaGuardada
<1>6. Contabilidad'
  <2>0. tasks' \subseteq Tasks /\ 0 \notin Legs
    BY <1>2, QueueAssumption DEF Legs
  <2> USE DEF Contabilidad
  <2>1. SinRastro' /\ Parado'
    BY <1>0, <1>1, <1>5, <2>0 DEF SinRastro, Parado, Viva, Absent
  <2>2. UnTramoActivo' /\ EnEspera' /\ Reencolandose' /\ UnSoloHijo'
    BY <1>0, <1>1, <1>5, <2>0
       DEF UnTramoActivo, EnEspera, Reencolandose, UnSoloHijo, Callado
  <2>3. TramosRastreados' /\ CancelNoCortaEntregas'
    BY <1>0, <1>1, <1>5, <2>0 DEF TramosRastreados, CancelNoCortaEntregas
  <2>4. QuedaPresupuesto' /\ PausaConPresupuesto'
    BY <1>0, <1>1, <1>5, <2>0 DEF QuedaPresupuesto, PausaConPresupuesto
  <2> QED
    BY <2>1, <2>2, <2>3, <2>4
<1> QED
  BY <1>3, <1>4, <1>6

-----------------------------------------------------------------------------
(* The inductive invariant. *)

\* The invariant holds at first.
LEMMA InitCoherente == Init => Coherente
<1> SUFFICES ASSUME Init PROVE Coherente
  OBVIOUS
<1> USE DEF Init
<1>1. TypeOK
  <2>1. /\ AvisoApagado \in Notice /\ "none" \in Pcs /\ 0 \in 0 .. Budget
        /\ 0 \in Nat
    BY QueueAssumption DEF Pcs, AvisoApagado, Notice
  <2>2. pc \in [Tasks -> [Legs -> Pcs]] /\ handles \in [Tasks -> 0 .. Budget]
    BY <2>1
  <2>3. rows \in [Tasks -> Record] /\ task \in [Tasks -> Record]
    BY NewTaskRecord
  <2> QED
    BY <2>1, <2>2, <2>3 DEF TypeOK
<1>2. Contabilidad
  <2>1. task = [t \in Tasks |-> NoRecord]
        /\ \A t \in Tasks : task[t].status = Absent
    BY DEF NoRecord
  <2> QED
    BY <2>1, QueueAssumption
       DEF Contabilidad, SinRastro, Parado, Viva, UnTramoActivo, EnEspera,
           Reencolandose, UnSoloHijo, TramosRastreados, CancelNoCortaEntregas,
           QuedaPresupuesto, PausaConPresupuesto
<1>3. PausaGuardada
  <2>1. \A t \in Tasks : rows[t].status = Absent
    BY DEF NoRecord
  <2> QED
    BY <2>1 DEF PausaGuardada, Absent
<1> QED
  BY <1>1, <1>2, <1>3 DEF Coherente

\* Every step keeps the invariant.
LEMMA StepCoherente == Coherente /\ [Next]_vars => Coherente'
<1> SUFFICES ASSUME Coherente, [Next]_vars PROVE Coherente'
  OBVIOUS
<1>1. CASE Calls
  BY <1>1, RegistrarCoherente, EnqueueCoherente, CancelCoherente,
     CancelDeTerminadaCoherente, ResumeCoherente DEF Calls
<1>2. CASE Loop
  BY <1>2, LoopCoherente
<1>3. CASE \E t \in Tasks, n \in Legs : RunTask(t, n) \/ LegStep(t, n)
  BY <1>3, RunTaskCoherente, LegStepCoherente
<1>4. CASE \E t \in Tasks : ResumeStep(t)
  BY <1>4, ReencolarCoherente, ReanudadaCoherente, ResumeCoherente,
     ReaperturaFallidaCoherente DEF ResumeStep
<1>5. CASE AvisarTrasArranque \/ AvisoStep
  BY <1>5, AvisoCoherente, MarcarAvisadasCoherente DEF AvisoStep
<1>6. CASE Escribir
  BY <1>6, EscribirCoherente
<1>7. CASE Stop \/ StopStep \/ Crash
  <2>1. stops \in Nat
    BY DEF Coherente, TypeOK
  <2>2. CASE FinDelStop
    <3>1. MemoriaPerdida /\ stops' = stops
          /\ UNCHANGED <<task, durable, history>>
      BY <2>2 DEF FinDelStop
    <3> QED
      BY <2>1, <3>1, MemoriaPerdidaCoherente
  <2>3. CASE Crash
    <3>1. MemoriaPerdida /\ stops' = stops + 1
          /\ UNCHANGED <<task, durable, history>>
      BY <2>3 DEF Crash
    <3> QED
      BY <2>1, <3>1, MemoriaPerdidaCoherente
  <2> QED
    BY <1>7, <2>2, <2>3, StopCoherente, CortarHijosCoherente,
       ListarHuerfanasCoherente, CerrarHuerfanaCoherente DEF StopStep
<1>8. CASE Start
  BY <1>8, StartCoherente
<1>9. CASE UNCHANGED vars
  <2>1. UNCHANGED <<phase, store, stops, registrando, tasks, task, queue, pc,
                    handles, en_entrega, resume, reanudaciones, sin_persistir,
                    aviso, sweep, disk, rows, faults, asked, told>>
    BY <1>9 DEF vars, process, legvars, apivars, durable, history
  <2>2. TypeOK'
    BY <2>1 DEF Coherente, TypeOK
  <2>3. PausaGuardada'
    BY <2>1, GuardadaIgual DEF Coherente
  <2>4. tasks' \subseteq tasks /\ \A u \in Tasks : Mismo(u)
    BY <2>1 DEF Mismo
  <2> QED
    BY <2>1, <2>2, <2>3, <2>4, QuietoCoherente
<1> QED
  BY <1>1, <1>2, <1>3, <1>4, <1>5, <1>6, <1>7, <1>8, <1>9 DEF Next

\* The bookkeeping of the queue holds in every reachable state.
THEOREM ColaCoherente == Safety => []Coherente
BY InitCoherente, StepCoherente, PTL DEF Safety

\* Every variable of the queue keeps its type.
THEOREM TiposCorrectos == Safety => []TypeOK
<1>1. Coherente => TypeOK
  BY DEF Coherente
<1> QED
  BY <1>1, ColaCoherente, PTL

\* stop can find and cut every leg that is alive.
THEOREM StopEncuentraTodo == Safety => []TramosRastreados
<1>1. Coherente => TramosRastreados
  BY DEF Coherente, Contabilidad
<1> QED
  BY <1>1, ColaCoherente, PTL

\* The leg that cancel cuts is never inside a turn of the parent.
THEOREM CancelEsSeguro == Safety => []CancelNoCortaEntregas
<1>1. Coherente => CancelNoCortaEntregas
  BY DEF Coherente, Contabilidad
<1> QED
  BY <1>1, ColaCoherente, PTL

\* A delegation in the FIFO is there once and has no child at work.
THEOREM NuncaDosHijos == Safety => []UnSoloHijo
<1>1. Coherente => UnSoloHijo
  BY DEF Coherente, Contabilidad
<1> QED
  BY <1>1, ColaCoherente, PTL

\* What is queued or running has budget for its leg.
THEOREM PresupuestoRespetado == Safety => []QuedaPresupuesto
<1>1. Coherente => QuedaPresupuesto
  BY DEF Coherente, Contabilidad
<1> QED
  BY <1>1, ColaCoherente, PTL
=============================================================================
