------------------------- MODULE QueueTableProofs --------------------------
(***************************************************************************)
(* Proofs about the queue and its table, bg_tasks.  The store applies later*)
(* what the objects say now, so the invariant speaks of the statements in  *)
(* between:                                                                *)
(*   Marcha  what is at work is in the dict, what was resumed has its      *)
(*           answer, and a dead process has nothing left to write;         *)
(*   Libro   at each place of a leg, what may still be in flight between   *)
(*           the object of a delegation and its row;                       *)
(*   Oidos   where no write fails, that what the parent was told stays.    *)
(***************************************************************************)
EXTENDS BackgroundQueueProofs

(***************************************************************************)
(* What the coroutines know beyond Coherente.                              *)
(***************************************************************************)
SinRetorno == Terminales \cup {"interrupted"}

\* What Coherente says of the types, for the proofs that do not open it.
LEMMA Tipos ==
  ASSUME Coherente
  PROVE  /\ TypeOK /\ Contabilidad /\ PausaGuardada /\ 0 \in 0 .. Budget
         /\ tasks \subseteq Tasks /\ queue \in Seq(Tasks) /\ handles \in [Tasks -> 0 .. Budget]
         /\ task \in [Tasks -> Record] /\ rows \in [Tasks -> Record]
         /\ pc \in [Tasks -> [Legs -> Pcs]] /\ \A u \in Tasks, m \in Legs : pc[u][m] \in Pcs
<1>1. TypeOK /\ Contabilidad /\ PausaGuardada
  BY DEF Coherente
<1>2. 0 \in 0 .. Budget
  BY QueueAssumption
<1>3. /\ tasks \subseteq Tasks /\ queue \in Seq(Tasks) /\ handles \in [Tasks -> 0 .. Budget]
      /\ task \in [Tasks -> Record] /\ rows \in [Tasks -> Record]
      /\ pc \in [Tasks -> [Legs -> Pcs]]
  BY <1>1 DEF TypeOK
<1>4. \A u \in Tasks, m \in Legs : pc[u][m] \in Pcs
  BY <1>3
<1> QED BY <1>1, <1>2, <1>3, <1>4

\* Whatever is at work is in the dict, and cancel would find it.
EnMarcha ==
  /\ \A t \in Tasks, n \in Legs : pc[t][n] \notin Callado => t \in tasks
  /\ \A t \in Tasks, n \in Legs : pc[t][n] \in Previo => handles[t] = n
  /\ \A t \in Tasks, n \in Legs :
       pc[t][n] # "none" /\ t \notin tasks => task[t].status \in SinRetorno

\* A delegation that has spent a leg and is queued again has its answer.
ConRespuesta ==
  /\ RespuestaLlega
  /\ Viva => \A t \in tasks :
       task[t].status = "queued" /\ task[t].used > 0 => t \in reanudaciones

\* Only a process that serves tells its notice; a dead one wrote everything.
Apagado ==
  /\ phase # "up" => aviso.pc = "off"
  /\ phase = "down" => disk = <<>> /\ sin_persistir = {} /\ sweep = {}

(***************************************************************************)
(* The steps of a leg are of three kinds.                                  *)
(***************************************************************************)
todas == <<phase, store, stops, registrando, queue, resume, sin_persistir, aviso,
           sweep, rows>>

\* It changes the status of its delegation: object, dict and statement.
EscribeTramo(t, n, c, place) ==
  /\ t \in tasks /\ Viva
  /\ Transicionar(t, c, "leg", n) /\ Goto(t, n, place)
  /\ \/ pc[t][n] = "sem" /\ c = To("running") /\ place = "starting"
     \/ pc[t][n] \in {"child", "snapshot", "marking"} /\ c = ToDelivering(n) /\ place = "handing"
     \/ /\ pc[t][n] = "pausing" /\ c = ToDelivering(n) /\ place = "handing"
        /\ t \in sin_persistir /\ SigueEnLaPausa(t, n) /\ ~Writing(t, "leg", n)
     \/ pc[t][n] = "snapshot" /\ c = ToAwaiting(n) /\ place = "pausing"
     \/ pc[t][n] = "dispatching" /\ c = To("delivered") /\ place = "closing"
     \/ pc[t][n] = "dispatching" /\ c = To("delivery_failed") /\ place = "closing"
  /\ told' = IF c = To("delivered") THEN [told EXCEPT ![t] = @ + 1] ELSE told
  /\ UNCHANGED <<todas, handles, en_entrega, faults, asked>>

\* It goes on, and may write columns that say nothing of the status.
MueveTramo(t, n, place) ==
  /\ Goto(t, n, place) /\ Viva
  /\ \/ /\ pc[t][n] = "starting" /\ place = "child" /\ ~Writing(t, "leg", n)
        /\ reanudaciones' = reanudaciones \ {t}
        /\ UNCHANGED <<task, disk, faults, asked>>
     \/ /\ \/ pc[t][n] = "child" /\ place = "snapshot" /\ Durable(t)
           \/ /\ pc[t][n] = "pausing" /\ place = "asking" /\ ~Writing(t, "leg", n)
              /\ ~(t \in sin_persistir /\ SigueEnLaPausa(t, n))
           \/ pc[t][n] = "handing" /\ place = "dispatching" /\ ~Writing(t, "leg", n)
        /\ UNCHANGED <<task, disk, reanudaciones, faults, asked>>
     \/ /\ pc[t][n] \in {"child", "snapshot"} /\ place = "marking"
        /\ task' = [task EXCEPT ![t] = Apply(@, TranscriptCut)]
        /\ Persistir(t, TranscriptCut, "leg", n)
        /\ faults < MaxFaults /\ faults' = faults + 1 /\ UNCHANGED <<reanudaciones, asked>>
     \/ /\ pc[t][n] = "asking" /\ place = "closing" /\ asked' = asked \cup {<<t, n>>}
        /\ SigueEnLaPausa(t, n)
        /\ task' = [task EXCEPT ![t] = Apply(@, Notified)]
        /\ Persistir(t, Notified, "leg", n) /\ UNCHANGED <<reanudaciones, faults>>
     \/ /\ pc[t][n] = "asking" /\ place = "closing"
        /\ asked' \in {asked, asked \cup {<<t, n>>}}
        /\ UNCHANGED <<task, disk, reanudaciones, faults>>
     \/ /\ pc[t][n] = "asking" /\ place = "closing" /\ SigueEnLaPausa(t, n)
        /\ Persistir(t, NoChange, "leg", n)
        /\ UNCHANGED <<task, reanudaciones, faults, asked>>
  /\ UNCHANGED <<todas, tasks, handles, en_entrega, told>>

\* It ends.
AcabaTramo(t, n) ==
  /\ pc[t][n] = "closing" /\ ~Writing(t, "leg", n) /\ OlvidarHandle(t, n) /\ Viva
  /\ UNCHANGED <<todas, tasks, task, reanudaciones, disk, faults, asked, told>>

\* _ciclo_de_vida writes "delivering" whichever way the leg ended.
LEMMA EntregarEscribe ==
  ASSUME NEW t \in Tasks, NEW n \in Legs, Entregar(t, n), t \in tasks, Viva,
         \/ pc[t][n] \in {"child", "snapshot", "marking"}
         \/ pc[t][n] = "pausing" /\ t \in sin_persistir /\ SigueEnLaPausa(t, n) /\ ~Writing(t, "leg", n),
         UNCHANGED <<todas, handles, en_entrega, faults, asked, told>>
  PROVE  \E c \in Change, place \in Pcs : EscribeTramo(t, n, c, place)
<1> DEFINE c == ToDelivering(n)
<1>1. c \in Change /\ c # To("delivered")
  BY LegRange, LegChange, ToChange DEF Status, Terminales
<1>2. Transicionar(t, c, "leg", n) /\ Goto(t, n, "handing")
  BY DEF Entregar
<1>3. EscribeTramo(t, n, c, "handing")
  <2>1. c = ToDelivering(n)
    OBVIOUS
  <2> HIDE DEF c
  <2> QED BY <1>1, <1>2, <2>1 DEF EscribeTramo, todas
<1>4. "handing" \in Pcs
  BY DEF Pcs
<1> HIDE DEF c
<1> QED BY <1>1, <1>3, <1>4

\* A leg is only there while the process is.
LEMMA TramoVivo ==
  ASSUME Coherente, NEW t \in Tasks, NEW n \in Legs, pc[t][n] # "none"
  PROVE  Viva
BY DEF Coherente, Contabilidad, Parado

\* Every step of a leg is of one of the three kinds.
LEMMA TramoEscribeOMueve ==
  ASSUME Coherente, EnMarcha, NEW t \in Tasks, NEW n \in Legs, RunTask(t, n) \/ LegStep(t, n)
  PROVE  \/ \E c \in Change, place \in Pcs : EscribeTramo(t, n, c, place)
         \/ \E place \in Pcs : MueveTramo(t, n, place)
         \/ AcabaTramo(t, n)
<1> USE DEF process, legvars, apivars, durable, history
<1>0. /\ pc[t][n] \in Pcs
      /\ pc[t][n] # "none" => Viva
      /\ pc[t][n] \notin Callado => t \in tasks
      /\ pc[t][n] # "none" /\ SigueEnLaPausa(t, n) => t \in tasks
  BY TramoVivo DEF Coherente, TypeOK, EnMarcha, SigueEnLaPausa, SinRetorno, Terminales
<1>1. CASE RunTask(t, n)
  <2>1. pc[t][n] = "sem" /\ t \in tasks /\ Viva
    BY <1>0, <1>1 DEF RunTask, Callado
  <2> DEFINE c == To("running")
  <2>2. c \in Change /\ c # To("delivered")
    BY ToChange DEF Status, Terminales
  <2>3. c = To("running")
    OBVIOUS
  <2> HIDE DEF c
  <2>4. /\ Transicionar(t, c, "leg", n) /\ Goto(t, n, "starting")
        /\ UNCHANGED <<handles, en_entrega>>
        /\ UNCHANGED <<todas, faults, asked, told>>
    BY <1>1, <2>1, <2>3 DEF RunTask, todas
  <2>5. EscribeTramo(t, n, c, "starting")
    BY <2>1, <2>2, <2>3, <2>4 DEF EscribeTramo
  <2>6. "starting" \in Pcs
    BY DEF Pcs
  <2> QED BY <2>2, <2>5, <2>6
<1>2. CASE EjecutarHijo(t, n)
  <2>1. MueveTramo(t, n, "child")
    BY <1>0, <1>2 DEF EjecutarHijo, MueveTramo, At, todas
  <2> QED BY <2>1 DEF Pcs
<1>3. CASE HijoTermina(t, n)
  <2>1. /\ pc[t][n] = "child" /\ Entregar(t, n)
        /\ UNCHANGED <<todas, handles, en_entrega, faults, asked, told>>
    BY <1>3 DEF HijoTermina, todas
  <2> QED BY <1>0, <2>1, EntregarEscribe DEF Callado
<1>4. CASE HijoPregunta(t, n)
  <2>1. CASE Durable(t) /\ QuedaParaOtro(n)
    <3>1. MueveTramo(t, n, "snapshot")
      BY <1>0, <1>4, <2>1 DEF HijoPregunta, MueveTramo, todas
    <3> QED BY <3>1 DEF Pcs
  <2>2. CASE ~(Durable(t) /\ QuedaParaOtro(n))
    <3>1. /\ pc[t][n] = "child" /\ Entregar(t, n)
          /\ UNCHANGED <<todas, handles, en_entrega, faults, asked, told>>
      BY <1>4, <2>2 DEF HijoPregunta, todas
    <3> QED BY <1>0, <3>1, EntregarEscribe DEF Callado
  <2> QED BY <2>1, <2>2
<1>5. CASE TranscriptRoto(t, n)
  <2>1. MueveTramo(t, n, "marking")
    BY <1>0, <1>5 DEF TranscriptRoto, MueveTramo, todas
  <2> QED BY <2>1 DEF Pcs
<1>6. CASE SinPausa(t, n)
  <2>1. /\ pc[t][n] = "marking" /\ Entregar(t, n)
        /\ UNCHANGED <<todas, handles, en_entrega, faults, asked, told>>
    BY <1>6 DEF SinPausa, At, todas
  <2> QED BY <1>0, <2>1, EntregarEscribe DEF Callado
<1>7. CASE Pausar(t, n)
  <2> DEFINE c == ToAwaiting(n)
  <2>1. c \in Change /\ c # To("delivered")
    BY LegRange, LegChange, ToChange DEF Status, Terminales
  <2>2. c = ToAwaiting(n)
    OBVIOUS
  <2> HIDE DEF c
  <2>3. /\ pc[t][n] = "snapshot" /\ t \in tasks /\ Viva
        /\ Transicionar(t, c, "leg", n) /\ Goto(t, n, "pausing")
        /\ UNCHANGED <<todas, handles, en_entrega, faults, asked, told>>
    BY <1>0, <1>7, <2>2 DEF Pausar, todas, Callado
  <2>4. EscribeTramo(t, n, c, "pausing")
    BY <2>1, <2>2, <2>3 DEF EscribeTramo
  <2> QED BY <2>1, <2>4 DEF Pcs
<1>8. CASE Preguntar(t, n)
  <2>1. CASE t \in sin_persistir /\ SigueEnLaPausa(t, n)
    <3>1. /\ pc[t][n] = "pausing" /\ Entregar(t, n) /\ ~Writing(t, "leg", n)
          /\ UNCHANGED <<todas, handles, en_entrega, faults, asked, told>>
      BY <1>8, <2>1 DEF Preguntar, At, todas
    <3> QED BY <1>0, <2>1, <3>1, EntregarEscribe
  <2>2. CASE ~(t \in sin_persistir /\ SigueEnLaPausa(t, n))
    <3>1. MueveTramo(t, n, "asking")
      BY <1>0, <1>8, <2>2 DEF Preguntar, MueveTramo, At, todas
    <3> QED BY <3>1 DEF Pcs
  <2> QED BY <2>1, <2>2
<1>9. CASE PreguntaDespachada(t, n)
  <2>1. MueveTramo(t, n, "closing")
    BY <1>0, <1>9 DEF PreguntaDespachada, MueveTramo, todas
  <2> QED BY <2>1 DEF Pcs
<1>10. CASE PreguntaFallida(t, n)
  <2>1. MueveTramo(t, n, "closing")
    BY <1>0, <1>10 DEF PreguntaFallida, MueveTramo, todas
  <2> QED BY <2>1 DEF Pcs
<1>11. CASE Despachar(t, n)
  <2>1. MueveTramo(t, n, "dispatching")
    BY <1>0, <1>11 DEF Despachar, MueveTramo, At, todas
  <2> QED BY <2>1 DEF Pcs
<1>12. CASE ResultadoDespachado(t, n)
  <2> DEFINE c == To("delivered")
  <2>1. c \in Change
    BY ToChange DEF Status, Terminales
  <2>2. c = To("delivered")
    OBVIOUS
  <2> HIDE DEF c
  <2>3. /\ pc[t][n] = "dispatching" /\ t \in tasks /\ Viva
        /\ Transicionar(t, c, "leg", n) /\ Goto(t, n, "closing")
        /\ told' = [told EXCEPT ![t] = @ + 1]
        /\ UNCHANGED <<todas, handles, en_entrega, faults, asked>>
    BY <1>0, <1>12, <2>2 DEF ResultadoDespachado, todas, Callado
  <2>4. EscribeTramo(t, n, c, "closing")
    BY <2>2, <2>3 DEF EscribeTramo
  <2> QED BY <2>1, <2>4 DEF Pcs
<1>13. CASE ResultadoFallido(t, n)
  <2> DEFINE c == To("delivery_failed")
  <2>1. c \in Change /\ c # To("delivered")
    BY ToChange DEF Status, Terminales
  <2>2. c = To("delivery_failed")
    OBVIOUS
  <2> HIDE DEF c
  <2>3. /\ pc[t][n] = "dispatching" /\ t \in tasks /\ Viva
        /\ Transicionar(t, c, "leg", n) /\ Goto(t, n, "closing")
        /\ UNCHANGED <<todas, handles, en_entrega, faults, asked, told>>
    BY <1>0, <1>13, <2>2 DEF ResultadoFallido, todas, Callado
  <2>4. EscribeTramo(t, n, c, "closing")
    BY <2>1, <2>2, <2>3 DEF EscribeTramo
  <2> QED BY <2>1, <2>4 DEF Pcs
<1>14. CASE FinDelTramo(t, n)
  BY <1>0, <1>14 DEF FinDelTramo, AcabaTramo, At, todas
<1> QED
  BY <1>1, <1>2, <1>3, <1>4, <1>5, <1>6, <1>7, <1>8, <1>9, <1>10, <1>11, <1>12, <1>13, <1>14 DEF LegStep

-----------------------------------------------------------------------------
(* What every step does to the legs. *)

\* A leg that moves to another place; the others stay where they are.
LEMMA MarchaPaso ==
  ASSUME EnMarcha, NEW t \in Tasks, NEW n \in Legs, NEW place,
         pc[t][n] # "none", pc'[t][n] = place,
         \A u \in Tasks, m \in Legs : u # t \/ m # n => pc'[u][m] = pc[u][m],
         place \notin Callado => t \in tasks, place \in Previo => pc[t][n] \in Previo,
         \A u \in Tasks : u \in tasks \/ task'[u].status = task[u].status,
         UNCHANGED <<tasks, handles>>
  PROVE  EnMarcha'
<1>1. \A u \in Tasks, m \in Legs : pc'[u][m] \notin Callado => u \in tasks'
  BY DEF EnMarcha
<1>2. \A u \in Tasks, m \in Legs : pc'[u][m] \in Previo => handles'[u] = m
  BY DEF EnMarcha
<1>3. \A u \in Tasks, m \in Legs :
        pc'[u][m] # "none" /\ u \notin tasks' => task'[u].status \in SinRetorno
  BY DEF EnMarcha
<1> QED BY <1>1, <1>2, <1>3 DEF EnMarcha

\* Legs are only cut, and what leaves the dict does so for good.
LEMMA MarchaIgual ==
  ASSUME TypeOK, Contabilidad, EnMarcha,
         \A u \in Tasks, m \in Legs : pc'[u][m] \in {pc[u][m], "none"},
         \A u \in Tasks, m \in Legs : pc'[u][m] \in Previo => handles'[u] = handles[u],
         \A u \in Tasks : u \in tasks /\ u \notin tasks' =>
           /\ task'[u].status \in SinRetorno
           /\ \A m \in Legs : pc'[u][m] \in Callado,
         \A u \in Tasks : u \notin tasks /\ u \notin tasks' =>
           task'[u].status = task[u].status \/ \A m \in Legs : pc'[u][m] = "none"
  PROVE  EnMarcha'
<1>0. "none" \in Callado /\ "none" \notin Previo
  BY DEF Callado, Previo
<1>1. \A u \in Tasks, m \in Legs : pc'[u][m] \notin Callado => u \in tasks'
  BY <1>0 DEF EnMarcha
<1>2. \A u \in Tasks, m \in Legs : pc'[u][m] \in Previo => handles'[u] = m
  BY <1>0 DEF EnMarcha
<1>3. \A u \in Tasks, m \in Legs :
        pc'[u][m] # "none" /\ u \notin tasks' => task'[u].status \in SinRetorno
  BY DEF EnMarcha
<1> QED BY <1>1, <1>2, <1>3 DEF EnMarcha

\* Where no leg is left there is nothing to say.
LEMMA MarchaSinTramos ==
  ASSUME \A u \in Tasks, m \in Legs : pc'[u][m] = "none" PROVE EnMarcha'
BY DEF EnMarcha, Callado, Previo

\* What a leg that writes does to its delegation.
LEMMA EscribeEfecto ==
  ASSUME Coherente, NEW t \in Tasks, NEW n \in Legs, NEW c \in Change, NEW place \in Pcs,
         EscribeTramo(t, n, c, place)
  PROVE  /\ c.status \in {"running", "delivering", "awaiting_input", "delivered", "delivery_failed"}
         /\ \A u \in Tasks \ {t} : task'[u] = task[u]
         /\ task'[t].status = c.status
         /\ task'[t].used = IF c.used = Keep THEN task[t].used ELSE c.used
         /\ tasks' = IF c.status = "delivered" THEN tasks \ {t} ELSE tasks
         /\ reanudaciones' = IF c.status = "delivered" THEN reanudaciones \ {t} ELSE reanudaciones
         /\ pc'[t][n] = place
         /\ \A u \in Tasks, m \in Legs : u # t \/ m # n => pc'[u][m] = pc[u][m]
         /\ c.status = "running" => c.used = Keep /\ pc[t][n] = "sem" /\ place = "starting"
         /\ c.status = "delivering" =>
              /\ c.used = n /\ pc[t][n] \in {"child", "snapshot", "marking", "pausing"} /\ place = "handing"
              /\ pc[t][n] = "pausing" => /\ task[t].status = "awaiting_input" /\ task[t].used = n
                                         /\ t \in sin_persistir /\ ~Writing(t, "leg", n)
         /\ c.status = "awaiting_input" => c.used = n /\ pc[t][n] = "snapshot" /\ place = "pausing"
         /\ c.status \in {"delivered", "delivery_failed"} =>
              c.used = Keep /\ pc[t][n] = "dispatching" /\ place = "closing"
         /\ told' = IF c.status = "delivered" THEN [told EXCEPT ![t] = @ + 1] ELSE told
<1>0. {"running", "delivered", "delivery_failed"} \subseteq Status /\ n \in 0 .. Budget
  BY LegRange DEF Status, Terminales
<1>1. /\ To("running").status = "running" /\ To("running").used = Keep
      /\ To("delivered").status = "delivered" /\ To("delivered").used = Keep
      /\ To("delivery_failed").status = "delivery_failed" /\ To("delivery_failed").used = Keep
  BY <1>0, ToChange
<1>2. /\ ToDelivering(n).status = "delivering" /\ ToDelivering(n).used = n
      /\ ToAwaiting(n).status = "awaiting_input" /\ ToAwaiting(n).used = n
  BY <1>0, LegChange
<1>3. /\ c.status \in {"running", "delivering", "awaiting_input", "delivered", "delivery_failed"}
      /\ c.status = "delivered" <=> c = To("delivered")
      /\ c.status = "running" => c.used = Keep /\ pc[t][n] = "sem" /\ place = "starting"
      /\ c.status = "delivering" =>
           /\ c.used = n /\ pc[t][n] \in {"child", "snapshot", "marking", "pausing"} /\ place = "handing"
           /\ pc[t][n] = "pausing" => /\ task[t].status = "awaiting_input" /\ task[t].used = n
                                      /\ t \in sin_persistir /\ ~Writing(t, "leg", n)
      /\ c.status = "awaiting_input" => c.used = n /\ pc[t][n] = "snapshot" /\ place = "pausing"
      /\ c.status \in {"delivered", "delivery_failed"} =>
           c.used = Keep /\ pc[t][n] = "dispatching" /\ place = "closing"
  BY <1>1, <1>2 DEF EscribeTramo, SigueEnLaPausa
<1>4. c.status \in Status /\ TypeOK
  BY <1>3 DEF Status, Terminales, Coherente
<1>5. /\ Transicionar(t, c, "leg", n) /\ Goto(t, n, place)
      /\ told' = IF c = To("delivered") THEN [told EXCEPT ![t] = @ + 1] ELSE told
  BY DEF EscribeTramo
<1>6. /\ \A u \in Tasks \ {t} : task'[u] = task[u]
      /\ task'[t].status = c.status
      /\ task'[t].used = IF c.used = Keep THEN task[t].used ELSE c.used
      /\ tasks' = IF c.status \in Terminales THEN tasks \ {t} ELSE tasks
  BY <1>0, <1>4, <1>5, TransicionarEfecto
<1>7. /\ reanudaciones' = IF c.status \in OlvidaRespuesta THEN reanudaciones \ {t} ELSE reanudaciones
  BY <1>5 DEF Transicionar
<1>8. /\ c.status \in Terminales <=> c.status = "delivered"
      /\ c.status \in OlvidaRespuesta <=> c.status = "delivered"
  BY <1>3 DEF Terminales, OlvidaRespuesta
<1>9. /\ pc'[t][n] = place
      /\ \A u \in Tasks, m \in Legs : u # t \/ m # n => pc'[u][m] = pc[u][m]
  BY <1>4, <1>5, GotoEfecto
<1>10. told' = IF c.status = "delivered" THEN [told EXCEPT ![t] = @ + 1] ELSE told
  BY <1>3, <1>5
<1> QED BY <1>3, <1>6, <1>7, <1>8, <1>9, <1>10

\* What a leg that goes on does to its delegation.
LEMMA MueveEfecto ==
  ASSUME Coherente, NEW t \in Tasks, NEW n \in Legs, NEW place \in Pcs,
         MueveTramo(t, n, place)
  PROVE  /\ \A u \in Tasks : Mismo(u)
         /\ pc'[t][n] = place
         /\ \A u \in Tasks, m \in Legs : u # t \/ m # n => pc'[u][m] = pc[u][m]
         /\ <<pc[t][n], place>> \in {<<"starting", "child">>, <<"child", "snapshot">>,
              <<"pausing", "asking">>, <<"handing", "dispatching">>, <<"child", "marking">>,
              <<"snapshot", "marking">>, <<"asking", "closing">>}
         /\ place \in {"child", "asking", "dispatching"} => ~Writing(t, "leg", n) /\ disk' = disk
         /\ reanudaciones' = IF place = "child" THEN reanudaciones \ {t} ELSE reanudaciones
         /\ \/ disk' = disk
            \/ \E c \in {NoChange, Notified, TranscriptCut} :
                 /\ Persistir(t, c, "leg", n)
                 /\ c = Notified => asked' = asked \cup {<<t, n>>} /\ pc[t][n] = "asking" /\ SigueEnLaPausa(t, n)
                 /\ c = TranscriptCut => faults < MaxFaults
         /\ asked \subseteq asked'
<1>1. /\ Goto(t, n, place) /\ TypeOK /\ task \in [Tasks -> Record]
  BY DEF MueveTramo, Coherente, TypeOK
<1>2. /\ pc'[t][n] = place
      /\ \A u \in Tasks, m \in Legs : u # t \/ m # n => pc'[u][m] = pc[u][m]
  BY <1>1, GotoEfecto
<1>3. \A c \in {Notified, TranscriptCut} :
        /\ Apply(task[t], c).status = task[t].status
        /\ Apply(task[t], c).used = task[t].used
  BY <1>1, OtherChange, ApplyKeep
<1>4. \/ task' = task
      \/ task' = [task EXCEPT ![t] = Apply(task[t], Notified)]
      \/ task' = [task EXCEPT ![t] = Apply(task[t], TranscriptCut)]
  BY DEF MueveTramo
<1>5. \A u \in Tasks : Mismo(u)
  BY <1>1, <1>3, <1>4 DEF Mismo
<1>6. Notified.notified = TRUE /\ NoChange.notified = Keep /\ TranscriptCut.notified = Keep
  BY DEF Notified, NoChange, TranscriptCut
<1>7. Keep # TRUE
  BY QueueAssumption
<1>8. Notified # TranscriptCut /\ Notified # NoChange
  BY <1>6, <1>7
<1>9. TranscriptCut # NoChange
  BY QueueAssumption DEF TranscriptCut, NoChange
<1>10. /\ <<pc[t][n], place>> \in {<<"starting", "child">>, <<"child", "snapshot">>,
              <<"pausing", "asking">>, <<"handing", "dispatching">>, <<"child", "marking">>,
              <<"snapshot", "marking">>, <<"asking", "closing">>}
       /\ place \in {"child", "asking", "dispatching"} => ~Writing(t, "leg", n) /\ disk' = disk
       /\ reanudaciones' = IF place = "child" THEN reanudaciones \ {t} ELSE reanudaciones
       /\ asked \subseteq asked'
  BY DEF MueveTramo
<1>11. \/ disk' = disk
       \/ \E c \in {NoChange, Notified, TranscriptCut} :
            /\ Persistir(t, c, "leg", n)
            /\ c = Notified => asked' = asked \cup {<<t, n>>} /\ pc[t][n] = "asking" /\ SigueEnLaPausa(t, n)
            /\ c = TranscriptCut => faults < MaxFaults
  BY <1>8, <1>9 DEF MueveTramo
<1> QED BY <1>2, <1>5, <1>10, <1>11

\* What the coroutines, the reservations and the notice know of one another.
Marcha == EnMarcha /\ ConRespuesta /\ Apagado

\* The steps of a leg keep EnMarcha.
LEMMA TramoMarcha ==
  ASSUME Coherente, EnMarcha, NEW t \in Tasks, NEW n \in Legs, RunTask(t, n) \/ LegStep(t, n)
  PROVE  EnMarcha'
<1>0. /\ \A u \in Tasks, m \in Legs : pc[u][m] \in Pcs
      /\ \A m \in Legs : pc[t][n] \notin Callado => m = n \/ pc[t][m] \in Callado
      /\ tasks \subseteq Tasks /\ TypeOK /\ Contabilidad
  BY Tipos DEF Contabilidad, UnTramoActivo, EnMarcha
<1>1. ASSUME NEW c \in Change, NEW place \in Pcs, EscribeTramo(t, n, c, place) PROVE EnMarcha'
  <2>1. /\ \A u \in Tasks \ {t} : task'[u] = task[u]
        /\ task'[t].status = c.status
        /\ tasks' = IF c.status = "delivered" THEN tasks \ {t} ELSE tasks
        /\ pc'[t][n] = place
        /\ \A u \in Tasks, m \in Legs : u # t \/ m # n => pc'[u][m] = pc[u][m]
        /\ c.status = "delivered" => pc[t][n] = "dispatching" /\ place = "closing"
        /\ place \in Previo => pc[t][n] \in Previo
        /\ pc[t][n] # "none"
    BY <1>1, EscribeEfecto DEF Previo
  <2>2. t \in tasks /\ UNCHANGED handles
    BY <1>1 DEF EscribeTramo
  <2>3. CASE c.status # "delivered"
    BY <2>1, <2>2, <2>3, MarchaPaso
  <2>4. CASE c.status = "delivered"
    <3>1. "dispatching" \notin Callado /\ "closing" \in Callado /\ "closing" \notin Previo
      BY DEF Callado, Previo
    <3>2. \A u \in Tasks, m \in Legs : pc'[u][m] \notin Callado => u \in tasks'
      BY <1>0, <2>1, <2>4, <3>1 DEF EnMarcha
    <3>3. \A u \in Tasks, m \in Legs : pc'[u][m] \in Previo => handles'[u] = m
      BY <2>1, <2>2, <2>4, <3>1 DEF EnMarcha
    <3>4. \A u \in Tasks, m \in Legs :
            pc'[u][m] # "none" /\ u \notin tasks' => task'[u].status \in SinRetorno
      BY <2>1, <2>4 DEF EnMarcha, SinRetorno, Terminales
    <3> QED BY <3>2, <3>3, <3>4 DEF EnMarcha
  <2> QED BY <2>3, <2>4
<1>2. ASSUME NEW place \in Pcs, MueveTramo(t, n, place) PROVE EnMarcha'
  <2>1. /\ pc'[t][n] = place
        /\ \A u \in Tasks, m \in Legs : u # t \/ m # n => pc'[u][m] = pc[u][m]
        /\ place \in Previo => pc[t][n] \in Previo
        /\ place \notin Callado => pc[t][n] \notin Callado
        /\ pc[t][n] # "none"
        /\ \A u \in Tasks : task'[u].status = task[u].status
    BY <1>2, MueveEfecto DEF Previo, Callado, Mismo
  <2>2. UNCHANGED <<tasks, handles>>
    BY <1>2 DEF MueveTramo
  <2>3. place \notin Callado => t \in tasks
    BY <2>1 DEF EnMarcha
  <2> QED BY <2>1, <2>2, <2>3, MarchaPaso
<1>3. CASE AcabaTramo(t, n)
  <2>1. /\ \A u \in Tasks, m \in Legs :
             pc'[u][m] = IF u = t /\ m = n THEN "none" ELSE pc[u][m]
        /\ \A u \in Tasks : handles'[u] = IF u = t /\ handles[t] = n THEN 0 ELSE handles[u]
        /\ UNCHANGED <<tasks, task>>
    BY <1>0, <1>3 DEF AcabaTramo, OlvidarHandle, SinHandle, Goto, TypeOK
  <2>2. \A u \in Tasks, m \in Legs : pc'[u][m] \in Previo => handles'[u] = handles[u]
    BY <2>1 DEF EnMarcha, Previo
  <2> QED BY <1>0, <2>1, <2>2, MarchaIgual
<1> QED BY <1>1, <1>2, <1>3, TramoEscribeOMueve

\* cancel takes out of the dict only what has no leg before its dispatch.
LEMMA CancelMarcha ==
  ASSUME Coherente, EnMarcha, NEW t \in Tasks, Cancel(t) PROVE EnMarcha'
<1> USE DEF process, legvars, apivars, durable, history
<1>0. /\ TypeOK /\ Contabilidad /\ t \in tasks /\ 0 \in 0 .. Budget
      /\ \A u \in Tasks, m \in Legs : pc[u][m] \in Pcs
  BY Tipos DEF Cancel
<1>1. CASE task[t].status \in {"awaiting_input", "delivery_failed", "interrupted"}
  <2> DEFINE c == ToDismissed
  <2>1. c \in Change /\ c.status = "dismissed" /\ "dismissed" \in Status
    BY OtherChange DEF Status, Terminales
  <2>2. Transicionar(t, c, "cancel", 0) /\ UNCHANGED <<pc, handles>>
    BY <1>1 DEF Cancel
  <2> HIDE DEF c
  <2>3. /\ \A u \in Tasks \ {t} : task'[u] = task[u]
        /\ task'[t].status = "dismissed"
        /\ tasks' = tasks \ {t}
    BY <1>0, <2>1, <2>2, TransicionarEfecto DEF Terminales
  <2>4. \A m \in Legs : pc[t][m] \in Callado
    BY <1>0, <1>1, SinTramoActivo DEF Contabilidad
  <2> QED BY <1>0, <2>2, <2>3, <2>4, MarchaIgual DEF SinRetorno, Terminales
<1>2. CASE task[t].status \in {"queued", "running"}
  <2> DEFINE c == To("cancelled")
  <2>1. c \in Change /\ c.status = "cancelled" /\ "cancelled" \in Status
    BY ToChange DEF Status, Terminales
  <2>2. /\ Transicionar(t, c, "cancel", 0)
        /\ handles' = SinHandle(t)
        /\ IF handles[t] = 0 THEN UNCHANGED pc ELSE Goto(t, handles[t], "none")
    BY <1>2 DEF Cancel
  <2> HIDE DEF c
  <2>3. /\ \A u \in Tasks \ {t} : task'[u] = task[u]
        /\ task'[t].status = "cancelled"
        /\ tasks' = tasks \ {t}
    BY <1>0, <2>1, <2>2, TransicionarEfecto DEF Terminales
  <2>4. /\ \A u \in Tasks, m \in Legs :
             pc'[u][m] = IF u = t /\ m = handles[t] THEN "none" ELSE pc[u][m]
        /\ \A u \in Tasks \ {t} : handles'[u] = handles[u]
    BY <1>0, <2>2, QueueAssumption DEF SinHandle, Goto, TypeOK, Legs
  <2>5. \A m \in Legs : m # handles[t] => pc[t][m] \in Callado
    BY <1>0, <1>2 DEF EnMarcha, Contabilidad, UnTramoActivo, Pcs, Callado, Previo
  <2>6. \A m \in Legs : pc'[t][m] \in Callado
    BY <2>4, <2>5 DEF Callado
  <2>7. \A m \in Legs : pc'[t][m] \notin Previo
    BY <2>6 DEF Callado, Previo
  <2> QED BY <1>0, <2>3, <2>4, <2>6, <2>7, MarchaIgual DEF SinRetorno, Terminales
<1> QED BY <1>1, <1>2 DEF Cancel

\* The consumer gives the handle to the leg it creates.
LEMMA LoopMarcha ==
  ASSUME Coherente, EnMarcha, Loop PROVE EnMarcha'
<1> USE DEF process, legvars, apivars, durable, history
<1> DEFINE t == Head(queue)
           n == task[t].used + 1
<1>1. /\ queue \in Seq(Tasks) /\ queue # <<>> /\ t \in Tasks /\ t = queue[1] /\ 1 \in DOMAIN queue
      /\ UNCHANGED <<tasks, task>> /\ phase = "up" /\ TypeOK /\ Contabilidad
      /\ \A u \in Tasks, m \in Legs : pc[u][m] \in Pcs
  BY Tipos DEF Loop
<1>2. CASE t \in tasks
  <2>1. /\ task[t].status = "queued" /\ \A m \in Legs : pc[t][m] \in Callado
    BY <1>1, <1>2 DEF Contabilidad, EnEspera, UnSoloHijo, Viva, Callado
  <2>2. n \in Legs
    BY <1>1, <1>2, <2>1, QueueAssumption
       DEF Contabilidad, QuedaPresupuesto, TypeOK, Record, Legs
  <2>3. Goto(t, n, "sem") /\ handles' = [handles EXCEPT ![t] = n]
    BY <1>2 DEF Loop
  <2> HIDE DEF t, n
  <2>4. /\ pc'[t][n] = "sem" /\ handles'[t] = n
        /\ \A u \in Tasks, m \in Legs : u # t \/ m # n => pc'[u][m] = pc[u][m]
        /\ \A u \in Tasks \ {t} : handles'[u] = handles[u]
    <3>1. "sem" \in Pcs /\ handles \in [Tasks -> 0 .. Budget] /\ t \in Tasks /\ TypeOK
      BY <1>1 DEF Pcs, TypeOK
    <3>2. /\ pc'[t][n] = "sem"
          /\ \A u \in Tasks, m \in Legs : u # t \/ m # n => pc'[u][m] = pc[u][m]
      BY <2>2, <2>3, <3>1, GotoEfecto
    <3>3. handles'[t] = n /\ \A u \in Tasks \ {t} : handles'[u] = handles[u]
      BY <2>3, <3>1
    <3> QED BY <3>2, <3>3
  <2>5. \A m \in Legs : pc[t][m] \notin Previo
    BY <2>1 DEF Callado, Previo
  <2>6. \A u \in Tasks, m \in Legs : pc'[u][m] \notin Callado => u \in tasks'
    BY <1>1, <1>2, <2>1, <2>4 DEF EnMarcha
  <2>7. \A u \in Tasks, m \in Legs : pc'[u][m] \in Previo => handles'[u] = m
    BY <2>4, <2>5 DEF EnMarcha
  <2>8. \A u \in Tasks, m \in Legs :
          pc'[u][m] # "none" /\ u \notin tasks' => task'[u].status \in SinRetorno
    BY <1>1, <1>2, <2>4 DEF EnMarcha
  <2> QED BY <2>6, <2>7, <2>8 DEF EnMarcha
<1>3. CASE t \notin tasks
  <2>1. UNCHANGED <<pc, handles>>
    BY <1>3 DEF Loop
  <2> QED BY <1>1, <2>1, MarchaIgual
<1> QED BY <1>2, <1>3

\* enqueue adds a delegation that has no leg.
LEMMA EnElDictMarcha ==
  ASSUME Coherente, EnMarcha, NEW t \in Tasks, Enqueue(t) \/ EnqueueEnMemoria(t)
  PROVE  EnMarcha'
<1> USE DEF process, legvars, apivars, durable, history
<1>1. /\ TypeOK /\ Contabilidad /\ UNCHANGED <<pc, handles>> /\ EnElDict(t)
      /\ task \in [Tasks -> Record]
  BY DEF Coherente, TypeOK, Enqueue, EnqueueEnMemoria
<1>2. tasks' = tasks \cup {t} /\ \A u \in Tasks \ {t} : task'[u] = task[u]
  BY <1>1 DEF EnElDict
<1> QED BY <1>1, <1>2, MarchaIgual

\* resume requeues a delegation that has no leg at work.
LEMMA ResumeMarcha ==
  ASSUME Coherente, EnMarcha, NEW t \in Tasks, Resume(t) \/ ResumeStep(t)
  PROVE  EnMarcha'
<1> USE DEF process, legvars, apivars, durable, history
<1>1. /\ TypeOK /\ Contabilidad /\ UNCHANGED <<pc, tasks>> /\ task \in [Tasks -> Record]
      /\ handles \in [Tasks -> 0 .. Budget]
  BY DEF Coherente, TypeOK, Resume, ResumeStep, Reencolar, Reanudada, ReanudarTarde,
         ReaperturaFallida, ReaperturaMarcada
<1>2. \A u \in Tasks : u \in tasks \/ task'[u].status = task[u].status
  BY <1>1 DEF Resume, ResumeStep, Reencolar, Reanudada, ReanudarTarde,
         ReaperturaFallida, ReaperturaMarcada, SigueEsperando
<1>3. CASE UNCHANGED handles
  BY <1>1, <1>2, <1>3, MarchaIgual
<1>4. CASE Reencolar(t)
  <2>1. \A m \in Legs : pc[t][m] \in Callado
    BY <1>1, <1>4, SinTramoActivo DEF Reencolar, SigueEsperando, Contabilidad
  <2>2. \A m \in Legs : pc'[t][m] \notin Previo
    BY <1>1, <2>1 DEF Callado, Previo
  <2>3. \A u \in Tasks \ {t} : handles'[u] = handles[u]
    BY <1>1, <1>4 DEF Reencolar, SinHandle
  <2> QED BY <1>1, <1>2, <2>2, <2>3, MarchaIgual
<1> QED BY <1>3, <1>4 DEF Resume, ResumeStep, Reanudada, ReanudarTarde,
         ReaperturaFallida, ReaperturaMarcada

\* The notice takes out of the dict only what was interrupted.
LEMMA AvisoMarcha ==
  ASSUME Coherente, EnMarcha, AvisarTrasArranque \/ AvisoStep
  PROVE  EnMarcha'
<1> USE DEF process, legvars, apivars, durable, history
<1>1. /\ TypeOK /\ Contabilidad /\ UNCHANGED <<pc, handles>> /\ task \in [Tasks -> Record]
      /\ tasks \subseteq Tasks
  BY DEF Coherente, TypeOK, AvisarTrasArranque, AvisoStep, MarcarAvisadas, AvisoGuardado, AvisoFallido
<1>2. CASE MarcarAvisadas
  <2>1. \A u \in Tasks : task'[u].status = task[u].status
    <3>1. \A u \in Tasks : Apply(task[u], Notified).status = task[u].status
      BY <1>1, OtherChange, ApplyKeep
    <3> QED BY <1>1, <1>2, <3>1 DEF MarcarAvisadas
  <2>2. tasks' = tasks \ {u \in aviso.now : task[u].status = "interrupted"}
    BY <1>2 DEF MarcarAvisadas
  <2>3. \A u \in Tasks : u \in tasks /\ u \notin tasks' =>
          /\ task[u].status = "interrupted"
          /\ \A m \in Legs : pc[u][m] \in Callado
    BY <1>1, <2>2, SinTramoActivo DEF Contabilidad
  <2> QED BY <1>1, <2>1, <2>2, <2>3, MarchaIgual DEF SinRetorno
<1>3. CASE ~MarcarAvisadas
  <2>1. UNCHANGED <<tasks, task>>
    BY <1>3 DEF AvisarTrasArranque, AvisoStep, AvisoGuardado, AvisoFallido
  <2> QED BY <1>1, <2>1, MarchaIgual
<1> QED BY <1>2, <1>3

\* EnMarcha is inductive relative to Coherente.
LEMMA PasoEnMarcha == ASSUME Coherente, Coherente', EnMarcha, [Next]_vars PROVE EnMarcha'
<1> USE DEF process, legvars, apivars, durable, history
<1>0. TypeOK /\ Contabilidad
  BY DEF Coherente
<1>1. CASE Calls
  <2> SUFFICES ASSUME NEW t \in Tasks,
                      \/ Registrar(t) \/ Enqueue(t) \/ EnqueueEnMemoria(t)
                      \/ Cancel(t) \/ CancelDeTerminada(t) \/ Resume(t)
               PROVE  EnMarcha'
    BY <1>1 DEF Calls
  <2>1. CASE Registrar(t) \/ CancelDeTerminada(t)
    <3>1. UNCHANGED <<pc, handles, tasks, task>>
      BY <2>1 DEF Registrar, CancelDeTerminada
    <3> QED BY <1>0, <3>1, MarchaIgual
  <2> QED BY <2>1, EnElDictMarcha, CancelMarcha, ResumeMarcha
<1>2. CASE Loop
  BY <1>2, LoopMarcha
<1>3. CASE \E t \in Tasks, n \in Legs : RunTask(t, n) \/ LegStep(t, n)
  BY <1>3, TramoMarcha
<1>4. CASE \E t \in Tasks : ResumeStep(t)
  BY <1>4, ResumeMarcha
<1>5. CASE AvisarTrasArranque \/ AvisoStep
  BY <1>5, AvisoMarcha
<1>6. CASE Escribir \/ Stop \/ ListarHuerfanas \/ (\E x \in sweep : CerrarHuerfana(x)) \/ UNCHANGED vars
  <2>1. UNCHANGED <<pc, handles, tasks, task>>
    BY <1>6 DEF Escribir, Stop, ListarHuerfanas, CerrarHuerfana, vars
  <2> QED BY <1>0, <2>1, MarchaIgual
<1>7. CASE CortarHijos \/ FinDelStop \/ Crash
  <2>1. ~Viva'
    BY <1>7 DEF CortarHijos, FinDelStop, Crash, MemoriaPerdida, Viva
  <2>2. \A u \in Tasks, m \in Legs : pc'[u][m] = "none"
    BY <2>1 DEF Coherente, Contabilidad, Parado
  <2> QED BY <2>2, MarchaSinTramos
<1>8. CASE Start
  <2>1. phase = "down" /\ UNCHANGED pc
    BY <1>8 DEF Start
  <2>2. \A u \in Tasks, m \in Legs : pc'[u][m] = "none"
    BY <1>0, <2>1 DEF Contabilidad, Parado, Viva
  <2> QED BY <2>2, MarchaSinTramos
<1> QED BY <1>1, <1>2, <1>3, <1>4, <1>5, <1>6, <1>7, <1>8 DEF Next, StopStep

-----------------------------------------------------------------------------
(* The answer reaches its leg. *)

\* Delegation by delegation: it stays as it was, or has its answer, or needs none.
LEMMA RespuestaMarco ==
  ASSUME ConRespuesta, EnMarcha', tasks' \subseteq Tasks,
         \A u \in tasks' :
           \/ /\ u \in tasks /\ Mismo(u) /\ (u \in reanudaciones => u \in reanudaciones')
              /\ \A m \in Legs : pc'[u][m] = "starting" => pc[u][m] = "starting"
              /\ Viva' => Viva
           \/ u \in reanudaciones'
           \/ /\ task'[u].status # "queued" \/ task'[u].used = 0
              /\ \A m \in Legs : pc'[u][m] # "starting"
  PROVE  ConRespuesta'
<1>1. \A u \in Tasks, m \in Legs : pc'[u][m] = "starting" => u \in tasks'
  BY DEF EnMarcha, Callado
<1>2. RespuestaLlega'
  BY <1>1 DEF ConRespuesta, RespuestaLlega
<1>3. \A u \in tasks' : Viva' /\ task'[u].status = "queued" /\ task'[u].used > 0 => u \in reanudaciones'
  BY DEF ConRespuesta, Mismo
<1> QED BY <1>2, <1>3 DEF ConRespuesta

\* A leg takes the pending answer only when it leaves the queue.
LEMMA TramoRespuesta ==
  ASSUME Coherente, Coherente', Marcha, EnMarcha', NEW t \in Tasks, NEW n \in Legs,
         RunTask(t, n) \/ LegStep(t, n)
  PROVE  ConRespuesta'
<1>0. /\ \A m \in Legs : t \in tasks /\ pc[t][n] \notin Callado => m = n \/ pc[t][m] \in Callado
      /\ "starting" \notin Callado /\ tasks' \subseteq Tasks /\ EnMarcha /\ ConRespuesta
  BY DEF Coherente, TypeOK, Contabilidad, UnTramoActivo, Callado, Marcha
<1>1. ASSUME NEW c \in Change, NEW place \in Pcs, EscribeTramo(t, n, c, place) PROVE ConRespuesta'
  <2>1. /\ \A u \in Tasks \ {t} : task'[u] = task[u]
        /\ task'[t].status = c.status
        /\ tasks' = IF c.status = "delivered" THEN tasks \ {t} ELSE tasks
        /\ reanudaciones' = IF c.status = "delivered" THEN reanudaciones \ {t} ELSE reanudaciones
        /\ pc'[t][n] = place /\ c.status # "queued"
        /\ \A u \in Tasks, m \in Legs : u # t \/ m # n => pc'[u][m] = pc[u][m]
        /\ c.status = "running" => /\ c.used = Keep /\ pc[t][n] = "sem" /\ place = "starting"
        /\ c.status # "running" => place # "starting"
    BY <1>1, EscribeEfecto
  <2>2. t \in tasks /\ Viva /\ UNCHANGED phase
    BY <1>1 DEF EscribeTramo, todas
  <2>3. CASE c.status = "running"
    <3>1. /\ task[t].status = "queued" /\ n = task[t].used + 1 /\ task[t].used \in Nat
          /\ \A m \in Legs \ {n} : pc[t][m] # "starting"
      <4>1. pc[t][n] = "sem" /\ "sem" \notin Callado /\ "sem" \in Previo
        BY <2>1, <2>3 DEF Callado, Previo
      <4>2. task[t].status = "queued" /\ n = task[t].used + 1
        BY <2>2, <4>1 DEF Coherente, Contabilidad, UnTramoActivo
      <4>3. task[t].used \in Nat
        BY DEF Coherente, TypeOK, Record
      <4>4. \A m \in Legs \ {n} : pc[t][m] # "starting"
        BY <1>0, <2>2, <4>1
      <4> QED BY <4>2, <4>3, <4>4
    <3>2. t \in reanudaciones' \/ n = 1
      BY <2>1, <2>2, <2>3, <3>1 DEF Marcha, ConRespuesta
    <3>3. CASE t \in reanudaciones'
      BY <1>0, <2>1, <2>2, <3>3, RespuestaMarco DEF Mismo, Viva
    <3>4. CASE n = 1
      <4>1. RespuestaLlega'
        BY <1>0, <2>1, <2>3, <3>1, <3>4 DEF ConRespuesta, RespuestaLlega
      <4>2. \A u \in tasks' : Viva' /\ task'[u].status = "queued" /\ task'[u].used > 0 => u \in reanudaciones'
        BY <1>0, <2>1, <2>2, <2>3 DEF ConRespuesta, Viva
      <4> QED BY <4>1, <4>2 DEF ConRespuesta
    <3> QED BY <3>2, <3>3, <3>4
  <2>4. CASE c.status # "running"
    <3>1. \A m \in Legs : pc'[t][m] = "starting" => pc[t][m] = "starting"
      BY <2>1, <2>4
    <3>2. CASE \A m \in Legs : pc'[t][m] # "starting"
      BY <1>0, <2>1, <2>2, <3>2, RespuestaMarco DEF Mismo, Viva
    <3>3. CASE \E m \in Legs : pc'[t][m] = "starting"
      <4>1. PICK m \in Legs : pc[t][m] = "starting" /\ m # n
        BY <2>1, <2>4, <3>1, <3>3
      <4>2. pc[t][n] \in Callado
        BY <1>0, <2>2, <4>1 DEF Coherente, Contabilidad, UnTramoActivo
      <4>3. task[t].status = "running"
        BY <2>2, <4>1 DEF Coherente, Contabilidad, UnTramoActivo, Callado, Previo
      <4>4. pc[t][n] = "pausing" /\ task[t].status = "awaiting_input"
        BY <1>1, <4>2, EscribeEfecto DEF Callado
      <4> QED BY <4>3, <4>4
    <3> QED BY <3>2, <3>3
  <2> QED BY <2>3, <2>4
<1>2. ASSUME NEW place \in Pcs, MueveTramo(t, n, place) PROVE ConRespuesta'
  <2>1. /\ \A u \in Tasks : Mismo(u)
        /\ pc'[t][n] = place /\ place # "starting"
        /\ \A u \in Tasks, m \in Legs : u # t \/ m # n => pc'[u][m] = pc[u][m]
        /\ place = "child" => pc[t][n] = "starting"
        /\ reanudaciones' = IF place = "child" THEN reanudaciones \ {t} ELSE reanudaciones
    BY <1>2, MueveEfecto
  <2>2. UNCHANGED <<tasks, phase>>
    BY <1>2 DEF MueveTramo, todas
  <2>3. place = "child" => /\ \A m \in Legs : pc'[t][m] # "starting"
                           /\ task'[t].status # "queued"
    <3> SUFFICES ASSUME place = "child"
                 PROVE  /\ \A m \in Legs : pc'[t][m] # "starting"
                        /\ task'[t].status # "queued"
      OBVIOUS
    <3>1. pc[t][n] = "starting" /\ t \in tasks
      BY <1>0, <2>1 DEF EnMarcha
    <3>2. task[t].status = "running"
      BY <3>1 DEF Coherente, Contabilidad, UnTramoActivo, Callado, Previo
    <3>3. \A m \in Legs : pc'[t][m] # "starting"
      BY <1>0, <2>1, <3>1
    <3> QED BY <2>1, <3>2, <3>3 DEF Mismo
  <2> QED BY <1>0, <2>1, <2>2, <2>3, RespuestaMarco DEF Viva
<1>3. CASE AcabaTramo(t, n)
  <2>1. /\ \A u \in Tasks, m \in Legs : pc'[u][m] \in {pc[u][m], "none"}
        /\ UNCHANGED <<tasks, task, reanudaciones, phase>>
    BY <1>3 DEF AcabaTramo, OlvidarHandle, Goto, todas, Coherente, TypeOK
  <2> QED BY <1>0, <2>1, RespuestaMarco DEF Mismo, Viva
<1> QED BY <1>0, <1>1, <1>2, <1>3, TramoEscribeOMueve

\* What cancel does to its delegation, and to what waits for the connection.
LEMMA CancelEfecto ==
  ASSUME Coherente, NEW t \in Tasks, Cancel(t)
  PROVE  /\ t \in tasks /\ tasks' = tasks \ {t} /\ reanudaciones' = reanudaciones \ {t}
         /\ \A u \in Tasks \ {t} : task'[u] = task[u]
         /\ task'[t].used = task[t].used
         /\ \A u \in Tasks, m \in Legs : pc'[u][m] \in {pc[u][m], "none"}
         /\ \A u \in Tasks, m \in Legs : u # t => pc'[u][m] = pc[u][m]
         /\ MayCall
         /\ UNCHANGED <<phase, store, registrando, queue, resume, sin_persistir, aviso, sweep,
                        rows, faults, asked, told>>
         /\ \E c \in Change :
              /\ Persistir(t, c, "cancel", 0) /\ c.used = Keep /\ task'[t].status = c.status
              /\ \/ c.status = "dismissed" /\ task[t].status \in {"awaiting_input", "delivery_failed", "interrupted"}
                 \/ c.status = "cancelled" /\ task[t].status \in {"queued", "running"}
<1> USE DEF process, legvars, apivars, durable, history
<1>0. /\ TypeOK /\ t \in tasks /\ 0 \in 0 .. Budget
      /\ pc \in [Tasks -> [Legs -> Pcs]]
  BY Tipos DEF Cancel
<1>1. PICK c \in Change :
        /\ Transicionar(t, c, "cancel", 0) /\ c.used = Keep
        /\ \/ /\ c.status = "dismissed" /\ UNCHANGED pc
              /\ task[t].status \in {"awaiting_input", "delivery_failed", "interrupted"}
           \/ /\ c.status = "cancelled" /\ task[t].status \in {"queued", "running"}
              /\ IF handles[t] = 0 THEN UNCHANGED pc ELSE Goto(t, handles[t], "none")
  <2>1. CASE task[t].status \in {"awaiting_input", "delivery_failed", "interrupted"}
    BY <2>1, OtherChange DEF Cancel
  <2>2. CASE task[t].status \in {"queued", "running"}
    <3>1. /\ To("cancelled") \in Change /\ To("cancelled").status = "cancelled"
          /\ To("cancelled").used = Keep
      BY ToChange DEF Status, Terminales
    <3> QED BY <2>2, <3>1 DEF Cancel
  <2> QED BY <2>1, <2>2 DEF Cancel
<1>2. c.status \in Status /\ c.status \in Terminales /\ c.status \in OlvidaRespuesta
  BY <1>1 DEF Status, Terminales, OlvidaRespuesta
<1>3. /\ \A u \in Tasks \ {t} : task'[u] = task[u]
      /\ task'[t].status = c.status /\ task'[t].used = task[t].used
      /\ tasks' = tasks \ {t}
  BY <1>0, <1>1, <1>2, TransicionarEfecto
<1>4. reanudaciones' = reanudaciones \ {t} /\ Persistir(t, c, "cancel", 0)
  BY <1>1, <1>2 DEF Transicionar
<1>5. /\ \A u \in Tasks, m \in Legs : pc'[u][m] \in {pc[u][m], "none"}
      /\ \A u \in Tasks, m \in Legs : u # t => pc'[u][m] = pc[u][m]
  BY <1>0, <1>1 DEF Goto
<1> QED BY <1>0, <1>1, <1>3, <1>4, <1>5 DEF Cancel

\* A resume that requeues has stored the answer, and no call drops it.
LEMMA LlamadaRespuesta ==
  ASSUME Coherente, Coherente', ConRespuesta, EnMarcha', NEW t \in Tasks,
         \/ Registrar(t) \/ Enqueue(t) \/ EnqueueEnMemoria(t)
         \/ Cancel(t) \/ CancelDeTerminada(t) \/ Resume(t) \/ ResumeStep(t)
  PROVE  ConRespuesta'
<1> USE DEF process, legvars, apivars, durable, history
<1>0. tasks' \subseteq Tasks /\ TypeOK /\ task \in [Tasks -> Record]
  BY DEF Coherente, TypeOK
<1>1. CASE Registrar(t) \/ CancelDeTerminada(t) \/ Resume(t)
  <2>1. UNCHANGED <<phase, pc, tasks, task, reanudaciones>>
    BY <1>1 DEF Registrar, CancelDeTerminada, Resume
  <2> QED BY <1>0, <2>1, RespuestaMarco DEF Mismo, Viva
<1>2. CASE Enqueue(t) \/ EnqueueEnMemoria(t)
  <2>1. /\ EnElDict(t) /\ UNCHANGED <<phase, pc, reanudaciones>>
        /\ task[t].status = Absent
    BY <1>2 DEF Enqueue, EnqueueEnMemoria, Nueva, Coherente, Contabilidad, SinRastro
  <2>2. \A m \in Legs : pc[t][m] = "none"
    BY <2>1 DEF Coherente, Contabilidad, SinRastro
  <2>3. /\ tasks' = tasks \cup {t} /\ \A u \in Tasks \ {t} : task'[u] = task[u]
        /\ task'[t] = NewTask
    BY <1>0, <2>1 DEF EnElDict
  <2>4. task'[t].used = 0
    BY <2>3 DEF NewTask, NoRecord
  <2> QED BY <1>0, <2>1, <2>2, <2>3, <2>4, RespuestaMarco DEF Mismo, Viva
<1>3. CASE Cancel(t)
  <2>1. /\ tasks' = tasks \ {t} /\ reanudaciones' = reanudaciones \ {t}
        /\ \A u \in Tasks \ {t} : task'[u] = task[u]
        /\ \A u \in Tasks, m \in Legs : u # t => pc'[u][m] = pc[u][m]
        /\ phase' = phase
    BY <1>3, CancelEfecto
  <2> QED BY <1>0, <2>1, RespuestaMarco DEF Mismo, Viva
<1>4. CASE ResumeStep(t)
  <2>1. /\ UNCHANGED <<phase, pc, tasks>>
        /\ \A u \in Tasks \ {t} : Mismo(u)
        /\ Mismo(t) \/ t \in reanudaciones'
        /\ reanudaciones \subseteq reanudaciones'
    <3>1. /\ Apply(task[t], TranscriptCut).status = task[t].status
          /\ Apply(task[t], TranscriptCut).used = task[t].used
      BY <1>0, OtherChange, ApplyKeep
    <3>2. \/ task' = task
          \/ task' = [task EXCEPT ![t] = Apply(task[t], TranscriptCut)]
          \/ task' = [task EXCEPT ![t] = Apply(task[t], ToQueuedAgain)] /\ t \in reanudaciones'
      BY <1>4 DEF ResumeStep, Reencolar, Reanudada, ReanudarTarde, ReaperturaFallida, ReaperturaMarcada
    <3>3. UNCHANGED <<phase, pc, tasks>> /\ reanudaciones \subseteq reanudaciones'
      BY <1>4 DEF ResumeStep, Reencolar, Reanudada, ReanudarTarde, ReaperturaFallida, ReaperturaMarcada
    <3> QED BY <1>0, <3>1, <3>2, <3>3 DEF Mismo
  <2> QED BY <1>0, <2>1, RespuestaMarco DEF Viva
<1> QED BY <1>1, <1>2, <1>3, <1>4

\* ConRespuesta is inductive relative to Coherente and EnMarcha.
LEMMA PasoConRespuesta ==
  ASSUME Coherente, Coherente', Marcha, EnMarcha', [Next]_vars PROVE ConRespuesta'
<1> USE DEF process, legvars, apivars, durable, history
<1>0. /\ tasks' \subseteq Tasks /\ TypeOK /\ task \in [Tasks -> Record]
      /\ ConRespuesta /\ tasks \subseteq Tasks /\ pc \in [Tasks -> [Legs -> Pcs]]
      /\ handles \in [Tasks -> 0 .. Budget] /\ queue \in Seq(Tasks)
  BY DEF Coherente, TypeOK, Marcha
<1>1. CASE Calls \/ (\E t \in Tasks : ResumeStep(t))
  BY <1>0, <1>1, LlamadaRespuesta DEF Calls
<1>2. CASE Loop
  <2>1. UNCHANGED <<phase, tasks, task, reanudaciones>>
    BY <1>2 DEF Loop
  <2>2. \A u \in Tasks, m \in Legs : pc'[u][m] \in {pc[u][m], "sem"}
    <3>1. \/ pc' = pc
          \/ \E t, n : pc' = [pc EXCEPT ![t][n] = "sem"]
      BY <1>2 DEF Loop, Goto
    <3>2. CASE \E t, n : pc' = [pc EXCEPT ![t][n] = "sem"]
      <4>1. PICK t, n : pc' = [pc EXCEPT ![t][n] = "sem"]
        BY <3>2
      <4> QED BY <1>0, <4>1
    <3> QED BY <3>1, <3>2
  <2> QED BY <1>0, <2>1, <2>2, RespuestaMarco DEF Mismo, Viva
<1>3. CASE \E t \in Tasks, n \in Legs : RunTask(t, n) \/ LegStep(t, n)
  BY <1>3, TramoRespuesta
<1>4. CASE AvisarTrasArranque \/ AvisoStep
  <2>1. UNCHANGED <<phase, pc, reanudaciones>> /\ tasks' \subseteq tasks
    BY <1>4 DEF AvisarTrasArranque, AvisoStep, MarcarAvisadas, AvisoGuardado, AvisoFallido
  <2>2. \A u \in Tasks : Apply(task[u], Notified).status = task[u].status
                         /\ Apply(task[u], Notified).used = task[u].used
    BY <1>0, OtherChange, ApplyKeep
  <2>3. \/ task' = task
        \/ task' = [t \in Tasks |-> IF t \in aviso.now THEN Apply(task[t], Notified) ELSE task[t]]
    BY <1>4 DEF AvisarTrasArranque, AvisoStep, MarcarAvisadas, AvisoGuardado, AvisoFallido
  <2>4. \A u \in Tasks : Mismo(u)
    BY <2>2, <2>3 DEF Mismo
  <2> QED BY <1>0, <2>1, <2>4, RespuestaMarco DEF Viva
<1>5. CASE Escribir \/ Stop \/ ListarHuerfanas \/ (\E x \in sweep : CerrarHuerfana(x)) \/ UNCHANGED vars
  <2>1. UNCHANGED <<pc, tasks, task, reanudaciones>> /\ (Viva' => Viva)
    BY <1>5 DEF Escribir, Stop, ListarHuerfanas, CerrarHuerfana, vars, Viva
  <2> QED BY <1>0, <2>1, RespuestaMarco DEF Mismo
<1>6. CASE CortarHijos
  <2>1. ~Viva' /\ tasks' = tasks
    BY <1>6 DEF CortarHijos, Viva
  <2>2. \A u \in Tasks, m \in Legs : pc'[u][m] = "none"
    BY <2>1 DEF Coherente, Contabilidad, Parado
  <2>3. \A u \in tasks : task'[u].status # "queued"
    <3> SUFFICES ASSUME NEW u \in tasks PROVE task'[u].status # "queued"
      OBVIOUS
    <3>1. task'[u] = IF task[u].status \in {"queued", "running"}
                     THEN Apply(task[u], To("interrupted")) ELSE task[u]
      BY <1>0, <1>6 DEF CortarHijos
    <3>2. "interrupted" \in Status
      BY DEF Status
    <3>3. Apply(task[u], To("interrupted")).status = "interrupted"
      <4>1. /\ To("interrupted") \in Change /\ To("interrupted").status = "interrupted"
            /\ task[u] \in Record
        BY <1>0, <3>2, ToChange
      <4> QED BY <3>2, <4>1, ApplyStatus
    <3> QED BY <3>1, <3>3
  <2> QED BY <1>0, <2>1, <2>2, <2>3, RespuestaMarco
<1>7. CASE FinDelStop \/ Crash
  <2>1. tasks' = {}
    BY <1>7 DEF FinDelStop, Crash, MemoriaPerdida
  <2> QED BY <1>0, <2>1, RespuestaMarco
<1>8. CASE Start
  <2>1. /\ \A u \in Tasks, m \in Legs : pc'[u][m] = "none"
        /\ tasks = {}
    BY <1>8 DEF Start, Coherente, Contabilidad, Parado, Viva
  <2>2. \A u \in tasks' : task'[u].status # "queued"
    BY <1>8, <2>1 DEF Start, Rehidratable
  <2> QED BY <1>0, <2>1, <2>2, RespuestaMarco
<1> QED BY <1>1, <1>2, <1>3, <1>4, <1>5, <1>6, <1>7, <1>8 DEF Next, StopStep

\* Only FinDelStop and Crash end a process, with nothing left to write.
LEMMA PasoApagado ==
  ASSUME Coherente, Apagado, [Next]_vars PROVE Apagado'
<1> USE DEF process, legvars, apivars, durable, history
<1>1. CASE FinDelStop \/ Crash
  BY <1>1 DEF FinDelStop, Crash, MemoriaPerdida, Apagado, AvisoApagado
<1>2. CASE Start
  BY <1>2 DEF Start, Apagado
<1>3. CASE Stop \/ CortarHijos \/ ListarHuerfanas
  BY <1>3 DEF Stop, CortarHijos, ListarHuerfanas, Apagado, AvisoApagado
<1>4. CASE AvisarTrasArranque \/ AvisoStep
  <2>1. phase = "up" /\ phase' = phase
    BY <1>4 DEF AvisarTrasArranque, AvisoStep, MarcarAvisadas, AvisoGuardado, AvisoFallido, Apagado
  <2> QED BY <2>1 DEF Apagado
<1>5. CASE UNCHANGED vars
  BY <1>5 DEF vars, Apagado
<1>6. CASE \/ Calls \/ Loop \/ (\E t \in Tasks, n \in Legs : RunTask(t, n) \/ LegStep(t, n))
           \/ (\E t \in Tasks : ResumeStep(t)) \/ Escribir \/ (\E x \in sweep : CerrarHuerfana(x))
  <2>1. phase # "down"
    <3> SUFFICES ASSUME phase = "down" PROVE FALSE
      OBVIOUS
    <3>1. /\ registrando = {} /\ \A t \in Tasks : resume[t] = "idle"
          /\ \A t \in Tasks, n \in Legs : pc[t][n] = "none"
          /\ disk = <<>> /\ sweep = {}
      BY DEF Coherente, Contabilidad, Parado, Viva, Apagado
    <3>2. ~MayCall
      BY DEF MayCall
    <3>3. ~Calls
      BY <3>2 DEF Calls, Registrar, Enqueue, EnqueueEnMemoria, Cancel, CancelDeTerminada, Resume
    <3>4. \A t \in Tasks : ~ResumeStep(t)
      BY <3>1 DEF ResumeStep, Reencolar, Reanudada, ReanudarTarde, ReaperturaFallida, ReaperturaMarcada
    <3>5. \A t \in Tasks, n \in Legs : ~RunTask(t, n) /\ ~LegStep(t, n)
      BY <3>1 DEF RunTask, LegStep, EjecutarHijo, HijoTermina, HijoPregunta, TranscriptRoto, SinPausa,
         Pausar, Preguntar, PreguntaDespachada, PreguntaFallida, Despachar, ResultadoDespachado,
         ResultadoFallido, FinDelTramo, At
    <3>6. ~Loop /\ ~Escribir
      BY <3>1 DEF Loop, Escribir
    <3> QED BY <1>6, <3>1, <3>3, <3>4, <3>5, <3>6
  <2>2. UNCHANGED <<phase, aviso>>
    <3>1. CASE Calls
      BY <3>1 DEF Calls, Registrar, Enqueue, EnqueueEnMemoria, Cancel, CancelDeTerminada, Resume
    <3>2. CASE \E t \in Tasks : ResumeStep(t)
      BY <3>2 DEF ResumeStep, Reencolar, Reanudada, ReanudarTarde, ReaperturaFallida, ReaperturaMarcada
    <3>3. CASE \E t \in Tasks, n \in Legs : RunTask(t, n) \/ LegStep(t, n)
      BY <3>3 DEF RunTask, LegStep, EjecutarHijo, HijoTermina, HijoPregunta, TranscriptRoto, SinPausa,
         Pausar, Preguntar, PreguntaDespachada, PreguntaFallida, Despachar, ResultadoDespachado,
         ResultadoFallido, FinDelTramo
    <3>4. CASE Loop \/ Escribir \/ (\E x \in sweep : CerrarHuerfana(x))
      BY <3>4 DEF Loop, Escribir, CerrarHuerfana
    <3> QED BY <1>6, <3>1, <3>2, <3>3, <3>4
  <2> QED BY <2>1, <2>2 DEF Apagado
<1> QED BY <1>1, <1>2, <1>3, <1>4, <1>5, <1>6 DEF Next, StopStep

\* Marcha is inductive relative to Coherente.
LEMMA PasoMarcha == ASSUME Coherente, Coherente', Marcha, [Next]_vars PROVE Marcha'
BY PasoEnMarcha, PasoConRespuesta, PasoApagado DEF Marcha

\* An empty queue satisfies Marcha.
LEMMA InicioMarcha == ASSUME Init PROVE Marcha
<1>1. /\ \A t \in Tasks, n \in Legs : pc[t][n] = "none"
      /\ tasks = {} /\ aviso.pc = "off" /\ disk = <<>> /\ sin_persistir = {} /\ sweep = {}
  BY DEF Init, AvisoApagado
<1> QED BY <1>1 DEF Marcha, EnMarcha, ConRespuesta, RespuestaLlega, Apagado, Callado, Previo

-----------------------------------------------------------------------------
(***************************************************************************)
(* The object, its row and the statements between them.  Only what the     *)
(* connection still has to do can separate a row from its object, and each *)
(* place of a leg says what that can be.                                   *)
(***************************************************************************)

\* The statements in flight that change the status of t, oldest first.
Pendientes(t) == {i \in DOMAIN disk : t \in disk[i].to /\ disk[i].set.status # Keep}

\* Statement i was handed over by leg n, or by the resume of t, and that
\* coroutine waits for it.
DeTramo(t, i, n) == disk[i].by = "leg" /\ disk[i].leg = n
DeResume(t, i) == disk[i].by = "resume" /\ disk[i].leg = 0

\* Statements are only handed over for a row that exists.
Anotada(t) == Pendientes(t) # {} => rows[t].status # Absent

\* Between its INSERT and its enqueue nobody touches the row.
Recien(t) == t \in registrando =>
  Pendientes(t) = {} /\ rows[t].status = "queued" /\ rows[t].used = 0

\* The last statement of a live delegation says what its object says, each
\* has a coroutine that waits for it, and what waits in the FIFO has none.
EnDict(t) == t \in tasks =>
  /\ rows[t].status # Absent
  /\ Pendientes(t) = {} => rows[t].status = task[t].status
  /\ \A i \in Pendientes(t) :
       (\A j \in Pendientes(t) : j <= i) => disk[i].set.status = task[t].status
  /\ \A i \in Pendientes(t) : disk[i].set.used \in {Keep, task[t].used}
  /\ (\A i \in Pendientes(t) : disk[i].set.used = Keep) => rows[t].used = task[t].used
  /\ \A i \in Pendientes(t) :
       DeResume(t, i) \/ \E m \in Legs : DeTramo(t, i, m) /\ pc[t][m] # "none"
  /\ task[t].status = "queued" => \A i \in Pendientes(t) :
       resume[t] = "requeuing" /\ \E j \in Pendientes(t) : i <= j /\ DeResume(t, j)
  /\ task[t].status = "awaiting_input" => \A i \in Pendientes(t) :
       DeTramo(t, i, task[t].used)

\* What may be in flight at each place of a leg.
EnTramo(t, n) ==
  /\ Durable(t) /\ pc[t][n] \in {"child", "snapshot", "marking", "dispatching"} =>
       Pendientes(t) = {}
  /\ Durable(t) /\ pc[t][n] \in {"starting", "handing"} =>
       \A i \in Pendientes(t) : DeTramo(t, i, n)
  /\ pc[t][n] \in {"snapshot", "pausing"} => store = "open"
  /\ pc[t][n] = "asking" /\ SigueEnLaPausa(t, n) =>
       Pendientes(t) = {} /\ rows[t].status = "awaiting_input" /\ rows[t].used = n

\* What is between the object of t and its row.
LibroDe(t) == /\ Anotada(t)
              /\ Durable(t) => Recien(t) /\ EnDict(t)
              /\ \A n \in Legs : EnTramo(t, n)

\* The books are right as long as the process lives.
Libro == Viva => \A t \in Tasks : LibroDe(t)

\* What the invariant says of the two properties it is for.
LEMMA LibroBasta ==
  ASSUME Coherente, Marcha, Libro PROVE DictYDiscoCoinciden /\ PersistirAntesDeDespachar
<1>1. DictYDiscoCoinciden
  <2> SUFFICES ASSUME phase = "up", disk = <<>>, NEW t \in tasks, Durable(t)
               PROVE  rows[t].status = task[t].status /\ rows[t].used = task[t].used
    BY DEF DictYDiscoCoinciden
  <2>1. t \in Tasks /\ Pendientes(t) = {}
    BY DEF Coherente, TypeOK, Pendientes
  <2> QED BY <2>1 DEF Libro, Viva, LibroDe, EnDict
<1>2. PersistirAntesDeDespachar
  <2> SUFFICES ASSUME NEW t \in Tasks, NEW n \in Legs
               PROVE  /\ pc[t][n] = "dispatching" /\ Durable(t) => rows[t].status = "delivering"
                      /\ pc[t][n] = "asking" /\ SigueEnLaPausa(t, n) =>
                           rows[t].status = "awaiting_input" /\ rows[t].used = n
    BY DEF PersistirAntesDeDespachar
  <2>1. pc[t][n] # "none" => LibroDe(t)
    BY TramoVivo DEF Libro
  <2>2. pc[t][n] = "dispatching" => t \in tasks /\ task[t].status = "delivering"
    BY DEF Marcha, EnMarcha, Callado, Coherente, Contabilidad, UnTramoActivo
  <2> QED BY <2>1, <2>2 DEF LibroDe, EnTramo, EnDict
<1> QED BY <1>1, <1>2

\* What is appended is in flight if it changes the status.
LEMMA PendientesAppend ==
  ASSUME TypeOK, NEW t \in Tasks, NEW w \in Statement, disk' = Append(disk, w)
  PROVE  /\ \A i \in DOMAIN disk : disk'[i] = disk[i]
         /\ Len(disk) \in Nat /\ Pendientes(t) \subseteq 1 .. Len(disk)
         /\ disk'[Len(disk) + 1] = w
         /\ t \in w.to /\ w.set.status # Keep => Pendientes(t)' = Pendientes(t) \cup {Len(disk) + 1}
         /\ t \notin w.to \/ w.set.status = Keep => Pendientes(t)' = Pendientes(t)
<1>1. disk \in Seq(Statement)
  BY DEF TypeOK
<1>2. /\ DOMAIN disk = 1 .. Len(disk) /\ Len(disk) \in Nat
      /\ DOMAIN disk' = 1 .. (Len(disk) + 1)
      /\ \A i \in 1 .. Len(disk) : disk'[i] = disk[i]
      /\ disk'[Len(disk) + 1] = w
  BY <1>1
<1>3. Pendientes(t)' = {i \in DOMAIN disk' : t \in disk'[i].to /\ disk'[i].set.status # Keep}
  BY DEF Pendientes
<1>4. Len(disk) + 1 \notin 1 .. Len(disk) /\ 1 .. (Len(disk) + 1) = (1 .. Len(disk)) \cup {Len(disk) + 1}
  BY <1>2
<1> QED BY <1>2, <1>3, <1>4 DEF Pendientes

\* A delegation nobody touched keeps its page.
LEMMA PaginaIgual ==
  ASSUME NEW t \in Tasks, LibroDe(t), Mismo(t), t \in tasks' => t \in tasks,
         t \in registrando' => t \in registrando,
         resume'[t] = resume[t] \/ resume[t] # "requeuing",
         rows'[t] = rows[t], Pendientes(t)' = Pendientes(t),
         \A i \in Pendientes(t) : disk'[i] = disk[i],
         store' = store, t \in sin_persistir => t \in sin_persistir',
         \A n \in Legs :
           \/ pc'[t][n] = pc[t][n]
           \/ pc'[t][n] # "none" /\ EnTramo(t, n)'
           \/ pc'[t][n] = "none" /\ \A i \in Pendientes(t) : ~DeTramo(t, i, n)
  PROVE  LibroDe(t)'
<1>1. Durable(t)' => Durable(t)
  BY DEF Durable
<1>2. /\ \A i \in Pendientes(t)' : DeResume(t, i)' <=> DeResume(t, i)
      /\ \A i \in Pendientes(t)', n \in Legs : DeTramo(t, i, n)' <=> DeTramo(t, i, n)
      /\ \A i \in Pendientes(t)' : DeTramo(t, i, task[t].used)' <=> DeTramo(t, i, task[t].used)
  BY DEF DeResume, DeTramo, Mismo
<1>3. Anotada(t)'
  BY DEF LibroDe, Anotada
<1>4. Durable(t)' => Recien(t)'
  BY <1>1 DEF LibroDe, Recien
<1>5. Durable(t)' => EnDict(t)'
  BY <1>1, <1>2 DEF LibroDe, EnDict, Mismo
<1>6. \A n \in Legs : EnTramo(t, n)'
  <2> SUFFICES ASSUME NEW n \in Legs PROVE EnTramo(t, n)'
    OBVIOUS
  <2>1. CASE pc'[t][n] = "none"
    BY <2>1 DEF EnTramo
  <2>2. CASE pc'[t][n] = pc[t][n]
    BY <1>1, <1>2, <2>2 DEF LibroDe, EnTramo, Mismo, SigueEnLaPausa
  <2> QED BY <2>1, <2>2
<1> QED BY <1>3, <1>4, <1>5, <1>6 DEF LibroDe

\* What a coroutine persists, as a statement.
LEMMA PersistirAnota ==
  ASSUME TypeOK, NEW t \in Tasks, NEW c \in Change,
         NEW by \in {"leg", "resume", "cancel"}, NEW n \in 0 .. Budget, Persistir(t, c, by, n)
  PROVE  /\ \A u \in Tasks : /\ u # t \/ c.status = Keep \/ ~Durable(t) => Pendientes(u)' = Pendientes(u)
                             /\ \A i \in Pendientes(u) : disk'[i] = disk[i]
         /\ Durable(t) /\ c.status # Keep =>
              /\ Pendientes(t)' = Pendientes(t) \cup {Len(disk) + 1}
              /\ Pendientes(t) \subseteq 1 .. Len(disk) /\ Len(disk) \in Nat
              /\ disk'[Len(disk) + 1] = [to |-> {t}, set |-> c, by |-> by, leg |-> n]
<1> DEFINE w == [to |-> {t}, set |-> c, by |-> by, leg |-> n]
<1>1. CASE Durable(t)
  <2>1. w \in Statement /\ w.to = {t} /\ w.set = c
    BY DEF Statement
  <2>2. disk' = Append(disk, w)
    BY <1>1 DEF Persistir
  <2>3. w = [to |-> {t}, set |-> c, by |-> by, leg |-> n]
    OBVIOUS
  <2> HIDE DEF w
  <2>4. ASSUME NEW u \in Tasks
        PROVE  /\ \A i \in DOMAIN disk : disk'[i] = disk[i]
               /\ Len(disk) \in Nat /\ Pendientes(u) \subseteq 1 .. Len(disk)
               /\ disk'[Len(disk) + 1] = w
               /\ u \in w.to /\ w.set.status # Keep => Pendientes(u)' = Pendientes(u) \cup {Len(disk) + 1}
               /\ u \notin w.to \/ w.set.status = Keep => Pendientes(u)' = Pendientes(u)
    BY <2>1, <2>2, <2>4, PendientesAppend
  <2>5. \A u \in Tasks : \A i \in Pendientes(u) : disk'[i] = disk[i]
    BY <2>4 DEF Pendientes
  <2>6. \A u \in Tasks : u # t \/ c.status = Keep => Pendientes(u)' = Pendientes(u)
    BY <2>1, <2>4
  <2> QED BY <1>1, <2>1, <2>3, <2>4, <2>5, <2>6
<1>2. CASE ~Durable(t)
  <2>1. disk' = disk
    BY <1>2 DEF Persistir
  <2> QED BY <1>2, <2>1 DEF Pendientes
<1> QED BY <1>1, <1>2

\* Whatever is handed over is behind what was in flight, and of its own row.
LEMMA PersistirAjena ==
  ASSUME TypeOK, NEW t \in Tasks, NEW c \in Change,
         NEW by \in {"leg", "resume", "cancel"}, NEW n \in 0 .. Budget, Persistir(t, c, by, n)
  PROVE  \A u \in Tasks : /\ u # t \/ c.status = Keep => Pendientes(u)' = Pendientes(u)
                          /\ \A i \in Pendientes(u) : disk'[i] = disk[i]
<1> SUFFICES ASSUME NEW u \in Tasks
             PROVE  /\ u # t \/ c.status = Keep => Pendientes(u)' = Pendientes(u)
                    /\ \A i \in Pendientes(u) : disk'[i] = disk[i]
  OBVIOUS
<1>1. \A x \in Tasks : /\ x # t \/ c.status = Keep \/ ~Durable(t) => Pendientes(x)' = Pendientes(x)
                       /\ \A i \in Pendientes(x) : disk'[i] = disk[i]
  BY PersistirAnota
<1> QED BY <1>1

\* The page of a delegation whose leg writes its status.
LEMMA PaginaEscrita ==
  ASSUME Coherente, EnMarcha, NEW t \in Tasks, NEW n \in Legs, NEW c \in Change,
         NEW place \in Pcs, EscribeTramo(t, n, c, place), LibroDe(t)
  PROVE  LibroDe(t)'
<1>0. /\ TypeOK /\ Contabilidad /\ n \in 0 .. Budget /\ t \in tasks
      /\ Transicionar(t, c, "leg", n) /\ Viva
      /\ UNCHANGED <<store, registrando, resume, sin_persistir, rows>>
  BY LegRange DEF EscribeTramo, todas, Coherente
<1>1. /\ c.status \in {"running", "delivering", "awaiting_input", "delivered", "delivery_failed"}
      /\ task'[t].status = c.status
      /\ task'[t].used = IF c.used = Keep THEN task[t].used ELSE c.used
      /\ pc'[t][n] = place
      /\ \A m \in Legs : m # n => pc'[t][m] = pc[t][m]
      /\ c.status = "running" => c.used = Keep /\ pc[t][n] = "sem" /\ place = "starting"
      /\ c.status = "delivering" =>
           /\ c.used = n /\ pc[t][n] \in {"child", "snapshot", "marking", "pausing"} /\ place = "handing"
           /\ pc[t][n] = "pausing" => t \in sin_persistir
      /\ c.status = "awaiting_input" => c.used = n /\ pc[t][n] = "snapshot" /\ place = "pausing"
      /\ c.status \in {"delivered", "delivery_failed"} =>
           c.used = Keep /\ pc[t][n] = "dispatching" /\ place = "closing"
  BY EscribeEfecto
<1>2. /\ c.status # Keep /\ Persistir(t, c, "leg", n) /\ (Durable(t)' <=> Durable(t))
      /\ n # Keep
  BY <1>0, <1>1, StatusIsNotKeep, QueueAssumption DEF Transicionar, Durable, Status, Terminales, Legs
<1>3. /\ ~Durable(t) => Pendientes(t)' = Pendientes(t)
      /\ \A i \in Pendientes(t) : disk'[i] = disk[i]
      /\ Durable(t) =>
           /\ Pendientes(t)' = Pendientes(t) \cup {Len(disk) + 1}
           /\ disk'[Len(disk) + 1] = [to |-> {t}, set |-> c, by |-> "leg", leg |-> n]
  BY <1>0, <1>2, PersistirAnota
<1>4. t \notin registrando
  BY <1>0, <1>1 DEF Contabilidad, SinRastro
<1>5. Durable(t) => Pendientes(t) = {} /\ pc[t][n] \notin Callado
  <2>1. CASE pc[t][n] = "sem"
    <3>1. task[t].status = "queued" /\ "sem" \notin Callado
      BY <1>0, <2>1 DEF Contabilidad, UnTramoActivo, Callado
    <3>2. resume[t] # "requeuing"
      BY <1>0, <2>1, <3>1 DEF Contabilidad, Reencolandose
    <3> QED BY <1>0, <2>1, <3>1, <3>2 DEF LibroDe, EnDict
  <2>2. CASE pc[t][n] # "sem"
    <3>1. Durable(t) => pc[t][n] \in {"child", "snapshot", "marking", "dispatching"}
      BY <1>1, <2>2 DEF Durable
    <3> QED BY <3>1 DEF LibroDe, EnTramo, Callado
  <2> QED BY <2>1, <2>2
<1>6. Anotada(t)'
  BY <1>0, <1>3 DEF LibroDe, Anotada, EnDict
<1>7. Durable(t)' => Recien(t)'
  BY <1>0, <1>4 DEF Recien
<1>8. ASSUME Durable(t) PROVE EnDict(t)'
  <2>0. PICK k : k = Len(disk) + 1
    OBVIOUS
  <2>1. /\ Pendientes(t)' = {k} /\ disk'[k].set = c /\ disk'[k].by = "leg" /\ disk'[k].leg = n
    BY <1>3, <1>5, <1>8, <2>0
  <2>2. DeTramo(t, k, n)' /\ pc'[t][n] # "none"
    BY <1>1, <2>1 DEF DeTramo
  <2>3. rows[t].status # Absent /\ rows[t].used = task[t].used
    BY <1>0, <1>5, <1>8 DEF LibroDe, EnDict
  <2>4. /\ c.status = "awaiting_input" => task'[t].used = n
        /\ c.used \in {Keep, task'[t].used}
        /\ c.used = Keep => task'[t].used = task[t].used
    BY <1>1, <1>2
  <2>5. \A i \in Pendientes(t)' : \E m \in Legs : DeTramo(t, i, m)' /\ pc'[t][m] # "none"
    BY <2>1, <2>2
  <2>6. task'[t].status = "awaiting_input" => \A i \in Pendientes(t)' : DeTramo(t, i, task[t].used)'
    BY <1>1, <2>1, <2>4 DEF DeTramo
  <2> QED BY <1>0, <1>1, <2>1, <2>3, <2>4, <2>5, <2>6 DEF EnDict
<1>9. ASSUME NEW m \in Legs PROVE EnTramo(t, m)'
  <2>1. CASE m = n
    <3>1. place \in {"starting", "handing", "pausing", "closing"}
      BY <1>1
    <3>2. Durable(t) => \A i \in Pendientes(t)' : DeTramo(t, i, n)'
      BY <1>3, <1>5 DEF DeTramo
    <3>3. place = "pausing" => store = "open"
      BY <1>1 DEF LibroDe, EnTramo
    <3> QED BY <1>0, <1>1, <1>2, <2>1, <3>1, <3>2, <3>3 DEF EnTramo
  <2>2. CASE m # n
    <3>1. pc'[t][m] = pc[t][m]
      BY <1>1, <2>2
    <3>2. Durable(t) => pc[t][m] \in Callado
      BY <1>0, <1>5, <2>2 DEF Contabilidad, UnTramoActivo
    <3>3. ~SigueEnLaPausa(t, m)'
      BY <1>1, <1>2, <2>2 DEF SigueEnLaPausa
    <3> QED BY <1>0, <1>2, <3>1, <3>2, <3>3 DEF EnTramo, LibroDe, Callado
  <2> QED BY <2>1, <2>2
<1> QED BY <1>2, <1>6, <1>7, <1>8, <1>9 DEF LibroDe

\* The page of a delegation whose leg goes on, or ends.
LEMMA PaginaMovida ==
  ASSUME Coherente, EnMarcha, NEW t \in Tasks, NEW n \in Legs, NEW place \in Pcs,
         MueveTramo(t, n, place), LibroDe(t),
         Pendientes(t)' = Pendientes(t), \A i \in Pendientes(t) : disk'[i] = disk[i]
  PROVE  LibroDe(t)'
<1>1. /\ UNCHANGED <<store, registrando, resume, sin_persistir, rows, tasks>>
      /\ pc[t][n] = "pausing" /\ place = "asking" => ~(t \in sin_persistir /\ SigueEnLaPausa(t, n))
  BY DEF MueveTramo, todas
<1>2. /\ Mismo(t) /\ pc'[t][n] = place
      /\ \A m \in Legs : m # n => pc'[t][m] = pc[t][m]
      /\ <<pc[t][n], place>> \in {<<"starting", "child">>, <<"child", "snapshot">>,
              <<"pausing", "asking">>, <<"handing", "dispatching">>, <<"child", "marking">>,
              <<"snapshot", "marking">>, <<"asking", "closing">>}
      /\ place \in {"child", "asking", "dispatching"} => ~Writing(t, "leg", n)
      /\ place = "snapshot" => pc[t][n] = "child" /\ place # "closing"
  BY MueveEfecto
<1>3. ~Writing(t, "leg", n) => \A i \in Pendientes(t) : ~DeTramo(t, i, n)
  BY DEF Writing, Pendientes, DeTramo
<1>4. Durable(t)' <=> Durable(t)
  BY <1>1 DEF Durable
<1>5. Durable(t) /\ place \in {"child", "snapshot", "marking", "dispatching"} => Pendientes(t) = {}
  BY <1>2, <1>3 DEF LibroDe, EnTramo
<1>6. place = "snapshot" => store = "open"
  BY <1>2 DEF MueveTramo, Durable
<1>7. ASSUME place = "asking", SigueEnLaPausa(t, n)
      PROVE  Pendientes(t) = {} /\ rows[t].status = "awaiting_input" /\ rows[t].used = n
  <2>1. pc[t][n] = "pausing" /\ Durable(t)
    BY <1>1, <1>2, <1>7 DEF LibroDe, EnTramo, Durable
  <2>2. t \in tasks
    BY <1>7, <2>1 DEF EnMarcha, SigueEnLaPausa, SinRetorno, Terminales
  <2>3. Pendientes(t) = {}
    BY <1>2, <1>3, <1>7, <2>1, <2>2 DEF LibroDe, EnDict, SigueEnLaPausa
  <2> QED BY <1>7, <2>1, <2>2, <2>3 DEF LibroDe, EnDict, SigueEnLaPausa
<1>8. SigueEnLaPausa(t, n)' <=> SigueEnLaPausa(t, n)
  BY <1>2 DEF SigueEnLaPausa, Mismo
<1>9. place # "none" /\ EnTramo(t, n)'
  BY <1>1, <1>2, <1>4, <1>5, <1>6, <1>7, <1>8 DEF EnTramo
<1> QED BY <1>1, <1>2, <1>9, PaginaIgual

\* A leg that writes waits for its statement before it goes on.
LEMMA TramoLibro ==
  ASSUME Coherente, EnMarcha, Libro, NEW t \in Tasks, NEW n \in Legs,
         RunTask(t, n) \/ LegStep(t, n)
  PROVE  Libro'
<1>0. TypeOK /\ n \in 0 .. Budget
  BY LegRange DEF Coherente
<1>1. ASSUME NEW c \in Change, NEW place \in Pcs, EscribeTramo(t, n, c, place) PROVE Libro'
  <2>1. /\ \A u \in Tasks \ {t} : task'[u] = task[u]
        /\ tasks' \subseteq tasks
        /\ \A u \in Tasks, m \in Legs : u # t \/ m # n => pc'[u][m] = pc[u][m]
    BY <1>1, EscribeEfecto
  <2>2. Persistir(t, c, "leg", n) /\ Viva
        /\ UNCHANGED <<store, registrando, resume, sin_persistir, rows>>
    BY <1>1 DEF EscribeTramo, Transicionar, todas
  <2>3. \A u \in Tasks \ {t} : Pendientes(u)' = Pendientes(u) /\ \A i \in Pendientes(u) : disk'[i] = disk[i]
    BY <1>0, <2>2, PersistirAnota
  <2>4. \A u \in Tasks \ {t} : LibroDe(u)'
    BY <2>1, <2>2, <2>3, PaginaIgual DEF Libro, Mismo
  <2>5. LibroDe(t)'
    BY <1>1, <2>2, PaginaEscrita DEF Libro
  <2> QED BY <2>4, <2>5 DEF Libro
<1>2. ASSUME NEW place \in Pcs, MueveTramo(t, n, place) PROVE Libro'
  <2>1. /\ \A u \in Tasks : Mismo(u)
        /\ \A u \in Tasks, m \in Legs : u # t \/ m # n => pc'[u][m] = pc[u][m]
        /\ \/ disk' = disk
           \/ \E c \in {NoChange, Notified, TranscriptCut} : Persistir(t, c, "leg", n)
    BY <1>2, MueveEfecto
  <2>2. UNCHANGED <<store, registrando, resume, sin_persistir, rows, tasks>> /\ Viva
    BY <1>2 DEF MueveTramo, todas
  <2>3. \A u \in Tasks : Pendientes(u)' = Pendientes(u) /\ \A i \in Pendientes(u) : disk'[i] = disk[i]
    <3>1. CASE disk' = disk
      BY <3>1 DEF Pendientes
    <3>2. ASSUME NEW c \in {NoChange, Notified, TranscriptCut}, Persistir(t, c, "leg", n)
          PROVE  \A u \in Tasks : Pendientes(u)' = Pendientes(u) /\ \A i \in Pendientes(u) : disk'[i] = disk[i]
      <4>1. c \in Change /\ c.status = Keep
        BY <3>2, OtherChange
      <4> QED BY <1>0, <3>2, <4>1, PersistirAnota
    <3> QED BY <2>1, <3>1, <3>2
  <2>4. \A u \in Tasks \ {t} : LibroDe(u)'
    BY <2>1, <2>2, <2>3, PaginaIgual DEF Libro
  <2>5. LibroDe(t)'
    BY <1>2, <2>2, <2>3, PaginaMovida DEF Libro
  <2> QED BY <2>4, <2>5 DEF Libro
<1>3. CASE AcabaTramo(t, n)
  <2>1. /\ \A u \in Tasks, m \in Legs :
             pc'[u][m] = IF u = t /\ m = n THEN "none" ELSE pc[u][m]
        /\ UNCHANGED <<store, registrando, resume, sin_persistir, rows, tasks, task, disk>> /\ Viva
        /\ ~Writing(t, "leg", n)
    BY <1>0, <1>3 DEF AcabaTramo, OlvidarHandle, Goto, TypeOK, todas
  <2>2. \A i \in Pendientes(t) : ~DeTramo(t, i, n)
    BY <2>1 DEF Writing, Pendientes, DeTramo
  <2>3. \A u \in Tasks : Pendientes(u)' = Pendientes(u) /\ Mismo(u)
    BY <2>1 DEF Pendientes, Mismo
  <2>4. \A u \in Tasks : LibroDe(u)'
    BY <2>1, <2>2, <2>3, PaginaIgual DEF Libro
  <2> QED BY <2>4 DEF Libro
<1> QED BY <1>1, <1>2, <1>3, TramoEscribeOMueve

\* cancel leaves nothing in the dict to agree with the row.
LEMMA CancelLibro ==
  ASSUME Coherente, EnMarcha', Libro, NEW t \in Tasks, Cancel(t) PROVE Libro'
<1>1. /\ t \in tasks /\ tasks' = tasks \ {t}
      /\ \A u \in Tasks \ {t} : task'[u] = task[u]
      /\ \A u \in Tasks, m \in Legs : pc'[u][m] \in {pc[u][m], "none"}
      /\ \A u \in Tasks, m \in Legs : u # t => pc'[u][m] = pc[u][m]
      /\ UNCHANGED <<phase, store, registrando, resume, sin_persistir, rows>>
      /\ \E c \in Change : Persistir(t, c, "cancel", 0) /\ task'[t].status = c.status
                           /\ c.status \in {"dismissed", "cancelled"}
  BY CancelEfecto
<1>2. PICK c \in Change : Persistir(t, c, "cancel", 0) /\ task'[t].status = c.status
                          /\ c.status \in {"dismissed", "cancelled"}
  BY <1>1
<1>3. TypeOK /\ 0 \in 0 .. Budget /\ t \notin registrando /\ (Viva' => Viva)
  BY <1>1, Tipos DEF Contabilidad, SinRastro, Viva
<1>4. /\ \A u \in Tasks : /\ u # t \/ ~Durable(t) => Pendientes(u)' = Pendientes(u)
                          /\ \A i \in Pendientes(u) : disk'[i] = disk[i]
  BY <1>2, <1>3, PersistirAnota
<1> SUFFICES ASSUME Viva, NEW u \in Tasks PROVE LibroDe(u)'
  BY <1>3 DEF Libro
<1>5. CASE u # t
  BY <1>1, <1>4, <1>5, PaginaIgual DEF Libro, Mismo
<1>6. CASE u = t
  <2>1. Anotada(t)'
    BY <1>1, <1>4 DEF Libro, LibroDe, Anotada, EnDict
  <2>2. \A m \in Legs : EnTramo(t, m)'
    <3> SUFFICES ASSUME NEW m \in Legs PROVE EnTramo(t, m)'
      OBVIOUS
    <3>1. pc'[t][m] \in Callado
      BY <1>1 DEF EnMarcha
    <3>2. ~SigueEnLaPausa(t, m)'
      BY <1>2 DEF SigueEnLaPausa
    <3> QED BY <1>1, <3>1, <3>2 DEF EnTramo, Callado, Libro, LibroDe
  <2> QED BY <1>1, <1>3, <1>6, <2>1, <2>2 DEF LibroDe, Recien, EnDict
<1> QED BY <1>5, <1>6

\* An INSERT, an enqueue and a cancel of what has ended.
LEMMA AltaLibro ==
  ASSUME Coherente, Marcha, Libro, NEW t \in Tasks,
         Registrar(t) \/ Enqueue(t) \/ EnqueueEnMemoria(t) \/ CancelDeTerminada(t)
  PROVE  Libro'
<1> USE DEF process, legvars, apivars, durable, history
<1>0. /\ TypeOK /\ UNCHANGED <<phase, store, pc, resume>> /\ sin_persistir \subseteq sin_persistir'
      /\ (Viva' => Viva) /\ task \in [Tasks -> Record] /\ rows \in [Tasks -> Record]
  BY DEF Registrar, Enqueue, EnqueueEnMemoria, CancelDeTerminada, Coherente, Viva, TypeOK
<1> SUFFICES ASSUME Viva, NEW u \in Tasks PROVE LibroDe(u)'
  BY <1>0 DEF Libro
<1>1. CASE Registrar(t)
  <2>1. /\ \A x \in Tasks \ {t} : rows'[x] = rows[x]
        /\ rows'[t] = NewTask /\ registrando' = registrando \cup {t}
        /\ UNCHANGED <<tasks, task, disk, sin_persistir>>
        /\ task[t].status = Absent /\ rows[t].status = Absent
    BY <1>0, <1>1 DEF Registrar, Nueva
  <2>2. \A x \in Tasks : Pendientes(x)' = Pendientes(x) /\ Mismo(x)
    BY <2>1 DEF Pendientes, Mismo
  <2>3. CASE u # t
    BY <1>0, <2>1, <2>2, <2>3, PaginaIgual DEF Libro
  <2>4. CASE u = t
    <3>1. Pendientes(t) = {} /\ t \notin tasks /\ \A m \in Legs : pc[t][m] = "none"
      BY <2>1 DEF Libro, LibroDe, Anotada, Coherente, Contabilidad, SinRastro
    <3>2. rows'[t].status = "queued" /\ rows'[t].used = 0
      BY <2>1 DEF NewTask, NoRecord
    <3> QED BY <1>0, <2>1, <2>2, <2>4, <3>1, <3>2 DEF LibroDe, Anotada, Recien, EnDict, EnTramo
  <2> QED BY <2>3, <2>4
<1>2. CASE Enqueue(t) \/ EnqueueEnMemoria(t)
  <2>1. /\ EnElDict(t) /\ registrando' \subseteq registrando /\ UNCHANGED <<disk, rows>>
        /\ task[t].status = Absent
        /\ \/ t \in registrando /\ t \notin registrando'
           \/ ~Durable(t)'
    BY <1>2 DEF Enqueue, EnqueueEnMemoria, Nueva, Coherente, Contabilidad, SinRastro, Durable
  <2>2. /\ tasks' = tasks \cup {t} /\ \A x \in Tasks \ {t} : task'[x] = task[x]
        /\ task'[t] = NewTask
    BY <1>0, <2>1 DEF EnElDict
  <2>3. \A x \in Tasks : Pendientes(x)' = Pendientes(x)
    BY <2>1 DEF Pendientes
  <2>4. CASE u # t
    BY <1>0, <2>1, <2>2, <2>3, <2>4, PaginaIgual DEF Libro, Mismo
  <2>5. CASE u = t
    <3>1. \A m \in Legs : pc[t][m] = "none"
      BY <2>1 DEF Coherente, Contabilidad, SinRastro
    <3>2. task'[t].status = "queued" /\ task'[t].used = 0
      BY <2>2 DEF NewTask, NoRecord
    <3>3. Durable(t)' => Durable(t)
      BY <1>0 DEF Durable
    <3>4. Durable(t)' => /\ Pendientes(t) = {} /\ rows[t].status = "queued" /\ rows[t].used = 0
      BY <2>1, <3>3 DEF Libro, LibroDe, Recien
    <3>5. "queued" # Absent
      BY DEF Absent
    <3>6. Anotada(t)' /\ \A m \in Legs : EnTramo(t, m)'
      BY <1>0, <2>1, <2>3, <3>1 DEF Libro, LibroDe, Anotada, EnTramo
    <3>7. Durable(t)' => Recien(t)' /\ EnDict(t)'
      BY <2>1, <2>3, <3>2, <3>4, <3>5 DEF Recien, EnDict
    <3> QED BY <2>5, <3>6, <3>7 DEF LibroDe
  <2> QED BY <2>4, <2>5
<1>3. CASE CancelDeTerminada(t)
  <2> DEFINE w == [to |-> {t}, set |-> ToDismissed, by |-> "row", leg |-> 0]
  <2>1. w \in Statement /\ w.to = {t}
    BY OtherChange, QueueAssumption DEF Statement
  <2>2. /\ disk' = Append(disk, w) /\ rows[t].status = "awaiting_input" /\ t \notin tasks /\ Durable(t)
        /\ UNCHANGED <<tasks, task, rows, registrando, sin_persistir>>
    BY <1>3 DEF CancelDeTerminada
  <2> HIDE DEF w
  <2>3. ASSUME NEW x \in Tasks
        PROVE  /\ x # t => Pendientes(x)' = Pendientes(x)
               /\ \A i \in DOMAIN disk : disk'[i] = disk[i]
    BY <1>0, <2>1, <2>2, <2>3, PendientesAppend
  <2>4. CASE u # t
    BY <1>0, <2>2, <2>3, <2>4, PaginaIgual DEF Libro, Mismo, Pendientes
  <2>5. CASE u = t
    <3>1. t \notin registrando
      BY <2>2 DEF Libro, LibroDe, Recien
    <3>2. \A m \in Legs : /\ pc[t][m] \in Callado
                          /\ pc[t][m] = "asking" => ~SigueEnLaPausa(t, m)
      BY <2>2 DEF Marcha, EnMarcha, SinRetorno, Terminales, SigueEnLaPausa
    <3>3. \A m \in Legs : EnTramo(t, m)'
      BY <1>0, <2>2, <3>2 DEF EnTramo, Callado, Libro, LibroDe, SigueEnLaPausa
    <3> QED BY <1>0, <2>2, <2>5, <3>1, <3>3 DEF LibroDe, Anotada, Recien, EnDict, Absent
  <2> QED BY <2>4, <2>5
<1> QED BY <1>1, <1>2, <1>3

\* The delegation goes back to the FIFO behind the statement that says so.
LEMMA ReencolarLibro ==
  ASSUME Coherente, EnMarcha, Libro, NEW t \in Tasks, Reencolar(t) PROVE Libro'
<1> USE DEF process, legvars, apivars, durable, history
<1>0. /\ TypeOK /\ 0 \in 0 .. Budget /\ t \in tasks /\ task[t].status = "awaiting_input"
      /\ UNCHANGED <<phase, store, tasks, registrando, pc, sin_persistir, rows>>
      /\ Persistir(t, ToQueuedAgain, "resume", 0)
      /\ \A u \in Tasks \ {t} : resume'[u] = resume[u] /\ task'[u] = task[u]
      /\ resume'[t] = "requeuing" /\ Viva
      /\ task'[t] = Apply(task[t], ToQueuedAgain) /\ task[t] \in Record
  <2>1. TypeOK /\ 0 \in 0 .. Budget /\ task \in [Tasks -> Record] /\ phase = "up"
    BY Tipos DEF Reencolar
  <2>2. resume \in [Tasks -> {"idle", "reopening", "requeuing", "marking"}]
    BY <2>1 DEF TypeOK
  <2>3. /\ t \in tasks /\ task[t].status = "awaiting_input"
        /\ UNCHANGED <<phase, store, tasks, registrando, pc, sin_persistir, rows>>
        /\ Persistir(t, ToQueuedAgain, "resume", 0)
        /\ task' = [task EXCEPT ![t] = Apply(task[t], ToQueuedAgain)]
        /\ resume' = [resume EXCEPT ![t] = "requeuing"]
    BY DEF Reencolar, SigueEsperando
  <2>4. /\ \A u \in Tasks \ {t} : resume'[u] = resume[u] /\ task'[u] = task[u]
        /\ resume'[t] = "requeuing" /\ task'[t] = Apply(task[t], ToQueuedAgain) /\ task[t] \in Record
    BY <2>1, <2>2, <2>3
  <2> QED BY <2>1, <2>3, <2>4 DEF Viva
<1>1. /\ ToQueuedAgain \in Change /\ ToQueuedAgain.status = "queued" /\ ToQueuedAgain.used = Keep
      /\ "queued" \in Status /\ "queued" # Keep
  BY OtherChange, StatusIsNotKeep DEF Status
<1>2. task'[t].status = "queued" /\ task'[t].used = task[t].used
  BY <1>0, <1>1, ApplyStatus
<1>3. /\ \A u \in Tasks : /\ u # t \/ ~Durable(t) => Pendientes(u)' = Pendientes(u)
                          /\ \A i \in Pendientes(u) : disk'[i] = disk[i]
      /\ Durable(t) =>
           /\ Pendientes(t)' = Pendientes(t) \cup {Len(disk) + 1}
           /\ Pendientes(t) \subseteq 1 .. Len(disk) /\ Len(disk) \in Nat
           /\ disk'[Len(disk) + 1] = [to |-> {t}, set |-> ToQueuedAgain, by |-> "resume", leg |-> 0]
  BY <1>0, <1>1, PersistirAnota
<1>4. \A u \in Tasks \ {t} : LibroDe(u)'
  BY <1>0, <1>3, PaginaIgual DEF Libro, Mismo
<1>5. LibroDe(t) /\ (Durable(t)' <=> Durable(t))
  BY <1>0 DEF Libro, Durable
<1>6. Anotada(t)'
  BY <1>0, <1>3, <1>5 DEF LibroDe, Anotada, EnDict
<1>7. \A m \in Legs : EnTramo(t, m)'
  <2> SUFFICES ASSUME NEW m \in Legs PROVE EnTramo(t, m)'
    OBVIOUS
  <2>1. pc[t][m] \in Callado
    BY <1>0, SinTramoActivo DEF Coherente, Contabilidad
  <2>2. ~SigueEnLaPausa(t, m)'
    BY <1>2 DEF SigueEnLaPausa
  <2> QED BY <1>0, <1>5, <2>1, <2>2 DEF EnTramo, LibroDe, Callado
<1>8. ASSUME Durable(t) PROVE EnDict(t)'
  <2>0. PICK k : k = Len(disk) + 1
    OBVIOUS
  <2>1. /\ Pendientes(t)' = Pendientes(t) \cup {k} /\ \A i \in Pendientes(t) : i <= k /\ i # k
        /\ disk'[k].set.status = "queued" /\ disk'[k].set.used = Keep
        /\ disk'[k].by = "resume" /\ disk'[k].leg = 0 /\ k \in Nat
        /\ \A i \in Pendientes(t) : disk'[i] = disk[i]
    BY <1>1, <1>3, <1>8, <2>0
  <2>2. DeResume(t, k)' /\ \A i \in Pendientes(t)' : i <= k
    BY <2>1 DEF DeResume
  <2>3. \A i \in Pendientes(t) : /\ DeResume(t, i)' <=> DeResume(t, i)
                                 /\ \A m \in Legs : DeTramo(t, i, m)' <=> DeTramo(t, i, m)
    BY <2>1 DEF DeResume, DeTramo
  <2>4. EnDict(t)
    BY <1>5, <1>8 DEF LibroDe
  <2>5. rows'[t].status # Absent /\ Pendientes(t)' # {}
    BY <1>0, <2>1, <2>4 DEF EnDict
  <2>6. \A i \in Pendientes(t)' :
          (\A j \in Pendientes(t)' : j <= i) => disk'[i].set.status = task'[t].status
    <3> SUFFICES ASSUME NEW i \in Pendientes(t)', \A j \in Pendientes(t)' : j <= i
                 PROVE  i = k
      BY <1>2, <2>1
    <3>1. k <= i /\ i <= k
      BY <2>1, <2>2
    <3>2. i \in Nat
      BY <1>3, <1>8, <2>1
    <3> QED BY <2>1, <3>1, <3>2
  <2>7. \A i \in Pendientes(t)' : disk'[i].set.used \in {Keep, task'[t].used}
    BY <1>2, <2>1, <2>4, <1>0 DEF EnDict
  <2>8. (\A i \in Pendientes(t)' : disk'[i].set.used = Keep) => rows'[t].used = task'[t].used
    BY <1>0, <1>2, <2>1, <2>4 DEF EnDict
  <2>9. \A i \in Pendientes(t)' :
          DeResume(t, i)' \/ \E m \in Legs : DeTramo(t, i, m)' /\ pc'[t][m] # "none"
    BY <1>0, <2>1, <2>2, <2>3, <2>4 DEF EnDict
  <2>10. \A i \in Pendientes(t)' :
       resume'[t] = "requeuing" /\ \E j \in Pendientes(t)' : i <= j /\ DeResume(t, j)'
    BY <1>0, <2>1, <2>2
  <2> QED BY <1>2, <2>5, <2>6, <2>7, <2>8, <2>9, <2>10 DEF EnDict
<1>9. t \notin registrando
  BY <1>0 DEF Coherente, Contabilidad, SinRastro, Absent
<1> QED BY <1>0, <1>4, <1>5, <1>6, <1>7, <1>8, <1>9 DEF Libro, LibroDe, Recien

\* A resume waits for its statement while the delegation is queued.
LEMMA ResumeLibro ==
  ASSUME Coherente, EnMarcha, Libro, NEW t \in Tasks, Resume(t) \/ ResumeStep(t)
  PROVE  Libro'
<1> USE DEF process, legvars, apivars, durable, history
<1>1. CASE Reencolar(t)
  BY <1>1, ReencolarLibro
<1>2. CASE Reanudada(t)
  <2>0. /\ UNCHANGED <<phase, store, tasks, task, registrando, pc, sin_persistir, rows, disk>>
        /\ \A u \in Tasks \ {t} : resume'[u] = resume[u]
        /\ ~Writing(t, "resume", 0)
    BY <1>2 DEF Reanudada, Coherente, TypeOK
  <2>1. \A u \in Tasks : Pendientes(u)' = Pendientes(u) /\ Mismo(u)
    BY <2>0 DEF Pendientes, Mismo
  <2>2. \A i \in Pendientes(t) : ~DeResume(t, i)
    BY <2>0 DEF Writing, Pendientes, DeResume
  <2>3. Viva => \A u \in Tasks \ {t} : LibroDe(u)'
    BY <2>0, <2>1, PaginaIgual DEF Libro
  <2>4. ASSUME Viva PROVE LibroDe(t)'
    <3>1. LibroDe(t) /\ (Durable(t)' <=> Durable(t))
      BY <2>0, <2>4 DEF Libro, Durable
    <3>2. Anotada(t)' /\ (Durable(t)' => Recien(t)') /\ \A n \in Legs : EnTramo(t, n)'
      BY <2>0, <2>1, <3>1 DEF LibroDe, Anotada, Recien, EnTramo, SigueEnLaPausa, DeTramo
    <3>3. ASSUME Durable(t) PROVE EnDict(t)'
      <4>1. EnDict(t)
        BY <3>1, <3>3 DEF LibroDe
      <4>2. t \in tasks /\ task[t].status = "queued" => Pendientes(t) = {}
        BY <2>2, <4>1 DEF EnDict
      <4> QED BY <2>0, <2>1, <4>1, <4>2 DEF EnDict, DeResume, DeTramo
    <3> QED BY <3>1, <3>2, <3>3 DEF LibroDe
  <2> QED BY <2>0, <2>3, <2>4 DEF Libro, Viva
<1>3. CASE Resume(t) \/ ReanudarTarde(t) \/ ReaperturaFallida(t) \/ ReaperturaMarcada(t)
  <2>0. /\ UNCHANGED <<phase, store, tasks, registrando, pc, sin_persistir, rows>>
        /\ \A u \in Tasks : resume'[u] = resume[u] \/ resume[u] # "requeuing"
        /\ \/ task' = task /\ disk' = disk
           \/ /\ task' = [task EXCEPT ![t] = Apply(task[t], TranscriptCut)]
              /\ Persistir(t, TranscriptCut, "resume", 0)
        /\ TypeOK /\ task \in [Tasks -> Record] /\ 0 \in 0 .. Budget
    <3>1. UNCHANGED <<phase, store, tasks, registrando, pc, sin_persistir, rows>>
      BY <1>3 DEF Resume, ReanudarTarde, ReaperturaFallida, ReaperturaMarcada
    <3>2. \A u \in Tasks : resume'[u] = resume[u] \/ resume[u] # "requeuing"
      BY <1>3 DEF Resume, ReanudarTarde, ReaperturaFallida, ReaperturaMarcada, Coherente, TypeOK
    <3>3. \/ task' = task /\ disk' = disk
          \/ /\ task' = [task EXCEPT ![t] = Apply(task[t], TranscriptCut)]
             /\ Persistir(t, TranscriptCut, "resume", 0)
      BY <1>3 DEF Resume, ReanudarTarde, ReaperturaFallida, ReaperturaMarcada
    <3>4. TypeOK /\ task \in [Tasks -> Record] /\ 0 \in 0 .. Budget
      BY Tipos
    <3> QED BY <3>1, <3>2, <3>3, <3>4
  <2>1. /\ TranscriptCut \in Change /\ TranscriptCut.status = Keep
        /\ Apply(task[t], TranscriptCut).status = task[t].status
        /\ Apply(task[t], TranscriptCut).used = task[t].used
    BY <2>0, OtherChange, ApplyKeep
  <2>2. \A u \in Tasks : Mismo(u)
    BY <2>0, <2>1 DEF Mismo
  <2>3. \A u \in Tasks : Pendientes(u)' = Pendientes(u) /\ \A i \in Pendientes(u) : disk'[i] = disk[i]
    <3>1. CASE disk' = disk
      BY <3>1 DEF Pendientes
    <3>2. CASE Persistir(t, TranscriptCut, "resume", 0)
      BY <2>0, <2>1, <3>2, PersistirAnota
    <3> QED BY <2>0, <3>1, <3>2
  <2>4. Viva => \A u \in Tasks : LibroDe(u)'
    BY <2>0, <2>2, <2>3, PaginaIgual DEF Libro
  <2> QED BY <2>0, <2>4 DEF Libro, Viva
<1> QED BY <1>1, <1>2, <1>3 DEF ResumeStep

\* The notice marks rows and changes no status.
LEMMA AvisoLibro ==
  ASSUME Coherente, Libro, AvisarTrasArranque \/ AvisoStep PROVE Libro'
<1> USE DEF process, legvars, apivars, durable, history
<1>0. /\ TypeOK /\ UNCHANGED <<phase, store, registrando, pc, resume, sin_persistir, rows>>
      /\ tasks' \subseteq tasks /\ task \in [Tasks -> Record]
  BY DEF AvisarTrasArranque, AvisoStep, MarcarAvisadas, AvisoGuardado, AvisoFallido, Coherente, TypeOK
<1>1. \A u \in Tasks : Mismo(u) /\ Pendientes(u)' = Pendientes(u)
                       /\ \A i \in Pendientes(u) : disk'[i] = disk[i]
  <2>1. CASE MarcarAvisadas
    <3> DEFINE w == [to |-> aviso.now, set |-> Notified, by |-> "aviso", leg |-> 0]
    <3>1. w \in Statement /\ w.set.status = Keep
      BY <1>0, OtherChange, QueueAssumption DEF Statement, TypeOK, Notice
    <3>2. disk' = Append(disk, w)
      BY <2>1 DEF MarcarAvisadas
    <3> HIDE DEF w
    <3>3. \A u \in Tasks : Pendientes(u)' = Pendientes(u) /\ \A i \in Pendientes(u) : disk'[i] = disk[i]
      BY <1>0, <3>1, <3>2, PendientesAppend DEF Pendientes
    <3>4. \A u \in Tasks : /\ Apply(task[u], Notified).status = task[u].status
                           /\ Apply(task[u], Notified).used = task[u].used
      BY <1>0, OtherChange, ApplyKeep
    <3>5. \A u \in Tasks : task'[u] \in {task[u], Apply(task[u], Notified)}
      BY <2>1 DEF MarcarAvisadas
    <3> QED BY <3>3, <3>4, <3>5 DEF Mismo
  <2>2. CASE ~MarcarAvisadas
    <3>1. UNCHANGED <<task, disk>>
      BY <2>2 DEF AvisarTrasArranque, AvisoStep, AvisoGuardado, AvisoFallido
    <3> QED BY <3>1 DEF Mismo, Pendientes
  <2> QED BY <2>1, <2>2
<1>2. Viva => \A u \in Tasks : LibroDe(u)'
  BY <1>0, <1>1, PaginaIgual DEF Libro
<1> QED BY <1>0, <1>2 DEF Libro, Viva

\* The consumer writes nothing.
LEMMA LoopLibro == ASSUME Coherente, Libro, Loop PROVE Libro'
<1> USE DEF process, legvars, apivars, durable, history
<1>0. /\ UNCHANGED <<phase, store, registrando, tasks, task, resume, sin_persistir, rows, disk>>
      /\ pc \in [Tasks -> [Legs -> Pcs]]
  BY DEF Loop, Coherente, TypeOK
<1>1. \A u \in Tasks : Mismo(u) /\ Pendientes(u)' = Pendientes(u)
  BY <1>0 DEF Mismo, Pendientes
<1>2. \A u \in Tasks, m \in Legs : pc'[u][m] = pc[u][m] \/ pc'[u][m] = "sem"
  <2>1. pc' = pc \/ \E t, n : pc' = [pc EXCEPT ![t][n] = "sem"]
    BY DEF Loop, Goto
  <2>2. ASSUME NEW t, NEW n, pc' = [pc EXCEPT ![t][n] = "sem"]
        PROVE  \A u \in Tasks, m \in Legs : pc'[u][m] = pc[u][m] \/ pc'[u][m] = "sem"
    BY <1>0, <2>2
  <2> QED BY <2>1, <2>2
<1>3. \A u \in Tasks, m \in Legs : pc'[u][m] = "sem" => pc'[u][m] # "none" /\ EnTramo(u, m)'
  BY DEF EnTramo
<1>4. Viva => \A u \in Tasks : LibroDe(u)'
  BY <1>0, <1>1, <1>2, <1>3, PaginaIgual DEF Libro
<1> QED BY <1>0, <1>4 DEF Libro, Viva

\* What is left in flight when the connection has taken the first statement.
LEMMA PendientesTail ==
  ASSUME TypeOK, disk # <<>>, disk' = Tail(disk), NEW t \in Tasks
  PROVE  /\ \A i \in Pendientes(t)' : i \in Nat \ {0} /\ i + 1 \in Pendientes(t) /\ disk'[i] = disk[i + 1]
         /\ \A i \in Pendientes(t) : i = 1 \/ (i - 1 \in Pendientes(t)' /\ disk'[i - 1] = disk[i])
         /\ \A i \in Pendientes(t) : i \in Nat
         /\ Head(disk) = disk[1] /\ disk[1] \in Statement /\ 1 \in DOMAIN disk
<1>1. disk \in Seq(Statement)
  BY DEF TypeOK
<1>2. /\ Len(disk) \in Nat /\ Len(disk) >= 1 /\ DOMAIN disk = 1 .. Len(disk)
      /\ DOMAIN disk' = 1 .. (Len(disk) - 1)
      /\ \A i \in 1 .. (Len(disk) - 1) : disk'[i] = disk[i + 1]
      /\ Head(disk) = disk[1] /\ disk[1] \in Statement
  BY <1>1
<1>3. Pendientes(t)' = {i \in DOMAIN disk' : t \in disk'[i].to /\ disk'[i].set.status # Keep}
  BY DEF Pendientes
<1>4. \A i \in Pendientes(t)' : i \in Nat \ {0} /\ i + 1 \in Pendientes(t) /\ disk'[i] = disk[i + 1]
  <2> SUFFICES ASSUME NEW i \in Pendientes(t)'
               PROVE  i \in Nat \ {0} /\ i + 1 \in Pendientes(t) /\ disk'[i] = disk[i + 1]
    OBVIOUS
  <2>1. i \in 1 .. (Len(disk) - 1) /\ t \in disk'[i].to /\ disk'[i].set.status # Keep
    BY <1>2, <1>3
  <2>2. disk'[i] = disk[i + 1] /\ i + 1 \in 1 .. Len(disk) /\ i \in Nat \ {0}
    BY <1>2, <2>1
  <2> QED BY <1>2, <2>1, <2>2 DEF Pendientes
<1>5. \A i \in Pendientes(t) : i = 1 \/ (i - 1 \in Pendientes(t)' /\ disk'[i - 1] = disk[i])
  <2> SUFFICES ASSUME NEW i \in Pendientes(t), i # 1
               PROVE  i - 1 \in Pendientes(t)' /\ disk'[i - 1] = disk[i]
    OBVIOUS
  <2>1. i \in 1 .. Len(disk) /\ t \in disk[i].to /\ disk[i].set.status # Keep
    BY <1>2 DEF Pendientes
  <2>2. i - 1 \in 1 .. (Len(disk) - 1) /\ (i - 1) + 1 = i
    BY <1>2, <2>1
  <2>3. disk'[i - 1] = disk[i]
    BY <1>2, <2>2
  <2> QED BY <1>2, <1>3, <2>1, <2>2, <2>3
<1> QED BY <1>2, <1>4, <1>5 DEF Pendientes

\* The same, as what stays and what may go.
LEMMA EnDictTail ==
  ASSUME TypeOK, disk # <<>>, disk' = Tail(disk), NEW t \in Tasks, EnDict(t),
         UNCHANGED <<tasks, task, resume, pc>>,
         \/ /\ 1 \notin Pendientes(t)
            /\ rows'[t].status = rows[t].status /\ rows'[t].used = rows[t].used
         \/ /\ 1 \in Pendientes(t)
            /\ rows'[t].status = disk[1].set.status
            /\ rows'[t].used = IF disk[1].set.used = Keep THEN rows[t].used ELSE disk[1].set.used
  PROVE  EnDict(t)'
<1> SUFFICES ASSUME t \in tasks PROVE EnDict(t)'
  BY DEF EnDict
<1>1. /\ \A i \in Pendientes(t)' : i \in Nat \ {0} /\ i + 1 \in Pendientes(t) /\ disk'[i] = disk[i + 1]
      /\ \A i \in Pendientes(t) : i = 1 \/ (i - 1 \in Pendientes(t)' /\ disk'[i - 1] = disk[i])
      /\ \A i \in Pendientes(t) : i \in Nat
      /\ disk[1] \in Statement
  BY PendientesTail
<1>2. \A i \in Pendientes(t)' : /\ DeResume(t, i)' <=> DeResume(t, i + 1)
                                /\ \A m \in Legs : DeTramo(t, i, m)' <=> DeTramo(t, i + 1, m)
                                /\ DeTramo(t, i, task[t].used)' <=> DeTramo(t, i + 1, task[t].used)
  BY <1>1 DEF DeResume, DeTramo
<1>3. 1 \in Pendientes(t) => disk[1].set.status \in Status
  BY <1>1 DEF Pendientes, Statement, Change
<1>4. rows'[t].status # Absent
  BY <1>3, StatusIsNotKeep DEF EnDict
<1>5. Pendientes(t)' = {} => rows'[t].status = task[t].status
  <2> SUFFICES ASSUME Pendientes(t)' = {} PROVE rows'[t].status = task[t].status
    OBVIOUS
  <2>1. \A i \in Pendientes(t) : i = 1
    BY <1>1
  <2>2. CASE 1 \in Pendientes(t)
    <3>1. \A j \in Pendientes(t) : j <= 1
      BY <2>1
    <3> QED BY <2>2, <3>1 DEF EnDict
  <2>3. CASE 1 \notin Pendientes(t)
    BY <2>1, <2>3 DEF EnDict
  <2> QED BY <2>2, <2>3
<1>6. ASSUME NEW i \in Pendientes(t)', \A j \in Pendientes(t)' : j <= i
      PROVE  disk'[i].set.status = task[t].status
  <2>1. \A j \in Pendientes(t) : j <= i + 1
    <3> SUFFICES ASSUME NEW j \in Pendientes(t), j # 1 PROVE j <= i + 1
      BY <1>1, <1>6
    <3>1. j - 1 <= i /\ i \in Nat /\ j \in Nat
      BY <1>1, <1>6
    <3> QED BY <3>1
  <2> QED BY <1>1, <2>1 DEF EnDict
<1>7. \A i \in Pendientes(t)' : disk'[i].set.used \in {Keep, task[t].used}
  BY <1>1 DEF EnDict
<1>8. (\A i \in Pendientes(t)' : disk'[i].set.used = Keep) => rows'[t].used = task[t].used
  <2> SUFFICES ASSUME \A i \in Pendientes(t)' : disk'[i].set.used = Keep
               PROVE  rows'[t].used = task[t].used
    OBVIOUS
  <2>1. ASSUME NEW i \in Pendientes(t), i # 1 PROVE disk[i].set.used = Keep
    <3>1. i - 1 \in Pendientes(t)' /\ disk'[i - 1] = disk[i]
      BY <1>1, <2>1
    <3>2. disk'[i - 1].set.used = Keep
      BY <3>1
    <3> QED BY <3>1, <3>2
  <2>2. CASE 1 \in Pendientes(t) /\ disk[1].set.used # Keep
    BY <2>2 DEF EnDict
  <2>3. CASE 1 \notin Pendientes(t) \/ disk[1].set.used = Keep
    BY <2>1, <2>3 DEF EnDict
  <2> QED BY <2>2, <2>3
<1>9. \A i \in Pendientes(t)' :
        DeResume(t, i)' \/ \E m \in Legs : DeTramo(t, i, m)' /\ pc'[t][m] # "none"
  BY <1>1, <1>2 DEF EnDict
<1>10. ASSUME task[t].status = "queued", NEW i \in Pendientes(t)'
       PROVE  resume[t] = "requeuing" /\ \E j \in Pendientes(t)' : i <= j /\ DeResume(t, j)'
  <2>1. i + 1 \in Pendientes(t) /\ i \in Nat \ {0}
    BY <1>1
  <2>2. resume[t] = "requeuing"
    BY <1>10, <2>1 DEF EnDict
  <2>3. PICK j \in Pendientes(t) : i + 1 <= j /\ DeResume(t, j)
    BY <1>10, <2>1 DEF EnDict
  <2>4. j \in Nat /\ j # 1 /\ (j = 1 \/ (j - 1 \in Pendientes(t)' /\ disk'[j - 1] = disk[j]))
    <3>1. j \in Nat
      BY <1>1
    <3>2. j # 1
      BY <2>1, <2>3, <3>1
    <3> QED BY <1>1, <3>1, <3>2
  <2>5. j - 1 \in Pendientes(t)' /\ i <= j - 1 /\ (j - 1) + 1 = j
    BY <2>1, <2>3, <2>4
  <2>6. DeResume(t, j - 1)'
    BY <1>2, <2>3, <2>5
  <2> QED BY <2>2, <2>5, <2>6
<1>11. task[t].status = "awaiting_input" =>
         \A i \in Pendientes(t)' : DeTramo(t, i, task[t].used)'
  BY <1>1, <1>2 DEF EnDict
<1> QED BY <1>4, <1>5, <1>6, <1>7, <1>8, <1>9, <1>10, <1>11 DEF EnDict

\* The connection applies the oldest statement, or loses it and the id is set
\* apart.
LEMMA EscribirLibro == ASSUME Coherente, Libro, Escribir PROVE Libro'
<1> USE DEF process, legvars, apivars, durable, history
<1>0. /\ TypeOK /\ disk # <<>> /\ disk' = Tail(disk) /\ PausaGuardada
      /\ UNCHANGED <<phase, store, registrando, tasks, task, pc, resume>>
      /\ sin_persistir \subseteq sin_persistir' /\ rows \in [Tasks -> Record]
  BY DEF Escribir, Coherente, TypeOK
<1> SUFFICES ASSUME Viva, NEW t \in Tasks PROVE LibroDe(t)'
  BY <1>0 DEF Libro, Viva
<1>1. LibroDe(t) /\ (Durable(t)' => Durable(t))
  BY <1>0 DEF Libro, Durable
<1>2. /\ \A i \in Pendientes(t)' : i + 1 \in Pendientes(t) /\ disk'[i] = disk[i + 1]
      /\ Head(disk) = disk[1] /\ disk[1] \in Statement /\ 1 \in DOMAIN disk
      /\ disk[1].set \in Change
  <2>1. disk[1] \in Statement
    BY <1>0, PendientesTail
  <2>2. disk[1].set \in Change
    BY <2>1 DEF Statement
  <2> QED BY <1>0, <2>2, PendientesTail
<1>3. \/ /\ \A u \in Tasks : rows'[u] = IF u \in disk[1].to /\ rows[u].status # Absent
                                       THEN Apply(rows[u], disk[1].set) ELSE rows[u]
      \/ /\ UNCHANGED rows
         /\ \A u \in disk[1].to :
              \/ disk[1].by = "resume"
              \/ disk[1].by = "leg" /\ pc[u][disk[1].leg] # "none"
              => u \in sin_persistir'
  BY <1>0, <1>2 DEF Escribir
<1>4. Pendientes(t) = {} => Pendientes(t)' = {}
  BY <1>2
<1>5. Apply(rows[t], disk[1].set).status = (IF disk[1].set.status = Keep THEN rows[t].status ELSE disk[1].set.status)
      /\ Apply(rows[t], disk[1].set).used = (IF disk[1].set.used = Keep THEN rows[t].used ELSE disk[1].set.used)
  BY <1>0, <1>2, ApplyRecord
<1>6. disk[1].set.status = Keep => disk[1].set.used = Keep
  BY <1>0, <1>2 DEF PausaGuardada
<1>7. \/ 1 \notin Pendientes(t) /\ rows'[t].status = rows[t].status /\ rows'[t].used = rows[t].used
      \/ /\ 1 \in Pendientes(t) /\ rows'[t].status = disk[1].set.status
         /\ rows'[t].used = IF disk[1].set.used = Keep THEN rows[t].used ELSE disk[1].set.used
      \/ /\ 1 \in Pendientes(t) /\ rows'[t] = rows[t]
         /\ \/ disk[1].by = "resume"
            \/ disk[1].by = "leg" /\ pc[t][disk[1].leg] # "none"
            => t \in sin_persistir'
  <2>1. 1 \in Pendientes(t) <=> t \in disk[1].to /\ disk[1].set.status # Keep
    BY <1>2 DEF Pendientes
  <2>2. 1 \in Pendientes(t) => rows[t].status # Absent
    BY <1>1 DEF LibroDe, Anotada
  <2>3. CASE 1 \in Pendientes(t)
    BY <1>3, <1>5, <2>1, <2>2, <2>3
  <2>4. CASE 1 \notin Pendientes(t)
    BY <1>3, <1>5, <1>6, <2>1, <2>4
  <2> QED BY <2>3, <2>4
<1>8. Anotada(t)'
  <2>1. 1 \in Pendientes(t) => disk[1].set.status # Absent
    BY <1>2, StatusIsNotKeep DEF Pendientes, Change
  <2> QED BY <1>1, <1>4, <1>7, <2>1 DEF LibroDe, Anotada
<1>9. Durable(t)' => Recien(t)'
  BY <1>0, <1>1, <1>4, <1>7 DEF LibroDe, Recien
<1>10. Durable(t)' => EnDict(t)'
  <2> SUFFICES ASSUME Durable(t)', t \in tasks PROVE EnDict(t)'
    BY <1>0 DEF EnDict
  <2>1. EnDict(t)
    BY <1>1 DEF LibroDe
  <2>2. t \notin sin_persistir'
    BY DEF Durable
  <2>3. 1 \in Pendientes(t) => \/ disk[1].by = "resume"
                               \/ disk[1].by = "leg" /\ pc[t][disk[1].leg] # "none"
    BY <2>1 DEF EnDict, DeResume, DeTramo
  <2> QED BY <1>0, <1>7, <2>1, <2>2, <2>3, EnDictTail
<1>11. \A n \in Legs : EnTramo(t, n)'
  <2> SUFFICES ASSUME NEW n \in Legs PROVE EnTramo(t, n)'
    OBVIOUS
  <2>1. EnTramo(t, n)
    BY <1>1 DEF LibroDe
  <2>2. \A i \in Pendientes(t)' : DeTramo(t, i, n)' <=> DeTramo(t, i + 1, n)
    BY <1>2 DEF DeTramo
  <2> QED BY <1>0, <1>1, <1>2, <1>4, <1>7, <2>1, <2>2 DEF EnTramo, SigueEnLaPausa
<1> QED BY <1>8, <1>9, <1>10, <1>11 DEF LibroDe

\* An empty queue has nothing in flight.
LEMMA InicioLibro == ASSUME Init PROVE Libro
BY DEF Init, Libro, Viva

\* Libro is inductive relative to Coherente and Marcha.
LEMMA PasoLibro == ASSUME Coherente, Coherente', Marcha, Marcha', Libro, [Next]_vars PROVE Libro'
<1> USE DEF process, legvars, apivars, durable, history
<1>0. TypeOK /\ EnMarcha /\ EnMarcha'
  BY DEF Coherente, Marcha
<1>1. CASE Calls
  BY <1>0, <1>1, AltaLibro, CancelLibro, ResumeLibro DEF Calls
<1>2. CASE Loop
  BY <1>2, LoopLibro
<1>3. CASE \E t \in Tasks, n \in Legs : RunTask(t, n) \/ LegStep(t, n)
  BY <1>0, <1>3, TramoLibro
<1>4. CASE \E t \in Tasks : ResumeStep(t)
  BY <1>0, <1>4, ResumeLibro
<1>5. CASE AvisarTrasArranque \/ AvisoStep
  BY <1>5, AvisoLibro
<1>6. CASE Escribir
  BY <1>6, EscribirLibro
<1>7. CASE Stop \/ UNCHANGED vars
  <2>1. /\ UNCHANGED <<store, registrando, tasks, task, pc, resume, sin_persistir, rows, disk>>
        /\ Viva' => Viva
    BY <1>7 DEF Stop, vars, Viva
  <2>2. \A u \in Tasks : Mismo(u) /\ Pendientes(u)' = Pendientes(u)
    BY <2>1 DEF Mismo, Pendientes
  <2>3. Viva => \A u \in Tasks : LibroDe(u)'
    BY <2>1, <2>2, PaginaIgual DEF Libro
  <2> QED BY <2>1, <2>3 DEF Libro
<1>8. CASE StopStep \/ Crash
  <2>1. ~Viva'
    BY <1>8 DEF StopStep, CortarHijos, ListarHuerfanas, CerrarHuerfana, FinDelStop, Crash, MemoriaPerdida, Viva
  <2> QED BY <2>1 DEF Libro
<1>9. CASE Start
  <2>1. /\ disk = <<>> /\ disk' = disk /\ registrando' = {} /\ phase' = "up"
        /\ \A u \in Tasks, m \in Legs : pc'[u][m] = "none"
    BY <1>9 DEF Start, Marcha, Apagado, Coherente, Contabilidad, Parado, Viva
  <2>2. \A u \in Tasks : Pendientes(u)' = {}
    BY <2>1 DEF Pendientes
  <2>3. Viva' /\ (store' = "none" => \A u \in Tasks : ~Durable(u)')
    BY <2>1 DEF Viva, Durable
  <2>4. store' = "none" \/ \A u \in tasks' : task'[u] = rows'[u] /\ rows'[u].status # Absent
    BY <1>9 DEF Start, Rehidratable, Absent
  <2> SUFFICES ASSUME NEW u \in Tasks PROVE LibroDe(u)'
    BY DEF Libro
  <2>5. Anotada(u)' /\ Recien(u)' /\ \A n \in Legs : EnTramo(u, n)'
    BY <2>1, <2>2 DEF Anotada, Recien, EnTramo
  <2>6. Durable(u)' => EnDict(u)'
    BY <2>2, <2>3, <2>4 DEF EnDict, Durable
  <2> QED BY <2>5, <2>6 DEF LibroDe
<1> QED BY <1>1, <1>2, <1>3, <1>4, <1>5, <1>6, <1>7, <1>8, <1>9 DEF Next

-----------------------------------------------------------------------------
(* The first theorems of the table. *)

\* The inductive invariant of queue and table holds in every behaviour.
THEOREM ElLibroSeCumple == Safety => [](Coherente /\ Marcha /\ Libro)
<1>1. Init => Marcha /\ Libro
  BY InicioMarcha, InicioLibro
<1>2. Coherente /\ Coherente' /\ (Marcha /\ Libro) /\ [Next]_vars => (Marcha /\ Libro)'
  BY PasoMarcha, PasoLibro
<1> QED BY <1>1, <1>2, ColaCoherente, PTL DEF Safety

\* A leg after the first never begins without the parent's answer:
\* _reanudaciones keeps it from the resume to the leg that takes it (the pop of
\* _ejecutar_hijo), or the delegation is cancelled before. With failed writes
\* and turns during the stop too.
THEOREM LaRespuestaLlega == Safety => []RespuestaLlega
<1>1. Coherente /\ Marcha /\ Libro => RespuestaLlega
  BY DEF Marcha, ConRespuesta
<1> QED BY <1>1, ElLibroSeCumple, PTL

\* With nothing in flight, the row of every delegation the queue still drives
\* has the status and the legs of its object, unless its write failed
\* (_transicionar, _persistir).
THEOREM LaTablaSigueAlDict == Safety => []DictYDiscoCoinciden
<1>1. Coherente /\ Marcha /\ Libro => DictYDiscoCoinciden
  BY LibroBasta
<1> QED BY <1>1, ElLibroSeCumple, PTL

\* No result or question is dispatched to the parent before the row says so
\* (_ciclo_de_vida, _pausar), unless the store failed for that delegation.
THEOREM SePersisteAntes == Safety => []PersistirAntesDeDespachar
<1>1. Coherente /\ Marcha /\ Libro => PersistirAntesDeDespachar
  BY LibroBasta
<1> QED BY <1>1, ElLibroSeCumple, PTL

-----------------------------------------------------------------------------
(***************************************************************************)
(* Without failed writes: what the parent heard is settled for good.       *)
(***************************************************************************)
\* No write of the store fails.
SinFallos == MaxFaults = 0

\* The store is there whenever the process is, and keeps every delegation.
Sano ==
  /\ faults = 0 /\ sin_persistir = {}
  /\ phase # "down" => store = "open"
  /\ phase # "sweeping" => sweep = {}

\* What the table, or a statement, may say of a result that was told.
Oidas == {"delivering", "delivered", "delivery_failed", "dismissed", Absent}

\* Whoever was told a result was told once, and nothing in flight takes it
\* back.
Oido(t) ==
  /\ told[t] \in {0, 1}
  /\ told[t] = 1 =>
       /\ task[t].status # Absent /\ rows[t].status \in Oidas
       /\ \A i \in Pendientes(t) : disk[i].set.status \in Oidas
       /\ t \in tasks => task[t].status = "delivery_failed"
       /\ \A x \in sweep : x[1] = t => x[2] = "delivering"

\* That holds for every delegation.
Oidos == \A t \in Tasks : Oido(t)

\* Without failed writes the store is open whenever the process is up.
LEMMA PasoSano ==
  ASSUME SinFallos, Coherente, Coherente', Marcha, Sano, [Next]_vars PROVE Sano'
<1> USE DEF process, legvars, apivars, durable, history
<1>0. /\ MaxFaults = 0 /\ faults = 0 /\ faults \in Nat /\ ~(faults < MaxFaults)
      /\ sin_persistir = {} /\ (phase # "down" => store = "open") /\ (phase # "sweeping" => sweep = {})
  BY DEF SinFallos, Sano
<1>1. CASE FinDelStop \/ Crash
  BY <1>0, <1>1 DEF FinDelStop, Crash, MemoriaPerdida, Sano
<1>2. CASE Start
  <2>1. faults' = 0 /\ store' = "open" /\ phase' = "up" /\ UNCHANGED <<sin_persistir, sweep>>
    <3>1. phase' = "up" /\ UNCHANGED <<sin_persistir, sweep>>
      BY <1>2 DEF Start
    <3>2. faults' <= MaxFaults /\ faults' \in Nat /\ store' = "open"
      BY <1>0, <1>2 DEF Start, Coherente, TypeOK
    <3>3. faults' = 0
      BY <1>0, <3>2
    <3> QED BY <3>1, <3>2, <3>3
  <2>2. phase = "down"
    BY <1>2 DEF Start
  <2> QED BY <1>0, <2>1, <2>2 DEF Sano
<1>3. CASE Stop \/ CortarHijos
  BY <1>0, <1>3 DEF Stop, CortarHijos, Sano
<1>4. CASE ListarHuerfanas \/ (\E x \in sweep : CerrarHuerfana(x))
  BY <1>0, <1>4 DEF ListarHuerfanas, CerrarHuerfana, Sano
<1>5. CASE UNCHANGED vars
  BY <1>0, <1>5 DEF vars, Sano
<1>6. CASE AvisarTrasArranque \/ AvisoStep
  BY <1>0, <1>6 DEF AvisarTrasArranque, AvisoStep, MarcarAvisadas, AvisoGuardado, AvisoFallido, Sano
<1>7. CASE Escribir \/ Loop
  BY <1>0, <1>7 DEF Escribir, Loop, Sano
<1>8. CASE \E t \in Tasks : ResumeStep(t)
  BY <1>0, <1>8 DEF ResumeStep, Reencolar, Reanudada, ReanudarTarde, ReaperturaFallida, ReaperturaMarcada, Sano
<1>9. CASE \E t \in Tasks, n \in Legs : RunTask(t, n) \/ LegStep(t, n)
  <2>1. UNCHANGED <<phase, store, sin_persistir, sweep>>
    BY <1>9 DEF RunTask, LegStep, EjecutarHijo, HijoTermina, HijoPregunta, TranscriptRoto, SinPausa,
         Pausar, Preguntar, PreguntaDespachada, PreguntaFallida, Despachar, ResultadoDespachado,
         ResultadoFallido, FinDelTramo
  <2>2. faults' = faults
    BY <1>0, <1>9 DEF RunTask, LegStep, EjecutarHijo, HijoTermina, HijoPregunta, TranscriptRoto, SinPausa,
         Pausar, Preguntar, PreguntaDespachada, PreguntaFallida, Despachar, ResultadoDespachado,
         ResultadoFallido, FinDelTramo
  <2> QED BY <1>0, <2>1, <2>2 DEF Sano
<1>10. CASE Calls
  <2> PICK t \in Tasks : \/ Registrar(t) \/ Enqueue(t) \/ EnqueueEnMemoria(t)
                      \/ Cancel(t) \/ CancelDeTerminada(t) \/ Resume(t)
    BY <1>10 DEF Calls
  <2>1. CASE EnqueueEnMemoria(t)
    <3>1. phase # "down"
      BY <2>1 DEF EnqueueEnMemoria, MayCall
    <3> QED BY <1>0, <2>1, <3>1 DEF EnqueueEnMemoria
  <2>2. CASE ~EnqueueEnMemoria(t)
    <3>1. UNCHANGED <<phase, store, sin_persistir, sweep, faults>>
      BY <2>2 DEF Registrar, Enqueue, Cancel, CancelDeTerminada, Resume
    <3> QED BY <1>0, <3>1 DEF Sano
  <2> QED BY <2>1, <2>2
<1> QED BY <1>1, <1>2, <1>3, <1>4, <1>5, <1>6, <1>7, <1>8, <1>9, <1>10 DEF Next, StopStep

\* With nothing broken every process has its store and every row its object.
LEMMA SanoDurable ==
  ASSUME Sano, phase # "down" PROVE \A t \in Tasks : Durable(t)
BY DEF Sano, Durable

\* A delegation that nobody touched stays as heard as it was.
LEMMA OidoIgual ==
  ASSUME NEW t \in Tasks, Oido(t), task'[t].status = task[t].status, told'[t] = told[t],
         t \in tasks' => t \in tasks, rows'[t].status = rows[t].status,
         Pendientes(t)' = Pendientes(t), \A i \in Pendientes(t) : disk'[i] = disk[i],
         sweep' \subseteq sweep
  PROVE  Oido(t)'
BY DEF Oido

\* A delegation whose result was not heard has nothing to keep.
LEMMA OidoNada ==
  ASSUME NEW t \in Tasks, told'[t] = 0 PROVE Oido(t)'
BY DEF Oido

\* A leg tells its result from "dispatching" only, which no other leg reaches.
LEMMA TramoOido ==
  ASSUME Coherente, Marcha, Libro, Sano, Oidos, NEW t \in Tasks, NEW n \in Legs,
         RunTask(t, n) \/ LegStep(t, n)
  PROVE  Oidos'
<1>0. TypeOK /\ n \in 0 .. Budget /\ EnMarcha
  BY LegRange DEF Coherente, Marcha
<1>1. ASSUME NEW c \in Change, NEW place \in Pcs, EscribeTramo(t, n, c, place) PROVE Oidos'
  <2>1. /\ \A u \in Tasks \ {t} : task'[u] = task[u]
        /\ task'[t].status = c.status
        /\ tasks' = IF c.status = "delivered" THEN tasks \ {t} ELSE tasks
        /\ c.status \in {"running", "delivering", "awaiting_input", "delivered", "delivery_failed"}
        /\ pc[t][n] \in Callado => task[t].status = "awaiting_input"
        /\ c.status = "delivered" => pc[t][n] = "dispatching"
        /\ told' = IF c.status = "delivered" THEN [told EXCEPT ![t] = @ + 1] ELSE told
    BY <1>1, EscribeEfecto DEF Callado
  <2>2. /\ Persistir(t, c, "leg", n) /\ Viva /\ t \in tasks
        /\ UNCHANGED <<phase, rows, sweep, sin_persistir, store>>
    BY <1>1 DEF EscribeTramo, Transicionar, todas
  <2>3. \A u \in Tasks : /\ u # t => Pendientes(u)' = Pendientes(u)
                         /\ \A i \in Pendientes(u) : disk'[i] = disk[i]
    BY <1>0, <2>2, PersistirAnota
  <2>4. \A u \in Tasks \ {t} : Oido(u)'
    <3>1. told \in [Tasks -> Nat]
      BY <1>0 DEF TypeOK
    <3>2. \A u \in Tasks \ {t} : told'[u] = told[u]
      BY <2>1, <3>1
    <3> QED BY <2>1, <2>2, <2>3, <3>2, OidoIgual DEF Oidos
  <2>5. told[t] = 0
    <3> SUFFICES ASSUME told[t] = 1 PROVE FALSE
      BY DEF Oidos, Oido
    <3>1. task[t].status = "delivery_failed"
      BY <2>2 DEF Oidos, Oido
    <3>2. pc[t][n] \in Callado
      BY <1>0, <2>2, <3>1, SinTramoActivo DEF Coherente, Contabilidad
    <3> QED BY <2>1, <3>1, <3>2
  <2>6. CASE c.status # "delivered"
    <3>1. Oido(t)'
      BY <2>1, <2>5, <2>6, OidoNada
    <3> QED BY <2>4, <3>1 DEF Oidos
  <2>7. CASE c.status = "delivered"
    <3>1. told'[t] = 1 /\ pc[t][n] = "dispatching"
      <4>1. told \in [Tasks -> Nat]
        BY <1>0 DEF TypeOK
      <4> QED BY <2>1, <2>5, <2>7, <4>1
    <3>2. Durable(t) /\ LibroDe(t) /\ sweep = {}
      BY <2>2, SanoDurable DEF Viva, Libro, Sano
    <3>3. Pendientes(t) = {} /\ task[t].status = "delivering"
      BY <2>2, <3>1, <3>2 DEF LibroDe, EnTramo, Coherente, Contabilidad, UnTramoActivo, Callado
    <3>4. rows[t].status = "delivering"
      BY <2>2, <3>2, <3>3 DEF LibroDe, EnDict
    <3>5. c.status # Keep
      BY <2>7, StatusIsNotKeep DEF Status, Terminales
    <3>6. \A i \in Pendientes(t)' : disk'[i].set.status = "delivered"
      <4>1. /\ Pendientes(t)' = Pendientes(t) \cup {Len(disk) + 1}
            /\ disk'[Len(disk) + 1] = [to |-> {t}, set |-> c, by |-> "leg", leg |-> n]
        BY <1>0, <2>2, <3>2, <3>5, PersistirAnota
      <4>2. disk'[Len(disk) + 1].set = c
        BY <4>1
      <4> QED BY <2>7, <3>3, <4>1, <4>2
    <3>7. Oido(t)'
      BY <2>1, <2>2, <2>7, <3>1, <3>2, <3>4, <3>6 DEF Oido, Oidas, Absent
    <3> QED BY <2>4, <3>7 DEF Oidos
  <2> QED BY <2>6, <2>7
<1>2. ASSUME NEW place \in Pcs, MueveTramo(t, n, place) PROVE Oidos'
  <2>1. /\ \A u \in Tasks : Mismo(u)
        /\ \/ disk' = disk
           \/ \E c \in {NoChange, Notified, TranscriptCut} : Persistir(t, c, "leg", n)
    BY <1>2, MueveEfecto
  <2>2. UNCHANGED <<rows, tasks, sweep, told>>
    BY <1>2 DEF MueveTramo, todas
  <2>3. \A u \in Tasks : Pendientes(u)' = Pendientes(u) /\ \A i \in Pendientes(u) : disk'[i] = disk[i]
    <3>1. CASE disk' = disk
      BY <3>1 DEF Pendientes
    <3>2. ASSUME NEW c \in {NoChange, Notified, TranscriptCut}, Persistir(t, c, "leg", n)
          PROVE  \A u \in Tasks : Pendientes(u)' = Pendientes(u) /\ \A i \in Pendientes(u) : disk'[i] = disk[i]
      <4>1. c \in Change /\ c.status = Keep
        BY <3>2, OtherChange
      <4> QED BY <1>0, <3>2, <4>1, PersistirAnota
    <3> QED BY <2>1, <3>1, <3>2
  <2> QED BY <2>1, <2>2, <2>3, OidoIgual DEF Oidos, Mismo
<1>3. CASE AcabaTramo(t, n)
  <2>1. UNCHANGED <<rows, tasks, task, disk, sweep, told>>
    BY <1>3 DEF AcabaTramo, todas
  <2>2. \A u \in Tasks : Pendientes(u)' = Pendientes(u)
    BY <2>1 DEF Pendientes
  <2> QED BY <2>1, <2>2, OidoIgual DEF Oidos
<1> QED BY <1>0, <1>1, <1>2, <1>3, TramoEscribeOMueve

\* No call touches a delegation whose result was told, but to dismiss it.
LEMMA LlamadaOida ==
  ASSUME Coherente, Marcha, Oidos, NEW t \in Tasks,
         \/ Registrar(t) \/ Enqueue(t) \/ EnqueueEnMemoria(t)
         \/ Cancel(t) \/ CancelDeTerminada(t) \/ Resume(t) \/ ResumeStep(t)
  PROVE  Oidos'
<1> USE DEF process, legvars, apivars, durable, history
<1>0. /\ TypeOK /\ task \in [Tasks -> Record] /\ rows \in [Tasks -> Record] /\ 0 \in 0 .. Budget
      /\ \A u \in Tasks : Oido(u)
  BY Tipos DEF Oidos
<1>1. CASE Registrar(t)
  <2>1. /\ \A x \in Tasks \ {t} : rows'[x] = rows[x]
        /\ UNCHANGED <<tasks, task, disk, sweep, told>> /\ task[t].status = Absent
    BY <1>0, <1>1 DEF Registrar, Nueva
  <2>2. \A x \in Tasks : Pendientes(x)' = Pendientes(x)
    BY <2>1 DEF Pendientes
  <2>3. \A u \in Tasks \ {t} : Oido(u)'
    BY <1>0, <2>1, <2>2, OidoIgual
  <2>4. Oido(t)'
    BY <1>0, <2>1, OidoNada DEF Oido
  <2> QED BY <2>3, <2>4 DEF Oidos
<1>2. CASE Enqueue(t) \/ EnqueueEnMemoria(t)
  <2>1. /\ EnElDict(t) /\ UNCHANGED <<disk, rows, sweep, told>> /\ task[t].status = Absent
    BY <1>2 DEF Enqueue, EnqueueEnMemoria, Nueva, Coherente, Contabilidad, SinRastro
  <2>2. /\ tasks' = tasks \cup {t} /\ \A x \in Tasks \ {t} : task'[x] = task[x]
    BY <1>0, <2>1 DEF EnElDict
  <2>3. \A x \in Tasks : Pendientes(x)' = Pendientes(x)
    BY <2>1 DEF Pendientes
  <2>4. \A u \in Tasks \ {t} : Oido(u)'
    BY <1>0, <2>1, <2>2, <2>3, OidoIgual
  <2>5. Oido(t)'
    BY <1>0, <2>1, OidoNada DEF Oido
  <2> QED BY <2>4, <2>5 DEF Oidos
<1>3. CASE Cancel(t)
  <2>1. /\ t \in tasks /\ tasks' = tasks \ {t}
        /\ \A u \in Tasks \ {t} : task'[u] = task[u]
        /\ UNCHANGED <<rows, sweep, told>>
        /\ \E c \in Change :
             /\ Persistir(t, c, "cancel", 0) /\ task'[t].status = c.status
             /\ \/ c.status = "dismissed"
                \/ c.status = "cancelled" /\ task[t].status \in {"queued", "running"}
    BY <1>3, CancelEfecto
  <2>2. PICK c \in Change :
             /\ Persistir(t, c, "cancel", 0) /\ task'[t].status = c.status
             /\ \/ c.status = "dismissed"
                \/ c.status = "cancelled" /\ task[t].status \in {"queued", "running"}
    BY <2>1
  <2>3. \A u \in Tasks : /\ u # t => Pendientes(u)' = Pendientes(u)
                         /\ \A i \in Pendientes(u) : disk'[i] = disk[i]
    BY <1>0, <2>2, PersistirAnota
  <2>4. \A u \in Tasks \ {t} : Oido(u)'
    BY <1>0, <2>1, <2>3, OidoIgual
  <2>5. CASE told[t] = 0
    <3>1. Oido(t)'
      BY <2>1, <2>5, OidoNada
    <3> QED BY <2>4, <3>1 DEF Oidos
  <2>6. CASE told[t] = 1
    <3>1. /\ c.status = "dismissed" /\ rows[t].status \in Oidas
          /\ \A i \in Pendientes(t) : disk[i].set.status \in Oidas
          /\ \A x \in sweep : x[1] = t => x[2] = "delivering"
      BY <1>0, <2>1, <2>2, <2>6 DEF Oido
    <3>2. \A i \in Pendientes(t)' : i \in Pendientes(t) \/ disk'[i].set = c
      <4>1. CASE Durable(t) /\ c.status # Keep
        <5>1. /\ Pendientes(t)' = Pendientes(t) \cup {Len(disk) + 1}
              /\ disk'[Len(disk) + 1] = [to |-> {t}, set |-> c, by |-> "cancel", leg |-> 0]
          BY <1>0, <2>2, <4>1, PersistirAnota
        <5>2. disk'[Len(disk) + 1].set = c
          BY <5>1
        <5> QED BY <5>1, <5>2
      <4>2. CASE ~(Durable(t) /\ c.status # Keep)
        BY <1>0, <2>2, <4>2, PersistirAnota
      <4> QED BY <4>1, <4>2
    <3>3. \A i \in Pendientes(t)' : disk'[i].set.status \in Oidas
      BY <2>3, <3>1, <3>2 DEF Oidas
    <3>4. Oido(t)'
      BY <2>1, <2>2, <2>6, <3>1, <3>3 DEF Oido, Oidas, Absent
    <3> QED BY <2>4, <3>4 DEF Oidos
  <2> QED BY <1>0, <2>5, <2>6 DEF Oido
<1>4. CASE CancelDeTerminada(t)
  <2> DEFINE w == [to |-> {t}, set |-> ToDismissed, by |-> "row", leg |-> 0]
  <2>1. w \in Statement /\ w.to = {t}
    BY <1>0, OtherChange DEF Statement
  <2>2. /\ disk' = Append(disk, w) /\ rows[t].status = "awaiting_input"
        /\ UNCHANGED <<tasks, task, rows, sweep, told>>
    BY <1>4 DEF CancelDeTerminada
  <2> HIDE DEF w
  <2>3. ASSUME NEW x \in Tasks
        PROVE  /\ x # t => Pendientes(x)' = Pendientes(x)
               /\ \A i \in DOMAIN disk : disk'[i] = disk[i]
    BY <1>0, <2>1, <2>2, <2>3, PendientesAppend
  <2>4. \A u \in Tasks \ {t} : Oido(u)'
    BY <1>0, <2>2, <2>3, OidoIgual DEF Pendientes
  <2>5. Oido(t)'
    BY <1>0, <2>2, OidoNada DEF Oido, Oidas, Absent
  <2> QED BY <2>4, <2>5 DEF Oidos
<1>5. CASE Resume(t) \/ ResumeStep(t)
  <2>0. UNCHANGED <<tasks, rows, sweep, told>>
    BY <1>5 DEF Resume, ResumeStep, Reencolar, Reanudada, ReanudarTarde, ReaperturaFallida, ReaperturaMarcada
  <2>1. /\ TranscriptCut \in Change /\ TranscriptCut.status = Keep /\ TranscriptCut.used = Keep
        /\ Apply(task[t], TranscriptCut).status = task[t].status
        /\ ToQueuedAgain \in Change
    BY <1>0, OtherChange, ApplyKeep
  <2>2. \/ task' = task /\ disk' = disk
        \/ /\ task' = [task EXCEPT ![t] = Apply(task[t], TranscriptCut)]
           /\ Persistir(t, TranscriptCut, "resume", 0)
        \/ /\ task' = [task EXCEPT ![t] = Apply(task[t], ToQueuedAgain)]
           /\ Persistir(t, ToQueuedAgain, "resume", 0) /\ SigueEsperando(t)
    BY <1>5 DEF Resume, ResumeStep, Reencolar, Reanudada, ReanudarTarde, ReaperturaFallida, ReaperturaMarcada
  <2>3. CASE task' = task /\ disk' = disk
    <3>1. \A u \in Tasks : Pendientes(u)' = Pendientes(u)
      BY <2>3 DEF Pendientes
    <3> QED BY <1>0, <2>0, <2>3, <3>1, OidoIgual DEF Oidos
  <2>4. CASE /\ task' = [task EXCEPT ![t] = Apply(task[t], TranscriptCut)]
             /\ Persistir(t, TranscriptCut, "resume", 0)
    <3>1. \A u \in Tasks : Pendientes(u)' = Pendientes(u) /\ \A i \in Pendientes(u) : disk'[i] = disk[i]
      BY <1>0, <2>1, <2>4, PersistirAnota
    <3>2. \A u \in Tasks : task'[u].status = task[u].status
      BY <1>0, <2>1, <2>4
    <3> QED BY <1>0, <2>0, <3>1, <3>2, OidoIgual DEF Oidos
  <2>5. CASE /\ task' = [task EXCEPT ![t] = Apply(task[t], ToQueuedAgain)]
             /\ Persistir(t, ToQueuedAgain, "resume", 0) /\ SigueEsperando(t)
    <3>1. \A u \in Tasks : /\ u # t => Pendientes(u)' = Pendientes(u)
                           /\ \A i \in Pendientes(u) : disk'[i] = disk[i]
      BY <1>0, <2>1, <2>5, PersistirAnota
    <3>2. \A u \in Tasks \ {t} : task'[u] = task[u]
      BY <1>0, <2>5
    <3>3. \A u \in Tasks \ {t} : Oido(u)'
      BY <1>0, <2>0, <3>1, <3>2, OidoIgual
    <3>4. told[t] = 0
      BY <1>0, <2>5 DEF Oido, SigueEsperando
    <3>5. Oido(t)'
      BY <2>0, <3>4, OidoNada
    <3> QED BY <3>3, <3>5 DEF Oidos
  <2> QED BY <2>2, <2>3, <2>4, <2>5
<1> QED BY <1>1, <1>2, <1>3, <1>4, <1>5

\* The statement that is applied was in flight.
LEMMA EscribirOido == ASSUME Coherente, Oidos, Escribir PROVE Oidos'
<1> USE DEF process, legvars, apivars, durable, history
<1>0. /\ TypeOK /\ disk # <<>> /\ disk' = Tail(disk)
      /\ UNCHANGED <<tasks, task, sweep, told>> /\ rows \in [Tasks -> Record]
  BY DEF Escribir, Coherente, TypeOK
<1> SUFFICES ASSUME NEW t \in Tasks PROVE Oido(t)'
  BY DEF Oidos
<1>1. Oido(t)
  BY DEF Oidos
<1>2. /\ \A i \in Pendientes(t)' : i + 1 \in Pendientes(t) /\ disk'[i] = disk[i + 1]
      /\ Head(disk) = disk[1] /\ disk[1] \in Statement /\ 1 \in DOMAIN disk
  BY <1>0, PendientesTail
<1>3. disk[1].set \in Change
  BY <1>2 DEF Statement
<1>4. Apply(rows[t], disk[1].set).status = IF disk[1].set.status = Keep THEN rows[t].status ELSE disk[1].set.status
  BY <1>0, <1>3, ApplyRecord
<1>5. rows'[t] = rows[t] \/ (t \in disk[1].to /\ rows'[t] = Apply(rows[t], disk[1].set))
  BY <1>0, <1>2 DEF Escribir
<1>6. rows'[t].status = rows[t].status \/ (1 \in Pendientes(t) /\ rows'[t].status = disk[1].set.status)
  BY <1>2, <1>4, <1>5 DEF Pendientes
<1> QED BY <1>0, <1>1, <1>2, <1>6 DEF Oido

\* Oidos is inductive relative to the books.
LEMMA PasoOidos ==
  ASSUME Coherente, Coherente', Marcha, Libro, Sano, Oidos, [Next]_vars PROVE Oidos'
<1> USE DEF process, legvars, apivars, durable, history
<1>0. /\ TypeOK /\ task \in [Tasks -> Record] /\ rows \in [Tasks -> Record]
      /\ \A u \in Tasks : Oido(u) /\ tasks \subseteq Tasks
  BY DEF Coherente, TypeOK, Oidos
<1>1. CASE Calls \/ (\E t \in Tasks : ResumeStep(t))
  BY <1>1, LlamadaOida DEF Calls
<1>2. CASE \E t \in Tasks, n \in Legs : RunTask(t, n) \/ LegStep(t, n)
  BY <1>2, TramoOido
<1>3. CASE Escribir
  BY <1>3, EscribirOido
<1>4. CASE Loop \/ Stop \/ UNCHANGED vars
  <2>1. UNCHANGED <<tasks, task, rows, disk, sweep, told>>
    BY <1>4 DEF Loop, Stop, vars
  <2>2. \A u \in Tasks : Pendientes(u)' = Pendientes(u)
    BY <2>1 DEF Pendientes
  <2> QED BY <1>0, <2>1, <2>2, OidoIgual DEF Oidos
<1>5. CASE AvisarTrasArranque \/ AvisoStep
  <2>1. UNCHANGED <<rows, sweep, told>> /\ tasks' \subseteq tasks
    BY <1>5 DEF AvisarTrasArranque, AvisoStep, MarcarAvisadas, AvisoGuardado, AvisoFallido
  <2>2. CASE MarcarAvisadas
    <3> DEFINE w == [to |-> aviso.now, set |-> Notified, by |-> "aviso", leg |-> 0]
    <3>1. w \in Statement /\ w.set.status = Keep
      BY <1>0, OtherChange, QueueAssumption DEF Statement, TypeOK, Notice
    <3>2. disk' = Append(disk, w)
      BY <2>2 DEF MarcarAvisadas
    <3> HIDE DEF w
    <3>3. \A u \in Tasks : Pendientes(u)' = Pendientes(u) /\ \A i \in Pendientes(u) : disk'[i] = disk[i]
      BY <1>0, <3>1, <3>2, PendientesAppend DEF Pendientes
    <3>4. \A u \in Tasks : Apply(task[u], Notified).status = task[u].status
      BY <1>0, OtherChange, ApplyKeep
    <3>5. \A u \in Tasks : task'[u].status = task[u].status
      BY <2>2, <3>4 DEF MarcarAvisadas
    <3> QED BY <1>0, <2>1, <3>3, <3>5, OidoIgual DEF Oidos
  <2>3. CASE ~MarcarAvisadas
    <3>1. UNCHANGED <<task, disk>>
      BY <1>5, <2>3 DEF AvisarTrasArranque, AvisoStep, AvisoGuardado, AvisoFallido
    <3>2. \A u \in Tasks : Pendientes(u)' = Pendientes(u)
      BY <3>1 DEF Pendientes
    <3> QED BY <1>0, <2>1, <3>1, <3>2, OidoIgual DEF Oidos
  <2> QED BY <2>2, <2>3
<1>6. CASE CortarHijos
  <2>1. UNCHANGED <<tasks, rows, disk, sweep, told>>
    BY <1>6 DEF CortarHijos
  <2>2. \A u \in Tasks : Pendientes(u)' = Pendientes(u)
    BY <2>1 DEF Pendientes
  <2>3. \A u \in Tasks : task'[u] = task[u] \/ (u \in tasks /\ task[u].status \in {"queued", "running"})
    BY <1>6 DEF CortarHijos
  <2>4. ASSUME NEW u \in Tasks PROVE Oido(u)'
    <3>1. CASE task'[u] = task[u]
      BY <1>0, <2>1, <2>2, <3>1, OidoIgual
    <3>2. CASE u \in tasks /\ task[u].status \in {"queued", "running"}
      <4>1. told'[u] = 0
        BY <1>0, <2>1, <3>2 DEF Oido
      <4> QED BY <4>1, OidoNada
    <3> QED BY <2>3, <3>1, <3>2
  <2> QED BY <2>4 DEF Oidos
<1>7. CASE ListarHuerfanas
  <2>1. UNCHANGED <<tasks, task, rows, disk, told>>
    BY <1>7 DEF ListarHuerfanas
  <2>2. \A u \in Tasks : Pendientes(u)' = Pendientes(u)
    BY <2>1 DEF Pendientes
  <2>3. \A x \in sweep' : x[2] = rows[x[1]].status /\ x[2] \in Huerfana
    BY <1>7 DEF ListarHuerfanas
  <2>4. ASSUME NEW u \in Tasks PROVE Oido(u)'
    <3>1. Oido(u)
      BY <1>0
    <3>2. told[u] = 1 => \A x \in sweep' : x[1] = u => x[2] = "delivering"
      BY <2>3, <3>1 DEF Oido, Oidas, Huerfana, Absent
    <3> QED BY <2>1, <2>2, <3>1, <3>2 DEF Oido
  <2> QED BY <2>4 DEF Oidos
<1>8. ASSUME NEW x \in sweep, CerrarHuerfana(x) PROVE Oidos'
  <2>1. UNCHANGED <<tasks, task, disk, told>> /\ sweep' \subseteq sweep
    BY <1>8 DEF CerrarHuerfana
  <2>2. \A u \in Tasks : Pendientes(u)' = Pendientes(u)
    BY <2>1 DEF Pendientes
  <2>3. \A u \in Tasks : \/ rows'[u] = rows[u]
                         \/ u = x[1] /\ rows'[u] = Apply(rows[u], Cierre(x[2]))
    BY <1>0, <1>8 DEF CerrarHuerfana
  <2>4. /\ Cierre("delivering") \in Change /\ Cierre("delivering").status = "delivery_failed"
        /\ "delivery_failed" \in Status
    <3>1. "delivery_failed" \in Status
      BY DEF Status
    <3> QED BY <3>1, ToChange DEF Cierre
  <2>5. ASSUME NEW u \in Tasks PROVE Oido(u)'
    <3>1. CASE rows'[u] = rows[u]
      BY <1>0, <2>1, <2>2, <3>1, OidoIgual
    <3>2. CASE u = x[1] /\ rows'[u] = Apply(rows[u], Cierre(x[2]))
      <4>1. CASE told[u] = 0
        BY <2>1, <4>1, OidoNada
      <4>2. CASE told[u] = 1
        <5>1. x[2] = "delivering"
          BY <1>0, <1>8, <3>2, <4>2 DEF Oido
        <5>2. rows'[u].status = "delivery_failed"
          BY <1>0, <2>4, <3>2, <5>1, ApplyStatus
        <5> QED BY <1>0, <2>1, <2>2, <4>2, <5>2 DEF Oido, Oidas
      <4> QED BY <1>0, <4>1, <4>2 DEF Oido
    <3> QED BY <2>3, <3>1, <3>2
  <2> QED BY <2>5 DEF Oidos
<1>9. CASE FinDelStop \/ Crash
  <2>1. /\ UNCHANGED <<task, rows, told>> /\ tasks' = {} /\ disk' = <<>> /\ sweep' = {}
    BY <1>9 DEF FinDelStop, Crash, MemoriaPerdida
  <2>2. \A u \in Tasks : Pendientes(u)' = {}
    BY <2>1 DEF Pendientes
  <2> QED BY <1>0, <2>1, <2>2 DEF Oido, Oidos
<1>10. CASE Start
  <2>1. UNCHANGED <<disk, sweep, told>> /\ disk = <<>> /\ tasks = {} /\ sweep = {}
    BY <1>10 DEF Start, Marcha, Apagado, Coherente, Contabilidad, Parado
  <2>2. \A u \in Tasks : Pendientes(u)' = {}
    BY <2>1 DEF Pendientes
  <2>3. \A u \in Tasks : \/ rows'[u] = NoRecord \/ rows'[u] = rows[u]
                         \/ rows[u].status \in Huerfana /\ rows'[u] = Apply(rows[u], Cierre(rows[u].status))
    BY <1>10 DEF Start, Barrida
  <2>4. \/ UNCHANGED <<tasks, task>>
        \/ /\ \A u \in tasks' : Rehidratable(rows'[u]) /\ task'[u] = rows'[u]
           /\ \A u \in Tasks : u \notin tasks' => task'[u] = task[u]
    BY <1>10 DEF Start
  <2>5. /\ Cierre("delivering") \in Change /\ Cierre("delivering").status = "delivery_failed"
        /\ "delivery_failed" \in Status
    <3>1. "delivery_failed" \in Status
      BY DEF Status
    <3> QED BY <3>1, ToChange DEF Cierre
  <2>6. ASSUME NEW u \in Tasks, told[u] = 1 PROVE Oido(u)'
    <3>1. rows[u].status \in Oidas /\ task[u].status # Absent
      BY <1>0, <2>6 DEF Oido
    <3>2. rows'[u].status \in Oidas
      <4>1. CASE rows'[u] = NoRecord
        BY <4>1 DEF NoRecord, Oidas
      <4>2. CASE rows[u].status \in Huerfana /\ rows'[u] = Apply(rows[u], Cierre(rows[u].status))
        <5>1. rows[u].status = "delivering"
          BY <3>1, <4>2 DEF Huerfana, Oidas, Absent
        <5> QED BY <1>0, <2>5, <4>2, <5>1, ApplyStatus DEF Oidas
      <4> QED BY <2>3, <3>1, <4>1, <4>2
    <3>3. u \in tasks' => task'[u].status = "delivery_failed"
      BY <2>1, <2>4, <3>2 DEF Rehidratable, Oidas, Absent
    <3>4. task'[u].status # Absent
      BY <2>4, <3>1, <3>3 DEF Absent
    <3> QED BY <2>1, <2>2, <2>6, <3>2, <3>3, <3>4 DEF Oido
  <2>7. ASSUME NEW u \in Tasks, told[u] = 0 PROVE Oido(u)'
    BY <2>1, <2>7, OidoNada
  <2> QED BY <1>0, <2>6, <2>7 DEF Oidos, Oido
<1> QED BY <1>1, <1>2, <1>3, <1>4, <1>5, <1>6, <1>7, <1>8, <1>9, <1>10 DEF Next, StopStep

\* Nobody was told anything at first.
LEMMA InicioSano == ASSUME Init PROVE Sano /\ Oidos
BY DEF Init, Sano, Oidos, Oido

\* The inductive invariant with what the parent was told.
THEOREM LoOidoQueda ==
  ASSUME SinFallos PROVE Safety => [](Coherente /\ Marcha /\ Libro /\ Sano /\ Oidos)
<1>1. Init => Sano /\ Oidos
  BY InicioSano
<1>2. (Coherente /\ Marcha /\ Libro) /\ (Coherente /\ Marcha /\ Libro)' /\ (Sano /\ Oidos) /\ [Next]_vars
        => (Sano /\ Oidos)'
  BY PasoSano, PasoOidos
<1> QED BY <1>1, <1>2, ElLibroSeCumple, PTL DEF Safety

\* Where no write fails: a result is persisted before it is told, told to the
\* parent once, and a delegation whose result was told is never taken for
\* interrupted by a later start (_ciclo_de_vida, _dispatch_result,
\* _cerrar_huerfanas, _rehidratar).
THEOREM ElResultadoSeAsienta == ASSUME SinFallos PROVE Safety => []ResultadoAsentado
<1>1. Coherente /\ Marcha /\ Libro /\ Oidos => ResultadoAsentado
  <2> SUFFICES ASSUME Coherente, Marcha, Libro, Oidos PROVE ResultadoAsentado
    OBVIOUS
  <2>1. PersistirAntesDeDespachar
    BY LibroBasta
  <2>2. ResultadoUnaSolaVez
    BY DEF ResultadoUnaSolaVez, Oidos, Oido
  <2>3. EntregadaNoEsInterrumpida
    BY DEF EntregadaNoEsInterrumpida, Oidos, Oido, Oidas, Absent
  <2> QED BY <2>1, <2>2, <2>3 DEF ResultadoAsentado
<1> QED BY <1>1, LoOidoQueda, PTL
-----------------------------------------------------------------------------
(***************************************************************************)
(* Proofs about what the parent is told by the table: no delegation is     *)
(* lost, and no question is silenced.                                      *)
(***************************************************************************)

\* The statements in flight that mark t as notified and say nothing else.
Marcas(t) == {i \in DOMAIN disk : /\ t \in disk[i].to
                                  /\ disk[i].set.status = Keep /\ disk[i].set.notified # Keep}

\* A turn of the parent was told how the leg the row counts left it.
Contada(t) == <<t, rows[t].used>> \in asked

\* A statement at the end of the FIFO adds at most its own mark.
LEMMA MarcasAppend ==
  ASSUME TypeOK, NEW t \in Tasks, NEW w \in Statement, disk' = Append(disk, w)
  PROVE  /\ \A i \in Marcas(t)' : i \in Marcas(t) \/ (i = Len(disk) + 1 /\ t \in w.to /\ w.set.status = Keep)
         /\ t \notin w.to \/ w.set.status # Keep \/ w.set.notified = Keep => Marcas(t)' = Marcas(t)
         /\ Marcas(t) \subseteq 1 .. Len(disk) /\ Len(disk) \in Nat
<1>1. disk \in Seq(Statement)
  BY DEF TypeOK
<1>2. /\ DOMAIN disk = 1 .. Len(disk) /\ Len(disk) \in Nat
      /\ DOMAIN disk' = (1 .. Len(disk)) \cup {Len(disk) + 1}
      /\ \A i \in 1 .. Len(disk) : disk'[i] = disk[i]
      /\ disk'[Len(disk) + 1] = w /\ Len(disk) + 1 \notin 1 .. Len(disk)
  BY <1>1
<1>3. Marcas(t)' = {i \in DOMAIN disk' : /\ t \in disk'[i].to
                                         /\ disk'[i].set.status = Keep /\ disk'[i].set.notified # Keep}
  BY DEF Marcas
<1> QED BY <1>2, <1>3 DEF Marcas

\* Whoever writes a status, or no mark, adds no mark.
LEMMA PersistirMarca ==
  ASSUME TypeOK, NEW t \in Tasks, NEW c \in Change,
         NEW by \in {"leg", "resume", "cancel"}, NEW n \in 0 .. Budget, Persistir(t, c, by, n)
  PROVE  \A u \in Tasks : u # t \/ c.status # Keep \/ c.notified = Keep => Marcas(u)' = Marcas(u)
<1> DEFINE w == [to |-> {t}, set |-> c, by |-> by, leg |-> n]
<1>1. CASE Durable(t)
  <2>1. w \in Statement /\ w.to = {t} /\ w.set = c
    BY DEF Statement
  <2>2. disk' = Append(disk, w)
    BY <1>1 DEF Persistir
  <2> HIDE DEF w
  <2> QED BY <2>1, <2>2, MarcasAppend
<1>2. CASE ~Durable(t)
  BY <1>2 DEF Persistir, Marcas
<1> QED BY <1>1, <1>2

\* When the oldest statement leaves, the marks move up.
LEMMA MarcasTail ==
  ASSUME TypeOK, disk # <<>>, disk' = Tail(disk), NEW t \in Tasks
  PROVE  \A i \in Marcas(t)' : i \in Nat \ {0} /\ i + 1 \in Marcas(t)
<1>1. disk \in Seq(Statement)
  BY DEF TypeOK
<1>2. /\ Len(disk) \in Nat /\ DOMAIN disk = 1 .. Len(disk)
      /\ DOMAIN disk' = 1 .. (Len(disk) - 1)
      /\ \A i \in 1 .. (Len(disk) - 1) : disk'[i] = disk[i + 1]
  BY <1>1
<1>3. Marcas(t)' = {i \in DOMAIN disk' : /\ t \in disk'[i].to
                                         /\ disk'[i].set.status = Keep /\ disk'[i].set.notified # Keep}
  BY DEF Marcas
<1> SUFFICES ASSUME NEW i \in Marcas(t)' PROVE i \in Nat \ {0} /\ i + 1 \in Marcas(t)
  OBVIOUS
<1>4. i \in 1 .. (Len(disk) - 1) /\ i + 1 \in 1 .. Len(disk) /\ i \in Nat \ {0} /\ disk'[i] = disk[i + 1]
  BY <1>2, <1>3
<1> QED BY <1>2, <1>3, <1>4 DEF Marcas

-----------------------------------------------------------------------------
(***************************************************************************)
(* No question is silenced where there is no notice.                       *)
(***************************************************************************)
\* No conversation has a channel for the startup notice: every scope is one of
\* those it skips.
SinAvisos == \A t \in Tasks : ScopeOf[t] \in Silent

\* A pause that is marked as notified was told; the mark comes before any later
\* status.
Pregunta(t) ==
  /\ rows[t].status = "awaiting_input" /\ rows[t].notified => Contada(t)
  /\ \A i \in Marcas(t) : /\ \A k \in Pendientes(t) : i < k
                          /\ rows[t].status = "awaiting_input" => Contada(t)
  /\ \A i \in Pendientes(t) :
       disk[i].set.status = "awaiting_input" => disk[i].set.notified = FALSE

\* No notice speaks, and every pause is marked rightly.
Preguntas == /\ aviso.pc \in {"off", "done"}
             /\ \A t \in Tasks : Pregunta(t)

\* A delegation nobody touched keeps its mark.
LEMMA PreguntaIgual ==
  ASSUME NEW t \in Tasks, Pregunta(t), rows'[t] = rows[t], asked \subseteq asked',
         Marcas(t)' = Marcas(t), Pendientes(t)' = Pendientes(t),
         \A i \in Pendientes(t) : disk'[i] = disk[i]
  PROVE  Pregunta(t)'
BY DEF Pregunta, Contada

\* A statement that changes the status is behind every mark.
LEMMA PreguntaEscrita ==
  ASSUME TypeOK, NEW t \in Tasks, Pregunta(t), rows'[t] = rows[t], asked \subseteq asked',
         NEW c \in Change, c.status # Keep, c.status = "awaiting_input" => c.notified = FALSE,
         NEW by \in {"leg", "resume", "cancel"}, NEW n \in 0 .. Budget, Persistir(t, c, by, n)
  PROVE  Pregunta(t)'
<1>1. CASE Durable(t)
  <2>0. PICK k : k = Len(disk) + 1
    OBVIOUS
  <2>1. /\ Pendientes(t)' = Pendientes(t) \cup {k} /\ Len(disk) \in Nat
        /\ \A i \in Pendientes(t) : disk'[i] = disk[i]
        /\ disk'[k] = [to |-> {t}, set |-> c, by |-> by, leg |-> n]
    BY <1>1, <2>0, PersistirAnota
  <2>2. disk'[k].set = c
    BY <2>1
  <2>3. Marcas(t)' = Marcas(t)
    BY PersistirMarca
  <2>4. \A i \in Marcas(t) : i < k
    <3>1. disk \in Seq(Statement)
      BY DEF TypeOK
    <3>2. \A i \in DOMAIN disk : i < k
      BY <2>0, <3>1
    <3> QED BY <3>2 DEF Marcas
  <2> QED BY <2>1, <2>2, <2>3, <2>4 DEF Pregunta, Contada
<1>2. CASE ~Durable(t)
  <2>1. disk' = disk
    BY <1>2 DEF Persistir
  <2>2. Pendientes(t)' = Pendientes(t) /\ Marcas(t)' = Marcas(t)
    BY <2>1 DEF Pendientes, Marcas
  <2> QED BY <2>1, <2>2, PreguntaIgual
<1> QED BY <1>1, <1>2

\* What the statements of a leg say of the notice.
LEMMA EscribeNotado ==
  ASSUME NEW t \in Tasks, NEW n \in Legs, NEW c \in Change, NEW place \in Pcs,
         EscribeTramo(t, n, c, place)
  PROVE  /\ c.status = "awaiting_input" => c.notified = FALSE
         /\ c.status # Keep /\ c.status # "interrupted"
<1>1. n \in 0 .. Budget /\ {"running", "delivered", "delivery_failed"} \subseteq Status
  BY LegRange DEF Status, Terminales
<1>2. /\ ToAwaiting(n).notified = FALSE /\ ToAwaiting(n).status = "awaiting_input"
      /\ ToDelivering(n).status = "delivering"
      /\ To("running").status = "running" /\ To("delivered").status = "delivered"
      /\ To("delivery_failed").status = "delivery_failed"
  BY <1>1, LegChange, ToChange DEF ToAwaiting, To, NoChange
<1>3. c \in {To("running"), ToDelivering(n), ToAwaiting(n), To("delivered"), To("delivery_failed")}
  BY DEF EscribeTramo
<1>4. \A s \in {"running", "delivering", "awaiting_input", "delivered", "delivery_failed"} : s # Keep
  BY StatusIsNotKeep DEF Status, Terminales
<1> QED BY <1>2, <1>3, <1>4

\* Only Notified marks.
LEMMA SinNotificar ==
  /\ NoChange.notified = Keep /\ TranscriptCut.notified = Keep
  /\ NoChange # Notified /\ TranscriptCut # Notified
<1>1. Notified.notified = TRUE /\ NoChange.notified = Keep /\ TranscriptCut.notified = Keep
  BY DEF Notified, NoChange, TranscriptCut
<1>2. Keep # TRUE
  BY QueueAssumption
<1> QED BY <1>1, <1>2

\* A leg marks its pause after the turn that was told of it.
LEMMA TramoPregunta ==
  ASSUME Coherente, Marcha, Libro, NEW t \in Tasks, NEW n \in Legs,
         RunTask(t, n) \/ LegStep(t, n), \A u \in Tasks : Pregunta(u)
  PROVE  \A u \in Tasks : Pregunta(u)'
<1>0. TypeOK /\ n \in 0 .. Budget /\ EnMarcha
  BY LegRange DEF Coherente, Marcha
<1>1. ASSUME NEW c \in Change, NEW place \in Pcs, EscribeTramo(t, n, c, place)
      PROVE  \A u \in Tasks : Pregunta(u)'
  <2>1. Persistir(t, c, "leg", n) /\ UNCHANGED <<rows, asked>>
    BY <1>1 DEF EscribeTramo, Transicionar, todas
  <2>2. /\ c.status = "awaiting_input" => c.notified = FALSE
        /\ c.status # Keep
    BY <1>1, EscribeNotado
  <2>3. Pregunta(t)'
    BY <1>0, <2>1, <2>2, PreguntaEscrita
  <2>4. \A u \in Tasks \ {t} : /\ Pendientes(u)' = Pendientes(u) /\ Marcas(u)' = Marcas(u)
                               /\ \A i \in Pendientes(u) : disk'[i] = disk[i]
    BY <1>0, <2>1, PersistirAnota, PersistirMarca
  <2>5. \A u \in Tasks \ {t} : Pregunta(u)'
    BY <2>1, <2>4, PreguntaIgual
  <2> QED BY <2>3, <2>5
<1>2. ASSUME NEW place \in Pcs, MueveTramo(t, n, place) PROVE \A u \in Tasks : Pregunta(u)'
  <2>1. /\ asked \subseteq asked'
        /\ \/ disk' = disk
           \/ \E c \in {NoChange, Notified, TranscriptCut} :
                /\ Persistir(t, c, "leg", n)
                /\ c = Notified => asked' = asked \cup {<<t, n>>} /\ pc[t][n] = "asking" /\ SigueEnLaPausa(t, n)
    BY <1>2, MueveEfecto
  <2>2. UNCHANGED rows
    BY <1>2 DEF MueveTramo, todas
  <2>3. CASE disk' = disk
    <3>1. \A u \in Tasks : Pendientes(u)' = Pendientes(u) /\ Marcas(u)' = Marcas(u)
      BY <2>3 DEF Pendientes, Marcas
    <3> QED BY <2>1, <2>2, <2>3, <3>1, PreguntaIgual
  <2>4. ASSUME NEW c \in {NoChange, Notified, TranscriptCut}, Persistir(t, c, "leg", n),
               c = Notified => asked' = asked \cup {<<t, n>>} /\ pc[t][n] = "asking" /\ SigueEnLaPausa(t, n)
        PROVE  \A u \in Tasks : Pregunta(u)'
    <3>1. c \in Change /\ c.status = Keep
      BY <2>4, OtherChange
    <3>2. /\ \A u \in Tasks : Pendientes(u)' = Pendientes(u) /\ \A i \in Pendientes(u) : disk'[i] = disk[i]
          /\ \A u \in Tasks : u # t \/ c.notified = Keep => Marcas(u)' = Marcas(u)
      BY <1>0, <2>4, <3>1, PersistirAnota, PersistirMarca
    <3>3. \A u \in Tasks : u # t \/ c.notified = Keep => Pregunta(u)'
      BY <2>1, <2>2, <2>4, <3>2, PreguntaIgual
    <3>4. CASE c = Notified
      <4>1. pc[t][n] = "asking" /\ SigueEnLaPausa(t, n) /\ <<t, n>> \in asked'
        BY <2>4, <3>4
      <4>2. LibroDe(t)
        BY <4>1, TramoVivo DEF Libro
      <4>3. Pendientes(t) = {} /\ rows[t].used = n
        BY <4>1, <4>2 DEF LibroDe, EnTramo
      <4>4. Pregunta(t)'
        BY <2>2, <3>2, <4>1, <4>3 DEF Pregunta, Contada
      <4> QED BY <3>3, <4>4
    <3>5. CASE c # Notified
      BY <2>4, <3>3, <3>5, SinNotificar
    <3> QED BY <3>4, <3>5
  <2> QED BY <2>1, <2>3, <2>4
<1>3. CASE AcabaTramo(t, n)
  <2>1. UNCHANGED <<rows, disk, asked>>
    BY <1>3 DEF AcabaTramo, todas
  <2>2. \A u \in Tasks : Pendientes(u)' = Pendientes(u) /\ Marcas(u)' = Marcas(u)
    BY <2>1 DEF Pendientes, Marcas
  <2> QED BY <2>1, <2>2, PreguntaIgual
<1> QED BY <1>0, <1>1, <1>2, <1>3, TramoEscribeOMueve

\* A call that changes the status comes behind every mark.
LEMMA LlamadaPregunta ==
  ASSUME Coherente, Marcha, NEW t \in Tasks, \A u \in Tasks : Pregunta(u),
         \/ Registrar(t) \/ Enqueue(t) \/ EnqueueEnMemoria(t)
         \/ Cancel(t) \/ CancelDeTerminada(t) \/ Resume(t) \/ ResumeStep(t)
  PROVE  \A u \in Tasks : Pregunta(u)'
<1> USE DEF process, legvars, apivars, durable, history
<1>0. TypeOK /\ 0 \in 0 .. Budget
  BY QueueAssumption DEF Coherente
<1>1. ASSUME UNCHANGED <<disk, asked>>, \A u \in Tasks : rows'[u] = rows[u] \/ rows'[u].status = "queued"
      PROVE  \A u \in Tasks : Pregunta(u)'
  <2>1. \A u \in Tasks : Pendientes(u)' = Pendientes(u) /\ Marcas(u)' = Marcas(u)
    BY <1>1 DEF Pendientes, Marcas
  <2> QED BY <1>1, <2>1 DEF Pregunta, Contada
<1>2. ASSUME NEW c \in Change, NEW by \in {"leg", "resume", "cancel"}, Persistir(t, c, by, 0),
             c.status = Keep => c.notified = Keep, c.status # "awaiting_input", UNCHANGED <<rows, asked>>
      PROVE  \A u \in Tasks : Pregunta(u)'
  <2>1. \A u \in Tasks : u # t \/ c.status = Keep =>
          Pendientes(u)' = Pendientes(u) /\ \A i \in Pendientes(u) : disk'[i] = disk[i]
    <3>1. TypeOK /\ Persistir(t, c, by, 0)
      BY <1>0, <1>2
    <3>2. \A u \in Tasks : /\ u # t \/ c.status = Keep => Pendientes(u)' = Pendientes(u)
                            /\ \A i \in Pendientes(u) : disk'[i] = disk[i]
      BY <1>0, <3>1, PersistirAjena
    <3> QED BY <3>2
  <2>4. \A u \in Tasks : u # t \/ c.status = Keep => Marcas(u)' = Marcas(u)
    BY <1>0, <1>2, PersistirMarca
  <2>2. ASSUME NEW u \in Tasks, u # t \/ c.status = Keep PROVE Pregunta(u)'
    <3>1. Pregunta(u) /\ rows'[u] = rows[u] /\ asked \subseteq asked'
      BY <1>2
    <3> QED BY <2>1, <2>2, <2>4, <3>1, PreguntaIgual
  <2>3. c.status # Keep => Pregunta(t)'
    BY <1>0, <1>2, PreguntaEscrita
  <2> QED BY <2>2, <2>3
<1>3. CASE Registrar(t) \/ Enqueue(t) \/ EnqueueEnMemoria(t) \/ Resume(t)
  <2>1. UNCHANGED <<disk, asked>>
    BY <1>3 DEF Registrar, Enqueue, EnqueueEnMemoria, Resume
  <2>2. \A u \in Tasks : rows'[u] = rows[u] \/ rows'[u] = NewTask
    BY <1>3 DEF Registrar, Enqueue, EnqueueEnMemoria, Resume, Coherente, TypeOK
  <2>3. NewTask.status = "queued"
    BY DEF NewTask, NoRecord
  <2> QED BY <1>1, <2>1, <2>2, <2>3
<1>4. CASE Cancel(t)
  <2>1. /\ UNCHANGED <<rows, asked>>
        /\ \E c \in Change : Persistir(t, c, "cancel", 0) /\ c.status \in {"dismissed", "cancelled"}
    BY <1>4, CancelEfecto
  <2>2. PICK c \in Change : Persistir(t, c, "cancel", 0) /\ c.status \in {"dismissed", "cancelled"}
    BY <2>1
  <2>3. c.status # Keep
    BY <2>2, StatusIsNotKeep DEF Status, Terminales
  <2> QED BY <1>2, <2>1, <2>2, <2>3
<1>5. CASE CancelDeTerminada(t)
  <2> DEFINE w == [to |-> {t}, set |-> ToDismissed, by |-> "row", leg |-> 0]
  <2>1. w \in Statement /\ w.to = {t} /\ w.set = ToDismissed
    BY <1>0, OtherChange DEF Statement
  <2>2. /\ disk' = Append(disk, w) /\ Durable(t) /\ ~\E i \in DOMAIN disk : t \in disk[i].to
        /\ UNCHANGED <<rows, asked>>
    BY <1>5 DEF CancelDeTerminada
  <2>3. ToDismissed.status = "dismissed" /\ "dismissed" # Keep
    BY OtherChange, StatusIsNotKeep DEF Status, Terminales
  <2> HIDE DEF w
  <2>4. ASSUME NEW x \in Tasks
        PROVE  /\ x # t => Pendientes(x)' = Pendientes(x)
               /\ Pendientes(t)' = Pendientes(t) \cup {Len(disk) + 1}
               /\ disk'[Len(disk) + 1] = w
               /\ Marcas(x)' = Marcas(x)
               /\ \A i \in DOMAIN disk : disk'[i] = disk[i]
    BY <1>0, <2>1, <2>2, <2>3, <2>4, PendientesAppend, MarcasAppend
  <2>5. \A u \in Tasks \ {t} : Pregunta(u)'
    BY <2>2, <2>4, PreguntaIgual DEF Pendientes
  <2>6. Marcas(t) = {} /\ Pendientes(t) = {}
    BY <2>2 DEF Marcas, Pendientes
  <2>7. Pregunta(t)'
    BY <2>1, <2>2, <2>3, <2>4, <2>6 DEF Pregunta, Contada
  <2> QED BY <2>5, <2>7
<1>6. CASE ResumeStep(t)
  <2>0. UNCHANGED <<rows, asked>>
    BY <1>6 DEF ResumeStep, Reencolar, Reanudada, ReanudarTarde, ReaperturaFallida, ReaperturaMarcada
  <2>1. \/ disk' = disk
        \/ Persistir(t, TranscriptCut, "resume", 0)
        \/ Persistir(t, ToQueuedAgain, "resume", 0)
    BY <1>6 DEF ResumeStep, Reencolar, Reanudada, ReanudarTarde, ReaperturaFallida, ReaperturaMarcada
  <2>2. /\ TranscriptCut \in Change /\ TranscriptCut.status = Keep /\ TranscriptCut.notified = Keep
        /\ ToQueuedAgain \in Change /\ ToQueuedAgain.status = "queued" /\ "queued" # Keep
        /\ Keep # "awaiting_input"
    BY OtherChange, SinNotificar, StatusIsNotKeep DEF Status
  <2> QED BY <1>1, <1>2, <2>0, <2>1, <2>2
<1> QED BY <1>3, <1>4, <1>5, <1>6

\* A mark that is applied finds the pause it speaks of.
LEMMA EscribirPregunta ==
  ASSUME Coherente, Escribir, \A u \in Tasks : Pregunta(u)
  PROVE  \A u \in Tasks : Pregunta(u)'
<1> USE DEF process, legvars, apivars, durable, history
<1>0. /\ TypeOK /\ disk # <<>> /\ disk' = Tail(disk) /\ PausaGuardada
      /\ asked' = asked /\ rows \in [Tasks -> Record]
  BY DEF Escribir, Coherente, TypeOK
<1> SUFFICES ASSUME NEW t \in Tasks PROVE Pregunta(t)'
  OBVIOUS
<1>1. Pregunta(t)
  OBVIOUS
<1>2. /\ \A i \in Pendientes(t)' : i \in Nat \ {0} /\ i + 1 \in Pendientes(t) /\ disk'[i] = disk[i + 1]
      /\ Head(disk) = disk[1] /\ disk[1] \in Statement /\ 1 \in DOMAIN disk
  BY <1>0, PendientesTail
<1>3. \A i \in Marcas(t)' : i \in Nat \ {0} /\ i + 1 \in Marcas(t)
  BY <1>0, MarcasTail
<1>4. disk[1].set \in Change
  BY <1>2 DEF Statement
<1>5. rows'[t] = rows[t] \/ (t \in disk[1].to /\ rows'[t] = Apply(rows[t], disk[1].set))
  BY <1>0, <1>2 DEF Escribir
<1> DEFINE c == disk[1].set
<1>6. /\ Apply(rows[t], c).status = IF c.status = Keep THEN rows[t].status ELSE c.status
      /\ Apply(rows[t], c).used = IF c.used = Keep THEN rows[t].used ELSE c.used
      /\ Apply(rows[t], c).notified = IF c.notified = Keep THEN rows[t].notified ELSE c.notified
  <2>1. /\ Apply(rows[t], c).status = IF c.status = Keep THEN rows[t].status ELSE c.status
        /\ Apply(rows[t], c).used = IF c.used = Keep THEN rows[t].used ELSE c.used
    BY <1>0, <1>4, ApplyRecord
  <2>2. Apply(rows[t], c).notified = IF c.notified = Keep THEN rows[t].notified ELSE c.notified
    BY DEF Apply, New
  <2> QED BY <2>1, <2>2
<1>7. \A i \in Marcas(t)', k \in Pendientes(t)' : i < k
  <2> SUFFICES ASSUME NEW i \in Marcas(t)', NEW k \in Pendientes(t)' PROVE i < k
    OBVIOUS
  <2>1. i + 1 < k + 1 /\ i \in Nat /\ k \in Nat
    BY <1>1, <1>2, <1>3 DEF Pregunta
  <2> QED BY <2>1
<1>8. \A i \in Pendientes(t)' : disk'[i].set.status = "awaiting_input" => disk'[i].set.notified = FALSE
  BY <1>1, <1>2 DEF Pregunta
<1>9. c.status = Keep => c.used = Keep
  BY <1>0, <1>2 DEF PausaGuardada
<1> HIDE DEF c
<1>10. CASE rows'[t] = rows[t]
  BY <1>0, <1>1, <1>3, <1>7, <1>8, <1>10 DEF Pregunta, Contada
<1>11. CASE t \in disk[1].to /\ rows'[t] = Apply(rows[t], c) /\ c.status = Keep
  <2>1. /\ rows'[t].status = rows[t].status /\ rows'[t].used = rows[t].used
        /\ rows'[t].notified = IF c.notified = Keep THEN rows[t].notified ELSE c.notified
    BY <1>6, <1>9, <1>11
  <2>2. Contada(t)' <=> Contada(t)
    BY <1>0, <2>1 DEF Contada
  <2>3. c.notified # Keep => 1 \in Marcas(t)
    BY <1>2, <1>11 DEF Marcas, c
  <2>4. rows'[t].status = "awaiting_input" /\ rows'[t].notified => Contada(t)
    BY <1>1, <2>1, <2>3 DEF Pregunta
  <2>5. \A i \in Marcas(t)' : rows'[t].status = "awaiting_input" => Contada(t)
    BY <1>1, <1>3, <2>1 DEF Pregunta
  <2> QED BY <1>7, <1>8, <2>2, <2>4, <2>5 DEF Pregunta
<1>12. CASE t \in disk[1].to /\ rows'[t] = Apply(rows[t], c) /\ c.status # Keep
  <2>1. 1 \in Pendientes(t)
    BY <1>2, <1>12 DEF Pendientes, c
  <2>2. Marcas(t)' = {}
    <3> SUFFICES ASSUME NEW i \in Marcas(t)' PROVE FALSE
      OBVIOUS
    <3>1. i + 1 < 1 /\ i \in Nat
      BY <1>1, <1>3, <2>1 DEF Pregunta
    <3> QED BY <3>1
  <2>3. rows'[t].status = c.status /\ (c.status = "awaiting_input" => c.notified = FALSE)
    BY <1>1, <1>6, <1>12, <2>1 DEF Pregunta, c
  <2>4. Keep # FALSE
    BY QueueAssumption
  <2>5. rows'[t].status = "awaiting_input" => ~rows'[t].notified
    BY <1>6, <1>12, <2>3, <2>4
  <2> QED BY <1>8, <2>2, <2>5 DEF Pregunta
<1> QED BY <1>5, <1>10, <1>11, <1>12 DEF c

\* Rows that the sweeps close, and rows that go.
LEMMA PreguntaBarrida ==
  ASSUME disk = <<>>, disk' = <<>>, NEW t \in Tasks, Pregunta(t), asked' = asked,
         rows'[t] = rows[t] \/ rows'[t].status # "awaiting_input"
  PROVE  Pregunta(t)'
<1>1. Pendientes(t)' = {} /\ Marcas(t)' = {}
  BY DEF Pendientes, Marcas
<1> QED BY <1>1 DEF Pregunta, Contada

\* What a sweep writes on a row that was cut.
LEMMA CierreEfecto ==
  ASSUME NEW r \in Record, NEW s
  PROVE  /\ Cierre(s) \in Change
         /\ Apply(r, Cierre(s)).status = IF s = "delivering" THEN "delivery_failed" ELSE "interrupted"
         /\ Apply(r, Cierre(s)).used = r.used /\ Apply(r, Cierre(s)).notified = FALSE
<1>1. "delivery_failed" \in Status /\ "interrupted" \in Status
  BY DEF Status
<1>2. /\ Cierre(s) \in Change
      /\ Cierre(s).status = IF s = "delivering" THEN "delivery_failed" ELSE "interrupted"
      /\ Cierre(s).used = Keep
  BY <1>1, ToChange DEF Cierre
<1>3. Cierre(s).notified = FALSE /\ Keep # FALSE
  BY QueueAssumption DEF Cierre, To, NoChange
<1>4. Apply(r, Cierre(s)).notified = FALSE
  BY <1>3 DEF Apply, New
<1> QED BY <1>1, <1>2, <1>4, ApplyStatus

\* Preguntas is inductive relative to the books.
LEMMA PasoPreguntas ==
  ASSUME SinAvisos, Coherente, Marcha, Libro, Preguntas, [Next]_vars PROVE Preguntas'
<1> USE DEF process, legvars, apivars, durable, history
<1>0. /\ TypeOK /\ rows \in [Tasks -> Record] /\ tasks \subseteq Tasks
      /\ aviso.pc \in {"off", "done"} /\ \A u \in Tasks : Pregunta(u)
  BY DEF Coherente, TypeOK, Preguntas
<1>1. CASE Calls \/ (\E t \in Tasks : ResumeStep(t))
  <2>1. \A u \in Tasks : Pregunta(u)'
    BY <1>0, <1>1, LlamadaPregunta DEF Calls
  <2>2. aviso' = aviso
    BY <1>1 DEF Calls, Registrar, Enqueue, EnqueueEnMemoria, Cancel, CancelDeTerminada, Resume,
      ResumeStep, Reencolar, Reanudada, ReanudarTarde, ReaperturaFallida, ReaperturaMarcada
  <2> QED BY <1>0, <2>1, <2>2 DEF Preguntas
<1>2. ASSUME NEW t \in Tasks, NEW n \in Legs, RunTask(t, n) \/ LegStep(t, n) PROVE Preguntas'
  <2>1. \A u \in Tasks : Pregunta(u)'
    BY <1>0, <1>2, TramoPregunta
  <2>2. aviso' = aviso
    BY <1>2 DEF RunTask, LegStep, EjecutarHijo, HijoTermina, HijoPregunta, TranscriptRoto, SinPausa,
         Pausar, Preguntar, PreguntaDespachada, PreguntaFallida, Despachar, ResultadoDespachado,
         ResultadoFallido, FinDelTramo
  <2> QED BY <1>0, <2>1, <2>2 DEF Preguntas
<1>3. CASE Escribir
  <2>1. \A u \in Tasks : Pregunta(u)'
    BY <1>0, <1>3, EscribirPregunta
  <2>2. aviso' = aviso
    BY <1>3 DEF Escribir
  <2> QED BY <1>0, <2>1, <2>2 DEF Preguntas
<1>4. CASE Loop \/ Stop \/ CortarHijos \/ ListarHuerfanas \/ UNCHANGED vars
  <2>1. UNCHANGED <<rows, disk, asked>> /\ (aviso' = aviso \/ aviso' = AvisoApagado)
    BY <1>4 DEF Loop, Stop, CortarHijos, ListarHuerfanas, vars
  <2>2. \A u \in Tasks : Pendientes(u)' = Pendientes(u) /\ Marcas(u)' = Marcas(u)
    BY <2>1 DEF Pendientes, Marcas
  <2>3. \A u \in Tasks : Pregunta(u)'
    BY <1>0, <2>1, <2>2, PreguntaIgual
  <2> QED BY <1>0, <2>1, <2>3 DEF Preguntas, AvisoApagado
<1>5. CASE AvisarTrasArranque
  <2>1. UNCHANGED <<rows, disk, asked>>
    BY <1>5 DEF AvisarTrasArranque
  <2>2. aviso' \in Siguiente({})
    <3>1. {t \in tasks : /\ ~task[t].notified /\ task[t].status \in PorAvisar
                         /\ ScopeOf[t] \notin Silent} = {}
      BY <1>0 DEF SinAvisos
    <3> QED BY <1>5, <3>1 DEF AvisarTrasArranque
  <2>3. aviso'.pc = "done"
    BY <2>2 DEF Siguiente, AvisoApagado
  <2>4. \A u \in Tasks : Pendientes(u)' = Pendientes(u) /\ Marcas(u)' = Marcas(u)
    BY <2>1 DEF Pendientes, Marcas
  <2>5. \A u \in Tasks : Pregunta(u)'
    BY <1>0, <2>1, <2>4, PreguntaIgual
  <2> QED BY <2>3, <2>5 DEF Preguntas
<1>6. CASE AvisoStep
  BY <1>0, <1>6 DEF AvisoStep, MarcarAvisadas, AvisoGuardado, AvisoFallido
<1>7. ASSUME NEW x \in sweep, CerrarHuerfana(x) PROVE Preguntas'
  <2>1. /\ UNCHANGED <<asked, aviso>> /\ disk = <<>> /\ disk' = <<>>
        /\ \A u \in Tasks : rows'[u] = rows[u] \/ rows'[u] = Apply(rows[u], Cierre(x[2]))
    BY <1>0, <1>7 DEF CerrarHuerfana
  <2>2. ASSUME NEW r \in Record, NEW s PROVE Apply(r, Cierre(s)).status # "awaiting_input"
    BY CierreEfecto
  <2>3. ASSUME NEW u \in Tasks PROVE Pregunta(u)'
    <3>1. rows[u] \in Record
      BY <1>0
    <3>2. rows'[u] = rows[u] \/ rows'[u].status # "awaiting_input"
      BY <2>1, <2>2, <3>1
    <3> QED BY <1>0, <2>1, <3>2, PreguntaBarrida
  <2> QED
    <3>1. aviso.pc \in {"off", "done"} /\ aviso' = aviso
      BY <2>1 DEF Preguntas
    <3> QED BY <2>3, <3>1 DEF Preguntas
<1>8. CASE FinDelStop \/ Crash
  <2>1. /\ UNCHANGED <<rows, asked>> /\ disk' = <<>> /\ aviso' = AvisoApagado
    BY <1>8 DEF FinDelStop, Crash, MemoriaPerdida
  <2>2. \A u \in Tasks : Pendientes(u)' = {} /\ Marcas(u)' = {}
    BY <2>1 DEF Pendientes, Marcas
  <2> QED BY <1>0, <2>1, <2>2 DEF Pregunta, Preguntas, AvisoApagado, Contada
<1>9. CASE Start
  <2>1. /\ UNCHANGED <<asked, aviso>> /\ disk = <<>> /\ disk' = <<>>
    BY <1>9 DEF Start, Marcha, Apagado
  <2>2. \A u \in Tasks : \/ rows'[u] = NoRecord \/ rows'[u] = rows[u]
                         \/ rows'[u] = Apply(rows[u], Cierre(rows[u].status))
    BY <1>9 DEF Start, Barrida
  <2>3. NoRecord.status # "awaiting_input"
    BY DEF NoRecord, Absent
  <2>4. ASSUME NEW r \in Record, NEW s PROVE Apply(r, Cierre(s)).status # "awaiting_input"
    BY CierreEfecto
  <2>5. ASSUME NEW u \in Tasks PROVE Pregunta(u)'
    <3>1. rows[u] \in Record
      BY <1>0
    <3>2. rows'[u] = rows[u] \/ rows'[u].status # "awaiting_input"
      BY <2>2, <2>3, <2>4, <3>1
    <3> QED BY <1>0, <2>1, <3>2, PreguntaBarrida
  <2> QED BY <1>0, <2>1, <2>5 DEF Preguntas
<1> QED BY <1>1, <1>2, <1>3, <1>4, <1>5, <1>6, <1>7, <1>8, <1>9 DEF Next, StopStep

\* Where no startup notice is sent, a paused delegation marked as notified was
\* really told to a turn of its parent, for the very leg that paused (_pausar,
\* _marcar_pregunta_notificada, whose UPDATE may be applied after a resume).
THEOREM NingunaPreguntaSilenciada ==
  ASSUME SinAvisos PROVE Safety => []PreguntaNoSilenciada
<1>1. Init => Preguntas
  BY DEF Init, Preguntas, Pregunta, AvisoApagado, NoRecord, Marcas, Pendientes, Absent
<1>2. (Coherente /\ Marcha /\ Libro) /\ Preguntas /\ [Next]_vars => Preguntas'
  BY PasoPreguntas
<1>3. Preguntas => PreguntaNoSilenciada
  BY DEF Preguntas, Pregunta, PreguntaNoSilenciada, Contada
<1> QED BY <1>1, <1>2, <1>3, ElLibroSeCumple, PTL DEF Safety
-----------------------------------------------------------------------------
(***************************************************************************)
(* No delegation is lost, where nothing fails.                             *)
(***************************************************************************)
\* The row says that the delegation was interrupted.
Cerrada(t) == rows[t].status = "interrupted"

\* A row that says its interruption was told is right, now and after the
\* statements in flight; no statement in flight interrupts.
EnTabla(t) ==
  /\ Cerrada(t) /\ rows[t].notified => Contada(t)
  /\ \A i \in Marcas(t) : Cerrada(t) => Contada(t) \/ \E j \in Pendientes(t) : j < i
  /\ \A i \in Pendientes(t) : disk[i].set.status # "interrupted"

\* What a start brought back as interrupted has nothing in flight, and the
\* notice that speaks of its conversation speaks of it.
PorContar(t) == Viva /\ t \in tasks /\ task[t].status = "interrupted" =>
  /\ Pendientes(t) = {}
  /\ aviso.pc = "talking" /\ t \in aviso.now => <<t, task[t].used>> \in aviso.body

\* What left the dict is settled, or will be by its last statement in flight,
\* or it was interrupted and the parent was told.
Acabada(t) == Viva /\ t \notin tasks \cup registrando =>
  /\ Pendientes(t) = {} => \/ rows[t].status \in Terminales \cup {Absent}
                           \/ Cerrada(t) /\ Contada(t)
  /\ \A i \in Pendientes(t) :
       (\A j \in Pendientes(t) : j <= i) => disk[i].set.status \in Terminales

\* The news of a delegation.
Noticia(t) == EnTabla(t) /\ PorContar(t) /\ Acabada(t)
\* Every delegation has its news right.
Noticias == \A t \in Tasks : Noticia(t)

\* The text a notice composes speaks of every interruption of its group.
Compuesto(t) == aviso.pc = "talking" /\ t \in aviso.now /\ task[t].status = "interrupted" =>
                  <<t, task[t].used>> \in aviso.body

\* A delegation nobody touched has the news it had.
LEMMA NoticiaIgual ==
  ASSUME NEW t \in Tasks, Noticia(t), Mismo(t), t \in tasks' <=> t \in tasks,
         t \in registrando' <=> t \in registrando, rows'[t] = rows[t], asked \subseteq asked',
         Pendientes(t)' = Pendientes(t), \A i \in Pendientes(t) : disk'[i] = disk[i],
         Marcas(t)' = Marcas(t), Viva' => Viva, aviso' = aviso \/ Compuesto(t)'
  PROVE  Noticia(t)'
<1>1. EnTabla(t)'
  BY DEF Noticia, EnTabla, Cerrada, Contada
<1>2. PorContar(t)'
  BY DEF Noticia, PorContar, Mismo, Compuesto
<1>3. Acabada(t)'
  BY DEF Noticia, Acabada, Cerrada, Contada
<1> QED BY <1>1, <1>2, <1>3 DEF Noticia

\* Once the process stops only the table counts.
LEMMA NoticiaFuera ==
  ASSUME NEW t \in Tasks, ~Viva', EnTabla(t)' PROVE Noticia(t)'
BY DEF Noticia, PorContar, Acabada

\* A statement that changes the status: who it removes from the dict it settles.
LEMMA NoticiaEscrita ==
  ASSUME TypeOK, NEW t \in Tasks, Noticia(t), Durable(t), rows'[t] = rows[t], asked \subseteq asked',
         NEW c \in Change, c.status \in Status \ {"interrupted"}, task'[t].status = c.status,
         t \in tasks' \/ c.status \in Terminales,
         NEW by \in {"leg", "resume", "cancel"}, NEW n \in 0 .. Budget, Persistir(t, c, by, n)
  PROVE  Noticia(t)'
<1>0. PICK k : k = Len(disk) + 1
  OBVIOUS
<1>1. c.status # Keep
  BY StatusIsNotKeep
<1>2. /\ Pendientes(t)' = Pendientes(t) \cup {k} /\ Len(disk) \in Nat
      /\ Pendientes(t) \subseteq 1 .. Len(disk)
      /\ \A i \in Pendientes(t) : disk'[i] = disk[i]
      /\ disk'[k] = [to |-> {t}, set |-> c, by |-> by, leg |-> n]
  BY <1>0, <1>1, PersistirAnota
<1>3. disk'[k].set = c
  BY <1>2
<1>4. Marcas(t)' = Marcas(t)
  BY <1>1, PersistirMarca
<1>5. EnTabla(t)'
  BY <1>2, <1>3, <1>4 DEF Noticia, EnTabla, Cerrada, Contada
<1>6. PorContar(t)'
  BY DEF PorContar
<1>7. \A i \in Pendientes(t)' : (\A j \in Pendientes(t)' : j <= i) => i = k
  BY <1>0, <1>2
<1>8. Acabada(t)'
  BY <1>2, <1>3, <1>7 DEF Acabada
<1> QED BY <1>5, <1>6, <1>8 DEF Noticia

\* A leg takes its delegation out of the dict only by a terminal status.
LEMMA TramoNoticia ==
  ASSUME Coherente, Marcha, Libro, Sano, Noticias, NEW t \in Tasks, NEW n \in Legs,
         RunTask(t, n) \/ LegStep(t, n)
  PROVE  Noticias'
<1>0. TypeOK /\ n \in 0 .. Budget /\ EnMarcha /\ \A u \in Tasks : Noticia(u)
  BY LegRange DEF Coherente, Marcha, Noticias
<1>1. ASSUME NEW c \in Change, NEW place \in Pcs, EscribeTramo(t, n, c, place)
      PROVE  Noticias'
  <2>1. /\ Persistir(t, c, "leg", n) /\ t \in tasks /\ Viva
        /\ UNCHANGED <<phase, registrando, rows, asked, aviso>>
    BY <1>1 DEF EscribeTramo, Transicionar, todas
  <2>2. /\ c.status \in {"running", "delivering", "awaiting_input", "delivered", "delivery_failed"}
        /\ \A u \in Tasks \ {t} : task'[u] = task[u]
        /\ task'[t].status = c.status
        /\ tasks' = IF c.status = "delivered" THEN tasks \ {t} ELSE tasks
    BY <1>1, EscribeEfecto
  <2>3. Durable(t) /\ c.status \in Status \ {"interrupted"}
    BY <2>1, <2>2, SanoDurable DEF Viva, Status, Terminales
  <2>4. t \in tasks' \/ c.status \in Terminales
    BY <2>1, <2>2 DEF Terminales
  <2>5. Noticia(t)'
    <3>1. Noticia(t) /\ rows'[t] = rows[t] /\ asked \subseteq asked'
      BY <1>0, <2>1
    <3> QED BY <1>0, <2>1, <2>2, <2>3, <2>4, <3>1, NoticiaEscrita
  <2>6. c.status # Keep
    BY <2>3, StatusIsNotKeep
  <2>7. \A u \in Tasks \ {t} : Pendientes(u)' = Pendientes(u) /\ \A i \in Pendientes(u) : disk'[i] = disk[i]
    BY <1>0, <2>1, PersistirAnota
  <2>8. \A u \in Tasks \ {t} : Marcas(u)' = Marcas(u)
    BY <1>0, <2>1, PersistirMarca
  <2>9. ASSUME NEW u \in Tasks \ {t} PROVE Noticia(u)'
    <3>1. Mismo(u) /\ (u \in tasks' <=> u \in tasks) /\ (Viva' => Viva)
      BY <2>1, <2>2 DEF Mismo
    <3> QED BY <1>0, <2>1, <2>7, <2>8, <3>1, NoticiaIgual
  <2> QED BY <2>5, <2>9 DEF Noticias
<1>2. ASSUME NEW place \in Pcs, MueveTramo(t, n, place) PROVE Noticias'
  <2>1. /\ asked \subseteq asked' /\ \A u \in Tasks : Mismo(u)
        /\ \/ disk' = disk
           \/ \E c \in {NoChange, Notified, TranscriptCut} :
                /\ Persistir(t, c, "leg", n)
                /\ c = Notified => asked' = asked \cup {<<t, n>>} /\ pc[t][n] = "asking" /\ SigueEnLaPausa(t, n)
    BY <1>2, MueveEfecto
  <2>2. UNCHANGED <<phase, registrando, rows, tasks, aviso>> /\ Viva /\ Viva'
    BY <1>2 DEF MueveTramo, todas, Viva
  <2>3. CASE disk' = disk
    <3>1. \A u \in Tasks : Pendientes(u)' = Pendientes(u) /\ Marcas(u)' = Marcas(u)
      BY <2>3 DEF Pendientes, Marcas
    <3> QED BY <1>0, <2>1, <2>2, <2>3, <3>1, NoticiaIgual DEF Noticias
  <2>4. ASSUME NEW c \in {NoChange, Notified, TranscriptCut}, Persistir(t, c, "leg", n),
               c = Notified => asked' = asked \cup {<<t, n>>} /\ pc[t][n] = "asking" /\ SigueEnLaPausa(t, n)
        PROVE  Noticias'
    <3>1. c \in Change /\ c.status = Keep
      BY <2>4, OtherChange
    <3>2. \A u \in Tasks : Pendientes(u)' = Pendientes(u) /\ \A i \in Pendientes(u) : disk'[i] = disk[i]
      BY <1>0, <2>4, <3>1, PersistirAnota
    <3>3. \A u \in Tasks : u # t \/ c.notified = Keep => Marcas(u)' = Marcas(u)
      BY <1>0, <2>4, <3>1, PersistirMarca
    <3>4. \A u \in Tasks : u # t \/ c.notified = Keep => Noticia(u)'
      BY <1>0, <2>1, <2>2, <3>2, <3>3, NoticiaIgual
    <3>5. CASE c = Notified
      <4>1. pc[t][n] = "asking" /\ SigueEnLaPausa(t, n)
        BY <2>4, <3>5
      <4>2. LibroDe(t)
        BY <4>1, TramoVivo DEF Libro
      <4>3. rows'[t].status = "awaiting_input"
        BY <2>2, <4>1, <4>2 DEF LibroDe, EnTramo
      <4>4. EnTabla(t)'
        BY <1>0, <3>2, <4>3 DEF Noticia, EnTabla, Cerrada
      <4>5. PorContar(t)' /\ Acabada(t)'
        BY <1>0, <2>1, <2>2, <3>2 DEF Noticia, PorContar, Acabada, Mismo, Cerrada, Contada
      <4> QED BY <3>4, <4>4, <4>5 DEF Noticia, Noticias
    <3>6. CASE c # Notified
      BY <2>4, <3>4, <3>6, SinNotificar DEF Noticias
    <3> QED BY <3>5, <3>6
  <2> QED BY <2>1, <2>3, <2>4
<1>3. CASE AcabaTramo(t, n)
  <2>1. UNCHANGED <<phase, registrando, rows, tasks, task, disk, asked, aviso>>
    BY <1>3 DEF AcabaTramo, todas
  <2>2. \A u \in Tasks : Pendientes(u)' = Pendientes(u) /\ Marcas(u)' = Marcas(u)
    BY <2>1 DEF Pendientes, Marcas
  <2>3. \A u \in Tasks : Mismo(u)
    BY <2>1 DEF Mismo
  <2> QED BY <1>0, <2>1, <2>2, <2>3, NoticiaIgual DEF Noticias, Viva
<1> QED BY <1>0, <1>1, <1>2, <1>3, TramoEscribeOMueve

\* A call takes a delegation out of the dict by cancelling or dismissing it.
LEMMA LlamadaNoticia ==
  ASSUME SinFallos, Coherente, Marcha, Sano, Noticias, NEW t \in Tasks,
         \/ Registrar(t) \/ Enqueue(t) \/ EnqueueEnMemoria(t)
         \/ Cancel(t) \/ CancelDeTerminada(t) \/ Resume(t) \/ ResumeStep(t)
  PROVE  Noticias'
<1> USE DEF process, legvars, apivars, durable, history
<1>0. /\ TypeOK /\ task \in [Tasks -> Record] /\ rows \in [Tasks -> Record] /\ 0 \in 0 .. Budget
      /\ \A u \in Tasks : Noticia(u)
  BY Tipos DEF Noticias
<1>1. CASE Registrar(t)
  <2>1. /\ rows'[t] = NewTask /\ \A x \in Tasks \ {t} : rows'[x] = rows[x]
        /\ registrando' = registrando \cup {t} /\ task[t].status = Absent
        /\ UNCHANGED <<phase, tasks, task, disk, asked, aviso>>
    BY <1>0, <1>1 DEF Registrar, Nueva
  <2>2. \A x \in Tasks : Pendientes(x)' = Pendientes(x) /\ Marcas(x)' = Marcas(x)
    BY <2>1 DEF Pendientes, Marcas
  <2>3. ASSUME NEW u \in Tasks \ {t} PROVE Noticia(u)'
    BY <1>0, <2>1, <2>2, NoticiaIgual DEF Mismo, Viva
  <2>4. rows'[t].status # "interrupted" /\ task'[t].status # "interrupted"
    BY <2>1 DEF NewTask, NoRecord, Absent
  <2>5. Noticia(t)'
    BY <1>0, <2>1, <2>2, <2>4 DEF Noticia, EnTabla, PorContar, Acabada, Cerrada
  <2> QED BY <2>3, <2>5 DEF Noticias
<1>2. CASE Enqueue(t)
  <2>1. /\ EnElDict(t) /\ registrando' = registrando \ {t}
        /\ UNCHANGED <<phase, rows, disk, asked, aviso>>
    BY <1>2 DEF Enqueue
  <2>2. /\ tasks' = tasks \cup {t} /\ \A x \in Tasks \ {t} : task'[x] = task[x]
        /\ task'[t] = NewTask
    BY <1>0, <2>1 DEF EnElDict
  <2>3. \A x \in Tasks : Pendientes(x)' = Pendientes(x) /\ Marcas(x)' = Marcas(x)
    BY <2>1 DEF Pendientes, Marcas
  <2>4. ASSUME NEW u \in Tasks \ {t} PROVE Noticia(u)'
    BY <1>0, <2>1, <2>2, <2>3, NoticiaIgual DEF Mismo, Viva
  <2>5. task'[t].status # "interrupted"
    BY <2>2 DEF NewTask, NoRecord
  <2>6. Noticia(t)'
    BY <1>0, <2>1, <2>2, <2>3, <2>5 DEF Noticia, EnTabla, PorContar, Acabada, Cerrada, Contada
  <2> QED BY <2>4, <2>6 DEF Noticias
<1>3. CASE EnqueueEnMemoria(t)
  <2>1. phase # "down"
    BY <1>3 DEF EnqueueEnMemoria, MayCall
  <2>2. store = "open" /\ faults = 0 /\ MaxFaults = 0 /\ "open" # "none"
    BY <2>1 DEF Sano, SinFallos
  <2> QED BY <1>3, <2>2 DEF EnqueueEnMemoria
<1>4. ASSUME NEW c \in Change, NEW by \in {"resume", "cancel"}, Persistir(t, c, by, 0), phase # "down",
             c.status \in Status \ {"interrupted"}, task'[t].status = c.status,
             t \in tasks' \/ c.status \in Terminales,
             \A u \in Tasks \ {t} : task'[u] = task[u] /\ (u \in tasks' <=> u \in tasks),
             UNCHANGED <<phase, registrando, rows, asked, aviso>>
      PROVE  Noticias'
  <2>1. c.status # Keep /\ Durable(t)
    BY <1>4, StatusIsNotKeep, SanoDurable
  <2>2. TypeOK /\ Persistir(t, c, by, 0) /\ by \in {"leg", "resume", "cancel"} /\ 0 \in 0 .. Budget
    BY <1>0, <1>4
  <2>3. Noticia(t)'
    <3>1. Noticia(t) /\ rows'[t] = rows[t] /\ asked \subseteq asked'
      BY <1>0, <1>4
    <3> QED BY <1>4, <2>1, <2>2, <3>1, NoticiaEscrita
  <2>4. \A u \in Tasks \ {t} : Pendientes(u)' = Pendientes(u) /\ \A i \in Pendientes(u) : disk'[i] = disk[i]
    BY <2>2, PersistirAjena
  <2>5. \A u \in Tasks \ {t} : Marcas(u)' = Marcas(u)
    BY <2>2, PersistirMarca
  <2>6. ASSUME NEW u \in Tasks \ {t} PROVE Noticia(u)'
    <3>1. /\ Noticia(u) /\ Mismo(u) /\ (u \in tasks' <=> u \in tasks)
          /\ (u \in registrando' <=> u \in registrando)
          /\ rows'[u] = rows[u] /\ asked \subseteq asked' /\ (Viva' => Viva) /\ aviso' = aviso
      BY <1>0, <1>4 DEF Mismo, Viva
    <3> QED BY <2>4, <2>5, <3>1, NoticiaIgual
  <2> QED BY <2>3, <2>6 DEF Noticias
<1>5. CASE Cancel(t)
  <2>1. /\ t \in tasks /\ tasks' = tasks \ {t} /\ MayCall
        /\ \A u \in Tasks \ {t} : task'[u] = task[u]
        /\ UNCHANGED <<phase, registrando, rows, asked, aviso>>
        /\ \E c \in Change :
             /\ Persistir(t, c, "cancel", 0) /\ task'[t].status = c.status
             /\ c.status \in {"dismissed", "cancelled"}
    BY <1>5, CancelEfecto
  <2>2. PICK c \in Change :
             /\ Persistir(t, c, "cancel", 0) /\ task'[t].status = c.status
             /\ c.status \in {"dismissed", "cancelled"}
    BY <2>1
  <2>3. c.status \in Status \ {"interrupted"} /\ c.status \in Terminales /\ phase # "down"
    BY <2>1, <2>2 DEF Status, Terminales, MayCall
  <2> QED BY <1>4, <2>1, <2>2, <2>3
<1>6. CASE CancelDeTerminada(t)
  <2> DEFINE w == [to |-> {t}, set |-> ToDismissed, by |-> "row", leg |-> 0]
  <2>0. PICK k : k = Len(disk) + 1
    OBVIOUS
  <2>1. w \in Statement /\ w.to = {t} /\ w.set = ToDismissed
    BY <1>0, OtherChange DEF Statement
  <2>2. /\ disk' = Append(disk, w) /\ t \notin tasks /\ ~\E i \in DOMAIN disk : t \in disk[i].to
        /\ UNCHANGED <<phase, registrando, tasks, task, rows, asked, aviso>>
    BY <1>6 DEF CancelDeTerminada
  <2>3. /\ ToDismissed.status = "dismissed" /\ "dismissed" # Keep
        /\ "dismissed" \in Terminales /\ "dismissed" # "interrupted"
    BY OtherChange, StatusIsNotKeep DEF Status, Terminales
  <2> HIDE DEF w
  <2>4. ASSUME NEW x \in Tasks
        PROVE  /\ x # t => Pendientes(x)' = Pendientes(x)
               /\ Pendientes(t)' = Pendientes(t) \cup {k}
               /\ disk'[k] = w
               /\ Marcas(x)' = Marcas(x)
               /\ \A i \in DOMAIN disk : disk'[i] = disk[i]
    BY <1>0, <2>0, <2>1, <2>2, <2>3, <2>4, PendientesAppend, MarcasAppend
  <2>5. ASSUME NEW u \in Tasks \ {t} PROVE Noticia(u)'
    BY <1>0, <2>2, <2>4, NoticiaIgual DEF Pendientes, Mismo, Viva
  <2>6. Marcas(t)' = {} /\ Pendientes(t)' = {k} /\ disk'[k].set.status = "dismissed"
    BY <2>1, <2>2, <2>3, <2>4 DEF Marcas, Pendientes
  <2>7. EnTabla(t)' /\ PorContar(t)' /\ Acabada(t)'
    BY <1>0, <2>2, <2>3, <2>6 DEF Noticia, EnTabla, PorContar, Acabada, Cerrada, Contada
  <2> QED BY <2>5, <2>7 DEF Noticias, Noticia
<1>7. CASE Resume(t) \/ ResumeStep(t)
  <2>0. UNCHANGED <<phase, registrando, tasks, rows, asked, aviso>>
    BY <1>7 DEF Resume, ResumeStep, Reencolar, Reanudada, ReanudarTarde, ReaperturaFallida, ReaperturaMarcada
  <2>1. /\ TranscriptCut \in Change /\ TranscriptCut.status = Keep /\ TranscriptCut.notified = Keep
        /\ Apply(task[t], TranscriptCut).status = task[t].status
        /\ Apply(task[t], TranscriptCut).used = task[t].used
    BY <1>0, OtherChange, ApplyKeep, SinNotificar
  <2>2. \/ task' = task /\ disk' = disk
        \/ /\ task' = [task EXCEPT ![t] = Apply(task[t], TranscriptCut)]
           /\ Persistir(t, TranscriptCut, "resume", 0)
        \/ Reencolar(t)
    BY <1>7 DEF Resume, ResumeStep, Reencolar, Reanudada, ReanudarTarde, ReaperturaFallida, ReaperturaMarcada
  <2>3. CASE task' = task /\ disk' = disk
    <3>1. \A u \in Tasks : Pendientes(u)' = Pendientes(u) /\ Marcas(u)' = Marcas(u)
      BY <2>3 DEF Pendientes, Marcas
    <3> QED BY <1>0, <2>0, <2>3, <3>1, NoticiaIgual DEF Noticias, Mismo, Viva
  <2>4. CASE /\ task' = [task EXCEPT ![t] = Apply(task[t], TranscriptCut)]
             /\ Persistir(t, TranscriptCut, "resume", 0)
    <3>1. \A u \in Tasks : Pendientes(u)' = Pendientes(u) /\ \A i \in Pendientes(u) : disk'[i] = disk[i]
      BY <1>0, <2>1, <2>4, PersistirAnota
    <3>2. \A u \in Tasks : Marcas(u)' = Marcas(u)
      BY <1>0, <2>1, <2>4, PersistirMarca
    <3>3. \A u \in Tasks : Mismo(u)
      BY <1>0, <2>1, <2>4 DEF Mismo
    <3> QED BY <1>0, <2>0, <3>1, <3>2, <3>3, NoticiaIgual DEF Noticias, Viva
  <2>5. CASE Reencolar(t)
    <3>1. /\ task' = [task EXCEPT ![t] = Apply(task[t], ToQueuedAgain)] /\ phase = "up"
          /\ Persistir(t, ToQueuedAgain, "resume", 0) /\ t \in tasks
      BY <2>5 DEF Reencolar, SigueEsperando
    <3>2. /\ ToQueuedAgain \in Change /\ ToQueuedAgain.status = "queued"
          /\ "queued" \in Status /\ "queued" # "interrupted"
      BY OtherChange DEF Status
    <3>3. task'[t].status = "queued" /\ \A u \in Tasks \ {t} : task'[u] = task[u]
      BY <1>0, <3>1, <3>2, ApplyStatus
    <3> QED BY <1>4, <2>0, <3>1, <3>2, <3>3
  <2> QED BY <2>2, <2>3, <2>4, <2>5
<1> QED BY <1>1, <1>2, <1>3, <1>5, <1>6, <1>7

\* One statement is applied: the marks and the changes behind it move up.
LEMMA EscribirNoticia ==
  ASSUME SinFallos, Coherente, Sano, Noticias, Escribir PROVE Noticias'
<1> USE DEF process, legvars, apivars, durable, history
<1>0. /\ TypeOK /\ disk # <<>> /\ disk' = Tail(disk) /\ PausaGuardada
      /\ UNCHANGED <<phase, registrando, tasks, task, asked, aviso>> /\ rows \in [Tasks -> Record]
      /\ faults = 0 /\ MaxFaults = 0
  BY DEF Escribir, Coherente, TypeOK, Sano, SinFallos
<1> SUFFICES ASSUME NEW t \in Tasks PROVE Noticia(t)'
  BY DEF Noticias
<1>1. EnTabla(t) /\ PorContar(t) /\ Acabada(t) /\ Mismo(t) /\ (Viva' <=> Viva)
  BY <1>0 DEF Noticias, Noticia, Mismo, Viva
<1>2. /\ \A i \in Pendientes(t)' : i \in Nat \ {0} /\ i + 1 \in Pendientes(t) /\ disk'[i] = disk[i + 1]
      /\ \A i \in Pendientes(t) : i = 1 \/ (i - 1 \in Pendientes(t)' /\ disk'[i - 1] = disk[i])
      /\ \A i \in Pendientes(t) : i \in Nat
      /\ Head(disk) = disk[1] /\ disk[1] \in Statement /\ 1 \in DOMAIN disk
  BY <1>0, PendientesTail
<1>3. \A i \in Marcas(t)' : i \in Nat \ {0} /\ i + 1 \in Marcas(t)
  BY <1>0, MarcasTail
<1> DEFINE c == disk[1].set
<1>4. c \in Change
  BY <1>2 DEF Statement
<1>5. rows'[t] = IF t \in disk[1].to /\ rows[t].status # Absent THEN Apply(rows[t], c) ELSE rows[t]
  BY <1>0, <1>2 DEF Escribir
<1>6. /\ Apply(rows[t], c).status = IF c.status = Keep THEN rows[t].status ELSE c.status
      /\ Apply(rows[t], c).used = IF c.used = Keep THEN rows[t].used ELSE c.used
      /\ Apply(rows[t], c).notified = IF c.notified = Keep THEN rows[t].notified ELSE c.notified
  <2>1. /\ Apply(rows[t], c).status = IF c.status = Keep THEN rows[t].status ELSE c.status
        /\ Apply(rows[t], c).used = IF c.used = Keep THEN rows[t].used ELSE c.used
    BY <1>0, <1>4, ApplyRecord
  <2>2. Apply(rows[t], c).notified = IF c.notified = Keep THEN rows[t].notified ELSE c.notified
    BY DEF Apply, New
  <2> QED BY <2>1, <2>2
<1>7. c.status = Keep => c.used = Keep
  BY <1>0, <1>2 DEF PausaGuardada
<1>8. /\ 1 \in Pendientes(t) <=> t \in disk[1].to /\ c.status # Keep
      /\ t \in disk[1].to /\ c.status = Keep /\ c.notified # Keep => 1 \in Marcas(t)
  BY <1>2 DEF Pendientes, Marcas
<1>9. c.status # Keep /\ t \in disk[1].to => c.status # "interrupted"
  BY <1>1, <1>8 DEF EnTabla
<1>10. \A i \in Pendientes(t)' : disk'[i].set.status # "interrupted"
  BY <1>1, <1>2 DEF EnTabla
<1>11. \A i \in Pendientes(t)' : (\A j \in Pendientes(t)' : j <= i) => \A j \in Pendientes(t) : j <= i + 1
  <2> SUFFICES ASSUME NEW i \in Pendientes(t)', \A j \in Pendientes(t)' : j <= i, NEW j \in Pendientes(t)
               PROVE  j <= i + 1
    OBVIOUS
  <2>1. i \in Nat /\ j \in Nat /\ (j = 1 \/ j - 1 <= i)
    BY <1>2
  <2> QED BY <2>1
<1> HIDE DEF c
<1>12. PorContar(t)'
  BY <1>0, <1>1, <1>2 DEF PorContar
<1>13. Viva /\ t \notin tasks \cup registrando =>
         \A i \in Pendientes(t)' :
           (\A j \in Pendientes(t)' : j <= i) => disk'[i].set.status \in Terminales
  BY <1>1, <1>2, <1>11 DEF Acabada
<1>14. CASE 1 \notin Pendientes(t)
  <2>1. /\ rows'[t].status = rows[t].status /\ rows'[t].used = rows[t].used
        /\ \/ rows'[t].notified = rows[t].notified
           \/ 1 \in Marcas(t)
    BY <1>5, <1>6, <1>7, <1>8, <1>14
  <2>2. (Contada(t)' <=> Contada(t)) /\ (Cerrada(t)' <=> Cerrada(t))
    BY <1>0, <2>1 DEF Contada, Cerrada
  <2>3. \A j \in Pendientes(t) : j \in Nat /\ j - 1 \in Pendientes(t)'
    BY <1>2, <1>14
  <2>4. \A j \in Pendientes(t) : ~(j < 1)
    <3> SUFFICES ASSUME NEW j \in Pendientes(t), j < 1 PROVE FALSE
      OBVIOUS
    <3>1. j - 1 \in Nat \ {0} /\ j \in Nat
      BY <1>2, <2>3
    <3> QED BY <3>1
  <2>5. Cerrada(t) /\ rows'[t].notified => Contada(t)
    BY <1>1, <2>1, <2>4 DEF EnTabla
  <2>6. ASSUME NEW i \in Marcas(t)', Cerrada(t) PROVE Contada(t) \/ \E j \in Pendientes(t)' : j < i
    <3>1. i + 1 \in Marcas(t) /\ i \in Nat
      BY <1>3
    <3>2. Contada(t) \/ \E j \in Pendientes(t) : j < i + 1
      BY <1>1, <2>6, <3>1 DEF EnTabla
    <3>3. ASSUME NEW j \in Pendientes(t), j < i + 1 PROVE j - 1 < i
      BY <2>3, <3>1, <3>3
    <3> QED BY <2>3, <3>2, <3>3
  <2>7. EnTabla(t)'
    BY <1>10, <2>2, <2>5, <2>6 DEF EnTabla
  <2>8. Pendientes(t)' = {} => Pendientes(t) = {}
    BY <2>3
  <2>9. Acabada(t)'
    BY <1>0, <1>1, <1>13, <2>1, <2>2, <2>8 DEF Acabada
  <2> QED BY <1>12, <2>7, <2>9 DEF Noticia
<1>15. CASE 1 \in Pendientes(t)
  <2>1. rows'[t].status = Absent \/ rows'[t].status = c.status
    BY <1>5, <1>6, <1>8, <1>15
  <2>2. ~Cerrada(t)'
    BY <1>8, <1>9, <1>15, <2>1 DEF Cerrada, Absent
  <2>3. EnTabla(t)'
    BY <1>10, <2>2 DEF EnTabla
  <2>4. Pendientes(t)' = {} => \A j \in Pendientes(t) : j <= 1
    BY <1>2
  <2>5. Viva /\ t \notin tasks \cup registrando /\ Pendientes(t)' = {} => c.status \in Terminales
    BY <1>1, <1>15, <2>4 DEF Acabada, c
  <2>6. Acabada(t)'
    BY <1>0, <1>1, <1>13, <2>1, <2>5 DEF Acabada
  <2> QED BY <1>12, <2>3, <2>6 DEF Noticia
<1> QED BY <1>14, <1>15

\* The text of the next group speaks of every interruption in it.
LEMMA SiguienteCompone ==
  ASSUME NEW todo \in SUBSET Tasks, aviso' \in Siguiente(todo), task' = task
  PROVE  \A t \in Tasks : Compuesto(t)'
<1>1. CASE todo = {}
  <2>1. aviso'.pc = "done"
    BY <1>1 DEF Siguiente, AvisoApagado
  <2> QED BY <2>1 DEF Compuesto
<1>2. CASE todo # {}
  <2>1. PICK s \in {ScopeOf[t] : t \in todo} :
          aviso' = [pc |-> "talking", todo |-> todo \ {t \in todo : ScopeOf[t] = s},
                    now |-> {t \in todo : ScopeOf[t] = s},
                    body |-> {<<t, task[t].used>> :
                                t \in {u \in {t \in todo : ScopeOf[t] = s} : task[u].status \in PorAvisar}}]
    BY <1>2 DEF Siguiente
  <2>2. /\ aviso'.now = {t \in todo : ScopeOf[t] = s}
        /\ aviso'.body = {<<t, task[t].used>> :
                            t \in {u \in {t \in todo : ScopeOf[t] = s} : task[u].status \in PorAvisar}}
    BY <2>1
  <2>3. \A t \in aviso'.now : task[t].status = "interrupted" => <<t, task[t].used>> \in aviso'.body
    BY <2>2 DEF PorAvisar
  <2> QED BY <2>3 DEF Compuesto
<1> QED BY <1>1, <1>2

\* The notice marks, and takes out, exactly what its text spoke of.
LEMMA AvisoNoticia ==
  ASSUME Coherente, Marcha, Libro, Sano, Noticias, AvisarTrasArranque \/ AvisoStep
  PROVE  Noticias'
<1> USE DEF process, legvars, apivars, durable, history
<1>0. /\ TypeOK /\ task \in [Tasks -> Record] /\ rows \in [Tasks -> Record]
      /\ aviso \in Notice /\ tasks \subseteq Tasks
      /\ \A u \in Tasks : Noticia(u)
  BY DEF Coherente, TypeOK, Noticias
<1>1. CASE MarcarAvisadas
  <2> DEFINE w == [to |-> aviso.now, set |-> Notified, by |-> "aviso", leg |-> 0]
  <2>0. PICK k : k = Len(disk) + 1
    OBVIOUS
  <2>1. w \in Statement /\ w.set.status = Keep /\ w.to = aviso.now
    BY <1>0, OtherChange, QueueAssumption DEF Statement, Notice
  <2>2. /\ disk' = Append(disk, w) /\ aviso.pc = "talking"
        /\ asked' = asked \cup aviso.body
        /\ UNCHANGED <<phase, store, registrando, rows>>
        /\ tasks' = tasks \ {u \in aviso.now : task[u].status = "interrupted"}
        /\ aviso' = [aviso EXCEPT !.pc = "saving"]
    BY <1>1 DEF MarcarAvisadas
  <2>3. aviso'.pc = "saving"
    BY <1>0, <2>2 DEF Notice
  <2> HIDE DEF w
  <2>4. \A u \in Tasks : /\ Pendientes(u)' = Pendientes(u) /\ \A i \in Pendientes(u) : disk'[i] = disk[i]
                         /\ Pendientes(u) \subseteq 1 .. Len(disk) /\ Len(disk) \in Nat
    BY <1>0, <2>1, <2>2, PendientesAppend DEF Pendientes
  <2>5. \A u \in Tasks : /\ \A i \in Marcas(u)' : i \in Marcas(u) \/ (i = k /\ u \in aviso.now)
                         /\ u \notin aviso.now => Marcas(u)' = Marcas(u)
    <3> SUFFICES ASSUME NEW u \in Tasks
                 PROVE  /\ \A i \in Marcas(u)' : i \in Marcas(u) \/ (i = k /\ u \in aviso.now)
                        /\ u \notin aviso.now => Marcas(u)' = Marcas(u)
      OBVIOUS
    <3> QED BY <1>0, <2>0, <2>1, <2>2, MarcasAppend
  <2>6. \A u \in Tasks : Mismo(u)
    <3>1. \A u \in Tasks : /\ Apply(task[u], Notified).status = task[u].status
                           /\ Apply(task[u], Notified).used = task[u].used
      BY <1>0, OtherChange, ApplyKeep
    <3>2. \A u \in Tasks : task'[u] \in {task[u], Apply(task[u], Notified)}
      BY <1>1 DEF MarcarAvisadas
    <3> QED BY <3>1, <3>2 DEF Mismo
  <2>7. Viva /\ Viva' /\ \A u \in Tasks : LibroDe(u) /\ Durable(u)
    <3>1. phase = "up"
      BY <2>2 DEF Marcha, Apagado
    <3> QED BY <2>2, <3>1, SanoDurable DEF Viva, Libro
  <2>8. ASSUME NEW u \in Tasks, u \notin aviso.now PROVE Noticia(u)'
    <3>1. Compuesto(u)' /\ (u \in tasks' <=> u \in tasks)
      BY <2>2, <2>3, <2>8 DEF Compuesto
    <3> QED BY <1>0, <2>2, <2>4, <2>5, <2>6, <2>7, <2>8, <3>1, NoticiaIgual
  <2>9. ASSUME NEW u \in Tasks, u \in aviso.now PROVE Noticia(u)'
    <3>0. EnTabla(u) /\ PorContar(u) /\ Acabada(u) /\ Recien(u) /\ EnDict(u)
      BY <1>0, <2>7 DEF Noticia, LibroDe
    <3>1. u \in tasks /\ task[u].status = "interrupted" =>
            Pendientes(u) = {} /\ Cerrada(u) /\ Contada(u)'
      <4> SUFFICES ASSUME u \in tasks, task[u].status = "interrupted"
                   PROVE  Pendientes(u) = {} /\ Cerrada(u) /\ Contada(u)'
        OBVIOUS
      <4>1. Pendientes(u) = {} /\ <<u, task[u].used>> \in aviso.body
        BY <2>2, <2>7, <2>9, <3>0 DEF PorContar
      <4>2. rows[u].status = task[u].status /\ rows[u].used = task[u].used
        BY <3>0, <4>1 DEF EnDict
      <4> QED BY <2>2, <4>1, <4>2 DEF Cerrada, Contada
    <3>2. Cerrada(u) => Contada(u)' \/ Pendientes(u) # {}
      <4> SUFFICES ASSUME Cerrada(u), Pendientes(u) = {} PROVE Contada(u)'
        OBVIOUS
      <4>1. CASE u \in registrando
        BY <3>0, <4>1 DEF Recien, Cerrada
      <4>2. CASE u \in tasks
        <5>1. task[u].status = "interrupted"
          BY <3>0, <4>2 DEF EnDict, Cerrada
        <5> QED BY <3>1, <4>2, <5>1
      <4>3. CASE u \notin tasks \cup registrando
        <5>1. Contada(u)
          BY <2>7, <3>0, <4>3 DEF Acabada, Cerrada, Terminales, Absent
        <5> QED BY <2>2, <5>1 DEF Contada
      <4> QED BY <4>1, <4>2, <4>3
    <3>3. \A j \in Pendientes(u) : j < k
      BY <2>0, <2>4
    <3>4. EnTabla(u)'
      <4>1. ASSUME Cerrada(u)', rows'[u].notified PROVE Contada(u)'
        BY <2>2, <3>0, <4>1 DEF EnTabla, Cerrada, Contada
      <4>2. ASSUME NEW i \in Marcas(u)', Cerrada(u)'
            PROVE  Contada(u)' \/ \E j \in Pendientes(u)' : j < i
        <5>1. CASE i \in Marcas(u)
          BY <2>2, <2>4, <3>0, <4>2, <5>1 DEF EnTabla, Cerrada, Contada
        <5>2. CASE i = k
          BY <2>2, <2>4, <3>2, <3>3, <4>2, <5>2 DEF Cerrada
        <5> QED BY <2>5, <5>1, <5>2
      <4>3. \A i \in Pendientes(u)' : disk'[i].set.status # "interrupted"
        BY <2>4, <3>0 DEF EnTabla
      <4> QED BY <4>1, <4>2, <4>3 DEF EnTabla
    <3>5. PorContar(u)'
      BY <2>2, <2>3, <2>4, <2>6, <2>7, <3>0 DEF PorContar, Mismo
    <3>6. Acabada(u)'
      <4>1. CASE u \in tasks
        BY <2>2, <2>4, <3>1, <4>1 DEF Acabada, Cerrada
      <4>2. CASE u \notin tasks
        BY <2>2, <2>4, <2>7, <3>0, <4>2 DEF Acabada, Cerrada, Contada
      <4> QED BY <4>1, <4>2
    <3> QED BY <3>4, <3>5, <3>6 DEF Noticia
  <2> QED BY <2>8, <2>9 DEF Noticias
<1>2. CASE ~MarcarAvisadas
  <2>1. UNCHANGED <<phase, registrando, tasks, task, rows, disk, asked>>
    BY <1>2 DEF AvisarTrasArranque, AvisoStep, AvisoGuardado, AvisoFallido
  <2>2. \E todo \in SUBSET Tasks : aviso' \in Siguiente(todo)
    <3>1. aviso.todo \in SUBSET Tasks
      BY <1>0 DEF Notice
    <3>2. {t \in tasks : /\ ~task[t].notified /\ task[t].status \in PorAvisar
                         /\ ScopeOf[t] \notin Silent} \in SUBSET Tasks
      BY <1>0
    <3> QED BY <1>2, <3>1, <3>2 DEF AvisarTrasArranque, AvisoStep, AvisoGuardado, AvisoFallido
  <2>3. \A u \in Tasks : Compuesto(u)'
    BY <2>1, <2>2, SiguienteCompone
  <2>4. \A u \in Tasks : Pendientes(u)' = Pendientes(u) /\ Marcas(u)' = Marcas(u)
    BY <2>1 DEF Pendientes, Marcas
  <2> QED BY <1>0, <2>1, <2>3, <2>4, NoticiaIgual DEF Noticias, Mismo, Viva
<1> QED BY <1>1, <1>2

\* A start brings back every row that is neither terminal nor told.
LEMMA ArranqueNoticia ==
  ASSUME SinFallos, Coherente, Marcha, Sano, Noticias, Start PROVE Noticias'
<1> USE DEF process, legvars, apivars, durable, history
<1>0. /\ TypeOK /\ rows \in [Tasks -> Record] /\ MaxFaults = 0 /\ faults = 0
      /\ phase = "down" /\ phase' = "up" /\ disk = <<>>
      /\ UNCHANGED <<disk, registrando, aviso, asked>> /\ aviso.pc = "off"
      /\ \A u \in Tasks : EnTabla(u)
  BY DEF Coherente, TypeOK, Noticias, Noticia, Sano, SinFallos, Start, Marcha, Apagado
<1>1. PICK failed \in SUBSET {t \in Tasks : rows[t].status \in Huerfana},
           gone \in SUBSET {t \in Tasks : Retention /\ Podable(rows[t])},
           rehydrates \in BOOLEAN :
        /\ faults' = faults + Fallo(failed # {}) + Fallo(~rehydrates)
        /\ faults' <= MaxFaults
        /\ rows' = [t \in Tasks |-> Barrida(t, failed, gone)]
        /\ tasks' = {t \in Tasks : rehydrates /\ Rehidratable(rows'[t])}
  <2>1. ~(faults < MaxFaults)
    BY <1>0
  <2> QED BY <2>1, Zenon DEF Start
<1>2. failed = {} /\ rehydrates
  BY <1>0, <1>1 DEF Fallo
<1>3. \A u \in Tasks : Pendientes(u)' = {} /\ Marcas(u)' = {}
  BY <1>0 DEF Pendientes, Marcas
<1> SUFFICES ASSUME NEW u \in Tasks PROVE Noticia(u)'
  BY DEF Noticias
<1>4. \/ rows'[u] = NoRecord
      \/ rows[u].status \in Huerfana /\ rows'[u] = Apply(rows[u], Cierre(rows[u].status))
      \/ rows[u].status \notin Huerfana /\ rows'[u] = rows[u]
  BY <1>1, <1>2 DEF Barrida
<1>5. ASSUME NEW r \in Record, NEW s
      PROVE  /\ Apply(r, Cierre(s)).status \in {"delivery_failed", "interrupted"}
             /\ Apply(r, Cierre(s)).notified = FALSE
  BY CierreEfecto
<1>6. rows[u] \in Record
  BY <1>0
<1>7. NoRecord.status = Absent
  BY DEF NoRecord
<1>8. rows'[u].status \in (Status \cup {Absent}) \ Huerfana
  <2>1. rows[u].status \in Status \cup {Absent}
    BY <1>6 DEF Record
  <2>2. {"delivery_failed", "interrupted", Absent} \subseteq (Status \cup {Absent}) \ Huerfana
    BY DEF Status, Huerfana, Absent
  <2> QED BY <1>4, <1>5, <1>6, <1>7, <2>1, <2>2
<1>9. Cerrada(u)' /\ rows'[u].notified => Contada(u)'
  <2>1. CASE rows'[u] = rows[u]
    BY <1>0, <2>1 DEF EnTabla, Cerrada, Contada
  <2>2. CASE rows'[u].notified = FALSE \/ rows'[u].status = Absent
    BY <2>2 DEF Cerrada, Absent
  <2> QED BY <1>4, <1>5, <1>6, <1>7, <2>1, <2>2
<1>10. EnTabla(u)'
  BY <1>3, <1>9 DEF EnTabla
<1>11. PorContar(u)'
  BY <1>0, <1>3 DEF PorContar
<1>12. Acabada(u)'
  <2> SUFFICES ASSUME u \notin tasks'
               PROVE  rows'[u].status \in Terminales \cup {Absent} \/ (Cerrada(u)' /\ Contada(u)')
    BY <1>3 DEF Acabada
  <2>1. ~Rehidratable(rows'[u])
    BY <1>1, <1>2
  <2>2. rows'[u].status \in Terminales \cup {Absent, "interrupted"}
    BY <1>8, <2>1 DEF Rehidratable, Status, Huerfana
  <2> QED BY <1>9, <2>1, <2>2 DEF Rehidratable, Cerrada
<1> QED BY <1>10, <1>11, <1>12 DEF Noticia

\* Noticias is inductive relative to the books.
LEMMA PasoNoticias ==
  ASSUME SinFallos, Coherente, Coherente', Marcha, Libro, Sano, Noticias, [Next]_vars PROVE Noticias'
<1> USE DEF process, legvars, apivars, durable, history
<1>0. /\ TypeOK /\ rows \in [Tasks -> Record]
      /\ \A u \in Tasks : Noticia(u) /\ EnTabla(u)
  BY DEF Coherente, TypeOK, Noticias, Noticia
<1>1. CASE Calls \/ (\E t \in Tasks : ResumeStep(t))
  BY <1>1, LlamadaNoticia DEF Calls
<1>2. CASE \E t \in Tasks, n \in Legs : RunTask(t, n) \/ LegStep(t, n)
  BY <1>2, TramoNoticia
<1>3. CASE Escribir
  BY <1>3, EscribirNoticia
<1>4. CASE Loop \/ Stop \/ UNCHANGED vars
  <2>1. /\ UNCHANGED <<registrando, tasks, task, rows, disk, asked>>
        /\ aviso' = aviso \/ aviso' = AvisoApagado
        /\ Viva' => Viva
    BY <1>4 DEF Loop, Stop, vars, Viva
  <2>2. \A u \in Tasks : Pendientes(u)' = Pendientes(u) /\ Marcas(u)' = Marcas(u)
    BY <2>1 DEF Pendientes, Marcas
  <2>3. \A u \in Tasks : aviso' = aviso \/ Compuesto(u)'
    BY <2>1 DEF AvisoApagado, Compuesto
  <2> QED BY <1>0, <2>1, <2>2, <2>3, NoticiaIgual DEF Noticias, Mismo
<1>5. CASE AvisarTrasArranque \/ AvisoStep
  BY <1>5, AvisoNoticia
<1>6. CASE CortarHijos \/ ListarHuerfanas
  <2>1. UNCHANGED <<rows, disk, asked>> /\ ~Viva'
    BY <1>6 DEF CortarHijos, ListarHuerfanas, Viva
  <2>2. \A u \in Tasks : EnTabla(u)'
    BY <1>0, <2>1 DEF EnTabla, Cerrada, Contada, Pendientes, Marcas
  <2> QED BY <2>1, <2>2, NoticiaFuera DEF Noticias
<1>7. ASSUME NEW x \in sweep, CerrarHuerfana(x) PROVE Noticias'
  <2>1. /\ UNCHANGED asked /\ disk = <<>> /\ disk' = <<>> /\ ~Viva'
        /\ \A u \in Tasks : rows'[u] = rows[u] \/ rows'[u] = Apply(rows[u], Cierre(x[2]))
    BY <1>0, <1>7 DEF CerrarHuerfana, Viva
  <2>2. ASSUME NEW r \in Record, NEW s PROVE Apply(r, Cierre(s)).notified = FALSE
    BY CierreEfecto
  <2>3. ASSUME NEW u \in Tasks PROVE EnTabla(u)'
    <3>1. rows[u] \in Record /\ EnTabla(u)
      BY <1>0
    <3>2. rows'[u] = rows[u] \/ rows'[u].notified = FALSE
      BY <2>1, <2>2, <3>1
    <3>3. Pendientes(u)' = {} /\ Marcas(u)' = {}
      BY <2>1 DEF Pendientes, Marcas
    <3> QED BY <2>1, <3>1, <3>2, <3>3 DEF EnTabla, Cerrada, Contada
  <2> QED BY <2>1, <2>3, NoticiaFuera DEF Noticias
<1>8. CASE FinDelStop \/ Crash
  <2>1. UNCHANGED <<rows, asked>> /\ disk' = <<>> /\ ~Viva'
    BY <1>8 DEF FinDelStop, Crash, MemoriaPerdida, Viva
  <2>2. \A u \in Tasks : Pendientes(u)' = {} /\ Marcas(u)' = {}
    BY <2>1 DEF Pendientes, Marcas
  <2>3. \A u \in Tasks : EnTabla(u)'
    BY <1>0, <2>1, <2>2 DEF EnTabla, Cerrada, Contada
  <2> QED BY <2>1, <2>3, NoticiaFuera DEF Noticias
<1>9. CASE Start
  BY <1>9, ArranqueNoticia
<1> QED BY <1>1, <1>2, <1>3, <1>4, <1>5, <1>6, <1>7, <1>8, <1>9 DEF Next, StopStep

\* No delegation, no news.
LEMMA InicioNoticias == ASSUME Init PROVE Noticias
BY DEF Init, Noticias, Noticia, EnTabla, PorContar, Acabada, Viva, Cerrada, NoRecord, Absent,
   Pendientes, Marcas

\* Where no write fails, no delegation is lost: with the process up and nothing
\* in flight, each row is terminal, or driven by the queue, or closed as
\* interrupted and told to the parent; and a resume's answer is there for the
\* leg that runs it (_rehidratar, _avisar_conversacion, cancel, resume).
THEOREM NadieQuedaSinNoticia == ASSUME SinFallos PROVE Safety => []NadieSinNoticia
<1>1. Init => Noticias
  BY InicioNoticias
<1>2. (Coherente /\ Marcha /\ Libro /\ Sano /\ Oidos) /\ (Coherente /\ Marcha /\ Libro /\ Sano /\ Oidos)'
        /\ Noticias /\ [Next]_vars => Noticias'
  BY PasoNoticias
<1>3. Coherente /\ Marcha /\ Libro /\ Sano /\ Oidos /\ Noticias => NadieSinNoticia
  <2> SUFFICES ASSUME Marcha, Noticias PROVE NadieSinNoticia
    OBVIOUS
  <2>1. RespuestaLlega
    BY DEF Marcha, ConRespuesta
  <2>2. NadaSePierde
    <3> SUFFICES ASSUME phase = "up", disk = <<>>, NEW t \in Tasks,
                        rows[t].status \notin Terminales \cup {Absent}, t \notin tasks \cup registrando
                 PROVE  rows[t].status = "interrupted" /\ <<t, rows[t].used>> \in asked
      BY DEF NadaSePierde
    <3>1. Pendientes(t) = {}
      BY DEF Pendientes
    <3> QED BY <3>1 DEF Noticias, Noticia, Acabada, Viva, Cerrada, Contada
  <2> QED BY <2>1, <2>2 DEF NadieSinNoticia
<1> QED BY <1>1, <1>2, <1>3, LoOidoQueda, PTL DEF Safety
-----------------------------------------------------------------------------
(***************************************************************************)
(* Proof that the table of the background queue implements                 *)
(* DelegationLifecycle: what its rows say moves as the lifecycle allows,   *)
(* whatever order the coroutines, the connection, the stops and the starts *)
(* take.  The proof follows the statements in flight: those of one         *)
(* delegation, applied in order to its row, are a path of the lifecycle.   *)
(***************************************************************************)

\* The daemon answers no turn of a parent while it stops.
SinTurnos == ~TurnsDuringStop

\* The moves that a statement of the queue makes.
Saltos == {<<"queued", "running">>, <<"running", "awaiting_input">>, <<"awaiting_input", "queued">>,
           <<"running", "delivering">>, <<"delivering", "delivered">>,
           <<"delivering", "delivery_failed">>, <<"queued", "cancelled">>, <<"running", "cancelled">>,
           <<"awaiting_input", "dismissed">>, <<"delivery_failed", "dismissed">>,
           <<"interrupted", "dismissed">>}

\* i is the oldest statement in flight of t; j is the next one after i.
Primera(t, i) == \A k \in Pendientes(t) : i <= k
Seguidas(t, i, j) == i < j /\ \A k \in Pendientes(t) : k <= i \/ j <= k

\* The row and the statements in flight of t, in order, are a path; a result
\* is written as delivered only when the parent heard it.
Cadena(t) ==
  /\ \A i \in Pendientes(t) :
       /\ Primera(t, i) => <<rows[t].status, disk[i].set.status>> \in Saltos
       /\ disk[i].set.status = "delivered" => told[t] = 1
  /\ \A i, j \in Pendientes(t) :
       Seguidas(t, i, j) => <<disk[i].set.status, disk[j].set.status>> \in Saltos

\* A statement that changes a status is of one row.
DeUno == \A i \in DOMAIN disk : disk[i].set.status # Keep => \E t \in Tasks : disk[i].to = {t}

\* What a stop listed is what it still finds when it closes it.
Listado == phase = "sweeping" => disk = <<>> /\ \A x \in sweep : rows[x[1]].status = x[2]

\* Every delegation has its path.
Cadenas == DeUno /\ Listado /\ \A t \in Tasks : Cadena(t)

\* A delegation without a new statement keeps its path.
LEMMA CadenaIgual ==
  ASSUME NEW t \in Tasks, Cadena(t), rows'[t].status = rows[t].status,
         told[t] = 1 => told'[t] = 1,
         Pendientes(t)' = Pendientes(t), \A i \in Pendientes(t) : disk'[i] = disk[i]
  PROVE  Cadena(t)'
BY DEF Cadena, Primera, Seguidas

\* Without statements in flight there is nothing to follow.
LEMMA CadenaVacia ==
  ASSUME NEW t \in Tasks, Pendientes(t)' = {} PROVE Cadena(t)'
BY DEF Cadena

\* A statement that goes on from the last status, or from the row's.
LEMMA CadenaEscrita ==
  ASSUME TypeOK, NEW t \in Tasks, Cadena(t), rows'[t] = rows[t], told[t] = 1 => told'[t] = 1,
         NEW k \in Nat, Pendientes(t) \subseteq 1 .. (k - 1),
         Pendientes(t)' = Pendientes(t) \cup {k}, \A i \in Pendientes(t) : disk'[i] = disk[i],
         disk'[k].set.status = "delivered" => told'[t] = 1,
         Pendientes(t) = {} => <<rows[t].status, disk'[k].set.status>> \in Saltos,
         \A i \in Pendientes(t) : (\A j \in Pendientes(t) : j <= i) =>
                                     <<disk[i].set.status, disk'[k].set.status>> \in Saltos
  PROVE  Cadena(t)'
<1>1. \A i \in Pendientes(t) : i \in Nat /\ i < k
  OBVIOUS
<1>2. ASSUME NEW i \in Pendientes(t)', Primera(t, i)'
      PROVE  <<rows'[t].status, disk'[i].set.status>> \in Saltos
  <2>1. \A j \in Pendientes(t) \cup {k} : i <= j
    BY <1>2 DEF Primera
  <2>2. CASE i \in Pendientes(t)
    BY <2>1, <2>2 DEF Cadena, Primera
  <2>3. CASE i = k
    <3>1. Pendientes(t) = {}
      BY <1>1, <2>1, <2>3
    <3> QED BY <2>3, <3>1
  <2> QED BY <2>2, <2>3
<1>3. ASSUME NEW i \in Pendientes(t)', NEW j \in Pendientes(t)', Seguidas(t, i, j)'
      PROVE  <<disk'[i].set.status, disk'[j].set.status>> \in Saltos
  <2>1. i < j /\ \A m \in Pendientes(t) \cup {k} : m <= i \/ j <= m
    BY <1>3 DEF Seguidas
  <2>2. i \in Pendientes(t)
    BY <1>1, <2>1
  <2>3. CASE j \in Pendientes(t)
    BY <2>1, <2>2, <2>3 DEF Cadena, Seguidas
  <2>4. CASE j = k
    <3>1. \A m \in Pendientes(t) : m <= i
      BY <1>1, <2>1, <2>4
    <3> QED BY <2>2, <2>4, <3>1
  <2> QED BY <2>3, <2>4
<1>4. \A i \in Pendientes(t)' : disk'[i].set.status = "delivered" => told'[t] = 1
  BY DEF Cadena
<1> QED BY <1>2, <1>3, <1>4 DEF Cadena

\* What a coroutine of a live delegation writes goes on from its object.
LEMMA CadenaPersistida ==
  ASSUME Coherente, Viva, Libro, Sano, NEW t \in tasks, Cadena(t), rows'[t] = rows[t],
         told[t] = 1 => told'[t] = 1,
         NEW c \in Change, c.status \in Status, c.status = "delivered" => told'[t] = 1,
         <<task[t].status, c.status>> \in Saltos,
         NEW by \in {"leg", "resume", "cancel"}, NEW n \in 0 .. Budget, Persistir(t, c, by, n)
  PROVE  Cadena(t)'
<1>0. PICK k : k = Len(disk) + 1
  OBVIOUS
<1>1. t \in Tasks /\ TypeOK /\ Durable(t) /\ c.status # Keep
  BY SanoDurable, StatusIsNotKeep DEF Coherente, TypeOK, Viva
<1>2. /\ Pendientes(t)' = Pendientes(t) \cup {k} /\ Len(disk) \in Nat
      /\ Pendientes(t) \subseteq 1 .. Len(disk)
      /\ \A i \in Pendientes(t) : disk'[i] = disk[i]
      /\ disk'[k] = [to |-> {t}, set |-> c, by |-> by, leg |-> n]
  BY <1>0, <1>1, PersistirAnota
<1>3. disk'[k].set = c
  BY <1>2
<1>4. /\ Pendientes(t) = {} => rows[t].status = task[t].status
      /\ \A i \in Pendientes(t) : (\A j \in Pendientes(t) : j <= i) => disk[i].set.status = task[t].status
  BY <1>1 DEF Libro, LibroDe, EnDict
<1>5. k \in Nat /\ Pendientes(t) \subseteq 1 .. (k - 1)
  BY <1>0, <1>2
<1> QED BY <1>1, <1>2, <1>3, <1>4, <1>5, CadenaEscrita

\* Persisted statements are of one row.
LEMMA DeUnoPersistir ==
  ASSUME TypeOK, DeUno, NEW t \in Tasks, NEW c \in Change,
         NEW by \in {"leg", "resume", "cancel"}, NEW n \in 0 .. Budget, Persistir(t, c, by, n)
  PROVE  DeUno'
<1> DEFINE w == [to |-> {t}, set |-> c, by |-> by, leg |-> n]
<1>1. CASE Durable(t)
  <2>1. w \in Statement /\ w.to = {t}
    BY DEF Statement
  <2>2. disk' = Append(disk, w) /\ disk \in Seq(Statement)
    BY <1>1 DEF Persistir, TypeOK
  <2> HIDE DEF w
  <2>3. /\ DOMAIN disk = 1 .. Len(disk) /\ Len(disk) \in Nat
        /\ DOMAIN disk' = (1 .. Len(disk)) \cup {Len(disk) + 1}
        /\ \A i \in 1 .. Len(disk) : disk'[i] = disk[i]
        /\ disk'[Len(disk) + 1] = w
    BY <2>1, <2>2
  <2> QED BY <2>1, <2>3 DEF DeUno
<1>2. CASE ~Durable(t)
  BY <1>2 DEF Persistir, DeUno
<1> QED BY <1>1, <1>2

-----------------------------------------------------------------------------
(***************************************************************************)
(* A step of the queue as a step of the lifecycle.                         *)
(***************************************************************************)
\* The step is one of the lifecycle, or leaves the statuses as they are.
Ciclo == [Lifecycle!Next]_(Lifecycle!vars)

\* A step that changes no status and tells nothing is a stutter of the
\* lifecycle.
LEMMA CicloIgual ==
  ASSUME \A u \in Tasks : rows'[u].status = rows[u].status, told' = told PROVE Ciclo
<1>1. [t \in Tasks |-> rows'[t].status] = [t \in Tasks |-> rows[t].status]
  OBVIOUS
<1> QED BY <1>1 DEF Ciclo, Lifecycle!vars

\* A statement moves its row as the lifecycle moves.
LEMMA CicloSaltado ==
  ASSUME NEW t \in Tasks, \A u \in Tasks \ {t} : rows'[u].status = rows[u].status, told' = told,
         <<rows[t].status, rows'[t].status>> \in Saltos, rows'[t].status = "delivered" => told[t] = 1
  PROVE  Ciclo
<1>1. [u \in Tasks |-> rows'[u].status]
        = [[u \in Tasks |-> rows[u].status] EXCEPT ![t] = rows'[t].status]
  OBVIOUS
<1>2. \/ Lifecycle!Run(t) \/ Lifecycle!Ask(t) \/ Lifecycle!Answer(t) \/ Lifecycle!Finish(t)
      \/ Lifecycle!Cancel(t) \/ Lifecycle!Dismiss(t) \/ Lifecycle!Undelivered(t) \/ Lifecycle!Deliver(t)
  <2>1. CASE rows[t].status = "queued" /\ rows'[t].status = "running"
    BY <1>1, <2>1 DEF Lifecycle!Run, Lifecycle!Move
  <2>2. CASE rows[t].status = "running" /\ rows'[t].status = "awaiting_input"
    BY <1>1, <2>2 DEF Lifecycle!Ask, Lifecycle!Move
  <2>3. CASE rows[t].status = "awaiting_input" /\ rows'[t].status = "queued"
    BY <1>1, <2>3 DEF Lifecycle!Answer, Lifecycle!Move
  <2>4. CASE rows[t].status = "running" /\ rows'[t].status = "delivering"
    BY <1>1, <2>4 DEF Lifecycle!Finish, Lifecycle!Move
  <2>5. CASE rows[t].status = "delivering" /\ rows'[t].status = "delivered"
    BY <1>1, <2>5 DEF Lifecycle!Deliver, Lifecycle!Move
  <2>6. CASE rows[t].status = "delivering" /\ rows'[t].status = "delivery_failed"
    BY <1>1, <2>6 DEF Lifecycle!Undelivered, Lifecycle!Move
  <2>7. CASE rows[t].status \in {"queued", "running"} /\ rows'[t].status = "cancelled"
    BY <1>1, <2>7 DEF Lifecycle!Cancel, Lifecycle!Move, Lifecycle!Cut
  <2>8. CASE /\ rows[t].status \in {"awaiting_input", "delivery_failed", "interrupted"}
             /\ rows'[t].status = "dismissed"
    BY <1>1, <2>8 DEF Lifecycle!Dismiss, Lifecycle!Move, Lifecycle!Pending
  <2> QED BY <2>1, <2>2, <2>3, <2>4, <2>5, <2>6, <2>7, <2>8 DEF Saltos
<1> QED BY <1>2 DEF Ciclo, Lifecycle!Next

\* What a stop or a start does to every row.
LEMMA CicloBarrido ==
  ASSUME told' = told,
         \A u \in Tasks :
           \/ rows'[u].status = rows[u].status
           \/ rows[u].status \in {"queued", "running"} /\ rows'[u].status = "interrupted"
           \/ rows[u].status = "delivering" /\ rows'[u].status = "delivery_failed"
           \/ Podable(rows[u]) /\ rows'[u].status = Absent,
         rows' \in [Tasks -> Record]
  PROVE  Ciclo
<1> DEFINE s == [t \in Tasks |-> rows'[t].status]
           r == [t \in Tasks |-> rows[t].status]
<1>1. s \in [Tasks -> Lifecycle!Statuses]
  <2>1. \A t \in Tasks : rows'[t].status \in Status \cup {Absent}
    BY DEF Record
  <2>2. Status \cup {Absent} \subseteq Lifecycle!Statuses
    BY DEF Status, Terminales, Absent, Lifecycle!Statuses, Lifecycle!Final, Lifecycle!Cut, Lifecycle!Pending
  <2> QED BY <2>1, <2>2
<1>2. \A t \in Tasks :
        \/ s[t] = r[t]
        \/ r[t] \in Lifecycle!Cut /\ s[t] \in {"interrupted", "absent"}
        \/ r[t] = "delivering" /\ s[t] = "delivery_failed"
        \/ r[t] \in Lifecycle!Final \cup {"interrupted", "awaiting_input"} /\ s[t] = "absent"
  BY DEF Podable, Terminales, Absent, Lifecycle!Final, Lifecycle!Cut
<1>3. Lifecycle!Restart
  BY <1>1, <1>2 DEF Lifecycle!Restart
<1> QED BY <1>3 DEF Ciclo, Lifecycle!Next

-----------------------------------------------------------------------------
(* The steps. *)

\* The statement of a leg goes on from the last one of its delegation.
LEMMA TramoCadena ==
  ASSUME Coherente, Marcha, Libro, Sano, Oidos, Cadenas, NEW t \in Tasks, NEW n \in Legs,
         RunTask(t, n) \/ LegStep(t, n)
  PROVE  Cadenas' /\ Ciclo
<1>0. /\ TypeOK /\ n \in 0 .. Budget /\ EnMarcha /\ DeUno /\ told \in [Tasks -> Nat]
      /\ \A u \in Tasks : Cadena(u)
  BY LegRange DEF Coherente, TypeOK, Marcha, Cadenas
<1>1. ASSUME NEW c \in Change, NEW place \in Pcs, EscribeTramo(t, n, c, place)
      PROVE  Cadenas' /\ Ciclo
  <2>1. /\ Persistir(t, c, "leg", n) /\ t \in tasks /\ Viva /\ Viva'
        /\ UNCHANGED <<phase, rows>>
    BY <1>1 DEF EscribeTramo, Transicionar, todas, Viva
  <2>2. /\ c.status \in {"running", "delivering", "awaiting_input", "delivered", "delivery_failed"}
        /\ c.status = "running" => pc[t][n] = "sem"
        /\ c.status = "delivering" =>
             /\ pc[t][n] \in {"child", "snapshot", "marking", "pausing"}
             /\ pc[t][n] = "pausing" => t \in sin_persistir
        /\ c.status = "awaiting_input" => pc[t][n] = "snapshot"
        /\ c.status \in {"delivered", "delivery_failed"} => pc[t][n] = "dispatching"
        /\ told' = IF c.status = "delivered" THEN [told EXCEPT ![t] = @ + 1] ELSE told
    BY <1>1, EscribeEfecto
  <2>3. c.status \in Status /\ Durable(t)
    BY <2>1, <2>2, SanoDurable DEF Status, Terminales, Viva
  <2>4. <<task[t].status, c.status>> \in Saltos
    <3>1. t \notin sin_persistir
      BY DEF Sano
    <3>2. /\ pc[t][n] = "sem" => task[t].status = "queued"
          /\ pc[t][n] \in {"child", "snapshot", "marking"} => task[t].status = "running"
          /\ pc[t][n] = "dispatching" => task[t].status = "delivering"
      BY <2>1 DEF Coherente, Contabilidad, UnTramoActivo, Callado, Previo
    <3> QED BY <2>2, <3>1, <3>2 DEF Saltos
  <2>5. c.status = "delivered" => /\ told[t] = 0 /\ rows[t].status = "delivering"
                                  /\ told' = [told EXCEPT ![t] = 1]
    <3> SUFFICES ASSUME c.status = "delivered"
                 PROVE  told[t] = 0 /\ rows[t].status = "delivering" /\ told' = [told EXCEPT ![t] = 1]
      OBVIOUS
    <3>1. pc[t][n] = "dispatching"
      BY <2>2
    <3>2. task[t].status = "delivering"
      BY <2>1, <3>1 DEF Coherente, Contabilidad, UnTramoActivo, Callado, Previo
    <3>3. told[t] = 0
      BY <2>1, <3>2 DEF Oidos, Oido
    <3>4. rows[t].status = "delivering"
      BY <2>3, <3>1, LibroBasta DEF PersistirAntesDeDespachar
    <3>5. 0 + 1 = 1
      OBVIOUS
    <3> QED BY <2>2, <3>3, <3>4, <3>5
  <2>6. /\ c.status = "delivered" => told'[t] = 1
        /\ \A u \in Tasks : told[u] = 1 => told'[u] = 1
    BY <1>0, <2>2, <2>5
  <2>7. Cadena(t)'
    <3>1. Cadena(t) /\ rows'[t] = rows[t] /\ t \in tasks
      BY <1>0, <2>1
    <3> QED BY <1>0, <2>1, <2>3, <2>4, <2>6, <3>1, CadenaPersistida
  <2>8. \A u \in Tasks \ {t} : Pendientes(u)' = Pendientes(u) /\ \A i \in Pendientes(u) : disk'[i] = disk[i]
    BY <1>0, <2>1, PersistirAnota
  <2>9. \A u \in Tasks \ {t} : Cadena(u)'
    BY <1>0, <2>1, <2>6, <2>8, CadenaIgual
  <2>10. DeUno' /\ Listado'
    BY <1>0, <2>1, DeUnoPersistir DEF Listado, Viva
  <2>11. Ciclo
    <3>1. CASE c.status = "delivered"
      <4>1. Lifecycle!Tell(t)
        BY <2>1, <2>5, <3>1 DEF Lifecycle!Tell
      <4> QED BY <4>1 DEF Ciclo, Lifecycle!Next
    <3>2. CASE c.status # "delivered"
      BY <2>1, <2>2, <3>2, CicloIgual
    <3> QED BY <3>1, <3>2
  <2> QED BY <2>7, <2>9, <2>10, <2>11 DEF Cadenas
<1>2. ASSUME NEW place \in Pcs, MueveTramo(t, n, place) PROVE Cadenas' /\ Ciclo
  <2>1. \/ disk' = disk
        \/ \E c \in {NoChange, Notified, TranscriptCut} : Persistir(t, c, "leg", n)
    BY <1>2, MueveEfecto
  <2>2. UNCHANGED <<phase, rows, told>> /\ Viva'
    BY <1>2 DEF MueveTramo, todas, Viva
  <2>3. /\ DeUno'
        /\ \A u \in Tasks : Pendientes(u)' = Pendientes(u) /\ \A i \in Pendientes(u) : disk'[i] = disk[i]
    <3>1. CASE disk' = disk
      BY <1>0, <3>1 DEF Pendientes, DeUno
    <3>2. ASSUME NEW c \in {NoChange, Notified, TranscriptCut}, Persistir(t, c, "leg", n)
          PROVE  /\ DeUno'
                 /\ \A u \in Tasks : Pendientes(u)' = Pendientes(u) /\ \A i \in Pendientes(u) : disk'[i] = disk[i]
      <4>1. c \in Change /\ c.status = Keep
        BY <3>2, OtherChange
      <4>2. \A u \in Tasks : Pendientes(u)' = Pendientes(u) /\ \A i \in Pendientes(u) : disk'[i] = disk[i]
        BY <1>0, <3>2, <4>1, PersistirAnota
      <4>3. DeUno'
        BY <1>0, <3>2, <4>1, DeUnoPersistir
      <4> QED BY <4>2, <4>3
    <3> QED BY <2>1, <3>1, <3>2
  <2>4. \A u \in Tasks : Cadena(u)'
    BY <1>0, <2>2, <2>3, CadenaIgual
  <2> QED BY <2>2, <2>3, <2>4, CicloIgual DEF Cadenas, Listado, Viva
<1>3. CASE AcabaTramo(t, n)
  <2>1. UNCHANGED <<phase, rows, disk, told>> /\ Viva'
    BY <1>3 DEF AcabaTramo, todas, Viva
  <2>2. \A u \in Tasks : Pendientes(u)' = Pendientes(u)
    BY <2>1 DEF Pendientes
  <2>3. \A u \in Tasks : Cadena(u)'
    BY <1>0, <2>1, <2>2, CadenaIgual
  <2> QED BY <1>0, <2>1, <2>3, CicloIgual DEF Cadenas, Listado, DeUno, Viva
<1> QED BY <1>0, <1>1, <1>2, <1>3, TramoEscribeOMueve

\* So does the statement of a call; an INSERT makes a row of its own.
LEMMA LlamadaCadena ==
  ASSUME SinFallos, SinTurnos, Coherente, Marcha, Libro, Sano, Cadenas, NEW t \in Tasks,
         \/ Registrar(t) \/ Enqueue(t) \/ EnqueueEnMemoria(t)
         \/ Cancel(t) \/ CancelDeTerminada(t) \/ Resume(t) \/ ResumeStep(t)
  PROVE  Cadenas' /\ Ciclo
<1> USE DEF process, legvars, apivars, durable, history
<1>0. /\ TypeOK /\ task \in [Tasks -> Record] /\ rows \in [Tasks -> Record] /\ 0 \in 0 .. Budget
      /\ DeUno /\ Listado /\ \A u \in Tasks : Cadena(u)
  BY Tipos DEF Cadenas
<1>1. CASE Registrar(t)
  <2>1. /\ rows'[t] = NewTask /\ \A x \in Tasks \ {t} : rows'[x] = rows[x]
        /\ rows[t].status = Absent /\ phase = "up" /\ Viva
        /\ UNCHANGED <<phase, sweep, disk, told>>
    BY <1>0, <1>1 DEF Registrar, Nueva, MayCall, SinTurnos, Viva
  <2>2. \A x \in Tasks : Pendientes(x)' = Pendientes(x)
    BY <2>1 DEF Pendientes
  <2>3. Pendientes(t)' = {}
    BY <2>1, <2>2 DEF Libro, LibroDe, Anotada
  <2>4. \A u \in Tasks : Cadena(u)'
    BY <1>0, <2>1, <2>2, <2>3, CadenaIgual, CadenaVacia
  <2>5. Ciclo
    <3>1. NewTask.status = "queued"
      BY DEF NewTask, NoRecord
    <3>2. [u \in Tasks |-> rows'[u].status] = [[u \in Tasks |-> rows[u].status] EXCEPT ![t] = "queued"]
      BY <2>1, <3>1
    <3>3. Lifecycle!Register(t)
      BY <2>1, <3>2 DEF Lifecycle!Register, Lifecycle!Move, Absent
    <3> QED BY <3>3 DEF Ciclo, Lifecycle!Next
  <2> QED BY <1>0, <2>1, <2>4, <2>5 DEF Cadenas, DeUno, Listado
<1>2. ASSUME UNCHANGED <<rows, disk, sweep, told, phase>> PROVE Cadenas' /\ Ciclo
  <2>1. \A u \in Tasks : Pendientes(u)' = Pendientes(u)
    BY <1>2 DEF Pendientes
  <2>2. \A u \in Tasks : Cadena(u)'
    BY <1>0, <1>2, <2>1, CadenaIgual
  <2> QED BY <1>0, <1>2, <2>2, CicloIgual DEF Cadenas, DeUno, Listado
<1>3. CASE Enqueue(t) \/ EnqueueEnMemoria(t) \/ Resume(t)
  BY <1>2, <1>3 DEF Enqueue, EnqueueEnMemoria, Resume
<1>4. ASSUME NEW c \in Change, NEW by \in {"resume", "cancel"}, Persistir(t, c, by, 0), t \in tasks,
             phase = "up", c.status \in Status \ {"delivered"}, <<task[t].status, c.status>> \in Saltos,
             UNCHANGED <<phase, rows, told>>
      PROVE  Cadenas' /\ Ciclo
  <2>1. TypeOK /\ Viva /\ Persistir(t, c, by, 0) /\ by \in {"leg", "resume", "cancel"} /\ 0 \in 0 .. Budget
    BY <1>0, <1>4 DEF Viva
  <2>2. Cadena(t)'
    <3>1. Cadena(t) /\ rows'[t] = rows[t] /\ (told[t] = 1 => told'[t] = 1) /\ c.status # "delivered"
      BY <1>0, <1>4
    <3> QED BY <1>4, <2>1, <3>1, CadenaPersistida
  <2>3. \A u \in Tasks \ {t} : Pendientes(u)' = Pendientes(u) /\ \A i \in Pendientes(u) : disk'[i] = disk[i]
    BY <2>1, PersistirAjena
  <2>4. \A u \in Tasks \ {t} : Cadena(u)'
    BY <1>0, <1>4, <2>3, CadenaIgual
  <2>5. DeUno'
    BY <1>0, <2>1, DeUnoPersistir
  <2> QED BY <1>4, <2>2, <2>4, <2>5, CicloIgual DEF Cadenas, Listado
<1>5. CASE Cancel(t)
  <2>1. /\ t \in tasks /\ MayCall
        /\ UNCHANGED <<phase, rows, told>>
        /\ \E c \in Change :
             /\ Persistir(t, c, "cancel", 0)
             /\ \/ c.status = "dismissed" /\ task[t].status \in {"awaiting_input", "delivery_failed", "interrupted"}
                \/ c.status = "cancelled" /\ task[t].status \in {"queued", "running"}
    BY <1>5, CancelEfecto
  <2>2. PICK c \in Change :
             /\ Persistir(t, c, "cancel", 0)
             /\ \/ c.status = "dismissed" /\ task[t].status \in {"awaiting_input", "delivery_failed", "interrupted"}
                \/ c.status = "cancelled" /\ task[t].status \in {"queued", "running"}
    BY <2>1
  <2>3. c.status \in Status \ {"delivered"} /\ <<task[t].status, c.status>> \in Saltos /\ phase = "up"
    BY <2>1, <2>2 DEF Status, Terminales, Saltos, MayCall, SinTurnos
  <2> QED BY <1>4, <2>1, <2>2, <2>3
<1>6. CASE CancelDeTerminada(t)
  <2> DEFINE w == [to |-> {t}, set |-> ToDismissed, by |-> "row", leg |-> 0]
  <2>0. PICK k : k = Len(disk) + 1
    OBVIOUS
  <2>1. w \in Statement /\ w.to = {t} /\ w.set = ToDismissed
    BY <1>0, OtherChange DEF Statement
  <2>2. /\ disk' = Append(disk, w) /\ rows[t].status = "awaiting_input" /\ phase = "up"
        /\ ~\E i \in DOMAIN disk : t \in disk[i].to
        /\ UNCHANGED <<phase, rows, told>>
    BY <1>6 DEF CancelDeTerminada, MayCall, SinTurnos
  <2>3. ToDismissed.status = "dismissed" /\ "dismissed" # Keep /\ "dismissed" # "delivered"
    BY OtherChange, StatusIsNotKeep DEF Status, Terminales
  <2> HIDE DEF w
  <2>4. ASSUME NEW x \in Tasks
        PROVE  /\ x # t => Pendientes(x)' = Pendientes(x)
               /\ Pendientes(t)' = Pendientes(t) \cup {k}
               /\ disk'[k] = w
               /\ \A i \in DOMAIN disk : disk'[i] = disk[i]
    BY <1>0, <2>0, <2>1, <2>2, <2>3, <2>4, PendientesAppend
  <2>5. \A u \in Tasks \ {t} : Cadena(u)'
    BY <1>0, <2>2, <2>4, CadenaIgual DEF Pendientes
  <2>6. Pendientes(t)' = {k} /\ disk'[k].set.status = "dismissed" /\ k \in Nat
    <3>1. Pendientes(t) = {} /\ disk \in Seq(Statement)
      BY <1>0, <2>2 DEF Pendientes, TypeOK
    <3> QED BY <2>0, <2>1, <2>3, <2>4, <3>1
  <2>7. Cadena(t)'
    <3>1. <<rows'[t].status, disk'[k].set.status>> \in Saltos /\ disk'[k].set.status # "delivered"
      BY <2>2, <2>3, <2>6 DEF Saltos
    <3>2. ~(k < k)
      BY <2>6
    <3>3. \A i, j \in Pendientes(t)' : ~Seguidas(t, i, j)'
      BY <2>6, <3>2 DEF Seguidas
    <3> QED BY <2>6, <3>1, <3>3 DEF Cadena
  <2>8. DeUno'
    <3>1. disk \in Seq(Statement)
      BY <1>0 DEF TypeOK
    <3>2. /\ DOMAIN disk' = (DOMAIN disk) \cup {k} /\ k \notin DOMAIN disk
          /\ \A i \in DOMAIN disk : disk'[i] = disk[i]
          /\ disk'[k] = w
      BY <2>0, <2>1, <2>2, <3>1
    <3> QED BY <1>0, <2>1, <3>2 DEF DeUno
  <2> QED BY <2>2, <2>5, <2>7, <2>8, CicloIgual DEF Cadenas, Listado
<1>7. CASE ResumeStep(t)
  <2>1. CASE Reencolar(t)
    <3>1. /\ phase = "up" /\ Persistir(t, ToQueuedAgain, "resume", 0) /\ SigueEsperando(t)
          /\ UNCHANGED <<phase, rows, told>>
      BY <2>1 DEF Reencolar
    <3>2. /\ ToQueuedAgain \in Change /\ ToQueuedAgain.status \in Status \ {"delivered"}
          /\ t \in tasks /\ <<task[t].status, ToQueuedAgain.status>> \in Saltos
      BY <3>1, OtherChange DEF Status, Terminales, Saltos, SigueEsperando
    <3> QED BY <1>4, <3>1, <3>2
  <2>2. CASE ~Reencolar(t)
    <3>1. ~ReaperturaFallida(t)
      <4>1. ~(faults < MaxFaults)
        BY DEF SinFallos, Sano
      <4> QED BY <4>1 DEF ReaperturaFallida
    <3> QED BY <1>2, <1>7, <2>2, <3>1 DEF ResumeStep, Reanudada, ReanudarTarde, ReaperturaMarcada
  <2> QED BY <2>1, <2>2
<1> QED BY <1>1, <1>3, <1>5, <1>6, <1>7

\* One statement is applied: its row makes the move that it carries.
LEMMA EscribirCadena ==
  ASSUME SinFallos, Coherente, Sano, Cadenas, Escribir PROVE Cadenas' /\ Ciclo
<1> USE DEF process, legvars, apivars, durable, history
<1>0. /\ TypeOK /\ disk # <<>> /\ disk' = Tail(disk) /\ disk \in Seq(Statement)
      /\ UNCHANGED <<phase, told>> /\ rows \in [Tasks -> Record]
      /\ faults = 0 /\ MaxFaults = 0 /\ phase # "sweeping"
      /\ DeUno /\ \A u \in Tasks : Cadena(u)
  BY DEF Escribir, Coherente, TypeOK, Sano, SinFallos, Cadenas, Listado
<1> DEFINE c == disk[1].set
<1>1. ASSUME NEW u \in Tasks
      PROVE  /\ \A i \in Pendientes(u)' : i \in Nat \ {0} /\ i + 1 \in Pendientes(u) /\ disk'[i] = disk[i + 1]
             /\ \A i \in Pendientes(u) : i = 1 \/ (i - 1 \in Pendientes(u)' /\ disk'[i - 1] = disk[i])
             /\ \A i \in Pendientes(u) : i \in Nat
             /\ Head(disk) = disk[1] /\ disk[1] \in Statement /\ 1 \in DOMAIN disk
  BY <1>0, PendientesTail
<1>2. /\ DOMAIN disk = 1 .. Len(disk) /\ Len(disk) \in Nat \ {0} /\ Head(disk) = disk[1] /\ disk[1] \in Statement
      /\ DOMAIN disk' = 1 .. (Len(disk) - 1) /\ 1 \in DOMAIN disk
      /\ \A i \in 1 .. (Len(disk) - 1) : disk'[i] = disk[i + 1] /\ i + 1 \in 1 .. Len(disk)
  BY <1>0
<1>3. DeUno'
  BY <1>0, <1>2 DEF DeUno
<1>4. c \in Change
  BY <1>2 DEF Statement
<1>5. \A u \in Tasks : rows'[u] = IF u \in disk[1].to /\ rows[u].status # Absent
                                  THEN Apply(rows[u], c) ELSE rows[u]
  BY <1>0, <1>2 DEF Escribir
<1>6. \A u \in Tasks : Apply(rows[u], c).status = IF c.status = Keep THEN rows[u].status ELSE c.status
  BY <1>0, <1>4, ApplyRecord
<1>7. \A u \in Tasks : 1 \in Pendientes(u) <=> u \in disk[1].to /\ c.status # Keep
  BY <1>2 DEF Pendientes
<1> HIDE DEF c
<1>8. ASSUME NEW u \in Tasks, 1 \in Pendientes(u)
      PROVE  /\ <<rows[u].status, c.status>> \in Saltos /\ rows'[u].status = c.status
             /\ c.status = "delivered" => told[u] = 1
  <2>1. Primera(u, 1)
    <3>1. \A k \in Pendientes(u) : k = 1 \/ k - 1 \in Nat \ {0}
      BY <1>1
    <3>2. \A k \in Pendientes(u) : k \in Nat
      BY <1>1
    <3> QED BY <3>1, <3>2 DEF Primera
  <2>2. /\ <<rows[u].status, c.status>> \in Saltos
        /\ c.status = "delivered" => told[u] = 1
    BY <1>0, <1>8, <2>1 DEF Cadena, c
  <2>3. rows[u].status # Absent
    BY <2>2 DEF Saltos, Absent
  <2> QED BY <1>5, <1>6, <1>7, <1>8, <2>2, <2>3
<1>9. ASSUME NEW u \in Tasks, 1 \notin Pendientes(u) PROVE rows'[u].status = rows[u].status
  BY <1>5, <1>6, <1>7, <1>9
<1>10. ASSUME NEW u \in Tasks PROVE Cadena(u)'
  <2>0. Cadena(u)
    BY <1>0
  <2>1. ASSUME NEW i \in Pendientes(u)', Primera(u, i)'
        PROVE  <<rows'[u].status, disk'[i].set.status>> \in Saltos
    <3>0. \A k \in Pendientes(u)' : i <= k
      BY <2>1 DEF Primera
    <3>1. i + 1 \in Pendientes(u) /\ i \in Nat \ {0} /\ disk'[i] = disk[i + 1]
      BY <1>1
    <3>2. \A k \in Pendientes(u) : k = 1 \/ i + 1 <= k
      <4> SUFFICES ASSUME NEW k \in Pendientes(u), k # 1 PROVE i + 1 <= k
        OBVIOUS
      <4>1. k - 1 \in Pendientes(u)' /\ k \in Nat
        BY <1>1
      <4>2. i <= k - 1
        BY <3>0, <4>1
      <4> QED BY <3>1, <4>1, <4>2
    <3>3. CASE 1 \in Pendientes(u)
      <4>1. \A k \in Pendientes(u) : k <= 1 \/ i + 1 <= k
        BY <3>2
      <4>2. 1 < i + 1
        BY <3>1
      <4>3. Seguidas(u, 1, i + 1)
        BY <4>1, <4>2 DEF Seguidas
      <4>4. <<disk[1].set.status, disk[i + 1].set.status>> \in Saltos
        BY <2>0, <3>1, <3>3, <4>3 DEF Cadena
      <4> QED BY <1>8, <3>1, <3>3, <4>4 DEF c
    <3>4. CASE 1 \notin Pendientes(u)
      <4>1. Primera(u, i + 1)
        BY <3>2, <3>4 DEF Primera
      <4>2. <<rows[u].status, disk[i + 1].set.status>> \in Saltos
        BY <2>0, <3>1, <4>1 DEF Cadena
      <4> QED BY <1>9, <3>1, <3>4, <4>2
    <3> QED BY <3>3, <3>4
  <2>2. ASSUME NEW i \in Pendientes(u)', NEW j \in Pendientes(u)', Seguidas(u, i, j)'
        PROVE  <<disk'[i].set.status, disk'[j].set.status>> \in Saltos
    <3>0. i < j /\ \A k \in Pendientes(u)' : k <= i \/ j <= k
      BY <2>2 DEF Seguidas
    <3>1. /\ i + 1 \in Pendientes(u) /\ i \in Nat \ {0} /\ disk'[i] = disk[i + 1]
          /\ j + 1 \in Pendientes(u) /\ j \in Nat \ {0} /\ disk'[j] = disk[j + 1]
      BY <1>1
    <3>2. \A k \in Pendientes(u) : k <= i + 1 \/ j + 1 <= k
      <4> SUFFICES ASSUME NEW k \in Pendientes(u) PROVE k <= i + 1 \/ j + 1 <= k
        OBVIOUS
      <4>1. k \in Nat /\ (k = 1 \/ k - 1 \in Pendientes(u)')
        BY <1>1
      <4>2. k = 1 \/ k - 1 <= i \/ j <= k - 1
        BY <3>0, <4>1
      <4> QED BY <3>1, <4>1, <4>2
    <3>3. Seguidas(u, i + 1, j + 1)
      BY <3>0, <3>1, <3>2 DEF Seguidas
    <3> QED BY <2>0, <3>1, <3>3 DEF Cadena
  <2>3. \A i \in Pendientes(u)' : disk'[i].set.status = "delivered" => told'[u] = 1
    <3> SUFFICES ASSUME NEW i \in Pendientes(u)', disk'[i].set.status = "delivered" PROVE told'[u] = 1
      OBVIOUS
    <3>1. i + 1 \in Pendientes(u) /\ disk'[i] = disk[i + 1]
      BY <1>1
    <3>2. told[u] = 1
      BY <2>0, <3>1 DEF Cadena
    <3> QED BY <1>0, <3>2
  <2> QED BY <2>1, <2>2, <2>3 DEF Cadena
<1>11. Ciclo
  <2>1. CASE \A u \in Tasks : 1 \notin Pendientes(u)
    BY <1>0, <1>9, <2>1, CicloIgual
  <2>2. ASSUME NEW t \in Tasks, 1 \in Pendientes(t) PROVE Ciclo
    <3>1. t \in disk[1].to /\ c.status # Keep
      BY <1>7, <2>2
    <3>2. PICK x \in Tasks : disk[1].to = {x}
      BY <1>0, <1>2, <3>1 DEF DeUno, c
    <3>3. \A u \in Tasks \ {t} : rows'[u].status = rows[u].status
      BY <1>7, <1>9, <3>1, <3>2
    <3>4. /\ <<rows[t].status, rows'[t].status>> \in Saltos
          /\ rows'[t].status = "delivered" => told[t] = 1
      BY <1>8, <2>2
    <3> QED BY <1>0, <3>3, <3>4, CicloSaltado
  <2> QED BY <2>1, <2>2
<1> QED BY <1>0, <1>3, <1>10, <1>11 DEF Cadenas, Listado

\* The notice writes no status.
LEMMA AvisoCadena ==
  ASSUME Coherente, Marcha, Cadenas, AvisarTrasArranque \/ AvisoStep PROVE Cadenas' /\ Ciclo
<1> USE DEF process, legvars, apivars, durable, history
<1>0. /\ TypeOK /\ aviso \in Notice /\ disk \in Seq(Statement) /\ phase = "up"
      /\ UNCHANGED <<phase, rows, told>> /\ DeUno /\ \A u \in Tasks : Cadena(u)
  BY DEF Coherente, TypeOK, Cadenas, Marcha, Apagado, AvisarTrasArranque, AvisoStep, MarcarAvisadas,
     AvisoGuardado, AvisoFallido
<1>1. /\ DeUno'
      /\ \A u \in Tasks : Pendientes(u)' = Pendientes(u) /\ \A i \in Pendientes(u) : disk'[i] = disk[i]
  <2>1. CASE MarcarAvisadas
    <3> DEFINE w == [to |-> aviso.now, set |-> Notified, by |-> "aviso", leg |-> 0]
    <3>1. w \in Statement /\ w.set.status = Keep
      BY <1>0, OtherChange, QueueAssumption DEF Statement, Notice
    <3>2. disk' = Append(disk, w)
      BY <2>1 DEF MarcarAvisadas
    <3> HIDE DEF w
    <3>3. \A u \in Tasks : Pendientes(u)' = Pendientes(u) /\ \A i \in Pendientes(u) : disk'[i] = disk[i]
      BY <1>0, <3>1, <3>2, PendientesAppend DEF Pendientes
    <3>4. DeUno'
      <4>1. /\ DOMAIN disk = 1 .. Len(disk) /\ Len(disk) \in Nat
            /\ DOMAIN disk' = (1 .. Len(disk)) \cup {Len(disk) + 1}
            /\ \A i \in 1 .. Len(disk) : disk'[i] = disk[i]
            /\ disk'[Len(disk) + 1] = w
        BY <1>0, <3>1, <3>2
      <4> QED BY <1>0, <3>1, <4>1 DEF DeUno
    <3> QED BY <3>3, <3>4
  <2>2. CASE ~MarcarAvisadas
    <3>1. UNCHANGED disk
      BY <2>2 DEF AvisarTrasArranque, AvisoStep, AvisoGuardado, AvisoFallido
    <3> QED BY <1>0, <3>1 DEF Pendientes, DeUno
  <2> QED BY <2>1, <2>2
<1>2. \A u \in Tasks : Cadena(u)'
  BY <1>0, <1>1, CadenaIgual
<1> QED BY <1>0, <1>1, <1>2, CicloIgual DEF Cadenas, Listado

\* A stop or a start writes with no statement in flight.
LEMMA CadenasSinVuelo ==
  ASSUME disk' = <<>>, Listado' PROVE Cadenas'
<1>1. \A u \in Tasks : Pendientes(u)' = {}
  BY DEF Pendientes
<1> QED BY <1>1, CadenaVacia DEF Cadenas, DeUno

\* A start and a stop write statuses with nothing in flight.
LEMMA BarridoCadena ==
  ASSUME Coherente, Coherente', Marcha, Cadenas,
         Start \/ FinDelStop \/ Crash \/ ListarHuerfanas \/ (\E x \in sweep : CerrarHuerfana(x))
  PROVE  Cadenas' /\ Ciclo
<1> USE DEF process, legvars, apivars, durable, history
<1>0. /\ rows \in [Tasks -> Record] /\ rows' \in [Tasks -> Record] /\ sweep \subseteq Tasks \X Huerfana
      /\ phase = "sweeping" => \A x \in sweep : rows[x[1]].status = x[2]
  BY DEF Coherente, TypeOK, Cadenas, Listado
<1>1. ASSUME NEW r \in Record, NEW s
      PROVE  Apply(r, Cierre(s)).status = IF s = "delivering" THEN "delivery_failed" ELSE "interrupted"
  <2>1. "delivery_failed" \in Status /\ "interrupted" \in Status
    BY DEF Status
  <2>2. /\ Cierre(s) \in Change
        /\ Cierre(s).status = IF s = "delivering" THEN "delivery_failed" ELSE "interrupted"
    BY <2>1, ToChange DEF Cierre
  <2> QED BY <2>1, <2>2, ApplyStatus
<1>2. CASE FinDelStop \/ Crash
  <2>1. disk' = <<>> /\ phase' = "down" /\ UNCHANGED <<rows, told>>
    BY <1>2 DEF FinDelStop, Crash, MemoriaPerdida
  <2>2. Listado'
    BY <2>1 DEF Listado
  <2> QED BY <2>1, <2>2, CadenasSinVuelo, CicloIgual
<1>3. CASE ListarHuerfanas
  <2>1. disk' = <<>> /\ UNCHANGED <<rows, told>>
    BY <1>3 DEF ListarHuerfanas
  <2>2. \A x \in sweep' : rows[x[1]].status = x[2]
    BY <1>3 DEF ListarHuerfanas
  <2>3. Listado'
    BY <2>1, <2>2 DEF Listado
  <2> QED BY <2>1, <2>3, CadenasSinVuelo, CicloIgual
<1>4. ASSUME NEW x \in sweep, CerrarHuerfana(x) PROVE Cadenas' /\ Ciclo
  <2>1. /\ phase = "sweeping" /\ disk' = <<>> /\ sweep' = sweep \ {x} /\ told' = told
        /\ \A u \in Tasks : rows'[u] = rows[u] \/ (u = x[1] /\ rows'[u] = Apply(rows[u], Cierre(x[2])))
    BY <1>0, <1>4 DEF CerrarHuerfana
  <2>2. x[1] \in Tasks /\ x[2] \in Huerfana /\ x = <<x[1], x[2]>> /\ rows[x[1]].status = x[2]
    BY <1>0, <2>1
  <2>3. \A y \in sweep' : rows'[y[1]].status = y[2]
    <3> SUFFICES ASSUME NEW y \in sweep' PROVE rows'[y[1]].status = y[2]
      OBVIOUS
    <3>1. /\ y \in sweep /\ y # x /\ y[1] \in Tasks /\ y = <<y[1], y[2]>>
          /\ rows[y[1]].status = y[2]
      BY <1>0, <2>1
    <3>2. y[1] # x[1]
      BY <2>2, <3>1
    <3> QED BY <2>1, <3>1, <3>2
  <2>4. Listado'
    BY <2>1, <2>3 DEF Listado
  <2>5. \A u \in Tasks : \/ rows'[u].status = rows[u].status
                         \/ rows[u].status \in {"queued", "running"} /\ rows'[u].status = "interrupted"
                         \/ rows[u].status = "delivering" /\ rows'[u].status = "delivery_failed"
    BY <1>0, <1>1, <2>1, <2>2 DEF Huerfana
  <2> QED BY <1>0, <2>1, <2>4, <2>5, CadenasSinVuelo, CicloBarrido
<1>5. CASE Start
  <2>1. /\ disk' = <<>> /\ phase' = "up" /\ told' = told
        /\ \A u \in Tasks :
             \/ rows'[u] = rows[u]
             \/ rows'[u] = NoRecord /\ Podable(rows[u])
             \/ rows[u].status \in Huerfana /\ rows'[u] = Apply(rows[u], Cierre(rows[u].status))
    BY <1>5 DEF Start, Barrida, Marcha, Apagado
  <2>2. NoRecord.status = Absent
    BY DEF NoRecord
  <2>3. \A u \in Tasks : \/ rows'[u].status = rows[u].status
                         \/ rows[u].status \in {"queued", "running"} /\ rows'[u].status = "interrupted"
                         \/ rows[u].status = "delivering" /\ rows'[u].status = "delivery_failed"
                         \/ Podable(rows[u]) /\ rows'[u].status = Absent
    BY <1>0, <1>1, <2>1, <2>2 DEF Huerfana
  <2>4. Listado'
    BY <2>1 DEF Listado
  <2> QED BY <1>0, <2>1, <2>3, <2>4, CadenasSinVuelo, CicloBarrido
<1> QED BY <1>2, <1>3, <1>4, <1>5

\* Every step of the queue keeps the paths and is a step of the lifecycle.
LEMMA PasoCiclo ==
  ASSUME SinFallos, SinTurnos, Coherente, Coherente', Marcha, Libro, Sano, Oidos, Cadenas, [Next]_vars
  PROVE  Cadenas' /\ Ciclo
<1> USE DEF process, legvars, apivars, durable, history
<1>1. CASE Calls \/ (\E t \in Tasks : ResumeStep(t))
  BY <1>1, LlamadaCadena DEF Calls
<1>2. CASE \E t \in Tasks, n \in Legs : RunTask(t, n) \/ LegStep(t, n)
  BY <1>2, TramoCadena
<1>3. CASE Escribir
  BY <1>3, EscribirCadena
<1>4. CASE AvisarTrasArranque \/ AvisoStep
  BY <1>4, AvisoCadena
<1>5. CASE Loop \/ Stop \/ CortarHijos \/ UNCHANGED vars
  <2>1. /\ UNCHANGED <<rows, disk, sweep, told>>
        /\ phase' = "sweeping" => phase = "sweeping"
    BY <1>5 DEF Loop, Stop, CortarHijos, vars
  <2>2. \A u \in Tasks : Pendientes(u)' = Pendientes(u)
    BY <2>1 DEF Pendientes
  <2>3. \A u \in Tasks : Cadena(u)'
    BY <2>1, <2>2, CadenaIgual DEF Cadenas
  <2> QED BY <2>1, <2>3, CicloIgual DEF Cadenas, DeUno, Listado
<1>6. CASE Start \/ FinDelStop \/ Crash \/ ListarHuerfanas \/ (\E x \in sweep : CerrarHuerfana(x))
  BY <1>6, BarridoCadena
<1> QED BY <1>1, <1>2, <1>3, <1>4, <1>5, <1>6 DEF Next, StopStep

\* bg_tasks implements DelegationLifecycle: where no write fails and no turn of
\* a parent runs while the daemon stops, the statuses of the rows and the
\* results told move only as the lifecycle allows (_registrar, _transicionar,
\* _cerrar_huerfanas, _rehidratar, the prune).
THEOREM LaTablaCumpleElCiclo ==
  ASSUME SinFallos, SinTurnos PROVE Safety => CumpleElCicloDeVida
<1>1. Init => Cadenas /\ Lifecycle!Init
  <2> SUFFICES ASSUME Init PROVE Cadenas /\ Lifecycle!Init
    OBVIOUS
  <2>1. Cadenas
    BY DEF Init, Cadenas, DeUno, Listado, Cadena, Pendientes
  <2>2. Lifecycle!Init
    BY DEF Init, Lifecycle!Init, NoRecord, Absent
  <2> QED BY <2>1, <2>2
<1>2. (Coherente /\ Marcha /\ Libro /\ Sano /\ Oidos) /\ (Coherente /\ Marcha /\ Libro /\ Sano /\ Oidos)'
        /\ Cadenas /\ [Next]_vars => Cadenas' /\ [Lifecycle!Next]_(Lifecycle!vars)
  BY PasoCiclo DEF Ciclo
<1> QED BY <1>1, <1>2, LoOidoQueda, PTL DEF Safety, CumpleElCicloDeVida, Lifecycle!Safety
=============================================================================
