---------------------------- MODULE HarnessProofs ----------------------------
(***************************************************************************)
(* Proofs about what surrounds the turns, one section for each component,  *)
(* of the invariants MCHarness runs: for any calls, names, tools, clients  *)
(* and bounds, in place of those of harness.cfg.  Each component has an    *)
(* inductive invariant of its own, which holds while it is the subject of  *)
(* the behavior; a step of another subject leaves subject alone.           *)
(***************************************************************************)
EXTENDS MCHarness, Sequences, FiniteSetTheorems, SequenceTheorems, TLAPS

\* The subject of a behavior does not change.
LEMMA OneSubject == [Next]_vars => subject' = subject
BY DEF Next, vars

-----------------------------------------------------------------------------
(***************************************************************************)
(* Workdirs: the invariant                                                 *)
(***************************************************************************)
Boots == {"down", "opening", "pruning", "referring", "listing", "sweeping", "up"}
Steps == {"idle", "creating", "copying", "registering", "row", "rejected", "done"}
Call == [pc : Steps, dir : Names \cup {None}, files : SUBSET Files, cut : BOOLEAN,
         answer : {None, "success", "failed"}]

\* What the variables are.
DirsShapes ==
  /\ boot \in Boots /\ call \in [Calls -> Call] /\ live \subseteq Calls
  /\ DOMAIN dirs \subseteq Names /\ DOMAIN rows \subseteq Calls /\ faults \in Nat

\* A name is of one call, and what is on disk was made by one.
Owned ==
  /\ \A c, d \in Calls : call[c].dir = call[d].dir /\ call[c].dir # None => c = d
  /\ \A n \in DOMAIN dirs : \E c \in Calls : call[c].dir = n
  /\ \A c \in Calls : call[c].pc \in {"idle", "creating"} => call[c].dir = None

\* How far a call is when it has a child, a row or an answer.
Reached(c) ==
  /\ c \in live => call[c].pc = "done" /\ call[c].answer # "failed"
  /\ c \in DOMAIN rows =>
       /\ call[c].pc \in {"row", "rejected", "done"} /\ call[c].answer # "failed"
       /\ rows[c] = call[c].dir
  /\ call[c].answer # None => call[c].pc \in {"rejected", "done"}
  /\ call[c].answer = "failed" => call[c].cut \/ call[c].dir \notin DOMAIN dirs

DirsBase == DirsShapes /\ Owned /\ \A c \in Calls : Reached(c)

\* While the queue does not serve nothing is under way.
Quiet ==
  boot # "up" =>
    /\ live = {} /\ en_creacion = {}
    /\ \A c \in Calls : call[c].pc \in {"idle", "rejected", "done"}

\* What is about to be registered, or has a child, has its directory whole.
Whole(c) ==
  /\ call[c].pc = "copying" => call[c].dir \in DOMAIN dirs
  /\ call[c].pc \in {"registering", "row"} \/ c \in live =>
       \/ call[c].dir = None
       \/ call[c].dir \in DOMAIN dirs /\ call[c].files \subseteq dirs[call[c].dir]

RowStands(c) == c \in DOMAIN rows /\ rows[c] # None /\ ~call[c].cut => rows[c] \in DOMAIN dirs

\* What a start deletes is not referred to.
Pruned == boot = "pruning" => prune \cap D!RowDirs = {}
Swept == boot \in {"referring", "listing", "sweeping"} => protected = D!RowDirs

DirsKept == /\ Quiet /\ Pruned /\ Swept
        /\ \A c \in Calls : Whole(c) /\ RowStands(c)

\* Without a failure: who has a child has its row, and the sweep has seen every directory.
Accounted(n) ==
  n \in D!RowDirs \/ \E c \in Calls :
    call[c].dir = n /\ (call[c].pc \notin {"idle", "rejected", "done"} \/ c \in live \/ call[c].cut)
Faultless ==
  faults = 0 =>
    /\ \A c \in Calls : c \in live \/ call[c].pc = "row" => c \in DOMAIN rows
    /\ boot = "sweeping" => DOMAIN dirs \subseteq entries \cup protected
    /\ boot = "up" => \A n \in DOMAIN dirs : Accounted(n)

DirsInv == DirsBase /\ DirsKept /\ Faultless
-----------------------------------------------------------------------------
(***************************************************************************)
(* What the helpers do                                                     *)
(***************************************************************************)
\* The calls a step of c leaves alone.
Others(c) == call' \in [Calls -> Call] /\ \A d \in Calls \ {c} : call'[d] = call[d]

\* What a step that only moves a call does to it.
LEMMA MovesOne ==
  ASSUME DirsShapes, NEW c \in Calls, NEW s \in Steps, D!Moves(c, s)
  PROVE  /\ Others(c) /\ call'[c].pc = s
         /\ call'[c].dir = call[c].dir /\ call'[c].files = call[c].files
         /\ call'[c].cut = call[c].cut /\ call'[c].answer = call[c].answer
BY DEF DirsShapes, D!Moves, Others, Call

\* An answer of failed ends the call.
LEMMA FailsOne ==
  ASSUME DirsShapes, NEW c \in Calls, D!Fails(c)
  PROVE  /\ Others(c) /\ call'[c].pc = "rejected" /\ call'[c].answer = "failed"
         /\ call'[c].dir = call[c].dir /\ call'[c].files = call[c].files
         /\ call'[c].cut = call[c].cut
BY DEF DirsShapes, D!Fails, Others, Call, Steps

\* The directories of the rows while the rows stay.
LEMMA SameRowDirs == rows' = rows => D!RowDirs' = D!RowDirs
BY DEF D!RowDirs

-----------------------------------------------------------------------------
(***************************************************************************)
(* The base: it needs nothing of when calls come                           *)
(***************************************************************************)
\* A call that moves with its directory, and no other thing, keeps the base.
LEMMA OneCallMoves ==
  ASSUME D!WorkdirsAssumption, DirsBase, NEW c \in Calls, Others(c), UNCHANGED <<live, D!disk>>,
         boot' \in Boots, faults' \in Nat, call'[c].dir = call[c].dir,
         call[c].pc \notin {"rejected", "done"}, call'[c].pc \notin {"idle",
           "creating"} \/ call[c].dir = None,
         c \in DOMAIN rows => call'[c].pc \in {"row", "done"} /\ call'[c].answer # "failed",
         call'[c].answer # None => call'[c].pc \in {"rejected", "done"},
         call'[c].answer = "failed" => call[c].dir \notin DOMAIN dirs \/ call'[c].cut
  PROVE  DirsBase'
<1>1. DirsShapes'
  BY DEF DirsBase, DirsShapes, Others, D!disk
<1>2. Owned'
  BY DEF DirsBase, Owned, Others, D!disk
<1>3. ASSUME NEW d \in Calls PROVE Reached(d)'
  <2>1. CASE d = c
    BY <2>1 DEF DirsBase, Reached, D!disk
  <2>2. CASE d # c
    BY <2>2 DEF DirsBase, Reached, Others, D!disk
  <2> QED BY <2>1, <2>2
<1> QED BY <1>1, <1>2, <1>3 DEF DirsBase

\* A step of the start: the calls stay, or are over, and what is on disk may go.
LEMMA StartKeeps ==
  ASSUME D!WorkdirsAssumption, DirsBase, boot' \in Boots, faults' \in Nat, live' \subseteq live,
         DOMAIN dirs' \subseteq DOMAIN dirs, DOMAIN rows' \subseteq DOMAIN rows,
         \A c \in DOMAIN rows' : rows'[c] = rows[c],
         call' \in [Calls -> Call],
         \A c \in Calls :
           /\ call'[c].dir = call[c].dir /\ call'[c].cut = call[c].cut
           /\ call'[c].answer = call[c].answer
           /\ call'[c].pc = call[c].pc \/ (call[c].pc # "idle" /\ call'[c].pc = "done")
  PROVE  DirsBase'
<1>1. DirsShapes'
  BY DEF DirsBase, DirsShapes
<1>2. Owned'
  BY DEF DirsBase, Owned
<1>3. ASSUME NEW d \in Calls PROVE Reached(d)'
  BY DEF DirsBase, Reached
<1> QED BY <1>1, <1>2, <1>3 DEF DirsBase

\* The steps of a call, and those of the queue's start and stop.
Calling(c) ==
  \/ \E a \in D!Asks, files \in SUBSET Files :
       \/ D!Rechazo(c, a, files) \/ D!ExecuteResume(c, a, files)
       \/ D!ExecuteSync(c, a, files) \/ D!ExecuteAsync(c, a, files)
  \/ D!Crear(c) \/ D!CrearFalla(c) \/ D!Copy(c) \/ D!CopyFails(c) \/ D!EnCreacion(c)
  \/ D!Registrar(c) \/ D!Enqueue(c) \/ D!Cancelled(c) \/ D!Ends(c)
Starting ==
  \/ \E n \in Names : D!BorrarPodado(n) \/ D!BorrarHuerfano(n)
  \/ D!OpenStore \/ D!Referenciados \/ D!Barrer \/ D!Listar \/ D!Started \/ D!Start \/ D!Crash

\* The steps, those of the start of the queue and those of a call.
LEMMA NextIs == D!Next <=> Starting \/ \E c \in Calls : Calling(c)
BY DEF D!Next, Starting, Calling

\* A step of a call keeps the base.
LEMMA CallBase ==
  ASSUME D!WorkdirsAssumption, DirsBase, NEW c \in Calls, Calling(c)
  PROVE  DirsBase'
<1>0. /\ DirsShapes /\ Owned /\ Reached(c) /\ call \in [Calls -> Call] /\ call[c] \in Call
      /\ faults \in Nat /\ boot \in Boots /\ None \notin DOMAIN dirs /\ None # "failed"
  BY DEF DirsBase, DirsShapes, D!WorkdirsAssumption
<1>1. ASSUME NEW a \in D!Asks, NEW files \in SUBSET Files, D!Rechazo(c, a, files) PROVE DirsBase'
  <2>1. Others(c) /\ call'[c].pc = "rejected" /\ call'[c].answer = "failed"
        /\ call'[c].dir = call[c].dir
    BY <1>0, <1>1, FailsOne DEF D!Rechazo
  <2>2. call[c].pc = "idle" /\ call[c].dir = None /\ c \notin DOMAIN rows
    BY <1>0, <1>1 DEF D!Rechazo, Owned, Reached
  <2> QED BY <1>0, <1>1, <2>1, <2>2, OneCallMoves DEF D!Rechazo
<1>2. ASSUME NEW a \in D!Asks, NEW files \in SUBSET Files,
             D!ExecuteResume(c, a, files) \/ D!ExecuteSync(c, a, files)
      PROVE  DirsBase'
  <2>1. PICK answer \in {"success", "failed"} :
          call' = [call EXCEPT ![c] = [@ EXCEPT !.pc = "done", !.answer = answer]]
    BY <1>2 DEF D!ExecuteResume, D!ExecuteSync
  <2>2. Others(c) /\ call'[c].pc = "done" /\ call'[c].answer = answer
        /\ call'[c].dir = call[c].dir
    BY <1>0, <2>1 DEF Others, Call, Steps
  <2>3. call[c].pc = "idle" /\ call[c].dir = None /\ c \notin DOMAIN rows
    BY <1>0, <1>2 DEF D!ExecuteResume, D!ExecuteSync, Owned, Reached
  <2> QED BY <1>0, <1>2, <2>2, <2>3, OneCallMoves DEF D!ExecuteResume, D!ExecuteSync
<1>3. ASSUME NEW a \in D!Asks, NEW files \in SUBSET Files, D!ExecuteAsync(c, a,
  files) PROVE DirsBase'
  <2>1. call[c].pc = "idle" /\ call[c].dir = None /\ c \notin DOMAIN rows
        /\ call[c].answer = None
    BY <1>0, <1>3 DEF D!ExecuteAsync, Owned, Reached
  <2>2. CASE D!Invalid(c, files)
    <3>1. Others(c) /\ call'[c].pc = "rejected" /\ call'[c].answer = "failed"
          /\ call'[c].dir = call[c].dir
      BY <1>0, <2>2, FailsOne DEF D!Invalid
    <3> QED BY <1>0, <1>3, <2>1, <3>1, OneCallMoves DEF D!ExecuteAsync
  <2>3. CASE call' = [call EXCEPT ![c] = [@ EXCEPT !.pc = "creating", !.files = files]]
    <3>1. Others(c) /\ call'[c].pc = "creating" /\ call'[c].answer = None
          /\ call'[c].dir = call[c].dir
      BY <1>0, <2>1, <2>3 DEF Others, Call, Steps
    <3> QED BY <1>0, <1>3, <2>1, <3>1, OneCallMoves DEF D!ExecuteAsync
  <2> QED BY <1>3, <2>2, <2>3 DEF D!ExecuteAsync
<1>4. CASE D!Crear(c)
  <2>1. PICK n \in Names \ {call[d].dir : d \in Calls} :
          /\ dirs' = D!With(dirs, n, {})
          /\ call' = [call EXCEPT ![c].dir = n, ![c].pc = "copying"]
    BY <1>4 DEF D!Crear
  <2>2. Others(c) /\ call'[c].pc = "copying" /\ call'[c].dir = n
        /\ call'[c].answer = call[c].answer /\ call'[c].cut = call[c].cut
    BY <1>0, <2>1 DEF Others, Call, Steps
  <2>3. DOMAIN dirs' = DOMAIN dirs \cup {n} /\ n # None /\ \A d \in Calls : call[d].dir # n
    BY <2>1 DEF D!With, D!WorkdirsAssumption
  <2>4. call[c].pc = "creating" /\ call[c].dir = None /\ c \notin DOMAIN rows /\ c \notin live
        /\ call[c].answer = None
    BY <1>0, <1>4 DEF D!Crear, Owned, Reached
  <2>5. DirsShapes'
    BY <1>0, <1>4, <2>2, <2>3 DEF D!Crear, DirsShapes, Others
  <2>6. Owned'
    <3>1. ASSUME NEW d \in Calls, NEW e \in Calls, call'[d].dir = call'[e].dir, call'[d].dir # None
          PROVE  d = e
      BY <1>0, <2>2, <2>3, <3>1 DEF Owned, Others
    <3>2. ASSUME NEW m \in DOMAIN dirs' PROVE \E d \in Calls : call'[d].dir = m
      <4>1. CASE m = n
        BY <2>2, <4>1
      <4>2. CASE m # n
        <5>1. PICK d \in Calls : call[d].dir = m
          BY <1>0, <2>3, <3>2, <4>2 DEF Owned
        <5> QED BY <1>0, <2>2, <2>3, <2>4, <3>2, <4>2, <5>1 DEF Others
      <4> QED BY <4>1, <4>2
    <3>3. ASSUME NEW d \in Calls, call'[d].pc \in {"idle", "creating"} PROVE call'[d].dir = None
      BY <1>0, <2>2, <3>3 DEF Owned, Others
    <3> QED BY <3>1, <3>2, <3>3 DEF Owned
  <2>7. ASSUME NEW d \in Calls PROVE Reached(d)'
    <3>1. CASE d = c
      BY <1>0, <1>4, <2>2, <2>4, <3>1 DEF D!Crear, Reached
    <3>2. CASE d # c
      <4>1. Reached(d)
        BY DEF DirsBase
      <4> QED BY <1>4, <2>2, <2>3, <3>2, <4>1 DEF D!Crear, Reached, Others
    <3> QED BY <3>1, <3>2
  <2> QED BY <2>5, <2>6, <2>7 DEF DirsBase
<1>5. CASE D!CrearFalla(c)
  <2>1. call[c].pc = "creating" /\ call[c].dir = None /\ c \notin DOMAIN rows
        /\ call[c].answer = None
    BY <1>0, <1>5 DEF D!CrearFalla, Owned, Reached
  <2>2. faults' \in Nat /\ UNCHANGED <<live, D!disk, boot>>
    BY <1>0, <1>5 DEF D!CrearFalla, D!Fault
  <2>3. CASE D!Fails(c)
    <3>1. Others(c) /\ call'[c].pc = "rejected" /\ call'[c].answer = "failed"
          /\ call'[c].dir = call[c].dir
      BY <1>0, <2>3, FailsOne
    <3> QED BY <1>0, <2>1, <2>2, <3>1, OneCallMoves
  <2>4. ASSUME NEW s \in {"rejected", "registering"}, D!Moves(c, s) PROVE DirsBase'
    <3>1. Others(c) /\ call'[c].pc = s /\ call'[c].dir = call[c].dir
          /\ call'[c].answer = None
      BY <1>0, <2>1, <2>4, MovesOne DEF Steps
    <3> QED BY <1>0, <2>1, <2>2, <3>1, OneCallMoves
  <2> QED BY <1>5, <2>3, <2>4 DEF D!CrearFalla
<1>6. CASE D!Copy(c)
  <2>1. DOMAIN dirs' = DOMAIN dirs
    BY <1>6 DEF D!Copy
  <2> QED BY <1>0, <1>6, <2>1, StartKeeps DEF D!Copy
<1>7. CASE D!CopyFails(c)
  <2>1. Others(c) /\ call'[c].pc = "rejected" /\ call'[c].answer = "failed"
        /\ call'[c].dir = call[c].dir
    BY <1>0, <1>7, FailsOne DEF D!CopyFails
  <2>2. DOMAIN dirs' = DOMAIN dirs \ {call[c].dir} /\ faults' \in Nat
    BY <1>0, <1>7 DEF D!CopyFails, D!Fault, D!Without, D!Restrict
  <2>3. call[c].pc = "copying" /\ c \notin DOMAIN rows /\ c \notin live
    BY <1>0, <1>7 DEF D!CopyFails, Reached
  <2>4. DirsShapes'
    BY <1>0, <1>7, <2>1, <2>2 DEF D!CopyFails, DirsShapes, Others
  <2>5. Owned'
    BY <1>0, <1>7, <2>1, <2>2 DEF D!CopyFails, Owned, Others
  <2>6. ASSUME NEW d \in Calls PROVE Reached(d)'
    <3>1. CASE d = c
      BY <1>7, <2>1, <2>2, <2>3, <3>1 DEF D!CopyFails, Reached
    <3>2. CASE d # c
      BY <1>7, <2>1, <2>2, <3>2 DEF DirsBase, D!CopyFails, Reached, Others
    <3> QED BY <3>1, <3>2
  <2> QED BY <2>4, <2>5, <2>6 DEF DirsBase
<1>8. CASE D!EnCreacion(c)
  <2>1. PICK s \in {"done", "registering"} : D!Moves(c, s)
    BY <1>8 DEF D!EnCreacion
  <2>2. Others(c) /\ call'[c].pc = s /\ call'[c].dir = call[c].dir
        /\ call'[c].answer = call[c].answer
    BY <1>0, <2>1, MovesOne DEF Steps
  <2>3. call[c].pc = "copying" /\ c \notin DOMAIN rows /\ call[c].answer = None
    BY <1>0, <1>8 DEF D!EnCreacion, Reached
  <2> QED BY <1>0, <1>8, <2>2, <2>3, OneCallMoves DEF D!EnCreacion
<1>9. CASE D!Registrar(c)
  <2>1. Others(c) /\ call'[c].pc = "row" /\ call'[c].dir = call[c].dir
        /\ call'[c].answer = call[c].answer /\ call'[c].cut = call[c].cut
    BY <1>0, <1>9, MovesOne DEF D!Registrar, Steps
  <2>2. call[c].pc = "registering" /\ c \notin DOMAIN rows /\ c \notin live
        /\ call[c].answer = None /\ faults' \in Nat
    BY <1>0, <1>9 DEF D!Registrar, Reached, D!Fault
  <2>3. CASE rows' = rows
    BY <1>0, <1>9, <2>1, <2>2, <2>3, OneCallMoves DEF D!Registrar, D!disk
  <2>4. CASE rows' = D!With(rows, c, call[c].dir)
    <3>1. /\ DOMAIN rows' = DOMAIN rows \cup {c} /\ rows'[c] = call[c].dir
          /\ \A d \in DOMAIN rows : rows'[d] = rows[d]
      BY <2>2, <2>4 DEF D!With
    <3>2. DirsShapes'
      BY <1>0, <1>9, <2>1, <2>2, <3>1 DEF D!Registrar, DirsShapes, Others
    <3>3. Owned'
      BY <1>0, <1>9, <2>1 DEF D!Registrar, Owned, Others
    <3>4. ASSUME NEW d \in Calls PROVE Reached(d)'
      <4>1. CASE d = c
        BY <1>0, <1>9, <2>1, <2>2, <3>1, <4>1 DEF D!Registrar, Reached
      <4>2. CASE d # c
        BY <1>9, <2>1, <3>1, <4>2 DEF DirsBase, D!Registrar, Reached, Others
      <4> QED BY <4>1, <4>2
    <3> QED BY <3>2, <3>3, <3>4 DEF DirsBase
  <2> QED BY <1>9, <2>3, <2>4 DEF D!Registrar
<1>10. CASE D!Enqueue(c)
  <2>1. Others(c) /\ call'[c].pc = "done" /\ call'[c].answer = "success"
        /\ call'[c].dir = call[c].dir /\ call'[c].cut = call[c].cut
    BY <1>0, <1>10 DEF D!Enqueue, Others, Call, Steps
  <2>2. DirsShapes'
    BY <1>0, <1>10, <2>1 DEF D!Enqueue, DirsShapes, Others, D!disk
  <2>3. Owned'
    BY <1>0, <1>10, <2>1 DEF D!Enqueue, Owned, Others, D!disk
  <2>4. ASSUME NEW d \in Calls PROVE Reached(d)'
    <3>1. CASE d = c
      BY <1>0, <1>10, <2>1, <3>1 DEF D!Enqueue, Reached, D!disk
    <3>2. CASE d # c
      BY <1>10, <2>1, <3>2 DEF DirsBase, D!Enqueue, Reached, Others, D!disk
    <3> QED BY <3>1, <3>2
  <2> QED BY <2>2, <2>3, <2>4 DEF DirsBase
<1>11. CASE D!Cancelled(c)
  <2>1. CASE /\ call[c].pc \in {"creating", "copying"} /\ ~call[c].cut
             /\ call' = [call EXCEPT ![c].cut = TRUE]
             /\ UNCHANGED <<boot, en_creacion, live, D!disk, D!sweep, faults, starts>>
    <3>1. Others(c) /\ call'[c].pc = call[c].pc /\ call'[c].answer = call[c].answer
          /\ call'[c].dir = call[c].dir
      BY <1>0, <2>1 DEF Others, Call
    <3>2. c \notin DOMAIN rows /\ call[c].answer = None
      BY <1>0, <2>1 DEF Reached
    <3>3. call[c].pc = "creating" => call[c].dir = None
      BY <1>0 DEF Owned
    <3> QED BY <1>0, <2>1, <3>1, <3>2, <3>3, OneCallMoves
  <2>2. CASE /\ call[c].pc \in {"registering", "row"}
             /\ dirs' = D!Without(dirs, call[c].dir) /\ en_creacion' = en_creacion \ {call[c].dir}
             /\ call' = [call EXCEPT ![c].pc = "rejected", ![c].cut = TRUE]
             /\ UNCHANGED <<boot, live, rows, D!sweep, faults, starts>>
    <3>1. Others(c) /\ call'[c].pc = "rejected" /\ call'[c].answer = call[c].answer
          /\ call'[c].dir = call[c].dir /\ call'[c].cut
      BY <1>0, <2>2 DEF Others, Call, Steps
    <3>2. DOMAIN dirs' \subseteq DOMAIN dirs
      BY <2>2 DEF D!Without, D!Restrict
    <3>3. DirsShapes'
      BY <1>0, <2>2, <3>1, <3>2 DEF DirsShapes, Others
    <3>4. Owned'
      BY <1>0, <2>2, <3>1, <3>2 DEF Owned, Others
    <3>5. ASSUME NEW d \in Calls PROVE Reached(d)'
      <4>1. CASE d = c
        BY <1>0, <2>2, <3>1, <4>1 DEF Reached
      <4>2. CASE d # c
        BY <2>2, <3>1, <3>2, <4>2 DEF DirsBase, Reached, Others
      <4> QED BY <4>1, <4>2
    <3> QED BY <3>3, <3>4, <3>5 DEF DirsBase
  <2> QED BY <1>11, <2>1, <2>2 DEF D!Cancelled
<1>12. CASE D!Ends(c)
  BY <1>0, <1>12, StartKeeps DEF D!Ends, D!disk
<1> QED BY <1>1, <1>2, <1>3, <1>4, <1>5, <1>6, <1>7, <1>8, <1>9, <1>10, <1>11, <1>12 DEF Calling

\* A step of the start or the stop does.
LEMMA StartBase ==
  ASSUME D!WorkdirsAssumption, DirsBase, Starting PROVE DirsBase'
<1>0. call \in [Calls -> Call] /\ faults \in Nat /\ boot \in Boots
  BY DEF DirsBase, DirsShapes
<1>1. ASSUME NEW n \in Names, D!BorrarPodado(n) \/ D!BorrarHuerfano(n) PROVE DirsBase'
  <2>1. DOMAIN dirs' \subseteq DOMAIN dirs
    BY <1>1 DEF D!BorrarPodado, D!BorrarHuerfano, D!Without, D!Restrict
  <2>2. UNCHANGED <<boot, call, live, rows>> /\ faults' \in Nat
    BY <1>0, <1>1 DEF D!BorrarPodado, D!BorrarHuerfano, D!Fault
  <2> QED BY <1>0, <2>1, <2>2, StartKeeps
<1>2. CASE D!OpenStore
  <2>1. DOMAIN rows' \subseteq DOMAIN rows /\ \A c \in DOMAIN rows' : rows'[c] = rows[c]
    BY <1>2 DEF D!OpenStore, D!Restrict
  <2>2. UNCHANGED <<call, live, dirs, faults>> /\ boot' = "pruning"
    BY <1>2 DEF D!OpenStore
  <2> QED BY <1>0, <2>1, <2>2, StartKeeps DEF Boots
<1>3. CASE D!Referenciados \/ D!Barrer \/ D!Listar \/ D!Started \/ D!Start
  <2>1. UNCHANGED <<call, live, D!disk, faults>> /\ boot' \in Boots
    BY <1>3 DEF D!Referenciados, D!Barrer, D!Listar, D!Started, D!Start, Boots
  <2>2. UNCHANGED <<call, live, dirs, rows, faults>>
    BY <2>1 DEF D!disk
  <2> QED BY <1>0, <2>1, <2>2, StartKeeps
<1>4. CASE D!Crash
  <2>1. boot' = "down" /\ live' = {} /\ UNCHANGED <<dirs, rows, faults>>
    BY <1>4 DEF D!Crash, D!disk
  <2>2. call' = [c \in Calls |-> IF call[c].pc = "idle" THEN call[c]
                                ELSE [call[c] EXCEPT !.pc = "done"]]
    BY <1>4 DEF D!Crash
  <2>3. ASSUME NEW c \in Calls
        PROVE  /\ call'[c] \in Call
               /\ call'[c].dir = call[c].dir /\ call'[c].cut = call[c].cut
               /\ call'[c].answer = call[c].answer
               /\ call'[c].pc = call[c].pc \/ (call[c].pc # "idle" /\ call'[c].pc = "done")
    BY <1>0, <2>2 DEF Call, Steps
  <2>4. call' \in [Calls -> Call]
    BY <2>2, <2>3
  <2> QED BY <1>0, <2>1, <2>3, <2>4, StartKeeps DEF Boots
<1> QED BY <1>1, <1>2, <1>3, <1>4 DEF Starting

\* Nothing is on disk at first.
LEMMA DirsBaseInit == ASSUME D!WorkdirsAssumption, D!Init PROVE DirsBase
BY DEF D!Init, DirsBase, DirsShapes, Owned, Reached, D!Outside, Call, Steps, Boots,
   D!WorkdirsAssumption

\* No step breaks the base.
LEMMA DirsBaseStep == ASSUME D!WorkdirsAssumption, DirsBase,
  (D!Next \/ UNCHANGED D!vars) PROVE DirsBase'
<1>1. CASE UNCHANGED D!vars
  BY <1>1 DEF D!vars, D!disk, D!sweep, DirsBase, DirsShapes, Owned, Reached
<1>2. CASE D!Next
  BY <1>2, NextIs, CallBase, StartBase
<1> QED BY <1>1, <1>2

\* A step of the whole while the directories are its subject is one of theirs.
LEMMA DirsMoves ==
  [Next]_vars => /\ subject' = subject
                 /\ subject = "dirs" => D!Next \/ UNCHANGED D!vars
BY OneSubject DEF Next, vars, OfDirs, D!vars, D!disk, D!sweep

\* A call of the delegate tool that is answered failed left neither a child nor a row nor, unless
\* its turn was cut, a directory: whenever calls come, delegate_tool.py and background_queue.py.
THEOREM FailedLeavesNothingBehind == Spec => [](subject = "dirs" => D!FailedLeavesNothing)
<1> DEFINE J == subject = "dirs" => DirsBase
<1>1. Init => J
  BY DirsBaseInit, HarnessAssumption DEF Init
<1>2. J /\ [Next]_vars => J'
  BY DirsMoves, DirsBaseStep, HarnessAssumption
<1>3. J => (subject = "dirs" => D!FailedLeavesNothing)
  BY DEF DirsBase, Reached, D!FailedLeavesNothing
<1> QED BY <1>1, <1>2, <1>3, PTL DEF Spec

-----------------------------------------------------------------------------
(***************************************************************************)
(* What is kept, where no call comes while the queue starts                *)
(***************************************************************************)
\* A step of a call is one of a queue that serves, and stays so.
LEMMA CallsAreServed ==
  ASSUME ~TurnsDuringStart, DirsKept, NEW c \in Calls, Calling(c)
  PROVE  boot = "up" /\ boot' = "up"
<1>1. CASE \E a \in D!Asks, files \in SUBSET Files :
             \/ D!Rechazo(c, a, files) \/ D!ExecuteResume(c, a, files)
             \/ D!ExecuteSync(c, a, files) \/ D!ExecuteAsync(c, a, files)
  BY <1>1 DEF D!Rechazo, D!ExecuteResume, D!ExecuteSync, D!ExecuteAsync, D!Serving
<1>2. CASE D!Crear(c) \/ D!CrearFalla(c) \/ D!Copy(c) \/ D!CopyFails(c) \/ D!EnCreacion(c)
  BY <1>2 DEF DirsKept, Quiet, D!Crear, D!CrearFalla, D!Copy, D!CopyFails, D!EnCreacion
<1>3. CASE D!Registrar(c) \/ D!Enqueue(c) \/ D!Cancelled(c) \/ D!Ends(c)
  BY <1>3 DEF DirsKept, Quiet, D!Registrar, D!Enqueue, D!Cancelled, D!Ends
<1> QED BY <1>1, <1>2, <1>3 DEF Calling

\* What a step of c leaves to the other calls, whose directories are not its own.
LEMMA OthersKeep ==
  ASSUME DirsBase, DirsKept, NEW c \in Calls, Others(c), live' \ {c} \subseteq live,
         \A d \in DOMAIN rows' \ {c} : d \in DOMAIN rows /\ rows'[d] = rows[d],
         \A n \in DOMAIN dirs :
           n = call[c].dir \/ (n \in DOMAIN dirs' /\ dirs'[n] = dirs[n]),
         None \notin DOMAIN dirs,
         NEW d \in Calls \ {c}
  PROVE  Whole(d)' /\ RowStands(d)'
<1>1. Whole(d) /\ RowStands(d) /\ call'[d] = call[d]
  BY DEF DirsKept, Others
<1>2. call[d].dir # None => call[d].dir # call[c].dir
  BY DEF DirsBase, Owned
<1>3. d \in DOMAIN rows => rows[d] = call[d].dir
  BY DEF DirsBase, Reached
<1>4. Whole(d)'
  BY <1>1, <1>2 DEF Whole
<1>5. RowStands(d)'
  BY <1>1, <1>2, <1>3 DEF RowStands
<1> QED BY <1>4, <1>5

\* A step of c keeps what is kept when it keeps its own.
LEMMA OneCallKeeps ==
  ASSUME D!WorkdirsAssumption, DirsBase, DirsKept, NEW c \in Calls, Others(c),
    live' \ {c} \subseteq live,
         boot' = "up",
         \A d \in DOMAIN rows' \ {c} : d \in DOMAIN rows /\ rows'[d] = rows[d],
         \A n \in DOMAIN dirs :
           n = call[c].dir \/ (n \in DOMAIN dirs' /\ dirs'[n] = dirs[n]),
         Whole(c)', RowStands(c)'
  PROVE  DirsKept'
<1>1. None \notin DOMAIN dirs
  BY DEF DirsBase, DirsShapes, D!WorkdirsAssumption
<1>2. \A d \in Calls : Whole(d)' /\ RowStands(d)'
  BY <1>1, OthersKeep
<1>3. Quiet' /\ Pruned' /\ Swept'
  BY DEF Quiet, Pruned, Swept
<1> QED BY <1>2, <1>3 DEF DirsKept

\* A step of a call keeps what is about to be registered, and what has a row, on disk.
LEMMA CallKept ==
  ASSUME D!WorkdirsAssumption, ~TurnsDuringStart, DirsBase, DirsKept, NEW c \in Calls, Calling(c)
  PROVE  DirsKept'
<1>0. /\ DirsShapes /\ Owned /\ Reached(c) /\ call \in [Calls -> Call] /\ call[c] \in Call
      /\ Whole(c) /\ RowStands(c) /\ None \notin DOMAIN dirs /\ boot' = "up"
  BY CallsAreServed DEF DirsBase, DirsShapes, D!WorkdirsAssumption, DirsKept
<1>1. ASSUME NEW a \in D!Asks, NEW files \in SUBSET Files,
             \/ D!Rechazo(c, a, files) \/ D!ExecuteResume(c, a, files)
             \/ D!ExecuteSync(c, a, files) \/ D!ExecuteAsync(c, a, files)
      PROVE  DirsKept'
  <2>1. Others(c) /\ call'[c].pc \in {"creating", "rejected", "done"}
    <3>1. CASE D!Fails(c)
      BY <1>0, <3>1, FailsOne
    <3>2. CASE call' = [call EXCEPT ![c] = [@ EXCEPT !.pc = "creating", !.files = files]]
      BY <1>0, <3>2 DEF Others, Call, Steps
    <3>3. ASSUME NEW answer \in {"success", "failed"},
                 call' = [call EXCEPT ![c] = [@ EXCEPT !.pc = "done", !.answer = answer]]
          PROVE  Others(c) /\ call'[c].pc \in {"creating", "rejected", "done"}
      BY <1>0, <3>3 DEF Others, Call, Steps
    <3> QED BY <1>1, <3>1, <3>2, <3>3
            DEF D!Rechazo, D!ExecuteResume, D!ExecuteSync, D!ExecuteAsync, D!Invalid
  <2>2. call[c].pc = "idle" /\ UNCHANGED <<live, dirs, rows>>
    BY <1>1 DEF D!Rechazo, D!ExecuteResume, D!ExecuteSync, D!ExecuteAsync, D!disk
  <2>3. Whole(c)' /\ RowStands(c)'
    BY <1>0, <2>1, <2>2 DEF Whole, RowStands, Reached
  <2> QED BY <1>0, <2>1, <2>2, <2>3, OneCallKeeps
<1>4. CASE D!Crear(c)
  <2>1. PICK n \in Names \ {call[d].dir : d \in Calls} :
          /\ dirs' = D!With(dirs, n, {})
          /\ call' = [call EXCEPT ![c].dir = n, ![c].pc = "copying"]
    BY <1>4 DEF D!Crear
  <2>2. Others(c) /\ call'[c].pc = "copying" /\ call'[c].dir = n
    BY <1>0, <2>1 DEF Others, Call, Steps
  <2>3. DOMAIN dirs' = DOMAIN dirs \cup {n} /\ \A m \in DOMAIN dirs : dirs'[m] = dirs[m]
    BY <2>1 DEF D!With
  <2>4. Whole(c)' /\ RowStands(c)'
    BY <1>0, <1>4, <2>2, <2>3 DEF D!Crear, Whole, RowStands, Reached
  <2> QED BY <1>0, <1>4, <2>2, <2>3, <2>4, OneCallKeeps DEF D!Crear
<1>5. CASE D!CrearFalla(c)
  <2>1. Others(c) /\ call'[c].dir = call[c].dir /\ call'[c].pc \in {"rejected", "registering"}
    <3>1. ASSUME NEW s \in {"rejected", "registering"}, D!Moves(c, s)
          PROVE  Others(c) /\ call'[c].dir = call[c].dir /\ call'[c].pc = s
      BY <1>0, <3>1, MovesOne DEF Steps
    <3> QED BY <1>0, <1>5, <3>1, FailsOne DEF D!CrearFalla
  <2>2. call[c].pc = "creating" /\ UNCHANGED <<live, dirs, rows>>
    BY <1>5 DEF D!CrearFalla, D!disk
  <2>3. Whole(c)' /\ RowStands(c)'
    BY <1>0, <2>1, <2>2 DEF Whole, RowStands, Reached, Owned
  <2> QED BY <1>0, <2>1, <2>2, <2>3, OneCallKeeps
<1>6. CASE D!Copy(c)
  <2>1. Others(c) /\ call'[c] = call[c] /\ DOMAIN dirs' = DOMAIN dirs
        /\ \A n \in DOMAIN dirs : n # call[c].dir => dirs'[n] = dirs[n]
    BY <1>0, <1>6 DEF D!Copy, Others
  <2>2. Whole(c)' /\ RowStands(c)'
    BY <1>0, <1>6, <2>1 DEF D!Copy, Whole, RowStands, Reached
  <2> QED BY <1>0, <1>6, <2>1, <2>2, OneCallKeeps DEF D!Copy
<1>7. CASE D!CopyFails(c)
  <2>1. Others(c) /\ call'[c].pc = "rejected"
    BY <1>0, <1>7, FailsOne DEF D!CopyFails
  <2>2. \A n \in DOMAIN dirs : n # call[c].dir => n \in DOMAIN dirs' /\ dirs'[n] = dirs[n]
    BY <1>7 DEF D!CopyFails, D!Without, D!Restrict
  <2>3. Whole(c)' /\ RowStands(c)'
    BY <1>0, <1>7, <2>1 DEF D!CopyFails, Whole, RowStands, Reached
  <2> QED BY <1>0, <1>7, <2>1, <2>2, <2>3, OneCallKeeps DEF D!CopyFails
<1>8. CASE D!EnCreacion(c)
  <2>1. PICK s \in {"done", "registering"} : D!Moves(c, s)
    BY <1>8 DEF D!EnCreacion
  <2>2. Others(c) /\ call'[c].pc = s /\ call'[c].dir = call[c].dir
        /\ call'[c].files = call[c].files
    BY <1>0, <2>1, MovesOne DEF Steps
  <2>3. UNCHANGED <<live, dirs, rows>> /\ call[c].pc = "copying" /\ call[c].files = D!Copied(c)
    BY <1>8 DEF D!EnCreacion, D!disk
  <2>4. Whole(c)' /\ RowStands(c)'
    BY <1>0, <2>2, <2>3 DEF Whole, RowStands, Reached, D!Copied
  <2> QED BY <1>0, <2>2, <2>3, <2>4, OneCallKeeps
<1>9. CASE D!Registrar(c)
  <2>1. Others(c) /\ call'[c].pc = "row" /\ call'[c].dir = call[c].dir
        /\ call'[c].files = call[c].files /\ call'[c].cut = call[c].cut
    BY <1>0, <1>9, MovesOne DEF D!Registrar, Steps
  <2>2. call[c].pc = "registering" /\ c \notin DOMAIN rows /\ UNCHANGED <<live, dirs>>
    BY <1>0, <1>9 DEF D!Registrar, Reached
  <2>3. rows' = rows \/ rows' = D!With(rows, c, call[c].dir)
    BY <1>9 DEF D!Registrar
  <2>4. /\ \A d \in DOMAIN rows' \ {c} : d \in DOMAIN rows /\ rows'[d] = rows[d]
        /\ c \in DOMAIN rows' => rows'[c] = call[c].dir
    BY <2>2, <2>3 DEF D!With
  <2>5. Whole(c)' /\ RowStands(c)'
    BY <1>0, <2>1, <2>2, <2>4 DEF Whole, RowStands
  <2> QED BY <1>0, <2>1, <2>2, <2>4, <2>5, OneCallKeeps
<1>10. CASE D!Enqueue(c)
  <2>1. Others(c) /\ call'[c].pc = "done" /\ call'[c].dir = call[c].dir
        /\ call'[c].files = call[c].files /\ call'[c].cut = call[c].cut
    BY <1>0, <1>10 DEF D!Enqueue, Others, Call, Steps
  <2>2. call[c].pc = "row" /\ live' = live \cup {c} /\ UNCHANGED <<dirs, rows>>
    BY <1>10 DEF D!Enqueue, D!disk
  <2>3. Whole(c)' /\ RowStands(c)'
    BY <1>0, <2>1, <2>2 DEF Whole, RowStands
  <2> QED BY <1>0, <2>1, <2>2, <2>3, OneCallKeeps
<1>11. CASE D!Cancelled(c)
  <2>1. CASE /\ call[c].pc \in {"creating", "copying"} /\ ~call[c].cut
             /\ call' = [call EXCEPT ![c].cut = TRUE]
             /\ UNCHANGED <<boot, en_creacion, live, D!disk, D!sweep, faults, starts>>
    <3>1. Others(c) /\ call'[c].pc = call[c].pc /\ call'[c].dir = call[c].dir
          /\ UNCHANGED <<live, dirs, rows>>
      BY <1>0, <2>1 DEF Others, Call, D!disk
    <3>2. Whole(c)' /\ RowStands(c)'
      BY <1>0, <2>1, <3>1 DEF Whole, RowStands, Reached
    <3> QED BY <1>0, <3>1, <3>2, OneCallKeeps
  <2>2. CASE /\ call[c].pc \in {"registering", "row"}
             /\ dirs' = D!Without(dirs, call[c].dir) /\ en_creacion' = en_creacion \ {call[c].dir}
             /\ call' = [call EXCEPT ![c].pc = "rejected", ![c].cut = TRUE]
             /\ UNCHANGED <<boot, live, rows, D!sweep, faults, starts>>
    <3>1. Others(c) /\ call'[c].pc = "rejected" /\ call'[c].cut
      BY <1>0, <2>2 DEF Others, Call, Steps
    <3>2. \A n \in DOMAIN dirs : n # call[c].dir => n \in DOMAIN dirs' /\ dirs'[n] = dirs[n]
      BY <2>2 DEF D!Without, D!Restrict
    <3>3. Whole(c)' /\ RowStands(c)'
      BY <1>0, <2>2, <3>1 DEF Whole, RowStands, Reached
    <3> QED BY <1>0, <2>2, <3>1, <3>2, <3>3, OneCallKeeps
  <2> QED BY <1>11, <2>1, <2>2 DEF D!Cancelled
<1>12. CASE D!Ends(c)
  <2>1. Others(c) /\ call' = call /\ live' \subseteq live /\ UNCHANGED <<dirs, rows>>
    BY <1>0, <1>12 DEF D!Ends, Others, D!disk
  <2>2. Whole(c)' /\ RowStands(c)'
    BY <1>0, <2>1 DEF Whole, RowStands
  <2> QED BY <1>0, <2>1, <2>2, OneCallKeeps
<1> QED BY <1>1, <1>4, <1>5, <1>6, <1>7, <1>8, <1>9, <1>10, <1>11, <1>12 DEF Calling

\* What a start prunes or sweeps is of no row.
LEMMA StartKept ==
  ASSUME D!WorkdirsAssumption, ~TurnsDuringStart, DirsBase, DirsKept, Starting PROVE DirsKept'
<1>0. /\ DirsShapes /\ Owned /\ Quiet /\ Pruned /\ Swept
      /\ \A c \in Calls : Reached(c) /\ Whole(c) /\ RowStands(c)
      /\ \A c \in DOMAIN rows : c \in Calls /\ rows[c] = call[c].dir
  BY DEF DirsBase, DirsKept, DirsShapes, Reached
<1>1. ASSUME NEW n \in Names, D!BorrarPodado(n) \/ D!BorrarHuerfano(n) PROVE DirsKept'
  <2>1. boot # "up" /\ UNCHANGED <<boot, call, en_creacion, live, rows, protected>>
        /\ prune' \subseteq prune
    BY <1>1 DEF D!BorrarPodado, D!BorrarHuerfano
  <2>2. dirs' = dirs \/ (dirs' = D!Without(dirs, n) /\ n \notin D!RowDirs)
    BY <1>0, <1>1 DEF D!BorrarPodado, D!BorrarHuerfano, Pruned, Swept
  <2>3. \A m \in D!RowDirs : m \in DOMAIN dirs => m \in DOMAIN dirs'
    BY <2>2 DEF D!Without, D!Restrict
  <2>4. D!RowDirs' = D!RowDirs
    BY <2>1 DEF D!RowDirs
  <2>5. Quiet' /\ Pruned' /\ Swept'
    BY <1>0, <2>1, <2>4 DEF Quiet, Pruned, Swept
  <2>6. ASSUME NEW c \in Calls PROVE Whole(c)' /\ RowStands(c)'
    <3>1. Whole(c)'
      BY <1>0, <2>1 DEF Quiet, Whole
    <3>2. c \in DOMAIN rows /\ rows[c] # None => rows[c] \in D!RowDirs
      BY DEF D!RowDirs
    <3>3. RowStands(c)'
      BY <1>0, <2>1, <2>3, <3>2 DEF RowStands
    <3> QED BY <3>1, <3>3
  <2> QED BY <2>5, <2>6 DEF DirsKept
<1>2. CASE D!OpenStore
  <2>1. PICK old \in SUBSET (DOMAIN rows \ live) :
          /\ rows' = D!Restrict(rows, DOMAIN rows \ old)
          /\ prune' = {rows[c] : c \in old} \ {None}
    BY <1>2 DEF D!OpenStore
  <2>2. boot = "opening" /\ boot' = "pruning"
        /\ UNCHANGED <<call, en_creacion, live, dirs, protected>>
    BY <1>2 DEF D!OpenStore
  <2>3. DOMAIN rows' = DOMAIN rows \ old /\ \A c \in DOMAIN rows' : rows'[c] = rows[c]
    BY <2>1 DEF D!Restrict
  <2>4. Pruned'
    <3>1. ASSUME NEW n \in prune', n \in D!RowDirs' PROVE FALSE
      <4>1. PICK c \in old : rows[c] = n /\ n # None
        BY <2>1, <3>1
      <4>2. PICK d \in DOMAIN rows' : rows'[d] = n
        BY <3>1 DEF D!RowDirs
      <4>3. c \in DOMAIN rows /\ d \in DOMAIN rows \ old /\ rows[d] = n
        BY <2>1, <2>3, <4>1, <4>2
      <4>4. call[c].dir = n /\ call[d].dir = n /\ c \in Calls /\ d \in Calls /\ c # d
        BY <1>0, <4>1, <4>3
      <4> QED BY <1>0, <4>1, <4>4 DEF Owned
    <3> QED BY <3>1 DEF Pruned
  <2>5. Quiet' /\ Swept'
    BY <1>0, <2>2 DEF Quiet, Swept
  <2>6. ASSUME NEW c \in Calls PROVE Whole(c)' /\ RowStands(c)'
    BY <1>0, <2>2, <2>3 DEF Whole, RowStands
  <2> QED BY <2>4, <2>5, <2>6 DEF DirsKept
<1>3. CASE D!Referenciados \/ D!Barrer \/ D!Listar \/ D!Started \/ D!Start
  <2>1. UNCHANGED <<call, en_creacion, live, dirs, rows, prune>> /\ boot # "up"
    BY <1>3 DEF D!Referenciados, D!Barrer, D!Listar, D!Started, D!Start, D!disk, D!sweep
  <2>2. D!RowDirs' = D!RowDirs
    BY <2>1 DEF D!RowDirs
  <2>3. Quiet' /\ \A c \in Calls : Whole(c)' /\ RowStands(c)'
    BY <1>0, <2>1 DEF Quiet, Whole, RowStands
  <2>4. Pruned'
    BY <1>3 DEF Pruned, D!Referenciados, D!Barrer, D!Listar, D!Started, D!Start
  <2>5. Swept'
    BY <1>0, <1>3, <2>1, <2>2 DEF Quiet, Swept, D!Referenciados, D!Barrer, D!Listar, D!Started,
       D!Start
  <2> QED BY <2>3, <2>4, <2>5 DEF DirsKept
<1>4. CASE D!Crash
  <2>1. boot' = "down" /\ live' = {} /\ en_creacion' = {} /\ UNCHANGED <<dirs, rows>>
    BY <1>4 DEF D!Crash, D!disk
  <2>2. ASSUME NEW c \in Calls
        PROVE  call'[c].pc \in {"idle", "done"} /\ call'[c].cut = call[c].cut
    BY <1>0, <1>4 DEF D!Crash, DirsShapes, Call
  <2>3. Quiet' /\ Pruned' /\ Swept'
    BY <2>1, <2>2 DEF Quiet, Pruned, Swept
  <2>4. ASSUME NEW c \in Calls PROVE Whole(c)' /\ RowStands(c)'
    BY <1>0, <2>1, <2>2 DEF Whole, RowStands
  <2> QED BY <2>3, <2>4 DEF DirsKept
<1> QED BY <1>1, <1>2, <1>3, <1>4 DEF Starting

\* Nothing is kept at first.
LEMMA KeptInit == ASSUME D!WorkdirsAssumption, D!Init PROVE DirsKept
BY DEF D!Init, DirsKept, Quiet, Pruned, Swept, Whole, RowStands, D!Outside

\* No step breaks it.
LEMMA KeptStep ==
  ASSUME D!WorkdirsAssumption, ~TurnsDuringStart, DirsBase, DirsKept,
    (D!Next \/ UNCHANGED D!vars) PROVE DirsKept'
<1>1. CASE UNCHANGED D!vars
  BY <1>1 DEF D!vars, D!disk, D!sweep, DirsKept, Quiet, Pruned, Swept, Whole, RowStands, D!RowDirs
<1>2. CASE D!Next
  BY <1>2, NextIs, CallKept, StartKept
<1> QED BY <1>1, <1>2

-----------------------------------------------------------------------------
(***************************************************************************)
(* Without a failure of the disk                                           *)
(***************************************************************************)
\* A step of c accounts for what was accounted for by others, and for its own if it says so.
LEMMA OthersAccounted ==
  ASSUME NEW c \in Calls, Others(c), D!RowDirs \subseteq D!RowDirs', live \ {c} \subseteq live',
         NEW n, Accounted(n),
         /\ call[c].dir = n
         /\ call[c].pc \notin {"idle", "rejected", "done"} \/ c \in live \/ call[c].cut
         => \/ n \in D!RowDirs'
            \/ /\ call'[c].dir = n
               /\ call'[c].pc \notin {"idle", "rejected", "done"} \/ c \in live' \/ call'[c].cut
  PROVE  Accounted(n)'
BY DEF Accounted, Others

\* Without an accident, what a call leaves on disk has an owner.
LEMMA CallFaultless ==
  ASSUME D!WorkdirsAssumption, ~TurnsDuringStart, DirsInv, NEW c \in Calls, Calling(c)
  PROVE  Faultless'
<1> SUFFICES ASSUME faults' = 0 PROVE Faultless'
  BY DEF Faultless
<1>0. /\ DirsBase /\ DirsShapes /\ Owned /\ Reached(c) /\ call \in [Calls -> Call]
  /\ call[c] \in Call
      /\ None \notin DOMAIN dirs /\ boot = "up" /\ boot' = "up"
      /\ \A d \in DOMAIN rows : d \in Calls /\ rows[d] = call[d].dir
  BY CallsAreServed DEF DirsInv, DirsBase, DirsShapes, D!WorkdirsAssumption, Reached
<1>a. faults = 0 /\ ~D!Fault
  <2>1. ~D!Fault
    BY <1>0 DEF DirsShapes, D!Fault
  <2>2. CASE \/ \E a \in D!Asks, files \in SUBSET Files :
                  \/ D!Rechazo(c, a, files) \/ D!ExecuteResume(c, a, files)
                  \/ D!ExecuteSync(c, a, files) \/ D!ExecuteAsync(c, a, files)
             \/ D!Crear(c) \/ D!CrearFalla(c) \/ D!Copy(c) \/ D!CopyFails(c)
    BY <2>1, <2>2 DEF D!Rechazo, D!ExecuteResume, D!ExecuteSync, D!ExecuteAsync, D!Crear,
       D!CrearFalla, D!Copy,
       D!CopyFails
  <2>3. CASE D!EnCreacion(c) \/ D!Registrar(c) \/ D!Enqueue(c) \/ D!Cancelled(c) \/ D!Ends(c)
    BY <2>1, <2>3 DEF D!EnCreacion, D!Registrar, D!Enqueue, D!Cancelled, D!Ends
  <2> QED BY <2>1, <2>2, <2>3 DEF Calling
<1>b. /\ \A d \in Calls : d \in live \/ call[d].pc = "row" => d \in DOMAIN rows
      /\ \A n \in DOMAIN dirs : Accounted(n)
  BY <1>0, <1>a DEF DirsInv, Faultless
<1>1. ASSUME NEW a \in D!Asks, NEW files \in SUBSET Files,
             \/ D!Rechazo(c, a, files) \/ D!ExecuteResume(c, a, files)
             \/ D!ExecuteSync(c, a, files) \/ D!ExecuteAsync(c, a, files)
      PROVE  Faultless'
  <2>1. Others(c) /\ call'[c].pc \in {"creating", "rejected", "done"}
    <3>1. CASE D!Fails(c)
      BY <1>0, <3>1, FailsOne
    <3>2. CASE call' = [call EXCEPT ![c] = [@ EXCEPT !.pc = "creating", !.files = files]]
      BY <1>0, <3>2 DEF Others, Call, Steps
    <3>3. ASSUME NEW answer \in {"success", "failed"},
                 call' = [call EXCEPT ![c] = [@ EXCEPT !.pc = "done", !.answer = answer]]
          PROVE  Others(c) /\ call'[c].pc \in {"creating", "rejected", "done"}
      BY <1>0, <3>3 DEF Others, Call, Steps
    <3> QED BY <1>1, <3>1, <3>2, <3>3
            DEF D!Rechazo, D!ExecuteResume, D!ExecuteSync, D!ExecuteAsync, D!Invalid
  <2>2. call[c].pc = "idle" /\ call[c].dir = None /\ UNCHANGED <<live, dirs, rows>>
    BY <1>0, <1>1 DEF D!Rechazo, D!ExecuteResume, D!ExecuteSync, D!ExecuteAsync, D!disk, Owned
  <2>3. D!RowDirs' = D!RowDirs
    BY <2>2 DEF D!RowDirs
  <2>4. \A n \in DOMAIN dirs : Accounted(n)'
    BY <1>0, <1>b, <2>1, <2>2, <2>3, OthersAccounted
  <2> QED BY <1>0, <1>b, <2>1, <2>2, <2>4 DEF Faultless, Others
<1>2. CASE D!Crear(c)
  <2>1. PICK n \in Names \ {call[d].dir : d \in Calls} :
          /\ dirs' = D!With(dirs, n, {})
          /\ call' = [call EXCEPT ![c].dir = n, ![c].pc = "copying"]
    BY <1>2 DEF D!Crear
  <2>2. Others(c) /\ call'[c].pc = "copying" /\ call'[c].dir = n
    BY <1>0, <2>1 DEF Others, Call, Steps
  <2>3. DOMAIN dirs' = DOMAIN dirs \cup {n} /\ UNCHANGED <<live, rows>> /\ D!RowDirs' = D!RowDirs
    BY <1>2, <2>1 DEF D!With, D!Crear, D!RowDirs
  <2>4. call[c].dir = None
    BY <1>0, <1>2 DEF D!Crear, Owned
  <2>5. \A m \in DOMAIN dirs : Accounted(m)'
    BY <1>0, <1>b, <2>2, <2>3, <2>4, OthersAccounted
  <2>6. Accounted(n)'
    BY <2>2 DEF Accounted
  <2> QED BY <1>0, <1>b, <2>2, <2>3, <2>5, <2>6 DEF Faultless, Others
<1>3. CASE D!CrearFalla(c)
  BY <1>3, <1>a DEF D!CrearFalla
<1>4. CASE D!Copy(c)
  <2>1. Others(c) /\ DOMAIN dirs' = DOMAIN dirs /\ UNCHANGED <<call, live, rows>>
        /\ D!RowDirs' = D!RowDirs
    BY <1>0, <1>4 DEF D!Copy, Others, D!RowDirs
  <2>2. \A m \in DOMAIN dirs : Accounted(m)'
    BY <1>b, <2>1 DEF Accounted
  <2> QED BY <1>0, <1>b, <2>1, <2>2 DEF Faultless
<1>5. CASE D!CopyFails(c)
  <2>1. Others(c) /\ call'[c].pc = "rejected"
    BY <1>0, <1>5, FailsOne DEF D!CopyFails
  <2>2. DOMAIN dirs' = DOMAIN dirs \ {call[c].dir} /\ UNCHANGED <<live, rows>>
    BY <1>5 DEF D!CopyFails, D!Without, D!Restrict
  <2>3. D!RowDirs' = D!RowDirs
    BY <2>2 DEF D!RowDirs
  <2>4. \A n \in DOMAIN dirs' : Accounted(n)'
    BY <1>b, <2>1, <2>2, <2>3, OthersAccounted
  <2> QED BY <1>0, <1>b, <2>1, <2>2, <2>4 DEF Faultless, Others
<1>6. CASE D!EnCreacion(c)
  <2>1. D!Moves(c, IF call[c].cut THEN "done" ELSE "registering")
    BY <1>6 DEF D!EnCreacion
  <2>2. Others(c) /\ call'[c].pc = (IF call[c].cut THEN "done" ELSE "registering")
        /\ call'[c].dir = call[c].dir /\ call'[c].cut = call[c].cut
    BY <1>0, <2>1, MovesOne DEF Steps
  <2>3. UNCHANGED <<live, dirs, rows>> /\ D!RowDirs' = D!RowDirs
    BY <1>6 DEF D!EnCreacion, D!disk, D!RowDirs
  <2>4. \A n \in DOMAIN dirs : Accounted(n)'
    BY <1>b, <2>2, <2>3, OthersAccounted
  <2> QED BY <1>0, <1>b, <2>2, <2>3, <2>4 DEF Faultless, Others
<1>7. CASE D!Registrar(c)
  <2>1. Others(c) /\ call'[c].pc = "row" /\ call'[c].dir = call[c].dir
    BY <1>0, <1>7, MovesOne DEF D!Registrar, Steps
  <2>2. rows' = D!With(rows, c, call[c].dir) /\ UNCHANGED <<live, dirs>>
    BY <1>0, <1>7, <1>a DEF D!Registrar
  <2>3. DOMAIN rows' = DOMAIN rows \cup {c} /\ \A d \in DOMAIN rows : rows'[d] = rows[d]
    BY <2>2 DEF D!With
  <2>4. D!RowDirs \subseteq D!RowDirs'
    BY <2>3 DEF D!RowDirs
  <2>5. \A n \in DOMAIN dirs : Accounted(n)'
    BY <1>b, <2>1, <2>2, <2>4, OthersAccounted
  <2> QED BY <1>0, <1>b, <2>1, <2>2, <2>3, <2>5 DEF Faultless, Others
<1>8. CASE D!Enqueue(c)
  <2>1. Others(c) /\ call'[c].dir = call[c].dir
    BY <1>0, <1>8 DEF D!Enqueue, Others, Call, Steps
  <2>2. call[c].pc = "row" /\ live' = live \cup {c} /\ UNCHANGED <<dirs, rows>>
        /\ D!RowDirs' = D!RowDirs
    BY <1>8 DEF D!Enqueue, D!disk, D!RowDirs
  <2>3. \A n \in DOMAIN dirs : Accounted(n)'
    BY <1>b, <2>1, <2>2, OthersAccounted
  <2> QED BY <1>0, <1>b, <2>1, <2>2, <2>3 DEF Faultless, Others
<1>9. CASE D!Cancelled(c)
  <2>1. /\ Others(c) /\ call'[c].cut /\ call'[c].dir = call[c].dir
        /\ call'[c].pc = "row" => call[c].pc = "row"
    <3>1. CASE call' = [call EXCEPT ![c].cut = TRUE]
      BY <1>0, <3>1 DEF Others, Call
    <3>2. CASE call' = [call EXCEPT ![c].pc = "rejected", ![c].cut = TRUE]
      BY <1>0, <3>2 DEF Others, Call, Steps
    <3> QED BY <1>9, <3>1, <3>2 DEF D!Cancelled
  <2>2. DOMAIN dirs' \subseteq DOMAIN dirs /\ UNCHANGED <<live, rows>> /\ D!RowDirs' = D!RowDirs
    BY <1>9 DEF D!Cancelled, D!Without, D!Restrict, D!disk, D!RowDirs
  <2>3. \A n \in DOMAIN dirs' : Accounted(n)'
    BY <1>b, <2>1, <2>2, OthersAccounted
  <2> QED BY <1>0, <1>b, <2>1, <2>2, <2>3 DEF Faultless, Others
<1>10. CASE D!Ends(c)
  <2>1. Others(c) /\ c \in live /\ live' = live \ {c} /\ UNCHANGED <<call, dirs, rows>>
        /\ D!RowDirs' = D!RowDirs
    BY <1>0, <1>10 DEF D!Ends, Others, D!disk, D!RowDirs
  <2>2. call[c].dir # None => call[c].dir \in D!RowDirs
    BY <1>0, <1>b, <2>1 DEF D!RowDirs
  <2>3. \A n \in DOMAIN dirs : Accounted(n)'
    BY <1>0, <1>b, <2>1, <2>2, OthersAccounted
  <2> QED BY <1>0, <1>b, <2>1, <2>3 DEF Faultless
<1> QED BY <1>1, <1>2, <1>3, <1>4, <1>5, <1>6, <1>7, <1>8, <1>9, <1>10 DEF Calling

\* The sweep looks at every directory, and none is made meanwhile.
LEMMA StartFaultless ==
  ASSUME D!WorkdirsAssumption, ~TurnsDuringStart, DirsInv, Starting PROVE Faultless'
<1> SUFFICES ASSUME faults' = 0 PROVE Faultless'
  BY DEF Faultless
<1>0. DirsBase /\ DirsKept /\ DirsShapes /\ Quiet /\ Swept /\ faults \in Nat
  BY DEF DirsInv, DirsBase, DirsKept, DirsShapes
<1>1. ASSUME NEW n \in Names, D!BorrarPodado(n) \/ D!BorrarHuerfano(n) PROVE Faultless'
  <2>1. faults = 0 /\ ~D!Fault /\ boot # "up"
        /\ UNCHANGED <<boot, call, live, rows, protected>>
    BY <1>0, <1>1 DEF D!BorrarPodado, D!BorrarHuerfano, D!Fault
  <2>2. boot = "sweeping" => DOMAIN dirs' \subseteq entries' \cup protected
    BY <1>1, <2>1 DEF DirsInv, Faultless, D!BorrarPodado, D!BorrarHuerfano, D!Without, D!Restrict
  <2> QED BY <1>0, <2>1, <2>2 DEF DirsInv, Faultless
<1>2. CASE D!OpenStore
  BY <1>0, <1>2 DEF D!OpenStore, Quiet, Faultless
<1>3. CASE D!Referenciados \/ D!Barrer \/ D!Start
  BY <1>0, <1>3 DEF D!Referenciados, D!Barrer, D!Start, Quiet, Faultless, D!disk
<1>4. CASE D!Listar
  BY <1>0, <1>4 DEF D!Listar, Quiet, Faultless, D!disk
<1>5. CASE D!Started
  <2>1. boot = "sweeping" /\ boot' = "up" /\ entries = {} /\ faults = 0
        /\ UNCHANGED <<call, live, dirs, rows>> /\ D!RowDirs' = D!RowDirs
    BY <1>5 DEF D!Started, D!disk, D!RowDirs
  <2>2. DOMAIN dirs \subseteq D!RowDirs
    BY <1>0, <2>1 DEF DirsInv, Faultless, Swept
  <2> QED BY <1>0, <2>1, <2>2 DEF Quiet, Faultless, Accounted
<1>6. CASE D!Crash
  BY <1>0, <1>6 DEF D!Crash, DirsShapes, Call, Faultless
<1> QED BY <1>1, <1>2, <1>3, <1>4, <1>5, <1>6 DEF Starting

\* No step breaks the invariant.
LEMMA DirsStep ==
  ASSUME D!WorkdirsAssumption, ~TurnsDuringStart, DirsInv,
    (D!Next \/ UNCHANGED D!vars) PROVE DirsInv'
<1>1. DirsBase' /\ DirsKept'
  BY DirsBaseStep, KeptStep DEF DirsInv
<1>2. ASSUME UNCHANGED D!vars PROVE Faultless'
  <2>1. /\ UNCHANGED <<boot, call, live, dirs, rows, protected, entries, faults>>
        /\ D!RowDirs' = D!RowDirs
    BY <1>2 DEF D!vars, D!disk, D!sweep, D!RowDirs
  <2> QED BY <2>1 DEF DirsInv, Faultless, Accounted
<1>3. ASSUME D!Next PROVE Faultless'
  BY <1>3, NextIs, CallFaultless, StartFaultless
<1> QED BY <1>1, <1>2, <1>3 DEF DirsInv

\* What the invariant says of the directories.
LEMMA DirsInvHolds == ASSUME D!WorkdirsAssumption, ~TurnsDuringStart, DirsInv PROVE D!DirsHold
<1>1. D!ChildKeepsItsDir
  BY DEF DirsInv, DirsBase, DirsShapes, DirsKept, Whole, D!ChildKeepsItsDir, D!Inspect, D!Describir
<1>2. D!RowsHaveTheirDir
  BY DEF DirsInv, DirsBase, DirsShapes, Reached, DirsKept, Whole, RowStands, D!RowsHaveTheirDir,
     D!Inspect, D!Describir
<1>3. D!FailedLeavesNothing
  BY DEF DirsInv, DirsBase, Reached, D!FailedLeavesNothing
<1>4. D!NothingLeftBehind
  BY DEF DirsInv, Faultless, Accounted, D!NothingLeftBehind
<1> QED BY <1>1, <1>2, <1>3, <1>4 DEF D!DirsHold, D!DirsAreKept

\* Nothing is there before the first start.
LEMMA DirsInit == ASSUME D!WorkdirsAssumption, D!Init PROVE DirsInv
BY DirsBaseInit, KeptInit DEF D!Init, DirsInv, Faultless, D!Outside

\* Where no call comes while the queue starts: through cuts, failures of the disk, crashes and
\* starts, a child keeps its directory with its files, a row the one it refers to, and a start
\* leaves none that is nobody's (workdirs.py and background_queue.py).
THEOREM DirectoriesAreKept == ASSUME ~TurnsDuringStart PROVE Spec => []DirsHold
<1> DEFINE J == subject = "dirs" => DirsInv
<1>1. Init => J
  BY DirsInit, HarnessAssumption DEF Init
<1>2. J /\ [Next]_vars => J'
  BY DirsMoves, DirsStep, HarnessAssumption
<1>3. J => DirsHold
  BY DirsInvHolds, HarnessAssumption DEF DirsHold
<1> QED BY <1>1, <1>2, <1>3, PTL DEF Spec

-----------------------------------------------------------------------------
(***************************************************************************)
(* ToolRouting: the invariant                                              *)
(***************************************************************************)
Counters == [Tools -> 0..Ttl]
Turning ==
  [pc : {"idle", "routing", "loop"}, kind : {"none", "long", "short", "notice"}, given : BOOLEAN,
   override : SUBSET Tools, operator : BOOLEAN, skips : BOOLEAN, ephemeral : BOOLEAN,
   prev : Counters, saw : Counters, inherits : BOOLEAN, saves : BOOLEAN, next : Counters,
   seen : Counters, visible : SUBSET Tools, extra : SUBSET Tools, paged : SUBSET Tools,
   used : Nat, fails : [Tools -> Nat], tripped : SUBSET Tools, bad : [Tools -> Nat], steps : Nat]

\* What is left of the turns to live, and the turns observed, add up.
Agree(left, watched) == \A t \in Tools : left[t] = Ttl - watched[t]

\* A turn carries two copies that agree: what it read, and what it will save.
Carries(s) ==
  /\ s.pc = "routing" => Agree(s.prev, s.saw)
  /\ s.saves => Agree(s.next, s.seen)

\* What was added in flight is within what was spent, and that within the budget.
Spends(s) == R!Cardinality(s.extra) <= s.used /\ s.used <= TopK

\* The breaker counts what failed, and is closed no later than at the threshold.
Breaks(s) ==
  \A t \in Tools : s.fails[t] = s.bad[t] /\ s.bad[t] <= Threshold
                   /\ (t \notin s.tripped => s.bad[t] < Threshold)

\* What a turn in its loop shows.
Shows(s) ==
  /\ s.pc = "routing" => s.paged = {}
  /\ s.pc = "loop" /\ s.given => s.visible = s.override
  /\ s.pc = "loop" /\ ~s.given => Pinned \subseteq s.visible /\ s.paged \subseteq s.visible

Fine(s) == s \in Turning /\ Carries(s) /\ Spends(s) /\ Breaks(s) /\ Shows(s)

RoutingInv ==
  /\ many \in BOOLEAN /\ sticky \in Counters /\ since \in Counters /\ Agree(sticky, since)
  /\ turn \in [R!Turns -> Turning] /\ \A w \in R!Turns : Fine(turn[w])
-----------------------------------------------------------------------------
(***************************************************************************)
(* What the operators return                                               *)
(***************************************************************************)
\* The sizes the instance speaks of are those of the library.
LEMMA Sizes ==
  /\ \A S : R!IsFiniteSet(S) <=> IsFiniteSet(S)
  /\ \A S : R!Cardinality(S) = Cardinality(S)
BY DEF R!IsFiniteSet, IsFiniteSet, R!Cardinality, Cardinality

\* The least of two numbers.
LEMMA MinOfTwo ==
  ASSUME NEW a \in Int, NEW b \in Int
  PROVE  R!Min({a, b}) = IF a <= b THEN a ELSE b
<1>1. PICK m : m = IF a <= b THEN a ELSE b
  OBVIOUS
<1>2. m \in {a, b} /\ \A y \in {a, b} : m <= y
  BY <1>1
<1>3. \A x \in {a, b} : (\A y \in {a, b} : x <= y) => x = m
  BY <1>1
<1> QED BY <1>1, <1>2, <1>3 DEF R!Min

\* One observed turn later the two copies still add up.
LEMMA OneTurnLater ==
  ASSUME R!RoutingAssumption, NEW left \in Counters, NEW saw \in Counters, Agree(left, saw),
         NEW sel \in SUBSET Tools
  PROVE  /\ R!ApplySticky(sel, left) \in Counters /\ R!Observed(sel, saw) \in Counters
         /\ Agree(R!ApplySticky(sel, left), R!Observed(sel, saw))
<1>1. Ttl \in Nat /\ \A t \in Tools : left[t] \in 0..Ttl /\ saw[t] \in 0..Ttl
  /\ left[t] = Ttl - saw[t]
  BY DEF R!RoutingAssumption, Counters, Agree
<1>2. ASSUME NEW t \in Tools
      PROVE  R!Min({Ttl, saw[t] + 1}) = IF Ttl <= saw[t] + 1 THEN Ttl ELSE saw[t] + 1
  BY <1>1, MinOfTwo
<1>3. ASSUME NEW t \in Tools
      PROVE  /\ R!ApplySticky(sel, left)[t] \in 0..Ttl /\ R!Observed(sel, saw)[t] \in 0..Ttl
             /\ R!ApplySticky(sel, left)[t] = Ttl - R!Observed(sel, saw)[t]
  <2>1. R!Observed(sel, saw)[t] = IF t \in sel THEN 0 ELSE R!Min({Ttl, saw[t] + 1})
    BY DEF R!Observed
  <2>2. R!ApplySticky(sel, left)[t] =
          IF Ttl = 0 THEN 0
          ELSE IF t \in sel THEN Ttl ELSE IF left[t] > 1 THEN left[t] - 1 ELSE 0
    BY DEF R!ApplySticky, R!Nothing
  <2>3. PICK a \in 0..Ttl, b \in 0..Ttl : a = left[t] /\ b = saw[t] /\ a = Ttl - b
    BY <1>1
  <2>4. R!Observed(sel, saw)[t] = IF t \in sel THEN 0 ELSE IF Ttl <= b + 1 THEN Ttl ELSE b + 1
    BY <1>2, <2>1, <2>3
  <2>5. Ttl \in Nat
    BY <1>1
  <2> QED BY <2>2, <2>3, <2>4, <2>5
<1>4. R!ApplySticky(sel, left) = [t \in Tools |-> R!ApplySticky(sel, left)[t]]
  BY DEF R!ApplySticky, R!Nothing
<1>5. R!Observed(sel, saw) = [t \in Tools |-> R!Observed(sel, saw)[t]]
  BY DEF R!Observed
<1> QED BY <1>3, <1>4, <1>5 DEF Counters, Agree

\* What a turn shows is of the tools there are, with the pinned ones.
LEMMA OutcomeIs ==
  ASSUME R!RoutingAssumption, NEW kind, NEW sel \in SUBSET Tools, NEW left \in Counters
  PROVE  LET o == R!Outcome(kind, sel, left) IN
         /\ o.show \subseteq Tools /\ Pinned \subseteq o.show /\ o.dirty \in BOOLEAN
         /\ o.dirty => o.next = R!ApplySticky(sel, left)
BY DEF R!RoutingAssumption, R!Outcome, R!Alive

\* What is added in flight is spent, and no more than is left.
LEMMA AddedIsSpent ==
  ASSUME R!RoutingAssumption, NEW extra \in SUBSET Tools, NEW used \in Nat,
    NEW added \in SUBSET Tools,
         NEW n, n <= TopK - used, R!Cardinality(added) = n, R!Cardinality(extra) <= used,
           used <= TopK
  PROVE  /\ used + n \in Nat /\ used + n <= TopK /\ R!Cardinality(extra \cup added) <= used + n
<1>1. R!IsFiniteSet(extra) /\ R!IsFiniteSet(added)
  BY Sizes, FS_Subset DEF R!RoutingAssumption
<1>2. R!Cardinality(extra) \in Nat /\ R!Cardinality(added) \in Nat
  BY <1>1, Sizes, FS_CardinalityType
<1>3. R!Cardinality(extra \cup added) <= R!Cardinality(extra) + R!Cardinality(added)
  <2>1. R!IsFiniteSet(extra \cap added)
    BY <1>1, Sizes, FS_Intersection
  <2>2. R!Cardinality(extra \cap added) \in Nat
    BY <2>1, Sizes, FS_CardinalityType
  <2>3. R!Cardinality(extra \cup added)
          = R!Cardinality(extra) + R!Cardinality(added) - R!Cardinality(extra \cap added)
    BY <1>1, Sizes, FS_Union
  <2> QED BY <1>2, <2>2, <2>3
<1>4. R!IsFiniteSet(extra \cup added)
  BY <1>1, Sizes, FS_Union
<1>5. R!Cardinality(extra \cup added) \in Nat
  BY <1>4, Sizes, FS_CardinalityType
<1> QED BY <1>2, <1>3, <1>5 DEF R!RoutingAssumption

-----------------------------------------------------------------------------
(***************************************************************************)
(* What a step does to a turn                                              *)
(***************************************************************************)
\* There is nothing wrong with no turn.
LEMMA NoTurnIsFine == ASSUME R!RoutingAssumption PROVE Fine(R!NoTurn)
<1>1. R!NoTurn \in Turning /\ R!NoTurn.pc = "idle" /\ ~R!NoTurn.saves /\ R!NoTurn.extra = {}
      /\ R!NoTurn.used = 0 /\ \A t \in Tools : R!NoTurn.fails[t] = 0 /\ R!NoTurn.bad[t] = 0
  BY DEF R!NoTurn, Turning, R!Nothing, Counters, R!RoutingAssumption
<1> QED BY <1>1, Sizes, FS_EmptySet DEF Fine, Carries, Spends, Breaks, Shows, R!RoutingAssumption

\* A turn that is fine takes the place of another.
LEMMA OneTurnMoves ==
  ASSUME RoutingInv, NEW w \in R!Turns, NEW s, Fine(s), R!Becomes(w, s),
         many' = many, sticky' \in Counters, since' \in Counters, Agree(sticky', since')
  PROVE  RoutingInv'
BY DEF RoutingInv, R!Becomes, Fine

\* A turn that begins carries the two copies it read.
LEMMA BeginIsFine ==
  ASSUME R!RoutingAssumption, RoutingInv, NEW kind \in {"long", "short", "notice"},
         NEW operator \in BOOLEAN, NEW skips \in BOOLEAN, NEW ephemeral \in BOOLEAN,
         NEW given \in BOOLEAN, NEW override \in SUBSET Tools
  PROVE  Fine(R!Turn(kind, operator, skips, ephemeral, given, override))
<1> DEFINE s == R!Turn(kind, operator, skips, ephemeral, given, override)
<1>1. Fine(R!NoTurn) /\ R!NoTurn \in Turning
  BY NoTurnIsFine DEF Fine
<1>2. sticky \in Counters /\ since \in Counters /\ Agree(sticky, since)
  BY DEF RoutingInv
<1>3. s \in Turning /\ s.pc = "routing" /\ s.prev = sticky /\ s.saw = since
      /\ s.saves = R!NoTurn.saves /\ s.extra = R!NoTurn.extra /\ s.used = R!NoTurn.used
      /\ s.fails = R!NoTurn.fails /\ s.bad = R!NoTurn.bad /\ s.tripped = R!NoTurn.tripped
      /\ s.paged = R!NoTurn.paged
  <2>1. /\ s.pc = "routing" /\ s.prev = sticky /\ s.saw = since
        /\ s.saves = R!NoTurn.saves /\ s.extra = R!NoTurn.extra /\ s.used = R!NoTurn.used
        /\ s.fails = R!NoTurn.fails /\ s.bad = R!NoTurn.bad /\ s.tripped = R!NoTurn.tripped
        /\ s.paged = R!NoTurn.paged
    BY DEF R!Turn, R!NoTurn
  <2>2. s \in Turning
    BY <1>1, <1>2 DEF R!Turn, Turning
  <2> QED BY <2>1, <2>2
<1>4. R!NoTurn.saves = FALSE /\ R!NoTurn.paged = {}
  BY DEF R!NoTurn
<1> QED BY <1>1, <1>2, <1>3, <1>4 DEF Fine, Carries, Spends, Breaks, Shows

\* A turn begins, whoever it is for.
LEMMA BeginKeeps ==
  ASSUME R!RoutingAssumption, RoutingInv, R!BeginInbound \/ R!BeginDispatch PROVE RoutingInv'
<1>1. PICK w \in R!Turns, kind \in {"long", "short", "notice"}, operator \in BOOLEAN,
           skips \in BOOLEAN, ephemeral \in BOOLEAN, given \in BOOLEAN, override \in SUBSET Tools :
        R!Becomes(w, R!Turn(kind, operator, skips, ephemeral, given, override))
  <2>1. {} \in SUBSET Tools /\ R!Overrides \subseteq SUBSET Tools
    BY DEF R!Overrides
  <2>2. CASE R!BeginInbound
    BY <2>1, <2>2 DEF R!BeginInbound, R!Turns
  <2>3. CASE R!BeginDispatch
    BY <2>1, <2>3 DEF R!BeginDispatch, R!Turns
  <2> QED BY <2>2, <2>3
<1>2. UNCHANGED <<many, sticky, since>>
  BY DEF R!BeginInbound, R!BeginDispatch, R!Begins
<1>3. Fine(R!Turn(kind, operator, skips, ephemeral, given, override))
  BY BeginIsFine
<1>4. sticky' \in Counters /\ since' \in Counters /\ Agree(sticky', since')
  BY <1>2 DEF RoutingInv
<1> QED BY <1>1, <1>2, <1>3, <1>4, OneTurnMoves

\* A turn that is routed is fine.
Routed(s, shown, saves, next, watched) ==
  [R!Showing(s, shown) EXCEPT !.saves = saves, !.next = next, !.seen = watched]

\* A turn that is routed sees what its routing selected, and will save what it selected.
LEMMA RoutedIsFine ==
  ASSUME NEW s, Fine(s), s.pc = "routing", R!Nothing \in Counters, NEW shown \in SUBSET Tools,
         s.given => shown = s.override, ~s.given => Pinned \subseteq shown,
         NEW saves, saves \in BOOLEAN, NEW next \in Counters, NEW watched \in Counters,
         saves => Agree(next, watched)
  PROVE  Fine(Routed(s, shown, saves, next, watched))
<1>0. PICK r : r = Routed(s, shown, saves, next, watched)
  OBVIOUS
<1>1. s \in Turning
  BY DEF Fine
<1>2. /\ r \in Turning /\ r.pc = "loop" /\ r.saves = saves /\ r.next = next /\ r.seen = watched
      /\ r.visible = shown /\ r.given = s.given /\ r.override = s.override
      /\ r.extra = s.extra /\ r.used = s.used /\ r.fails = s.fails /\ r.bad = s.bad
      /\ r.tripped = s.tripped /\ r.paged = s.paged
  <2>1. PICK i \in BOOLEAN : i = (R!Alive(s.prev) # {})
    OBVIOUS
  <2>2. PICK q : q = [s EXCEPT !.pc = "loop", !.kind = "none", !.visible = shown, !.inherits = i,
                              !.prev = R!Nothing, !.saw = R!Nothing]
    OBVIOUS
  <2>3. q = R!Showing(s, shown)
    BY <2>1, <2>2, Zenon DEF R!Showing
  <2>4. q \in Turning
    BY <1>1, <2>2 DEF Turning
  <2>5. q.pc = "loop" /\ q.visible = shown /\ q.given = s.given /\ q.override = s.override
        /\ q.extra = s.extra /\ q.used = s.used /\ q.fails = s.fails /\ q.bad = s.bad
        /\ q.tripped = s.tripped /\ q.paged = s.paged
    BY <1>1, <2>2 DEF Turning
  <2>6. r = [q EXCEPT !.saves = saves, !.next = next, !.seen = watched]
    BY <1>0, <2>3 DEF Routed
  <2>7. r \in Turning /\ r.saves = saves /\ r.next = next /\ r.seen = watched
    BY <2>4, <2>6 DEF Turning
  <2>8. r.pc = q.pc /\ r.visible = q.visible /\ r.given = q.given /\ r.override = q.override
        /\ r.extra = q.extra /\ r.used = q.used /\ r.fails = q.fails /\ r.bad = q.bad
        /\ r.tripped = q.tripped /\ r.paged = q.paged
    <3> HIDE <2>3
    <3> QED BY <2>4, <2>6 DEF Turning
  <2> QED BY <2>5, <2>7, <2>8
<1>3. Carries(r)
  BY <1>2 DEF Carries
<1>4. Spends(r) /\ Breaks(r)
  BY <1>2 DEF Fine, Spends, Breaks
<1>5. s.paged = {}
  BY DEF Fine, Shows
<1>6. Shows(r)
  BY <1>2, <1>5 DEF Shows
<1> QED BY <1>0, <1>2, <1>3, <1>4, <1>6 DEF Fine

\* Routing: the turn shows what it must, and carries two copies that add up.
LEMMA RouteKeeps == ASSUME R!RoutingAssumption, RoutingInv, NEW w \in R!Turns,
  R!Route(w) PROVE RoutingInv'
<1>1. turn[w].pc = "routing" /\ UNCHANGED <<many, sticky, since>>
  BY DEF R!Route
<1>2. PICK s : s = turn[w]
  OBVIOUS
<1>3. Fine(s) /\ s \in Turning /\ s.pc = "routing"
  BY <1>1, <1>2 DEF RoutingInv, Fine
<1>4. PICK sel, o, saves :
        /\ sel \in R!Near
        /\ o = IF s.given THEN [show |-> s.override, next |-> s.prev, dirty |-> FALSE]
               ELSE R!Outcome(s.kind, sel, s.prev)
        /\ saves = (o.dirty /\ ~s.ephemeral)
        /\ R!Becomes(w, [R!Showing(s, o.show) EXCEPT !.saves = saves,
                         !.next = IF saves THEN o.next ELSE R!Nothing,
                         !.seen = IF saves THEN R!Observed(sel, s.saw) ELSE R!Nothing])
  BY <1>2, Zenon DEF R!Route
<1>5. sel \in SUBSET Tools /\ s.prev \in Counters /\ s.saw \in Counters /\ Agree(s.prev, s.saw)
  BY <1>3, <1>4 DEF R!Near, Turning, Fine, Carries
<1>6. R!Nothing \in Counters
  BY DEF R!Nothing, Counters, R!RoutingAssumption
<1>7. /\ o.show \in SUBSET Tools /\ saves \in BOOLEAN
      /\ s.given => o.show = s.override
      /\ ~s.given => Pinned \subseteq o.show
      /\ saves => o.next = R!ApplySticky(sel, s.prev)
  <2>1. CASE s.given
    BY <1>3, <1>4, <2>1 DEF Turning
  <2>2. CASE ~s.given
    <3>1. o = R!Outcome(s.kind, sel, s.prev)
      BY <1>4, <2>2
    <3>2. /\ o.show \subseteq Tools /\ Pinned \subseteq o.show /\ o.dirty \in BOOLEAN
          /\ o.dirty => o.next = R!ApplySticky(sel, s.prev)
      BY <1>5, <3>1, OutcomeIs
    <3> QED BY <1>3, <1>4, <2>2, <3>2 DEF Turning
  <2> QED BY <2>1, <2>2
<1>8. PICK next \in Counters, watched \in Counters :
        /\ next = IF saves THEN o.next ELSE R!Nothing
        /\ watched = IF saves THEN R!Observed(sel, s.saw) ELSE R!Nothing
        /\ saves => Agree(next, watched)
  <2>1. CASE saves
    <3>1. o.next \in Counters /\ R!Observed(sel, s.saw) \in Counters /\ Agree(o.next,
      R!Observed(sel, s.saw))
      BY <1>5, <1>7, <2>1, OneTurnLater
    <3> QED BY <2>1, <3>1
  <2>2. CASE ~saves
    BY <1>6, <2>2
  <2> QED BY <2>1, <2>2
<1>9. Fine(Routed(s, o.show, saves, next, watched))
  BY <1>3, <1>6, <1>7, <1>8, RoutedIsFine
<1>10. R!Becomes(w, Routed(s, o.show, saves, next, watched))
  BY <1>4, <1>8 DEF Routed
<1>11. sticky' \in Counters /\ since' \in Counters /\ Agree(sticky', since') /\ many' = many
  BY <1>1 DEF RoutingInv
<1> QED BY <1>9, <1>10, <1>11, OneTurnMoves

\* A turn that counts a step more.
LEMMA LoopKeeps ==
  ASSUME RoutingInv, NEW w \in R!Turns, NEW s, Fine(s), R!Looped(w, s) PROVE RoutingInv'
<1>1. PICK r : r = [s EXCEPT !.steps = @ + 1]
  OBVIOUS
<1>2. s \in Turning /\ s.steps \in Nat
  BY DEF Fine, Turning
<1>3. r \in Turning /\ r.pc = s.pc /\ r.prev = s.prev /\ r.saw = s.saw /\ r.saves = s.saves
      /\ r.next = s.next /\ r.seen = s.seen /\ r.extra = s.extra /\ r.used = s.used
      /\ r.fails = s.fails /\ r.bad = s.bad /\ r.tripped = s.tripped /\ r.paged = s.paged
      /\ r.given = s.given /\ r.visible = s.visible /\ r.override = s.override
  BY <1>1, <1>2 DEF Turning
<1>4. Fine(r)
  BY <1>3 DEF Fine, Carries, Spends, Breaks, Shows
<1>5. R!Becomes(w, r) /\ UNCHANGED <<many, sticky, since>>
  BY <1>1 DEF R!Looped
<1>6. sticky' \in Counters /\ since' \in Counters /\ Agree(sticky', since') /\ many' = many
  BY <1>5 DEF RoutingInv
<1> QED BY <1>4, <1>5, <1>6, OneTurnMoves

\* Messages in flight: what they add is spent, and an override is never added to.
LEMMA DrainKeeps ==
  ASSUME R!RoutingAssumption, RoutingInv, NEW w \in R!Turns, R!DrainInFlight(w) PROVE RoutingInv'
<1>1. PICK s : s = turn[w]
  OBVIOUS
<1>2. Fine(s) /\ s \in Turning /\ s.pc = "loop"
  BY <1>1 DEF RoutingInv, Fine, R!DrainInFlight, R!InLoop
<1>3. PICK kind, sel, n, added :
        /\ kind \in {"long", "short"} /\ sel \in R!Near
        /\ added \in SUBSET (R!Rerouted(s, kind, sel) \ s.visible)
        /\ n = R!Min({R!Budget(s), R!Cardinality(R!Rerouted(s, kind, sel) \ s.visible)})
        /\ R!Cardinality(added) = n
        /\ R!Looped(w, [s EXCEPT !.visible = @ \cup added, !.extra = @ \cup added, !.used = @ + n])
  BY <1>1 DEF R!DrainInFlight
<1>4. /\ added \subseteq Tools
      /\ s.given => added = {}
  BY <1>3 DEF R!Rerouted, R!Near
<1>5. n <= TopK - s.used
  <2>1. R!Rerouted(s, kind, sel) \ s.visible \subseteq Tools
    BY <1>3 DEF R!Rerouted, R!Near
  <2>2. R!Cardinality(R!Rerouted(s, kind, sel) \ s.visible) \in Nat
    BY <2>1, Sizes, FS_Subset, FS_CardinalityType DEF R!RoutingAssumption
  <2>3. R!Budget(s) \in Int /\ R!Budget(s) = TopK - s.used
    BY <1>2 DEF R!Budget, Turning, R!RoutingAssumption
  <2>4. PICK a, b : a = R!Budget(s) /\ b = R!Cardinality(R!Rerouted(s, kind, sel) \ s.visible)
    OBVIOUS
  <2>5. R!Min({a, b}) = IF a <= b THEN a ELSE b
    BY <2>2, <2>3, <2>4, MinOfTwo
  <2>6. n = R!Min({a, b})
    BY <1>3, <2>4
  <2> QED BY <2>2, <2>3, <2>4, <2>5, <2>6
<1>6. PICK r : r = [s EXCEPT !.visible = @ \cup added, !.extra = @ \cup added, !.used = @ + n]
  OBVIOUS
<1>7. s.used + n \in Nat /\ s.used + n <= TopK
      /\ R!Cardinality(s.extra \cup added) <= s.used + n
  BY <1>2, <1>3, <1>4, <1>5, AddedIsSpent DEF Fine, Spends, Turning
<1>8. r \in Turning /\ r.extra = s.extra \cup added /\ r.used = s.used + n
      /\ r.visible = s.visible \cup added
  BY <1>2, <1>4, <1>6, <1>7 DEF Turning
<1>9. r.pc = s.pc /\ r.prev = s.prev /\ r.saw = s.saw /\ r.saves = s.saves
      /\ r.next = s.next /\ r.seen = s.seen
      /\ r.fails = s.fails /\ r.bad = s.bad /\ r.tripped = s.tripped /\ r.paged = s.paged
      /\ r.given = s.given /\ r.override = s.override
  BY <1>2, <1>6 DEF Turning
<1>10. Carries(r) /\ Breaks(r)
  BY <1>2, <1>9 DEF Fine, Carries, Breaks
<1>11. Spends(r)
  BY <1>7, <1>8 DEF Spends
<1>12. Shows(r)
  BY <1>2, <1>4, <1>8, <1>9 DEF Fine, Shows
<1> QED BY <1>3, <1>6, <1>8, <1>10, <1>11, <1>12, LoopKeeps DEF Fine

\* What a call leaves in the history of failures, and the tools that are closed after it.
Worse(s, t, outcome) ==
  [s.bad EXCEPT ![t] = CASE outcome = "done" -> 0 [] outcome = "fails" -> @ + 1 [] OTHER -> @]
Closed(s, t, outcome) ==
  IF outcome = "fails" /\ R!Count(s.fails, t, outcome)[t] >= Threshold
  THEN s.tripped \cup {t} ELSE s.tripped

\* One failure more does not pass the threshold, as who reached it is closed.
LEMMA CountIs ==
  ASSUME R!RoutingAssumption, NEW s \in Turning, Breaks(s), NEW t \in Tools \ s.tripped,
         NEW outcome \in {"done", "fails", "retry"},
         NEW fails, fails = R!Count(s.fails, t, outcome), NEW bad, bad = Worse(s, t, outcome),
         NEW tripped, tripped = Closed(s, t, outcome)
  PROVE  /\ fails \in [Tools -> Nat] /\ bad \in [Tools -> Nat] /\ tripped \subseteq Tools
         /\ \A u \in Tools : fails[u] = bad[u] /\ bad[u] <= Threshold
                              /\ (u \notin tripped => bad[u] < Threshold)
<1>1. s.fails \in [Tools -> Nat] /\ s.bad \in [Tools -> Nat] /\ s.tripped \subseteq Tools
      /\ Threshold \in Nat \ {0}
  BY DEF Turning, R!RoutingAssumption
<1>2. s.fails[t] = s.bad[t] /\ s.bad[t] < Threshold
  BY DEF Breaks
<1>3. PICK k \in Nat : k = CASE outcome = "done" -> 0 [] outcome = "fails" -> s.bad[t] + 1
                           [] OTHER -> s.bad[t]
  BY <1>1
<1>4. k <= Threshold /\ (k < Threshold \/ t \in tripped)
      /\ fails = [s.fails EXCEPT ![t] = k] /\ bad = [s.bad EXCEPT ![t] = k]
  <2>1. fails = [s.fails EXCEPT ![t] = k] /\ bad = [s.bad EXCEPT ![t] = k]
    BY <1>1, <1>2, <1>3 DEF R!Count, Worse
  <2>2. fails[t] = k
    BY <1>1, <2>1
  <2>3. k <= Threshold
    BY <1>1, <1>2, <1>3
  <2>4. k < Threshold \/ t \in tripped
    BY <1>1, <1>2, <1>3, <2>2 DEF Closed
  <2> QED BY <2>1, <2>3, <2>4
<1>5. ASSUME NEW u \in Tools
      PROVE  fails[u] = bad[u] /\ bad[u] <= Threshold
             /\ (u \notin tripped => bad[u] < Threshold)
  <2>1. s.fails[u] = s.bad[u] /\ s.bad[u] <= Threshold
        /\ (u \notin s.tripped => s.bad[u] < Threshold)
    BY DEF Breaks
  <2>2. s.tripped \subseteq tripped
    BY DEF Closed
  <2>3. CASE u = t
    BY <1>1, <1>4, <2>3
  <2>4. CASE u # t
    <3>1. fails[u] = s.fails[u] /\ bad[u] = s.bad[u]
      BY <1>1, <1>4, <2>4
    <3> QED BY <2>1, <2>2, <3>1
  <2> QED BY <2>3, <2>4
<1>6. tripped \subseteq Tools
  BY <1>1 DEF Closed
<1> QED BY <1>1, <1>4, <1>5, <1>6

\* The turn after a call.
Called(s, t, outcome) ==
  LET fails == R!Count(s.fails, t, outcome) IN
  [s EXCEPT !.visible = R!PageIn(s, t), !.paged = @ \cup {t}, !.fails = fails,
     !.tripped = IF outcome = "fails" /\ fails[t] >= Threshold THEN @ \cup {t} ELSE @,
     !.bad[t] = CASE outcome = "done" -> 0 [] outcome = "fails" -> @ + 1 [] OTHER -> @]

\* A call: the tool is shown from then on, and its failure counted.
LEMMA CallKeeps ==
  ASSUME R!RoutingAssumption, RoutingInv, NEW w \in R!Turns, R!CallTool(w) PROVE RoutingInv'
<1>1. PICK s : s = turn[w]
  OBVIOUS
<1>2. Fine(s) /\ s \in Turning /\ s.pc = "loop"
  BY <1>1 DEF RoutingInv, Fine, R!CallTool, R!InLoop
<1>3. PICK t, outcome, fails, bad, tripped :
        /\ t \in Tools \ s.tripped /\ outcome \in {"done", "fails", "retry"}
        /\ fails = R!Count(s.fails, t, outcome)
        /\ bad = Worse(s, t, outcome) /\ tripped = Closed(s, t, outcome)
        /\ R!Looped(w, [s EXCEPT !.visible = R!PageIn(s, t), !.paged = @ \cup {t}, !.fails = fails,
                         !.tripped = tripped, !.bad = bad])
  <2>1. PICK t, outcome :
          /\ t \in Tools \ turn[w].tripped /\ outcome \in R!Outcomes(turn[w], t)
          /\ R!Looped(w, Called(turn[w], t, outcome))
    BY DEF R!CallTool, Called
  <2>2. t \in Tools \ s.tripped /\ outcome \in {"done", "fails", "retry"}
    BY <1>1, <2>1 DEF R!Outcomes
  <2>3. R!Looped(w, [s EXCEPT !.visible = R!PageIn(s, t), !.paged = @ \cup {t},
                     !.fails = R!Count(s.fails, t, outcome),
                     !.tripped = Closed(s, t, outcome), !.bad = Worse(s, t, outcome)])
    BY <1>1, <1>2, <2>1 DEF Called, Closed, Worse, Turning
  <2> QED BY <2>2, <2>3
<1>4. /\ fails \in [Tools -> Nat] /\ bad \in [Tools -> Nat] /\ tripped \subseteq Tools
      /\ \A u \in Tools : fails[u] = bad[u] /\ bad[u] <= Threshold
                           /\ (u \notin tripped => bad[u] < Threshold)
  BY <1>2, <1>3, CountIs DEF Fine
<1>5. PICK visible : visible = R!PageIn(s, t)
  OBVIOUS
<1>6. PICK r : r = [s EXCEPT !.visible = visible, !.paged = @ \cup {t}, !.fails = fails,
                           !.tripped = tripped, !.bad = bad]
  OBVIOUS
<1>7. /\ visible \subseteq Tools
      /\ s.given => visible = s.visible
      /\ ~s.given => visible = s.visible \cup {t}
  BY <1>2, <1>3, <1>5 DEF R!PageIn, Turning
<1>8. r \in Turning /\ r.visible = visible /\ r.paged = s.paged \cup {t} /\ r.fails = fails
      /\ r.tripped = tripped /\ r.bad = bad
  BY <1>2, <1>3, <1>4, <1>6, <1>7 DEF Turning
<1>9. r.pc = s.pc /\ r.prev = s.prev /\ r.saw = s.saw /\ r.saves = s.saves
      /\ r.next = s.next /\ r.seen = s.seen /\ r.extra = s.extra /\ r.used = s.used
      /\ r.given = s.given /\ r.override = s.override
  BY <1>2, <1>6 DEF Turning
<1>10. Carries(r) /\ Spends(r)
  BY <1>2, <1>9 DEF Fine, Carries, Spends
<1>11. Breaks(r)
  BY <1>4, <1>8 DEF Breaks
<1>12. Shows(r)
  BY <1>2, <1>7, <1>8, <1>9 DEF Fine, Shows
<1> QED BY <1>3, <1>5, <1>6, <1>8, <1>10, <1>11, <1>12, LoopKeeps DEF Fine

\* The end of a turn puts its copies in the place of those of the conversation.
LEMMA EndKeeps ==
  ASSUME R!RoutingAssumption, RoutingInv, NEW w \in R!Turns,
    R!End(w) \/ R!TurnFails(w) PROVE RoutingInv'
<1>1. PICK s : s = turn[w]
  OBVIOUS
<1>2. Fine(s) /\ s \in Turning /\ s.next \in Counters /\ s.seen \in Counters
  BY <1>1 DEF RoutingInv, Fine, Turning
<1>3. \/ s.saves /\ sticky' = s.next /\ since' = s.seen
      \/ UNCHANGED <<sticky, since>>
  BY <1>1 DEF R!End, R!TurnFails, R!SaveState
<1>4. sticky' \in Counters /\ since' \in Counters /\ Agree(sticky', since')
  BY <1>2, <1>3 DEF RoutingInv, Fine, Carries
<1>5. R!Becomes(w, R!NoTurn) /\ many' = many
  BY DEF R!End, R!TurnFails
<1> QED BY <1>4, <1>5, NoTurnIsFine, OneTurnMoves

\* No turn has been routed at first.
LEMMA RoutingInit == ASSUME R!RoutingAssumption, R!Init PROVE RoutingInv
<1>1. R!Nothing \in Counters /\ [t \in Tools |-> Ttl] \in Counters
      /\ Agree(R!Nothing, [t \in Tools |-> Ttl])
  BY DEF R!Nothing, Counters, Agree, R!RoutingAssumption
<1> QED BY <1>1, NoTurnIsFine DEF R!Init, RoutingInv, Fine

\* No step breaks the invariant.
LEMMA RoutingStep == ASSUME R!RoutingAssumption, RoutingInv,
  (R!Next \/ UNCHANGED R!vars) PROVE RoutingInv'
<1>1. CASE UNCHANGED R!vars
  BY <1>1 DEF R!vars, RoutingInv
<1>2. CASE R!BeginInbound \/ R!BeginDispatch
  BY <1>2, BeginKeeps
<1>3. CASE R!ClearState
  <2>1. R!Nothing \in Counters /\ [t \in Tools |-> Ttl] \in Counters
        /\ Agree(R!Nothing, [t \in Tools |-> Ttl])
    BY DEF R!Nothing, Counters, Agree, R!RoutingAssumption
  <2> QED BY <1>3, <2>1 DEF R!ClearState, RoutingInv
<1>4. ASSUME NEW w \in R!Turns,
             \/ R!Route(w) \/ R!TurnFails(w) \/ R!DrainInFlight(w)
             \/ R!CallTool(w) \/ R!CallRefused(w) \/ R!End(w)
      PROVE  RoutingInv'
  <2>1. CASE R!CallRefused(w)
    <3>1. Fine(turn[w])
      BY DEF RoutingInv
    <3> QED BY <2>1, <3>1, LoopKeeps DEF R!CallRefused
  <2> QED BY <1>4, <2>1, RouteKeeps, DrainKeeps, CallKeeps, EndKeeps
<1> QED BY <1>1, <1>2, <1>3, <1>4 DEF R!Next

\* What the invariant says of the turns and of the selection.
LEMMA RoutingInvHolds == ASSUME R!RoutingAssumption, RoutingInv PROVE R!RoutingHolds
<1>1. R!StickyLastsTtl
  BY DEF RoutingInv, Agree, R!StickyLastsTtl
<1>2. R!ToolsOfATurn
  <2> SUFFICES ASSUME NEW w \in R!Turns, turn[w].pc = "loop"
               PROVE  /\ turn[w].given => turn[w].visible = turn[w].override
                      /\ ~turn[w].given => /\ Pinned \subseteq turn[w].visible
                                          /\ turn[w].paged \subseteq turn[w].visible
                      /\ R!Cardinality(turn[w].extra) <= TopK
                      /\ \A t \in Tools : turn[w].bad[t] <= Threshold
    BY DEF R!ToolsOfATurn
  <2>1. Fine(turn[w]) /\ turn[w] \in Turning
    BY DEF RoutingInv
  <2>2. R!Cardinality(turn[w].extra) \in Nat /\ turn[w].used \in Nat
    <3>1. R!IsFiniteSet(turn[w].extra)
      BY <2>1, Sizes, FS_Subset DEF Turning, R!RoutingAssumption
    <3> QED BY <2>1, <3>1, Sizes, FS_CardinalityType DEF Turning
  <2>3. R!Cardinality(turn[w].extra) <= TopK
    BY <2>1, <2>2 DEF Fine, Spends, R!RoutingAssumption
  <2> QED BY <2>1, <2>3 DEF Fine, Breaks, Shows
<1> QED BY <1>1, <1>2 DEF R!RoutingHolds

\* A step of the whole while the routing is its subject is one of the routing.
LEMMA RoutingMoves ==
  [Next]_vars => /\ subject' = subject
                 /\ subject = "routing" => R!Next \/ UNCHANGED R!vars
BY OneSubject DEF Next, vars, OfRouting, R!vars

\* However a turn of a person, one of the dispatcher and /clear interleave, and whatever a turn
\* inherits, skips, drains or calls: a selected tool stays Ttl observed turns, an override is
\* never added to, and neither the budget nor the breaker is passed (sticky_selector.py,
\* _turn_pipeline.py, the tool loop).
THEOREM ToolsStayAsSelected == Spec => []RoutingHolds
<1> DEFINE J == subject = "routing" => RoutingInv
<1>1. Init => J
  BY RoutingInit, HarnessAssumption DEF Init
<1>2. J /\ [Next]_vars => J'
  BY RoutingMoves, RoutingStep, HarnessAssumption
<1>3. J => RoutingHolds
  BY RoutingInvHolds, HarnessAssumption DEF RoutingHolds
<1> QED BY <1>1, <1>2, <1>3, PTL DEF Spec
-----------------------------------------------------------------------------
(***************************************************************************)
(* BroadcastLan: the invariant                                             *)
(***************************************************************************)
In(m, s) == \E i \in 1..Len(s) : s[i] = m
Once(s) == \A i, j \in 1..Len(s) : s[i] = s[j] => i = j
\* s is the end of t.
Ends(s, t) == Len(s) <= Len(t) /\ \A i \in 1..Len(s) : s[Len(s) - i + 1] = t[Len(t) - i + 1]

Lines == 1..Len(author)
Opened == {k \in B!Conns : k[2] <= conns[k[1]]}
Relays == B!Conns \cup {Server}

LanShapes ==
  /\ phase \in {"down", "up", "closing", "waiting"} /\ closing \subseteq B!Conns
  /\ client \in [Clients -> {"connecting", "reading"}] /\ conns \in [Clients -> 0..MaxConns]
  /\ clientes \subseteq Opened /\ handlers \subseteq B!Conns /\ cut \subseteq B!Conns
  /\ clientes \subseteq handlers \cup cut
  /\ up \in [B!Conns -> Seq(Nat)] /\ down \in [B!Conns -> Seq(Nat)]
  /\ relay \in [Relays -> [line : Nat, todo : SUBSET B!Conns, failed : SUBSET B!Conns]]
  /\ author \in Seq(B!Agents) /\ due \in Seq(SUBSET B!Agents) /\ Len(due) = Len(author)
  /\ got \in [B!Agents -> Seq(Nat)] /\ buffer \in [B!Agents -> Seq(Nat)]

\* Of the connections of a client only the last may be up, and not while it connects again.
OnlyTheLast ==
  /\ \A k \in Opened : k[2] < conns[k[1]] => k \in cut
  /\ \A c \in Clients : client[c] = "connecting" /\ conns[c] # 0 => B!Current(c) \in cut
  /\ \A c \in Clients : client[c] = "reading" => conns[c] # 0

\* A message has neither reached a bot nor is on its way down to it.
Unread(m, a) == ~In(m, got[a]) /\ \A k \in B!Conns : B!Owner(k) = a => ~In(m, down[k])
Unrelayed(m) == (\A x \in Relays : relay[x].line # m) /\ \A a \in B!Agents : Unread(m, a)

\* A message is in one place of each of its ways: going up, in a relay, going down, received.
GoesUpOnce ==
  \A k \in B!Conns : \A m \in Nat : In(m, up[k]) =>
    /\ m \in Lines /\ author[m] = B!Owner(k) /\ Unrelayed(m)
    /\ \A j \in B!Conns : In(m, up[j]) => j = k
RelayedOnce ==
  \A x \in Relays :
    /\ relay[x].todo \subseteq Opened /\ relay[x].failed \subseteq cut
    /\ relay[x].line = 0 => relay[x] = B!NoRelay
    /\ relay[x].line # 0 =>
         /\ relay[x].line \in Lines /\ Unread(relay[x].line, Server)
         /\ \A y \in Relays : relay[y].line = relay[x].line => y = x
         /\ \A k \in relay[x].todo \ cut : Unread(relay[x].line, B!Owner(k))
GoesDownOnce ==
  \A k \in B!Conns : \A m \in Nat : In(m, down[k]) =>
    /\ m \in Lines /\ ~In(m, got[B!Owner(k)])
    /\ \A j \in B!Conns : B!Owner(j) = B!Owner(k) /\ In(m, down[j]) => j = k
NothingTwice ==
  /\ \A k \in B!Conns : Once(up[k]) /\ Once(down[k])
  /\ \A a \in B!Agents :
       Once(got[a]) /\ \A m \in Nat : In(m, got[a]) => m \in Lines /\ author[m] # a
InOnePlace == GoesUpOnce /\ RelayedOnce /\ GoesDownOnce /\ NothingTwice

Buffered == \A a \in B!Agents : Len(buffer[a]) <= MaxSize /\ Ends(buffer[a], got[a])

\* Whoever has to receive a message did, or will from where the message is now.
OnItsWay(m, a) ==
  \/ In(m, got[a])
  \/ \E k \in B!Conns : B!Owner(k) = a /\ In(m, down[k])
  \/ \E x \in Relays :
       relay[x].line = m /\ (a = Server \/ \E k \in relay[x].todo \ cut : B!Owner(k) = a)
  \/ \E j \in B!Conns : In(m, up[j]) /\ (a = Server \/ \E k \in clientes \ cut : B!Owner(k) = a)
Owed == \A m \in Lines : \A a \in due[m] : a # author[m] /\ OnItsWay(m, a)

LanInv == LanShapes /\ OnlyTheLast /\ InOnePlace /\ Buffered /\ Owed
-----------------------------------------------------------------------------
(***************************************************************************)
(* What is in a sequence                                                   *)
(***************************************************************************)
LEMMA AppendIn ==
  ASSUME NEW s \in Seq(Nat), NEW m \in Nat
  PROVE  /\ Append(s, m) \in Seq(Nat) /\ Len(Append(s, m)) = Len(s) + 1
         /\ \A y : In(y, Append(s, m)) <=> In(y, s) \/ y = m
         /\ Once(s) /\ ~In(m, s) => Once(Append(s, m))
<1>1. /\ Append(s, m) \in Seq(Nat) /\ Len(Append(s, m)) = Len(s) + 1 /\ Len(s) \in Nat
      /\ \A i \in 1..Len(s) : Append(s, m)[i] = s[i]
      /\ Append(s, m)[Len(s) + 1] = m
  OBVIOUS
<1>2. ASSUME NEW y PROVE In(y, Append(s, m)) <=> In(y, s) \/ y = m
  <2>1. 1..(Len(s) + 1) = (1..Len(s)) \cup {Len(s) + 1}
    BY <1>1
  <2> QED BY <1>1, <2>1 DEF In
<1>3. ASSUME Once(s), ~In(m, s) PROVE Once(Append(s, m))
  BY <1>1, <1>3 DEF Once, In
<1> QED BY <1>1, <1>2, <1>3

\* What a queue holds once its first line is taken.
LEMMA TailIn ==
  ASSUME NEW s \in Seq(Nat), s # <<>>
  PROVE  /\ Tail(s) \in Seq(Nat) /\ Head(s) \in Nat /\ In(Head(s), s)
         /\ \A y : In(y, Tail(s)) => In(y, s)
         /\ \A y : In(y, s) => y = Head(s) \/ In(y, Tail(s))
         /\ Once(s) => Once(Tail(s)) /\ ~In(Head(s), Tail(s))
<1>1. /\ Tail(s) \in Seq(Nat) /\ Head(s) \in Nat /\ Head(s) = s[1] /\ Len(s) \in Nat \ {0}
      /\ Len(Tail(s)) = Len(s) - 1 /\ \A i \in 1..(Len(s) - 1) : Tail(s)[i] = s[i + 1]
  OBVIOUS
<1>2. In(Head(s), s)
  BY <1>1 DEF In
<1>3. ASSUME NEW y, In(y, Tail(s)) PROVE In(y, s)
  BY <1>1, <1>3 DEF In
<1>4. ASSUME NEW y, In(y, s) PROVE y = Head(s) \/ In(y, Tail(s))
  <2>1. PICK i \in 1..Len(s) : s[i] = y
    BY <1>4 DEF In
  <2>2. CASE i # 1
    <3>1. i - 1 \in 1..(Len(s) - 1) /\ Tail(s)[i - 1] = y
      BY <1>1, <2>1, <2>2
    <3> QED BY <1>1, <3>1 DEF In
  <2> QED BY <1>1, <2>1, <2>2
<1>5. ASSUME Once(s) PROVE Once(Tail(s)) /\ ~In(Head(s), Tail(s))
  BY <1>1, <1>5 DEF Once, In
<1> QED BY <1>1, <1>2, <1>3, <1>4, <1>5

\* What a queue holds once its end is lost.
LEMMA PrefixIn ==
  ASSUME NEW s \in Seq(Nat), NEW n \in 0..Len(s)
  PROVE  /\ SubSeq(s, 1, n) \in Seq(Nat)
         /\ \A y : In(y, SubSeq(s, 1, n)) => In(y, s)
         /\ Once(s) => Once(SubSeq(s, 1, n))
<1>1. /\ SubSeq(s, 1, n) \in Seq(Nat) /\ Len(s) \in Nat
      /\ Len(SubSeq(s, 1, n)) = n /\ \A i \in 1..n : SubSeq(s, 1, n)[i] = s[i]
  OBVIOUS
<1>2. \A y : In(y, SubSeq(s, 1, n)) => In(y, s)
  BY <1>1 DEF In
<1>3. Once(s) => Once(SubSeq(s, 1, n))
  BY <1>1 DEF Once
<1> QED BY <1>1, <1>2, <1>3

\* What a function of 1..n gives is a sequence.
LEMMA FunctionIsSeq ==
  ASSUME NEW n \in Nat, NEW T, NEW f \in [1..n -> T] PROVE f \in Seq(T) /\ Len(f) = n
  BY SeqDef, LenProperties

\* A longer buffer that gives up its oldest still ends as what was received.
LEMMA KeptEnds ==
  ASSUME B!LanAssumption, NEW s \in Seq(Nat), NEW t \in Seq(Nat), NEW m \in Nat, Ends(s, t),
         Len(s) <= MaxSize
  PROVE  /\ B!Kept(Append(s, m)) \in Seq(Nat) /\ Len(B!Kept(Append(s, m))) <= MaxSize
         /\ Ends(B!Kept(Append(s, m)), Append(t, m))
<1>u. PICK u, v : u = Append(s, m) /\ v = Append(t, m)
  OBVIOUS
<1>0. MaxSize \in Nat \ {0}
  BY DEF B!LanAssumption
<1>1. /\ u \in Seq(Nat) /\ Len(u) = Len(s) + 1 /\ Len(s) \in Nat
      /\ v \in Seq(Nat) /\ Len(v) = Len(t) + 1 /\ Len(t) \in Nat
      /\ \A i \in 1..Len(s) : u[i] = s[i] /\ u[Len(s) + 1] = m
      /\ \A i \in 1..Len(t) : v[i] = t[i] /\ v[Len(t) + 1] = m
      /\ u[Len(s) + 1] = m /\ v[Len(t) + 1] = m
  BY <1>u
<1>s. /\ Len(u) = Len(s) + 1 /\ Len(v) = Len(t) + 1 /\ Len(s) \in Nat /\ Len(t) \in Nat
      /\ u = Append(s, m) /\ v = Append(t, m)
  BY <1>1, <1>u
<1>2. Ends(u, v)
  <2>1. Len(u) <= Len(v)
    BY <1>1 DEF Ends
  <2>2. ASSUME NEW i \in 1..Len(u) PROVE u[Len(u) - i + 1] = v[Len(v) - i + 1]
    <3>1. CASE i = 1
      BY <1>1, <3>1
    <3>2. CASE i # 1
      <4>1. PICK j \in 1..Len(s) : j = i - 1
        BY <1>1, <3>2
      <4>2. s[Len(s) - j + 1] = t[Len(t) - j + 1] /\ Len(s) <= Len(t)
        BY DEF Ends
      <4>3. /\ Len(u) - i + 1 = Len(s) - j + 1 /\ Len(s) - j + 1 \in 1..Len(s)
            /\ Len(v) - i + 1 = Len(t) - j + 1 /\ Len(t) - j + 1 \in 1..Len(t)
        <5>1. PICK a, b, p, q : a = Len(u) /\ b = Len(v) /\ p = Len(s) /\ q = Len(t)
          OBVIOUS
        <5>2. a = p + 1 /\ b = q + 1 /\ p \in Nat /\ q \in Nat /\ p <= q /\ j \in 1..p /\ i = j + 1
          BY <1>s, <4>1, <4>2, <5>1
        <5>3. /\ a - i + 1 = p - j + 1 /\ p - j + 1 \in 1..p
              /\ b - i + 1 = q - j + 1 /\ q - j + 1 \in 1..q
          BY <5>2
        <5> QED BY <5>1, <5>3
      <4> QED BY <1>1, <4>2, <4>3
    <3> QED BY <3>1, <3>2
  <2> QED BY <2>1, <2>2 DEF Ends
<1>3. CASE Len(u) <= MaxSize
  BY <1>0, <1>1, <1>2, <1>3, <1>u DEF B!Kept
<1>4. CASE Len(u) > MaxSize
  <2>1. B!Kept(u) = Tail(u)
    BY <1>4 DEF B!Kept
  <2>2. /\ Tail(u) \in Seq(Nat) /\ Len(Tail(u)) = Len(u) - 1
        /\ \A i \in 1..(Len(u) - 1) : Tail(u)[i] = u[i + 1]
    <3>1. u # <<>>
      BY <1>1
    <3> QED BY <1>1, <3>1, HeadTailProperties
  <2>3. Ends(Tail(u), v)
    <3>0. PICK w, n : w = Tail(u) /\ n = Len(u) - 1
      OBVIOUS
    <3>1. /\ n \in Nat /\ Len(w) = n /\ Len(u) = n + 1
          /\ \A i \in 1..n : w[i] = u[i + 1]
      BY <1>1, <2>2, <3>0
    <3>2. ASSUME NEW i \in 1..n PROVE w[n - i + 1] = v[Len(v) - i + 1]
      <4>1. i \in 1..Len(u) /\ n - i + 1 \in 1..n /\ n - i + 1 + 1 = n + 1 - i + 1
        BY <3>1
      <4>2. w[n - i + 1] = u[n + 1 - i + 1]
        BY <3>1, <4>1
      <4> QED BY <1>2, <3>1, <4>1, <4>2 DEF Ends
    <3>3. Len(w) <= Len(v)
      BY <1>1, <1>2, <3>1 DEF Ends
    <3> QED BY <3>0, <3>1, <3>2, <3>3 DEF Ends
  <2>4. Len(Tail(u)) <= MaxSize
    BY <1>0, <1>s, <2>2
  <2> QED BY <1>s, <2>1, <2>2, <2>3, <2>4
<1> QED BY <1>0, <1>1, <1>3, <1>4

\* A buffer that ends as what was received is a suffix of it.
LEMMA EndsIsSuffix ==
  ASSUME NEW s \in Seq(Nat), NEW t \in Seq(Nat), Ends(s, t) PROVE B!IsSuffix(s, t)
<1>1. /\ B!Reverse(s) = [i \in 1..Len(s) |-> s[(Len(s) - i) + 1]] /\ Len(s) \in Nat
      /\ B!Reverse(t) = [i \in 1..Len(t) |-> t[(Len(t) - i) + 1]] /\ Len(t) \in Nat
  BY DEF B!Reverse
<1>2. Len(s) <= Len(t) /\ \A i \in 1..Len(s) : s[(Len(s) - i) + 1] = t[(Len(t) - i) + 1]
  BY DEF Ends
<1>3. B!Reverse(s) \in Seq(Nat) /\ Len(B!Reverse(s)) = Len(s)
  <2>1. B!Reverse(s) \in [1..Len(s) -> Nat]
    BY <1>1
  <2> QED BY <1>1, <2>1, FunctionIsSeq
<1>4. B!Reverse(t) \in Seq(Nat) /\ Len(B!Reverse(t)) = Len(t)
  <2>1. B!Reverse(t) \in [1..Len(t) -> Nat]
    BY <1>1
  <2> QED BY <1>1, <2>1, FunctionIsSeq
<1>5. PICK p, q : p = B!Reverse(s) /\ q = B!Reverse(t)
  OBVIOUS
<1>6. p \in Seq(Nat) /\ q \in Seq(Nat) /\ Len(p) <= Len(q) /\ \A i \in 1..Len(p) : p[i] = q[i]
  BY <1>1, <1>2, <1>3, <1>4, <1>5
<1>7. SubSeq(p, 1, Len(p)) = SubSeq(q, 1, Len(p))
  <2>1. 1 \in 1..(Len(q) + 1) /\ Len(p) \in (1 - 1)..Len(q) /\ Len(p) \in (1 - 1)..Len(p)
    BY <1>6
  <2>2. /\ SubSeq(p, 1, Len(p)) = [i \in 1..Len(p) |-> p[i]]
        /\ SubSeq(q, 1, Len(p)) = [i \in 1..Len(p) |-> q[i]]
    BY <1>6
  <2> QED BY <1>6, <2>2
<1> QED BY <1>5, <1>6, <1>7 DEF B!IsSuffix, B!IsPrefix
-----------------------------------------------------------------------------
(***************************************************************************)
(* BroadcastLan: what every step needs                                     *)
(***************************************************************************)
LEMMA LanOwners ==
  ASSUME B!LanAssumption
  PROVE  /\ Server \notin Clients /\ Server \in B!Agents /\ Clients \subseteq B!Agents
         /\ \A k \in B!Conns : B!Owner(k) \in Clients /\ B!Owner(k) # Server /\ k \in Relays
         /\ Server \in Relays
  BY DEF B!LanAssumption, B!Agents, B!Conns, B!Owner, Relays

\* Two connections of a client that are up are one.
LEMMA OneUp ==
  ASSUME LanShapes, OnlyTheLast, NEW j \in Opened \ cut, NEW k \in Opened \ cut,
         B!Owner(j) = B!Owner(k)
  PROVE  j = k
<1>1. /\ j \in Clients \X (1..MaxConns) /\ k \in Clients \X (1..MaxConns) /\ j[1] = k[1]
      /\ j[2] <= conns[j[1]] /\ k[2] <= conns[k[1]]
      /\ ~(j[2] < conns[j[1]]) /\ ~(k[2] < conns[k[1]])
  BY DEF Opened, OnlyTheLast, B!Conns, B!Owner, LanShapes
<1>2. conns[j[1]] \in Int
  BY <1>1 DEF LanShapes
<1>3. j[2] = k[2]
  BY <1>1, <1>2
<1> QED BY <1>1, <1>3

\* The connection a client reads from.
LEMMA CurrentIs ==
  ASSUME LanShapes, OnlyTheLast, NEW c \in Clients, client[c] = "reading"
  PROVE  B!Current(c) \in Opened /\ B!Owner(B!Current(c)) = c
<1>1. conns[c] \in 0..MaxConns /\ conns[c] # 0
  BY DEF LanShapes, OnlyTheLast
<1>2. conns[c] \in 1..MaxConns
  BY <1>1
<1> QED BY <1>1, <1>2 DEF Opened, B!Conns, B!Current, B!Owner

RelayRecords == [line : Nat, todo : SUBSET B!Conns, failed : SUBSET B!Conns]

\* A relay that is set, and the others.
LEMMA RelaySet ==
  ASSUME LanShapes, NEW x \in Relays, NEW r \in RelayRecords, B!RelayTo(x, r)
  PROVE  /\ relay' \in [Relays -> RelayRecords] /\ relay'[x] = r
         /\ \A y \in Relays : y # x => relay'[y] = relay[y]
  BY DEF LanShapes, B!RelayTo, RelayRecords

\* Nothing new is under way: what is left where it was, is still in one place only.
Dwindles ==
  /\ author' = author /\ got' = got /\ cut \subseteq cut'
  /\ \A k \in Opened : k \in Opened'
  /\ \A k \in B!Conns :
       /\ \A m \in Nat : In(m, up'[k]) => In(m, up[k])
       /\ \A m \in Nat : In(m, down'[k]) => In(m, down[k])
       /\ Once(up[k]) => Once(up'[k])
       /\ Once(down[k]) => Once(down'[k])
  /\ \A x \in Relays :
       \/ relay'[x] = relay[x]
       \/ relay'[x] = B!NoRelay
       \/ /\ relay[x].line # 0 /\ relay'[x].line = relay[x].line
          /\ relay'[x].todo \subseteq relay[x].todo /\ relay'[x].failed \subseteq cut'

\* A step that puts no line anywhere leaves each of them in one place.
LEMMA DwindlesIsFine ==
  ASSUME B!LanAssumption, LanShapes, LanShapes', InOnePlace, Dwindles PROVE InOnePlace'
<1>0. Lines' = Lines /\ Lines \subseteq Nat \ {0}
  BY DEF Lines, Dwindles, LanShapes
<1>1. ASSUME NEW m \in Nat, NEW a, Unread(m, a) PROVE Unread(m, a)'
  BY <1>1 DEF Unread, Dwindles
<1>r. ASSUME NEW x \in Relays, relay'[x].line # 0
      PROVE  /\ relay[x].line = relay'[x].line /\ relay'[x].todo \subseteq relay[x].todo
             /\ relay'[x].failed \subseteq cut' /\ relay'[x] # B!NoRelay
  <2>1. relay'[x] # B!NoRelay
    BY <1>r DEF B!NoRelay
  <2>2. relay[x].failed \subseteq cut'
    BY DEF InOnePlace, RelayedOnce, Dwindles
  <2> QED BY <2>1, <2>2 DEF Dwindles
<1>2. ASSUME NEW m \in Nat, m # 0, Unrelayed(m) PROVE Unrelayed(m)'
  <2>1. ASSUME NEW x \in Relays PROVE relay'[x].line # m
    BY <1>2, <1>r, <2>1 DEF Unrelayed
  <2>2. ASSUME NEW a \in B!Agents PROVE Unread(m, a)'
    BY <1>1, <1>2 DEF Unrelayed
  <2> QED BY <2>1, <2>2 DEF Unrelayed
<1>3. GoesUpOnce'
  <2> SUFFICES ASSUME NEW k \in B!Conns, NEW m \in Nat, In(m, up'[k])
               PROVE  /\ m \in Lines' /\ author'[m] = B!Owner(k) /\ Unrelayed(m)'
                      /\ \A j \in B!Conns : In(m, up'[j]) => j = k
    BY DEF GoesUpOnce, B!Conns, B!Owner
  <2>1. In(m, up[k])
    BY DEF Dwindles
  <2>2. m \in Lines /\ author[m] = B!Owner(k) /\ Unrelayed(m)
        /\ \A j \in B!Conns : In(m, up[j]) => j = k
    BY <2>1 DEF InOnePlace, GoesUpOnce
  <2> QED BY <1>0, <1>2, <2>2 DEF Dwindles
<1>4. RelayedOnce'
  <2> SUFFICES ASSUME NEW x \in Relays
               PROVE /\ relay'[x].todo \subseteq Opened' /\ relay'[x].failed \subseteq cut'
                     /\ relay'[x].line = 0 => relay'[x] = B!NoRelay
                     /\ relay'[x].line # 0 =>
                          /\ relay'[x].line \in Lines' /\ Unread(relay[x].line, Server)'
                          /\ \A y \in Relays : relay'[y].line = relay'[x].line => y = x
                          /\ \A k \in relay'[x].todo \ cut' : Unread(relay[x].line, B!Owner(k))'
    BY DEF RelayedOnce, Relays, B!NoRelay, B!Owner, B!Conns
  <2>1. CASE relay'[x].line = 0
    <3>1. relay'[x] = B!NoRelay
      BY <2>1 DEF Dwindles, InOnePlace, RelayedOnce
    <3> QED BY <2>1, <3>1 DEF B!NoRelay
  <2>2. CASE relay'[x].line # 0
    <3>1. /\ relay[x].line = relay'[x].line /\ relay'[x].todo \subseteq relay[x].todo
          /\ relay'[x].failed \subseteq cut'
      BY <1>r, <2>2
    <3>2. /\ relay[x].line \in Lines /\ Unread(relay[x].line, Server)
          /\ relay[x].todo \subseteq Opened
          /\ \A y \in Relays : relay[y].line = relay[x].line => y = x
          /\ \A k \in relay[x].todo \ cut : Unread(relay[x].line, B!Owner(k))
      BY <2>2, <3>1 DEF InOnePlace, RelayedOnce
    <3>3. Unread(relay[x].line, Server)'
      BY <1>0, <1>1, <3>1, <3>2
    <3>4. ASSUME NEW k \in relay'[x].todo \ cut' PROVE Unread(relay[x].line, B!Owner(k))'
      BY <1>0, <1>1, <3>1, <3>2 DEF Dwindles
    <3>5. ASSUME NEW y \in Relays, relay'[y].line = relay'[x].line PROVE y = x
      BY <1>r, <2>2, <3>1, <3>2, <3>5
    <3> QED BY <1>0, <2>2, <3>1, <3>2, <3>3, <3>4, <3>5 DEF Dwindles
  <2> QED BY <2>1, <2>2
<1>5. GoesDownOnce'
  BY <1>0 DEF InOnePlace, GoesDownOnce, Dwindles
<1>6. NothingTwice'
  BY <1>0 DEF InOnePlace, NothingTwice, Dwindles
<1> QED BY <1>3, <1>4, <1>5, <1>6 DEF InOnePlace
\* What has to be received still is on its way.
LEMMA StillOwed ==
  ASSUME Owed, author' = author,
         \A m \in Lines : \A a \in due'[m] :
           a \in due[m] /\ (a # author[m] /\ OnItsWay(m, a) => OnItsWay(m, a)')
  PROVE  Owed'
  BY DEF Owed, Lines

\* Nobody receives anything.
LEMMA NotBuffered == ASSUME Buffered, UNCHANGED B!received PROVE Buffered'
  BY DEF Buffered, B!received, B!Agents

-----------------------------------------------------------------------------
(***************************************************************************)
(* BroadcastLan: the steps that move no message                            *)
(***************************************************************************)
\* Steps that only change the adapter, the tasks and the connections.
Moveless ==
  /\ UNCHANGED <<B!pipes, relay, author, B!received, due>> /\ cut' = cut
  /\ Opened \subseteq Opened' /\ clientes \ cut \subseteq clientes'

\* So does one that moves none, and nothing that was owed is lost.
LEMMA MovelessIsFine ==
  ASSUME B!LanAssumption, LanInv, Moveless, LanShapes' PROVE InOnePlace' /\ Buffered' /\ Owed'
<1>1. Dwindles
  BY DEF Moveless, Dwindles, B!pipes, B!received
<1>2. InOnePlace'
  BY <1>1, DwindlesIsFine DEF LanInv
<1>3. Buffered'
  BY NotBuffered DEF LanInv, Moveless
<1>4. ASSUME NEW m \in Lines, NEW a \in due'[m] PROVE OnItsWay(m, a) => OnItsWay(m, a)'
  BY DEF Moveless, B!pipes, B!received, OnItsWay, B!Owner, B!Conns, Relays
<1>5. Owed'
  BY <1>4, StillOwed DEF LanInv, Moveless
<1> QED BY <1>2, <1>3, <1>5

\* The adapter starts, begins to stop and ends.
LEMMA TheAdapterMoves ==
  ASSUME B!LanAssumption, LanInv, B!Start \/ B!Stop \/ B!Stopped PROVE LanInv'
<1>1. /\ UNCHANGED <<client, conns, clientes, handlers, cut, B!pipes, relay, author, B!received,
                     due>>
      /\ phase' \in {"down", "up", "closing", "waiting"} /\ closing' \subseteq B!Conns
  BY DEF B!Start, B!Stop, B!Stopped, LanInv, LanShapes, Opened
<1>2. LanShapes' /\ OnlyTheLast'
  BY <1>1 DEF LanInv, LanShapes, OnlyTheLast, Opened, Relays, B!Conns, B!Agents, B!Current,
     B!pipes, B!received
<1>3. Moveless
  BY <1>1 DEF Moveless, Opened, B!Conns
<1> QED BY <1>2, <1>3, MovelessIsFine DEF LanInv

\* The handler of a closed connection ends.
LEMMA AHandlerEnds ==
  ASSUME B!LanAssumption, LanInv, NEW k \in B!Conns, B!HandlerEnds(k) PROVE LanInv'
<1>1. /\ UNCHANGED <<phase, closing, client, conns, cut, B!pipes, relay, author, B!received, due>>
      /\ k \in cut /\ handlers' = handlers \ {k} /\ clientes' = clientes \ {k}
  BY DEF B!HandlerEnds
<1>2. LanShapes' /\ OnlyTheLast'
  BY <1>1 DEF LanInv, LanShapes, OnlyTheLast, Opened, Relays, B!Conns, B!Agents, B!Current,
     B!pipes, B!received
<1>3. Moveless
  BY <1>1 DEF Moveless, Opened, B!Conns
<1> QED BY <1>2, <1>3, MovelessIsFine DEF LanInv

\* A client loses its connection.
LEMMA AClientStartsOver ==
  ASSUME B!LanAssumption, LanInv, NEW c \in Clients, B!ClientLoses(c) PROVE LanInv'
<1>1. /\ UNCHANGED <<phase, closing, conns, clientes, handlers, cut, B!pipes, relay, author,
                     B!received, due>>
      /\ client[c] = "reading" /\ B!Current(c) \in cut
      /\ client' = [client EXCEPT ![c] = "connecting"]
  BY DEF B!ClientLoses
<1>2. LanShapes'
  BY <1>1 DEF LanInv, LanShapes, Opened, Relays, B!Conns, B!Agents, B!pipes, B!received
<1>3. OnlyTheLast'
  <2>1. \A d \in Clients : d # c => client'[d] = client[d]
    BY <1>1 DEF LanInv, LanShapes
  <2>2. client'[c] = "connecting"
    BY <1>1 DEF LanInv, LanShapes
  <2> QED BY <1>1, <2>1, <2>2 DEF LanInv, OnlyTheLast, Opened, B!Conns, B!Current
<1>4. Moveless
  BY <1>1 DEF Moveless, Opened, B!Conns
<1> QED BY <1>2, <1>3, <1>4, MovelessIsFine DEF LanInv

\* A client connects anew.
LEMMA AClientConnects ==
  ASSUME B!LanAssumption, LanInv, NEW c \in Clients, B!Connect(c) PROVE LanInv'
<1> DEFINE n == conns[c] + 1
           k == <<c, n>>
<1>0. conns[c] \in 0..MaxConns /\ MaxConns \in Nat /\ n \in 1..MaxConns /\ k \in B!Conns
  <2>1. conns[c] \in 0..MaxConns /\ MaxConns \in Nat
    BY DEF LanInv, LanShapes, B!LanAssumption
  <2>2. conns[c] < MaxConns
    BY DEF B!Connect
  <2>3. n \in 1..MaxConns
    BY <2>1, <2>2
  <2> QED BY <2>1, <2>3 DEF B!Conns
<1>1. /\ UNCHANGED <<phase, closing, cut, B!pipes, relay, author, B!received, due>>
      /\ client[c] = "connecting" /\ client' = [client EXCEPT ![c] = "reading"]
      /\ conns' = [conns EXCEPT ![c] = n]
      /\ handlers' = handlers \cup {k} /\ clientes' = clientes \cup {k}
  BY DEF B!Connect
<1>2. /\ \A d \in Clients : d # c => client'[d] = client[d] /\ conns'[d] = conns[d]
      /\ client'[c] = "reading" /\ conns'[c] = n
      /\ conns' \in [Clients -> 0..MaxConns]
      /\ client' \in [Clients -> {"connecting", "reading"}]
  BY <1>0, <1>1 DEF LanInv, LanShapes
<1>3. Opened \subseteq Opened' /\ k \in Opened'
  <2>1. ASSUME NEW j \in Opened PROVE j \in Opened'
    <3>1. CASE j[1] = c
      <4>1. j \in B!Conns /\ j[2] \in Int /\ j[2] <= conns[c]
        BY <3>1 DEF Opened, B!Conns
      <4>2. j[2] <= n
        BY <1>0, <4>1
      <4> QED BY <1>2, <3>1, <4>1, <4>2 DEF Opened, B!Conns
    <3>2. CASE j[1] # c
      BY <1>2, <3>2 DEF Opened, B!Conns
    <3> QED BY <3>1, <3>2
  <2>2. k \in Opened'
    BY <1>0, <1>2 DEF Opened, B!Conns
  <2> QED BY <2>1, <2>2
<1>4. LanShapes'
  BY <1>0, <1>1, <1>2, <1>3 DEF LanInv, LanShapes, Relays, B!Conns, B!Agents, B!pipes, B!received
<1>5. OnlyTheLast'
  <2>1. ASSUME NEW j \in Opened', j[2] < conns'[j[1]] PROVE j \in cut
    <3>1. CASE j[1] # c
      BY <1>2, <2>1, <3>1 DEF LanInv, OnlyTheLast, Opened, B!Conns
    <3>2. CASE j[1] = c
      <4>1. j \in Clients \X (1..MaxConns) /\ j[2] \in 1..MaxConns /\ j[2] < n
        BY <1>2, <2>1, <3>2 DEF Opened, B!Conns
      <4>2. j[2] <= conns[c] /\ conns[c] # 0
        BY <1>0, <4>1
      <4>3. j \in Opened
        BY <3>2, <4>1, <4>2 DEF Opened, B!Conns
      <4>4. CASE j[2] < conns[c]
        BY <3>2, <4>3, <4>4 DEF LanInv, OnlyTheLast
      <4>5. CASE j[2] = conns[c]
        BY <1>1, <3>2, <4>1, <4>2, <4>5 DEF LanInv, OnlyTheLast, B!Current
      <4> QED BY <1>0, <4>1, <4>2, <4>4, <4>5
    <3> QED BY <3>1, <3>2
  <2>2. \A d \in Clients : client'[d] = "connecting" /\ conns'[d] # 0 => <<d, conns'[d]>> \in cut
    BY <1>2 DEF LanInv, OnlyTheLast, B!Current
  <2>3. \A d \in Clients : client'[d] = "reading" => conns'[d] # 0
    BY <1>0, <1>2 DEF LanInv, OnlyTheLast
  <2> QED BY <1>1, <2>1, <2>2, <2>3 DEF OnlyTheLast, B!Current
<1>6. Moveless
  BY <1>1, <1>3 DEF Moveless
<1> QED BY <1>4, <1>5, <1>6, MovelessIsFine DEF LanInv

\* The server gives up those that listen.
LEMMA TheServerStopsListening ==
  ASSUME B!LanAssumption, LanInv, B!StopListening PROVE LanInv'
<1>1. /\ UNCHANGED <<client, conns, closing, handlers, cut, B!pipes, relay, author, B!received>>
      /\ phase' = "waiting" /\ clientes' = {} /\ due' = [m \in DOMAIN due |-> due[m] \ Clients]
  BY DEF B!StopListening
<1>2. /\ DOMAIN due = Lines /\ due' \in Seq(SUBSET B!Agents) /\ Len(due') = Len(author)
      /\ \A m \in Lines : due'[m] = due[m] \ Clients
  <2>1. DOMAIN due = 1..Len(author) /\ Len(author) \in Nat /\ due \in Seq(SUBSET B!Agents)
    BY DEF LanInv, LanShapes
  <2>2. due' \in [1..Len(author) -> SUBSET B!Agents]
    BY <1>1, <2>1
  <2>3. due' \in Seq(SUBSET B!Agents) /\ Len(due') = Len(author)
    BY <2>1, <2>2, FunctionIsSeq
  <2> QED BY <1>1, <2>1, <2>3 DEF Lines
<1>3. LanShapes' /\ OnlyTheLast'
  BY <1>1, <1>2 DEF LanInv, LanShapes, OnlyTheLast, Opened, Relays, B!Conns, B!Agents, B!Current,
     B!pipes, B!received
<1>4. Dwindles
  BY <1>1 DEF Dwindles, B!pipes, B!received, Opened, B!Conns
<1>5. InOnePlace' /\ Buffered'
  BY <1>1, <1>3, <1>4, DwindlesIsFine, NotBuffered DEF LanInv
<1>6. ASSUME NEW m \in Lines, NEW a \in due'[m]
      PROVE  a \in due[m] /\ (a # author[m] /\ OnItsWay(m, a) => OnItsWay(m, a)')
  <2>1. a \in due[m] /\ a \notin Clients
    BY <1>2
  <2>2. due[m] \subseteq B!Agents
    BY DEF LanInv, LanShapes, Lines
  <2>3. a = Server
    BY <2>1, <2>2 DEF B!Agents
  <2> QED BY <1>1, <2>1, <2>3 DEF OnItsWay, B!pipes, B!received, B!Owner, B!Conns, Relays
<1>7. Owed'
  BY <1>1, <1>6, StillOwed DEF LanInv
<1> QED BY <1>3, <1>5, <1>7 DEF LanInv
-----------------------------------------------------------------------------
(***************************************************************************)
(* BroadcastLan: a connection ends                                         *)
(***************************************************************************)
LEMMA CutOffIs ==
  ASSUME B!LanAssumption, LanInv, NEW k \in B!Conns, B!CutOff({k})
  PROVE  /\ cut' = cut \cup {k} /\ due' \in Seq(SUBSET B!Agents) /\ Len(due') = Len(author)
         /\ \A m \in Lines :
              due'[m] = IF B!Owner(k) = author[m] THEN {} ELSE due[m] \ {B!Owner(k)}
<1>1. Len(author) \in Nat /\ \A m \in Lines : due[m] \in SUBSET B!Agents
  BY DEF LanInv, LanShapes, Lines
<1>2. \A m \in Lines :
        due'[m] = IF B!Owner(k) = author[m] THEN {} ELSE due[m] \ {B!Owner(k)}
  BY DEF B!CutOff, Lines
<1>3. due' \in [Lines -> SUBSET B!Agents]
  BY <1>1, <1>2 DEF B!CutOff, Lines
<1> QED BY <1>1, <1>2, <1>3, FunctionIsSeq DEF B!CutOff, Lines

\* It keeps some of what was on its way, and nothing else changes but who waits.
EndsOf(k) ==
  /\ cut' = cut \cup {k}
  /\ UNCHANGED <<phase, client, conns, clientes, handlers, relay, author, B!received>>
  /\ closing' \subseteq closing
  /\ up' \in [B!Conns -> Seq(Nat)] /\ down' \in [B!Conns -> Seq(Nat)]
  /\ \A j \in B!Conns : j # k => up'[j] = up[j] /\ down'[j] = down[j]
  /\ \A m \in Nat : In(m, up'[k]) => In(m, up[k])
  /\ \A m \in Nat : In(m, down'[k]) => In(m, down[k])
  /\ Once(up[k]) => Once(up'[k])
  /\ Once(down[k]) => Once(down'[k])

\* A connection that ends takes with it what was under way in it, and who it was owed to.
LEMMA AnEndIsFine ==
  ASSUME B!LanAssumption, LanInv, NEW k \in B!Conns, B!CutOff({k}), EndsOf(k) PROVE LanInv'
<1>1. LanShapes' /\ OnlyTheLast'
  BY CutOffIs DEF EndsOf, LanInv, LanShapes, OnlyTheLast, Opened, Relays, B!Conns, B!Agents,
     B!Current, B!received
<1>2. Dwindles
  BY DEF EndsOf, Dwindles, B!received, Opened, B!Conns
<1>3. InOnePlace' /\ Buffered'
  BY <1>1, <1>2, DwindlesIsFine, NotBuffered DEF LanInv, EndsOf
<1>4. ASSUME NEW m \in Lines, NEW a \in due'[m], OnItsWay(m, a)
      PROVE  a \in due[m] /\ OnItsWay(m, a)'
  <2>1. B!Owner(k) # author[m] /\ a # B!Owner(k) /\ a \in due[m] /\ m \in Nat
    <3>1. m \in Nat
      BY DEF Lines, LanInv, LanShapes
    <3>2. due'[m] = IF B!Owner(k) = author[m] THEN {} ELSE due[m] \ {B!Owner(k)}
      BY CutOffIs
    <3> QED BY <3>1, <3>2
  <2>2. CASE In(m, got[a])
    BY <2>1, <2>2 DEF OnItsWay, EndsOf, B!received
  <2>3. ASSUME NEW j \in B!Conns, B!Owner(j) = a, In(m, down[j]) PROVE OnItsWay(m, a)'
    BY <2>1, <2>3 DEF OnItsWay, EndsOf, B!Owner, B!Conns
  <2>4. ASSUME NEW x \in Relays, relay[x].line = m,
               a = Server \/ \E j \in relay[x].todo \ cut : B!Owner(j) = a
        PROVE  OnItsWay(m, a)'
    BY <2>1, <2>4 DEF OnItsWay, EndsOf, B!Owner, Relays, B!Conns
  <2>5. ASSUME NEW j \in B!Conns, In(m, up[j]),
               a = Server \/ \E i \in clientes \ cut : B!Owner(i) = a
        PROVE  OnItsWay(m, a)'
    <3>1. B!Owner(j) = author[m]
      BY <2>1, <2>5 DEF LanInv, InOnePlace, GoesUpOnce
    <3>2. In(m, up'[j])
      BY <2>1, <2>5, <3>1 DEF EndsOf
    <3> QED BY <2>1, <2>5, <3>2 DEF OnItsWay, EndsOf, B!Owner, B!Conns
  <2> QED BY <1>4, <2>1, <2>2, <2>3, <2>4, <2>5 DEF OnItsWay
<1>5. \A m \in Lines : due'[m] \subseteq due[m]
  BY CutOffIs
<1>6. Owed'
  BY <1>4, <1>5, StillOwed DEF LanInv, EndsOf
<1> QED BY <1>1, <1>3, <1>6 DEF LanInv

\* The server closes a writer.
LEMMA AWriterIsClosed ==
  ASSUME B!LanAssumption, LanInv, NEW k \in B!Conns, B!CloseWriter(k) PROVE LanInv'
<1>1. B!CutOff({k}) /\ EndsOf(k)
  BY DEF B!CloseWriter, EndsOf, B!CutOff, B!pipes, LanInv, LanShapes
<1> QED BY <1>1, AnEndIsFine

\* A connection breaks: any part of what was under way is lost.
LEMMA AConnectionBreaks ==
  ASSUME B!LanAssumption, LanInv, NEW k \in B!Conns, B!Break(k) PROVE LanInv'
<1>1. PICK i \in 0..Len(up[k]), n \in 0..Len(down[k]) :
        /\ up' = [up EXCEPT ![k] = SubSeq(@, 1, i)]
        /\ down' = [down EXCEPT ![k] = SubSeq(@, 1, n)]
  BY DEF B!Break, B!Truncated
<1>2. up[k] \in Seq(Nat) /\ down[k] \in Seq(Nat)
  BY DEF LanInv, LanShapes
<1>3. /\ SubSeq(up[k], 1, i) \in Seq(Nat) /\ SubSeq(down[k], 1, n) \in Seq(Nat)
      /\ \A m \in Nat : In(m, SubSeq(up[k], 1, i)) => In(m, up[k])
      /\ \A m \in Nat : In(m, SubSeq(down[k], 1, n)) => In(m, down[k])
      /\ Once(up[k]) => Once(SubSeq(up[k], 1, i))
      /\ Once(down[k]) => Once(SubSeq(down[k], 1, n))
  BY <1>2, PrefixIn
<1>4. /\ up' \in [B!Conns -> Seq(Nat)] /\ down' \in [B!Conns -> Seq(Nat)]
      /\ up'[k] = SubSeq(up[k], 1, i) /\ down'[k] = SubSeq(down[k], 1, n)
      /\ \A j \in B!Conns : j # k => up'[j] = up[j] /\ down'[j] = down[j]
  BY <1>1, <1>3 DEF LanInv, LanShapes
<1>5. B!CutOff({k}) /\ EndsOf(k)
  BY <1>3, <1>4 DEF B!Break, EndsOf, B!CutOff
<1> QED BY <1>5, AnEndIsFine
-----------------------------------------------------------------------------
(***************************************************************************)
(* BroadcastLan: a bot receives                                            *)
(***************************************************************************)
LEMMA ReceiveIs ==
  ASSUME B!LanAssumption, LanInv, NEW a \in B!Agents, NEW m \in Lines, ~In(m, got[a]),
         B!Receive(a, m), author' = author
  PROVE  /\ got' \in [B!Agents -> Seq(Nat)] /\ buffer' \in [B!Agents -> Seq(Nat)]
         /\ \A b \in B!Agents : b # a => got'[b] = got[b]
         /\ \A y \in Nat : In(y, got'[a]) <=> In(y, got[a]) \/ (y = m /\ author[m] # a)
         /\ Once(got'[a]) /\ Buffered'
<1>1. /\ got[a] \in Seq(Nat) /\ buffer[a] \in Seq(Nat) /\ m \in Nat /\ Once(got[a])
      /\ Len(buffer[a]) <= MaxSize /\ Ends(buffer[a], got[a])
  BY DEF LanInv, LanShapes, Lines, InOnePlace, NothingTwice, Buffered
<1>2. CASE author[m] = a
  <2>1. got' = got /\ buffer' = buffer
    BY <1>2 DEF B!Receive, B!Mine, B!received
  <2> QED BY <1>1, <1>2, <2>1 DEF LanInv, LanShapes, Buffered, B!Agents
<1>3. CASE author[m] # a
  <2>1. /\ got' = [got EXCEPT ![a] = Append(got[a], m)]
        /\ buffer' = [buffer EXCEPT ![a] = B!Kept(Append(buffer[a], m))]
    BY <1>3 DEF B!Receive, B!Mine
  <2>2. /\ Append(got[a], m) \in Seq(Nat)
        /\ \A y : In(y, Append(got[a], m)) <=> In(y, got[a]) \/ y = m
        /\ Once(Append(got[a], m))
    BY <1>1, AppendIn
  <2>3. /\ B!Kept(Append(buffer[a], m)) \in Seq(Nat)
        /\ Len(B!Kept(Append(buffer[a], m))) <= MaxSize
        /\ Ends(B!Kept(Append(buffer[a], m)), Append(got[a], m))
    BY <1>1, KeptEnds
  <2>4. /\ got' \in [B!Agents -> Seq(Nat)] /\ buffer' \in [B!Agents -> Seq(Nat)]
        /\ got'[a] = Append(got[a], m) /\ buffer'[a] = B!Kept(Append(buffer[a], m))
        /\ \A b \in B!Agents : b # a => got'[b] = got[b] /\ buffer'[b] = buffer[b]
    BY <2>1, <2>2, <2>3 DEF LanInv, LanShapes
  <2>5. Buffered'
    <3> SUFFICES ASSUME NEW b \in B!Agents
                 PROVE  Len(buffer'[b]) <= MaxSize /\ Ends(buffer'[b], got'[b])
      BY DEF Buffered, B!Agents
    <3> QED BY <2>3, <2>4 DEF LanInv, Buffered
  <2> QED BY <1>3, <2>2, <2>4, <2>5
<1> QED BY <1>2, <1>3
-----------------------------------------------------------------------------
(***************************************************************************)
(* BroadcastLan: a message goes on                                         *)
(***************************************************************************)
\* The numbers of the messages, and a number that none has yet.
LEMMA LinesAre ==
  ASSUME LanInv
  PROVE  /\ Lines \subseteq Nat \ {0} /\ Len(author) \in Nat /\ Len(author) + 1 \notin Lines
         /\ Len(author) + 1 \in Nat \ {0}
  BY DEF LanInv, LanShapes, Lines

\* A line that a client takes from its connection and drops, or receives.
LEMMA AClientReads ==
  ASSUME B!LanAssumption, LanInv, NEW c \in Clients, B!ClientReads(c) PROVE LanInv'
<1>1. PICK k, m : k = B!Current(c) /\ m = Head(down[k])
  OBVIOUS
<1>2. /\ client[c] = "reading" /\ down[k] # <<>> /\ down' = [down EXCEPT ![k] = Tail(down[k])]
      /\ UNCHANGED <<phase, closing, client, conns, clientes, handlers, cut, up, relay, author>>
      /\ \/ B!Receive(c, m) /\ UNCHANGED <<drops, due>>
         \/ due' = [due EXCEPT ![m] = due[m] \ {c}] /\ UNCHANGED B!received
  BY <1>1 DEF B!ClientReads
<1>3. k \in Opened /\ k \in B!Conns /\ B!Owner(k) = c /\ c \in B!Agents /\ c # Server
  BY <1>1, <1>2, CurrentIs, LanOwners DEF LanInv, Opened
<1>4. /\ Tail(down[k]) \in Seq(Nat) /\ m \in Nat /\ In(m, down[k])
      /\ \A y \in Nat : In(y, Tail(down[k])) => In(y, down[k])
      /\ \A y : In(y, down[k]) => y = m \/ In(y, Tail(down[k]))
      /\ Once(down[k]) => Once(Tail(down[k])) /\ ~In(m, Tail(down[k]))
  BY <1>1, <1>2, <1>3, TailIn DEF LanInv, LanShapes
<1>5. /\ m \in Lines /\ ~In(m, got[c])
      /\ \A j \in B!Conns : B!Owner(j) = c /\ In(m, down[j]) => j = k
  BY <1>3, <1>4 DEF LanInv, InOnePlace, GoesDownOnce
<1>6. /\ down' \in [B!Conns -> Seq(Nat)] /\ down'[k] = Tail(down[k])
      /\ \A j \in B!Conns : j # k => down'[j] = down[j]
  BY <1>2, <1>3, <1>4 DEF LanInv, LanShapes
<1>7. CASE due' = [due EXCEPT ![m] = due[m] \ {c}] /\ UNCHANGED B!received
  <2>1. /\ due' \in Seq(SUBSET B!Agents) /\ Len(due') = Len(author)
        /\ \A y \in Lines : due'[y] = IF y = m THEN due[y] \ {c} ELSE due[y]
    <3>1. due \in [Lines -> SUBSET B!Agents] /\ Len(author) \in Nat
      BY DEF LanInv, LanShapes, Lines
    <3>2. due' \in [1..Len(author) -> SUBSET B!Agents]
      BY <1>5, <1>7, <3>1 DEF Lines
    <3>3. due' \in Seq(SUBSET B!Agents) /\ Len(due') = Len(author)
      BY <3>1, <3>2, FunctionIsSeq
    <3>4. \A y \in Lines : due'[y] = IF y = m THEN due[y] \ {c} ELSE due[y]
      BY <1>7, <3>1
    <3> QED BY <3>3, <3>4
  <2>2. LanShapes' /\ OnlyTheLast'
    BY <1>2, <1>6, <1>7, <2>1 DEF LanInv, LanShapes, OnlyTheLast, Opened, Relays, B!Conns,
       B!Agents, B!Current, B!received
  <2>3. Dwindles
    BY <1>2, <1>4, <1>6, <1>7 DEF Dwindles, B!received, Opened, B!Conns
  <2>4. InOnePlace' /\ Buffered'
    BY <1>7, <2>2, <2>3, DwindlesIsFine, NotBuffered DEF LanInv
  <2>5. ASSUME NEW y \in Lines, NEW a \in due'[y]
        PROVE  a \in due[y] /\ (OnItsWay(y, a) => OnItsWay(y, a)')
    <3>1. a \in due[y] /\ ~(y = m /\ a = c)
      BY <2>1
    <3>2. ASSUME NEW j \in B!Conns, B!Owner(j) = a, In(y, down[j]) PROVE In(y, down'[j])
      BY <1>3, <1>4, <1>6, <3>1, <3>2
    <3> QED BY <1>2, <1>7, <3>1, <3>2 DEF OnItsWay, B!received, B!Owner, B!Conns, Relays
  <2>6. Owed'
    BY <1>2, <2>5, StillOwed DEF LanInv
  <2> QED BY <2>2, <2>4, <2>6 DEF LanInv
<1>8. CASE B!Receive(c, m) /\ UNCHANGED <<drops, due>>
  <2>1. /\ got' \in [B!Agents -> Seq(Nat)] /\ buffer' \in [B!Agents -> Seq(Nat)]
        /\ \A b \in B!Agents : b # c => got'[b] = got[b]
        /\ \A y \in Nat : In(y, got'[c]) <=> In(y, got[c]) \/ (y = m /\ author[m] # c)
        /\ Once(got'[c]) /\ Buffered'
    BY <1>2, <1>3, <1>5, <1>8, ReceiveIs
  <2>2. LanShapes' /\ OnlyTheLast'
    BY <1>2, <1>6, <1>8, <2>1 DEF LanInv, LanShapes, OnlyTheLast, Opened, Relays, B!Conns,
       B!Agents, B!Current
  <2>3. Lines' = Lines /\ Lines \subseteq Nat \ {0}
    BY <1>2, LinesAre DEF Lines
  <2>4. ASSUME NEW y \in Nat, NEW a \in B!Agents, Unread(y, a), y # m \/ a # c PROVE Unread(y, a)'
    <3>1. ~In(y, got'[a])
      BY <2>1, <2>4 DEF Unread
    <3>2. \A j \in B!Conns : In(y, down'[j]) => In(y, down[j])
      BY <1>4, <1>6
    <3> QED BY <2>4, <3>1, <3>2 DEF Unread, B!Owner, B!Conns
  <2>5. ~Unread(m, c)
    BY <1>3, <1>4 DEF Unread
  <2>6. ASSUME NEW y \in Nat, NEW a \in B!Agents, Unread(y, a) PROVE Unread(y, a)'
    BY <2>4, <2>5, <2>6
  <2>7. GoesUpOnce'
    <3> SUFFICES ASSUME NEW j \in B!Conns, NEW y \in Nat, In(y, up[j])
                 PROVE  /\ y \in Lines /\ author[y] = B!Owner(j) /\ Unrelayed(y)'
                        /\ \A i \in B!Conns : In(y, up[i]) => i = j
      BY <1>2, <2>3 DEF GoesUpOnce, B!Conns, B!Owner
    <3>1. /\ y \in Lines /\ author[y] = B!Owner(j) /\ Unrelayed(y)
          /\ \A i \in B!Conns : In(y, up[i]) => i = j
      BY DEF LanInv, InOnePlace, GoesUpOnce
    <3>2. ASSUME NEW a \in B!Agents PROVE Unread(y, a)'
      BY <2>6, <3>1 DEF Unrelayed
    <3>3. Unrelayed(y)'
      BY <1>2, <3>1, <3>2 DEF Unrelayed, Relays, B!Conns, B!Agents
    <3> QED BY <3>1, <3>3
  <2>8. RelayedOnce'
    <3> SUFFICES ASSUME NEW x \in Relays, relay[x].line # 0
                 PROVE  /\ Unread(relay[x].line, Server)'
                        /\ \A j \in relay[x].todo \ cut : Unread(relay[x].line, B!Owner(j))'
      BY <1>2, <2>3 DEF LanInv, InOnePlace, RelayedOnce, Relays, B!Conns, B!Owner, Opened,
         B!NoRelay
    <3>1. /\ relay[x].line \in Nat /\ Unread(relay[x].line, Server)
          /\ relay[x].todo \subseteq B!Conns
          /\ \A j \in relay[x].todo \ cut : Unread(relay[x].line, B!Owner(j))
      BY <2>3 DEF LanInv, InOnePlace, RelayedOnce, Opened
    <3> QED BY <1>2, <2>6, <3>1, LanOwners
  <2>9. GoesDownOnce'
    <3> SUFFICES ASSUME NEW j \in B!Conns, NEW y \in Nat, In(y, down'[j])
                 PROVE  /\ y \in Lines /\ ~In(y, got'[B!Owner(j)])
                        /\ \A i \in B!Conns :
                             B!Owner(i) = B!Owner(j) /\ In(y, down'[i]) => i = j
      BY <2>3 DEF GoesDownOnce, B!Conns, B!Owner
    <3>1. \A i \in B!Conns : In(y, down'[i]) => In(y, down[i])
      BY <1>4, <1>6
    <3>2. /\ y \in Lines /\ ~In(y, got[B!Owner(j)])
          /\ \A i \in B!Conns : B!Owner(i) = B!Owner(j) /\ In(y, down[i]) => i = j
      BY <3>1 DEF LanInv, InOnePlace, GoesDownOnce
    <3>3. ~In(y, got'[B!Owner(j)])
      <4>1. CASE B!Owner(j) # c
        BY <2>1, <3>2, <4>1, LanOwners
      <4>2. CASE B!Owner(j) = c
        <5>1. y # m
          <6>1. CASE j = k
            <7>1. Once(down[k])
              BY <1>3 DEF LanInv, InOnePlace, NothingTwice
            <7> QED BY <1>4, <1>6, <6>1, <7>1
          <6>2. CASE j # k
            BY <1>3, <1>5, <1>6, <4>2, <6>2
          <6> QED BY <6>1, <6>2
        <5> QED BY <2>1, <3>2, <4>2, <5>1
      <4> QED BY <4>1, <4>2
    <3> QED BY <3>1, <3>2, <3>3
  <2>10. NothingTwice'
    <3>1. \A j \in B!Conns : Once(up'[j]) /\ Once(down'[j])
      BY <1>2, <1>3, <1>4, <1>6 DEF LanInv, InOnePlace, NothingTwice
    <3>2. ASSUME NEW a \in B!Agents
          PROVE  Once(got'[a]) /\ \A y \in Nat : In(y, got'[a]) => y \in Lines /\ author[y] # a
      BY <1>5, <2>1, <3>2 DEF LanInv, InOnePlace, NothingTwice
    <3> QED BY <1>2, <2>3, <3>1, <3>2 DEF NothingTwice, B!Conns, B!Agents
  <2>11. ASSUME NEW y \in Lines, NEW a \in due[y], a # author[y], OnItsWay(y, a)
         PROVE  OnItsWay(y, a)'
    <3>1. y \in Nat
      BY <2>3
    <3>2. a \in B!Agents
      BY DEF LanInv, LanShapes, Lines
    <3>3. In(y, got[a]) => In(y, got'[a])
      BY <2>1, <3>1, <3>2
    <3>4. ASSUME NEW j \in B!Conns, B!Owner(j) = a, In(y, down[j])
          PROVE  In(y, down'[j]) \/ In(y, got'[a])
      BY <1>3, <1>4, <1>6, <2>1, <2>11, <3>1, <3>4
    <3> QED BY <1>2, <2>11, <3>3, <3>4 DEF OnItsWay, B!Owner, B!Conns, Relays
  <2>12. Owed'
    BY <1>2, <1>8, <2>11, StillOwed DEF LanInv
  <2> QED BY <2>1, <2>2, <2>7, <2>8, <2>9, <2>10, <2>12 DEF LanInv, InOnePlace
<1> QED BY <1>2, <1>7, <1>8

\* What a bot still has to read does not depend on the rest.
LEMMA UnreadStays ==
  ASSUME UNCHANGED <<down, got>>, NEW y, NEW a PROVE Unread(y, a)' <=> Unread(y, a)
  BY DEF Unread, B!Conns, B!Owner

\* The server reads a line and drops it, or starts to relay it.
LEMMA TheServerReads ==
  ASSUME B!LanAssumption, LanInv, NEW k \in B!Conns, B!ServerReads(k) PROVE LanInv'
<1>1. PICK m : m = Head(up[k])
  OBVIOUS
<1>2. /\ relay[k] = B!NoRelay /\ up[k] # <<>> /\ up' = [up EXCEPT ![k] = Tail(up[k])]
      /\ UNCHANGED <<phase, closing, client, conns, clientes, handlers, cut, down, author,
                     B!received>>
      /\ \/ /\ B!RelayTo(k, [line |-> m, todo |-> B!Others(k), failed |-> {}])
            /\ UNCHANGED <<drops, due>>
         \/ UNCHANGED relay /\ due' = [due EXCEPT ![m] = {}]
  BY <1>1 DEF B!ServerReads
<1>3. k \in Relays /\ B!Owner(k) \in Clients /\ B!Owner(k) # Server
  BY LanOwners
<1>4. /\ Tail(up[k]) \in Seq(Nat) /\ m \in Nat /\ In(m, up[k])
      /\ \A y \in Nat : In(y, Tail(up[k])) => In(y, up[k])
      /\ \A y : In(y, up[k]) => y = m \/ In(y, Tail(up[k]))
      /\ Once(up[k]) => Once(Tail(up[k])) /\ ~In(m, Tail(up[k]))
  BY <1>1, <1>2, TailIn DEF LanInv, LanShapes
<1>5. /\ m \in Lines /\ author[m] = B!Owner(k) /\ Unrelayed(m)
      /\ \A j \in B!Conns : In(m, up[j]) => j = k
  BY <1>4 DEF LanInv, InOnePlace, GoesUpOnce
<1>6. /\ up' \in [B!Conns -> Seq(Nat)] /\ up'[k] = Tail(up[k])
      /\ \A j \in B!Conns : j # k => up'[j] = up[j]
  BY <1>2, <1>4 DEF LanInv, LanShapes
<1>7. /\ \A j \in B!Conns : \A y \in Nat : In(y, up'[j]) => In(y, up[j]) /\ y # m
      /\ \A j \in B!Conns : \A y \in Nat : In(y, up[j]) /\ y # m => In(y, up'[j])
      /\ \A j \in B!Conns : Once(up'[j])
  <2>1. \A j \in B!Conns : Once(up[j])
    BY DEF LanInv, InOnePlace, NothingTwice
  <2> QED BY <1>4, <1>5, <1>6, <2>1
<1>8. CASE UNCHANGED relay /\ due' = [due EXCEPT ![m] = {}]
  <2>1. /\ due' \in Seq(SUBSET B!Agents) /\ Len(due') = Len(author)
        /\ \A y \in Lines : due'[y] = IF y = m THEN {} ELSE due[y]
    <3>1. due \in [Lines -> SUBSET B!Agents] /\ Len(author) \in Nat
      BY DEF LanInv, LanShapes, Lines
    <3>2. due' \in [1..Len(author) -> SUBSET B!Agents]
      BY <1>5, <1>8, <3>1 DEF Lines
    <3>3. due' \in Seq(SUBSET B!Agents) /\ Len(due') = Len(author)
      BY <3>1, <3>2, FunctionIsSeq
    <3>4. \A y \in Lines : due'[y] = IF y = m THEN {} ELSE due[y]
      BY <1>8, <3>1
    <3> QED BY <3>3, <3>4
  <2>2. LanShapes' /\ OnlyTheLast'
    BY <1>2, <1>6, <1>8, <2>1 DEF LanInv, LanShapes, OnlyTheLast, Opened, Relays, B!Conns,
       B!Agents, B!Current, B!received
  <2>3. Dwindles
    BY <1>2, <1>7, <1>8 DEF Dwindles, B!received, Opened, B!Conns
  <2>4. InOnePlace' /\ Buffered'
    BY <1>2, <2>2, <2>3, DwindlesIsFine, NotBuffered DEF LanInv
  <2>5. ASSUME NEW y \in Lines, NEW a \in due'[y]
        PROVE  a \in due[y] /\ (OnItsWay(y, a) => OnItsWay(y, a)')
    <3>1. a \in due[y] /\ y # m /\ y \in Nat
      BY <2>1, LinesAre
    <3>2. \A j \in B!Conns : In(y, up[j]) => In(y, up'[j])
      BY <1>7, <3>1
    <3> QED BY <1>2, <1>8, <3>1, <3>2 DEF OnItsWay, B!received, B!Owner, B!Conns, Relays
  <2>6. Owed'
    BY <1>2, <2>5, StillOwed DEF LanInv
  <2> QED BY <2>2, <2>4, <2>6 DEF LanInv
<1>9. CASE /\ B!RelayTo(k, [line |-> m, todo |-> B!Others(k), failed |-> {}])
           /\ UNCHANGED <<drops, due>>
  <2>1. /\ relay' \in [Relays -> RelayRecords]
        /\ relay'[k] = [line |-> m, todo |-> clientes \ {k}, failed |-> {}]
        /\ \A x \in Relays : x # k => relay'[x] = relay[x]
    <3>1. [line |-> m, todo |-> clientes \ {k}, failed |-> {}] \in RelayRecords
      BY <1>4 DEF RelayRecords, LanInv, LanShapes, Opened
    <3> QED BY <1>3, <1>9, <3>1, RelaySet DEF B!Others, LanInv
  <2>2. LanShapes' /\ OnlyTheLast' /\ Buffered'
    <3>1. Buffered'
      BY <1>2, NotBuffered DEF LanInv
    <3> QED BY <1>2, <1>6, <1>9, <2>1, <3>1 DEF LanInv, LanShapes, OnlyTheLast, Opened, Relays,
            B!Conns, B!Agents, B!Current, B!received, RelayRecords
  <2>3. Lines' = Lines /\ Lines \subseteq Nat \ {0} /\ UNCHANGED <<down, got>>
    BY <1>2, LinesAre DEF Lines, B!received
  <2>4. GoesUpOnce'
    <3> SUFFICES ASSUME NEW j \in B!Conns, NEW y \in Nat, In(y, up'[j])
                 PROVE  /\ y \in Lines /\ author[y] = B!Owner(j) /\ Unrelayed(y)'
                        /\ \A i \in B!Conns : In(y, up'[i]) => i = j
      BY <1>2, <2>3 DEF GoesUpOnce, B!Conns, B!Owner
    <3>1. In(y, up[j]) /\ y # m
      BY <1>7
    <3>2. /\ y \in Lines /\ author[y] = B!Owner(j) /\ Unrelayed(y)
          /\ \A i \in B!Conns : In(y, up[i]) => i = j
      BY <3>1 DEF LanInv, InOnePlace, GoesUpOnce
    <3>3. \A x \in Relays : relay'[x].line # y
      BY <2>1, <3>1, <3>2 DEF Unrelayed
    <3>4. Unrelayed(y)'
      BY <2>3, <3>2, <3>3, UnreadStays DEF Unrelayed, Relays, B!Conns, B!Agents
    <3> QED BY <1>7, <3>2, <3>4
  <2>5. RelayedOnce'
    <3> SUFFICES ASSUME NEW x \in Relays
                 PROVE  /\ relay'[x].todo \subseteq Opened /\ relay'[x].failed \subseteq cut
                        /\ relay'[x].line = 0 => relay'[x] = B!NoRelay
                        /\ relay'[x].line # 0 =>
                             /\ relay'[x].line \in Lines /\ Unread(relay'[x].line, Server)
                             /\ \A z \in Relays : relay'[z].line = relay'[x].line => z = x
                             /\ \A j \in relay'[x].todo \ cut :
                                  Unread(relay'[x].line, B!Owner(j))
      <4>1. \A y, a : Unread(y, a)' <=> Unread(y, a)
        BY <2>3, UnreadStays
      <4>2. Opened' = Opened
        BY <1>2 DEF Opened, B!Conns
      <4> QED BY <1>2, <2>3, <4>1, <4>2 DEF RelayedOnce, Relays, B!Conns, B!Owner, B!NoRelay, Unread
    <3>1. \A z \in Relays : relay[z].line # m
      BY <1>5 DEF Unrelayed
    <3>2. CASE x = k
      <4>1. Unread(m, Server) /\ \A j \in clientes : Unread(m, B!Owner(j))
        BY <1>5, LanOwners DEF Unrelayed, LanInv, LanShapes, Opened
      <4> QED BY <1>5, <2>1, <2>3, <3>1, <3>2, <4>1 DEF LanInv, LanShapes
    <3>3. CASE x # k
      BY <2>1, <3>1, <3>3 DEF LanInv, InOnePlace, RelayedOnce
    <3> QED BY <3>2, <3>3
  <2>6. GoesDownOnce'
    BY <2>3 DEF LanInv, InOnePlace, GoesDownOnce, B!Conns, B!Owner
  <2>7. NothingTwice'
    BY <1>2, <1>7, <2>3 DEF LanInv, InOnePlace, NothingTwice, B!Conns, B!Agents
  <2>8. ASSUME NEW y \in Lines, NEW a \in due[y], a # author[y], OnItsWay(y, a)
        PROVE  OnItsWay(y, a)'
    <3>0. y \in Nat \ {0} /\ relay[k].line = 0
      BY <1>2, <2>3 DEF B!NoRelay
    <3>1. ASSUME NEW x \in Relays, relay[x].line = y PROVE relay'[x] = relay[x]
      BY <2>1, <3>0, <3>1
    <3>2. ASSUME NEW j \in B!Conns, In(y, up[j]),
                 a = Server \/ \E i \in clientes \ cut : B!Owner(i) = a
          PROVE  OnItsWay(y, a)'
      <4>1. CASE y # m
        BY <1>2, <1>7, <3>0, <3>2, <4>1 DEF OnItsWay, B!Owner, B!Conns
      <4>2. CASE y = m
        <5>1. a # B!Owner(k) /\ relay'[k].line = y /\ relay'[k].todo = clientes \ {k}
          BY <1>5, <2>1, <2>8, <4>2
        <5>2. a = Server \/ \E i \in relay'[k].todo \ cut' : B!Owner(i) = a
          BY <1>2, <3>2, <5>1
        <5> QED BY <1>3, <5>1, <5>2 DEF OnItsWay, B!Owner, B!Conns, Relays
      <4> QED BY <4>1, <4>2
    <3> QED BY <1>2, <2>3, <2>8, <3>1, <3>2 DEF OnItsWay, B!Owner, B!Conns, Relays
  <2>9. Owed'
    BY <1>2, <1>9, <2>8, StillOwed DEF LanInv
  <2> QED BY <2>2, <2>4, <2>5, <2>6, <2>7, <2>9 DEF LanInv, InOnePlace
<1> QED BY <1>2, <1>8, <1>9

\* A relay writes its line to one connection, or finds that it ended.
LEMMA ARelayWrites ==
  ASSUME B!LanAssumption, LanInv, NEW x \in Relays, NEW k \in relay[x].todo, B!Write(x, k)
  PROVE  LanInv'
<1>1. PICK m : m = relay[x].line
  OBVIOUS
<1>2. /\ UNCHANGED <<phase, closing, client, conns, clientes, handlers, cut, up, author,
                     B!received, due>>
      /\ \/ /\ k \notin cut /\ down' = [down EXCEPT ![k] = Append(down[k], m)]
            /\ B!RelayTo(x, [relay[x] EXCEPT !.todo = relay[x].todo \ {k}])
         \/ k \in cut /\ B!RelayTo(x, B!Failed(x, k)) /\ UNCHANGED down
  BY <1>1 DEF B!Write
<1>3. /\ relay[x] \in RelayRecords
      /\ relay[x].todo \subseteq Opened /\ relay[x].failed \subseteq cut
      /\ relay[x] # B!NoRelay /\ m # 0 /\ m \in Lines /\ m \in Nat
      /\ Unread(m, Server)
      /\ \A y \in Relays : relay[y].line = m => y = x
      /\ \A j \in relay[x].todo \ cut : Unread(m, B!Owner(j))
  <2>1. relay[x] # B!NoRelay
    BY DEF B!NoRelay
  <2>2. relay[x] \in RelayRecords
    BY DEF LanInv, LanShapes, RelayRecords
  <2> QED BY <1>1, <2>1, <2>2, LinesAre DEF LanInv, InOnePlace, RelayedOnce
<1>4. k \in B!Conns /\ k \in Opened /\ B!Owner(k) \in B!Agents /\ B!Owner(k) # Server
  BY <1>3, LanOwners DEF Opened
<1>5. CASE k \in cut /\ B!RelayTo(x, B!Failed(x, k)) /\ UNCHANGED down
  <2>1. PICK r : r = B!Failed(x, k)
    OBVIOUS
  <2>2. /\ r \in RelayRecords /\ r.line = m
        /\ r.todo = relay[x].todo \ {k} /\ r.failed = relay[x].failed \cup {k}
    BY <1>1, <1>3, <1>4, <2>1 DEF B!Failed, RelayRecords
  <2>3. /\ relay' \in [Relays -> RelayRecords] /\ relay'[x] = r
        /\ \A y \in Relays : y # x => relay'[y] = relay[y]
    BY <1>5, <2>1, <2>2, RelaySet DEF LanInv
  <2>4. LanShapes' /\ OnlyTheLast'
    BY <1>2, <1>5, <2>3 DEF LanInv, LanShapes, OnlyTheLast, Opened, Relays, B!Conns, B!Agents,
       B!Current, B!received, RelayRecords
  <2>5. Dwindles
    BY <1>1, <1>2, <1>3, <1>5, <2>2, <2>3 DEF Dwindles, B!received, Opened, B!Conns
  <2>6. InOnePlace' /\ Buffered'
    BY <1>2, <2>4, <2>5, DwindlesIsFine, NotBuffered DEF LanInv
  <2>7. \A y \in Relays : /\ relay'[y].line = relay[y].line
                          /\ relay'[y].todo \ cut' = relay[y].todo \ cut
    BY <1>1, <1>2, <1>5, <2>2, <2>3
  <2>8. ASSUME NEW y \in Lines, NEW a \in due[y] PROVE OnItsWay(y, a) => OnItsWay(y, a)'
    BY <1>2, <1>5, <2>7 DEF OnItsWay, B!received, B!Owner, B!Conns, Relays
  <2>9. Owed'
    BY <1>2, <2>8, StillOwed DEF LanInv
  <2> QED BY <2>4, <2>6, <2>9 DEF LanInv
<1>6. CASE /\ k \notin cut /\ down' = [down EXCEPT ![k] = Append(down[k], m)]
           /\ B!RelayTo(x, [relay[x] EXCEPT !.todo = relay[x].todo \ {k}])
  <2>1. PICK r : r = [relay[x] EXCEPT !.todo = relay[x].todo \ {k}]
    OBVIOUS
  <2>2. /\ r \in RelayRecords /\ r.line = m
        /\ r.todo = relay[x].todo \ {k} /\ r.failed = relay[x].failed
    BY <1>1, <1>3, <2>1 DEF RelayRecords
  <2>3. /\ relay' \in [Relays -> RelayRecords] /\ relay'[x] = r
        /\ \A y \in Relays : y # x => relay'[y] = relay[y]
    BY <1>6, <2>1, <2>2, RelaySet DEF LanInv
  <2>4. Unread(m, B!Owner(k)) /\ ~In(m, down[k]) /\ ~In(m, got[B!Owner(k)])
    BY <1>3, <1>4, <1>6 DEF Unread
  <2>5. /\ Append(down[k], m) \in Seq(Nat)
        /\ \A y : In(y, Append(down[k], m)) <=> In(y, down[k]) \/ y = m
        /\ Once(down[k]) => Once(Append(down[k], m))
    BY <1>3, <1>4, <2>4, AppendIn DEF LanInv, LanShapes
  <2>6. /\ down' \in [B!Conns -> Seq(Nat)]
        /\ \A y : In(y, down'[k]) <=> In(y, down[k]) \/ y = m
        /\ \A j \in B!Conns : j # k => down'[j] = down[j]
        /\ Once(down[k]) => Once(down'[k])
    BY <1>4, <1>6, <2>5 DEF LanInv, LanShapes
  <2>7. LanShapes' /\ OnlyTheLast' /\ Buffered'
    <3>1. Buffered'
      BY <1>2, NotBuffered DEF LanInv
    <3> QED BY <1>2, <2>3, <2>6, <3>1 DEF LanInv, LanShapes, OnlyTheLast, Opened, Relays, B!Conns,
            B!Agents, B!Current, B!received, RelayRecords
  <2>8. Lines' = Lines /\ Lines \subseteq Nat \ {0} /\ got' = got /\ Opened' = Opened
    BY <1>2, LinesAre DEF Lines, B!received, Opened, B!Conns
  <2>9. ASSUME NEW y, NEW a, Unread(y, a), y # m \/ a # B!Owner(k) PROVE Unread(y, a)'
    <3>1. ASSUME NEW j \in B!Conns, B!Owner(j) = a PROVE ~In(y, down'[j])
      BY <2>6, <2>9, <3>1 DEF Unread
    <3> QED BY <2>8, <2>9, <3>1 DEF Unread, B!Owner, B!Conns
  <2>10. \A z \in Relays : /\ relay'[z].line = relay[z].line /\ relay'[z].failed = relay[z].failed
                           /\ relay'[z].todo \subseteq relay[z].todo
    BY <1>1, <2>2, <2>3
  <2>11. GoesUpOnce'
    <3> SUFFICES ASSUME NEW j \in B!Conns, NEW y \in Nat, In(y, up[j])
                 PROVE  /\ y \in Lines /\ author[y] = B!Owner(j) /\ Unrelayed(y)'
                        /\ \A i \in B!Conns : In(y, up[i]) => i = j
      BY <1>2, <2>8 DEF GoesUpOnce, B!Conns, B!Owner
    <3>1. /\ y \in Lines /\ author[y] = B!Owner(j) /\ Unrelayed(y)
          /\ \A i \in B!Conns : In(y, up[i]) => i = j
      BY DEF LanInv, InOnePlace, GoesUpOnce
    <3>2. y # m
      BY <1>1, <3>1 DEF Unrelayed
    <3>3. Unrelayed(y)'
      BY <2>9, <2>10, <3>1, <3>2 DEF Unrelayed, Relays, B!Conns, B!Agents
    <3> QED BY <3>1, <3>3
  <2>12. RelayedOnce'
    <3> SUFFICES ASSUME NEW z \in Relays, NEW n, n = relay[z].line
                 PROVE  /\ relay'[z].todo \subseteq Opened /\ relay'[z].failed \subseteq cut
                        /\ n = 0 => relay'[z] = B!NoRelay
                        /\ n # 0 => /\ n \in Lines /\ Unread(n, Server)'
                                    /\ \A w \in Relays : relay'[w].line = n => w = z
                                    /\ \A j \in relay'[z].todo \ cut : Unread(n, B!Owner(j))'
      BY <1>2, <2>8, <2>10 DEF RelayedOnce, Relays, B!Conns, B!Owner, B!NoRelay, Unread
    <3>2. /\ relay[z].todo \subseteq Opened /\ relay[z].failed \subseteq cut
          /\ n = 0 => relay[z] = B!NoRelay
          /\ n # 0 => /\ n \in Lines /\ Unread(n, Server)
                      /\ \A w \in Relays : relay[w].line = n => w = z
                      /\ \A j \in relay[z].todo \ cut : Unread(n, B!Owner(j))
      BY DEF LanInv, InOnePlace, RelayedOnce
    <3>3. n = 0 => z # x
      BY <1>1, <1>3
    <3>4. ASSUME n # 0 PROVE Unread(n, Server)'
      BY <1>4, <2>9, <3>2, <3>4
    <3>5. ASSUME n # 0, NEW j \in relay'[z].todo \ cut PROVE Unread(n, B!Owner(j))'
      <4>1. j \in relay[z].todo \ cut /\ Unread(n, B!Owner(j)) /\ j \in Opened
        BY <2>10, <3>2, <3>5
      <4>2. CASE z # x
        BY <1>1, <1>3, <2>9, <3>2, <3>5, <4>1, <4>2
      <4>3. CASE z = x
        <5>1. j # k
          BY <2>2, <2>3, <3>5, <4>3
        <5>2. B!Owner(j) # B!Owner(k)
          BY <1>4, <1>6, <4>1, <5>1, OneUp DEF LanInv
        <5> QED BY <2>9, <4>1, <5>2
      <4> QED BY <4>2, <4>3
    <3>6. \A w \in Relays : relay'[w].line = relay[w].line
      BY <2>10
    <3>7. n = 0 => relay'[z] = B!NoRelay
      BY <2>3, <3>2, <3>3
    <3> QED BY <2>10, <3>2, <3>4, <3>5, <3>6, <3>7
  <2>13. GoesDownOnce'
    <3> SUFFICES ASSUME NEW j \in B!Conns, NEW y \in Nat, In(y, down'[j])
                 PROVE  /\ y \in Lines /\ ~In(y, got[B!Owner(j)])
                        /\ \A i \in B!Conns :
                             B!Owner(i) = B!Owner(j) /\ In(y, down'[i]) => i = j
      BY <2>8 DEF GoesDownOnce, B!Conns, B!Owner
    <3>1. CASE y = m /\ B!Owner(j) = B!Owner(k)
      <4>1. \A i \in B!Conns : B!Owner(i) = B!Owner(k) => ~In(m, down[i])
        BY <2>4 DEF Unread
      <4>2. \A i \in B!Conns : B!Owner(i) = B!Owner(k) /\ In(m, down'[i]) => i = k
        BY <2>6, <4>1
      <4> QED BY <1>3, <2>4, <3>1, <4>2
    <3>2. CASE ~(y = m /\ B!Owner(j) = B!Owner(k))
      <4>1. \A i \in B!Conns : B!Owner(i) = B!Owner(j) /\ In(y, down'[i]) => In(y, down[i])
        BY <2>6, <3>2
      <4>2. In(y, down[j])
        BY <4>1
      <4>3. /\ y \in Lines /\ ~In(y, got[B!Owner(j)])
            /\ \A i \in B!Conns : B!Owner(i) = B!Owner(j) /\ In(y, down[i]) => i = j
        BY <4>2 DEF LanInv, InOnePlace, GoesDownOnce
      <4> QED BY <4>1, <4>3
    <3> QED BY <3>1, <3>2
  <2>14. NothingTwice'
    BY <1>2, <2>6, <2>8 DEF LanInv, InOnePlace, NothingTwice, B!Conns, B!Agents
  <2>15. ASSUME NEW y \in Lines, NEW a \in due[y], OnItsWay(y, a) PROVE OnItsWay(y, a)'
    <3>1. ASSUME NEW j \in B!Conns, B!Owner(j) = a, In(y, down[j]) PROVE OnItsWay(y, a)'
      <4>1. In(y, down'[j])
        BY <2>6, <3>1
      <4> QED BY <3>1, <4>1 DEF OnItsWay, B!Owner, B!Conns
    <3>2. ASSUME NEW z \in Relays, relay[z].line = y,
                 a = Server \/ \E j \in relay[z].todo \ cut : B!Owner(j) = a
          PROVE  OnItsWay(y, a)'
      <4>1. relay'[z].line = y
        BY <2>10, <3>2
      <4>2. CASE a = Server
        BY <4>1, <4>2 DEF OnItsWay, Relays, B!Conns
      <4>3. ASSUME NEW j \in relay[z].todo \ cut, B!Owner(j) = a PROVE OnItsWay(y, a)'
        <5>1. CASE z = x /\ j = k
          <6>1. In(y, down'[k])
            BY <1>1, <2>6, <3>2, <5>1
          <6> QED BY <1>4, <4>3, <5>1, <6>1 DEF OnItsWay, B!Owner, B!Conns
        <5>2. CASE ~(z = x /\ j = k)
          <6>1. j \in relay'[z].todo \ cut'
            BY <1>2, <2>2, <2>3, <4>3, <5>2
          <6> QED BY <4>1, <4>3, <6>1 DEF OnItsWay, B!Owner, Relays, B!Conns
        <5> QED BY <5>1, <5>2
      <4> QED BY <3>2, <4>2, <4>3
    <3> QED BY <1>2, <2>8, <2>15, <3>1, <3>2 DEF OnItsWay, B!Owner, B!Conns
  <2>16. Owed'
    BY <1>2, <2>15, StillOwed DEF LanInv
  <2> QED BY <2>7, <2>11, <2>12, <2>13, <2>14, <2>16 DEF LanInv, InOnePlace
<1> QED BY <1>2, <1>5, <1>6

\* A relay ends: the server receives its line, and forgets who could not.
LEMMA ARelayEnds ==
  ASSUME B!LanAssumption, LanInv, NEW x \in Relays, B!EndRelay(x) PROVE LanInv'
<1>1. PICK m : m = relay[x].line
  OBVIOUS
<1>2. /\ UNCHANGED <<phase, closing, client, conns, handlers, cut, up, down, author, due>>
      /\ clientes' = clientes \ relay[x].failed /\ relay[x] # B!NoRelay /\ relay[x].todo = {}
      /\ B!Receive(Server, m) /\ B!RelayTo(x, B!NoRelay)
  BY <1>1 DEF B!EndRelay, B!pipes
<1>3. /\ relay[x].failed \subseteq cut /\ m # 0 /\ m \in Lines /\ m \in Nat
      /\ ~In(m, got[Server]) /\ \A y \in Relays : relay[y].line = m => y = x
  BY <1>1, <1>2, LinesAre DEF LanInv, InOnePlace, RelayedOnce, Unread
<1>4. /\ got' \in [B!Agents -> Seq(Nat)] /\ buffer' \in [B!Agents -> Seq(Nat)]
      /\ \A b \in B!Agents : b # Server => got'[b] = got[b]
      /\ \A y \in Nat : In(y, got'[Server]) <=> In(y, got[Server]) \/ (y = m /\ author[m] # Server)
      /\ Once(got'[Server]) /\ Buffered'
  BY <1>2, <1>3, ReceiveIs, LanOwners
<1>5. /\ relay' \in [Relays -> RelayRecords] /\ relay'[x] = B!NoRelay
      /\ \A y \in Relays : y # x => relay'[y] = relay[y]
  <2>1. B!NoRelay \in RelayRecords
    BY DEF B!NoRelay, RelayRecords
  <2> QED BY <1>2, <2>1, RelaySet DEF LanInv
<1>6. LanShapes' /\ OnlyTheLast'
  BY <1>2, <1>3, <1>4, <1>5 DEF LanInv, LanShapes, OnlyTheLast, Opened, Relays, B!Conns,
     B!Agents, B!Current, RelayRecords
<1>7. Lines' = Lines /\ Lines \subseteq Nat \ {0} /\ Opened' = Opened
  BY <1>2, LinesAre DEF Lines, Opened, B!Conns
<1>8. ASSUME NEW y \in Nat, NEW a \in B!Agents, Unread(y, a), y # m \/ a # Server
      PROVE  Unread(y, a)'
  <2>1. ~In(y, got'[a])
    BY <1>4, <1>8 DEF Unread
  <2> QED BY <1>2, <1>8, <2>1 DEF Unread, B!Owner, B!Conns
<1>9. GoesUpOnce'
  <2> SUFFICES ASSUME NEW j \in B!Conns, NEW y \in Nat, In(y, up[j])
               PROVE  /\ y \in Lines /\ author[y] = B!Owner(j) /\ Unrelayed(y)'
                      /\ \A i \in B!Conns : In(y, up[i]) => i = j
    BY <1>2, <1>7 DEF GoesUpOnce, B!Conns, B!Owner
  <2>1. /\ y \in Lines /\ author[y] = B!Owner(j) /\ Unrelayed(y)
        /\ \A i \in B!Conns : In(y, up[i]) => i = j
    BY DEF LanInv, InOnePlace, GoesUpOnce
  <2>2. y # m /\ y # 0
    BY <1>1, <1>7, <2>1 DEF Unrelayed
  <2>3. \A z \in Relays : relay'[z].line # y
    BY <1>5, <2>1, <2>2 DEF Unrelayed, B!NoRelay
  <2>4. Unrelayed(y)'
    BY <1>8, <2>1, <2>2, <2>3 DEF Unrelayed, Relays, B!Conns, B!Agents
  <2> QED BY <2>1, <2>4
<1>10. RelayedOnce'
  <2> SUFFICES ASSUME NEW z \in Relays, NEW n, n = relay'[z].line
               PROVE  /\ relay'[z].todo \subseteq Opened /\ relay'[z].failed \subseteq cut
                      /\ n = 0 => relay'[z] = B!NoRelay
                      /\ n # 0 => /\ n \in Lines /\ Unread(n, Server)'
                                  /\ \A w \in Relays : relay'[w].line = n => w = z
                                  /\ \A j \in relay'[z].todo \ cut : Unread(n, B!Owner(j))'
    BY <1>2, <1>7 DEF RelayedOnce, Relays, B!Conns, B!Owner, B!NoRelay, Unread
  <2>1. CASE z = x
    BY <1>5, <2>1 DEF B!NoRelay
  <2>2. CASE z # x
    <3>1. relay'[z] = relay[z]
      BY <1>5, <2>2
    <3>2. /\ relay[z].todo \subseteq Opened /\ relay[z].failed \subseteq cut
          /\ n = 0 => relay[z] = B!NoRelay
          /\ n # 0 => /\ n \in Lines /\ Unread(n, Server)
                      /\ \A w \in Relays : relay[w].line = n => w = z
                      /\ \A j \in relay[z].todo \ cut : Unread(n, B!Owner(j))
      BY <3>1 DEF LanInv, InOnePlace, RelayedOnce
    <3>3. n # m
      BY <1>3, <2>2, <3>1
    <3>4. n # 0 => Unread(n, Server)' /\ \A j \in relay[z].todo \ cut : Unread(n, B!Owner(j))'
      BY <1>7, <1>8, <3>2, <3>3, LanOwners DEF Opened
    <3>5. n # 0 => \A w \in Relays : relay'[w].line = n => w = z
      BY <1>5, <3>2 DEF B!NoRelay
    <3> QED BY <3>1, <3>2, <3>4, <3>5
  <2> QED BY <2>1, <2>2
<1>11. GoesDownOnce'
  <2>1. \A j \in B!Conns : got'[B!Owner(j)] = got[B!Owner(j)]
    BY <1>4, LanOwners
  <2> QED BY <1>2, <1>7, <2>1 DEF LanInv, InOnePlace, GoesDownOnce, B!Conns, B!Owner
<1>12. NothingTwice'
  <2>1. ASSUME NEW a \in B!Agents
        PROVE  Once(got'[a]) /\ \A y \in Nat : In(y, got'[a]) => y \in Lines /\ author[y] # a
    BY <1>3, <1>4 DEF LanInv, InOnePlace, NothingTwice
  <2> QED BY <1>2, <1>7, <2>1 DEF LanInv, InOnePlace, NothingTwice, B!Conns, B!Agents
<1>13. ASSUME NEW y \in Lines, NEW a \in due[y], a # author[y], OnItsWay(y, a)
       PROVE  OnItsWay(y, a)'
  <2>1. y \in Nat \ {0} /\ a \in B!Agents
    BY <1>7 DEF LanInv, LanShapes, Lines
  <2>2. In(y, got[a]) => In(y, got'[a])
    BY <1>4, <2>1
  <2>3. ASSUME NEW z \in Relays, relay[z].line = y,
               a = Server \/ \E j \in relay[z].todo \ cut : B!Owner(j) = a
        PROVE  OnItsWay(y, a)'
    <3>1. CASE z # x
      BY <1>2, <1>5, <2>3, <3>1 DEF OnItsWay, B!Owner, Relays, B!Conns
    <3>2. CASE z = x
      <4>1. a = Server /\ y = m /\ author[m] # Server
        BY <1>1, <1>2, <1>13, <2>3, <3>2
      <4>2. In(y, got'[a])
        BY <1>3, <1>4, <4>1
      <4> QED BY <4>2 DEF OnItsWay
    <3> QED BY <3>1, <3>2
  <2>4. clientes \ cut = clientes' \ cut'
    BY <1>2, <1>3
  <2> QED BY <1>2, <1>13, <2>2, <2>3, <2>4 DEF OnItsWay, B!Owner, B!Conns
<1>14. Owed'
  BY <1>2, <1>13, StillOwed DEF LanInv
<1> QED BY <1>4, <1>6, <1>9, <1>10, <1>11, <1>12, <1>14 DEF LanInv, InOnePlace
-----------------------------------------------------------------------------
(***************************************************************************)
(* BroadcastLan: a bot emits                                               *)
(***************************************************************************)
\* What an emission appends, and what it makes of the message m.
Emission(a, S) == author' = Append(author, a) /\ due' = Append(due, S)
Emitted(m, a, S) ==
  /\ m \in Nat \ {0} /\ m \notin Lines /\ Lines' = Lines \cup {m}
  /\ author' \in Seq(B!Agents) /\ due' \in Seq(SUBSET B!Agents) /\ Len(due') = Len(author')
  /\ author'[m] = a /\ due'[m] = S
  /\ \A y \in Lines : y # m /\ author'[y] = author[y] /\ due'[y] = due[y]
  /\ Unrelayed(m) /\ \A k \in B!Conns : ~In(m, up[k])

\* What is known of a line that is emitted.
LEMMA EmittedIs ==
  ASSUME B!LanAssumption, LanInv, NEW a \in B!Agents, NEW S \in SUBSET B!Agents,
         Emission(a, S), NEW m, m = Len(author')
  PROVE  Emitted(m, a, S)
<1>1. /\ author \in Seq(B!Agents) /\ due \in Seq(SUBSET B!Agents) /\ Len(due) = Len(author)
      /\ Len(author) \in Nat
  BY DEF LanInv, LanShapes
<1>2. /\ m = Len(author) + 1 /\ m \in Nat \ {0} /\ Len(due') = Len(author')
      /\ author' \in Seq(B!Agents) /\ due' \in Seq(SUBSET B!Agents)
      /\ author'[m] = a /\ due'[m] = S
      /\ \A y \in 1..Len(author) : author'[y] = author[y] /\ due'[y] = due[y]
  BY <1>1 DEF Emission
<1>3. 1..m = (1..Len(author)) \cup {m} /\ m \notin 1..Len(author)
  <2>1. m = Len(author) + 1
    BY <1>2
  <2> QED BY <1>1, <2>1
<1>4. m \notin Lines /\ m # 0 /\ m \in Nat
  BY <1>2, <1>3 DEF Lines
<1>5. Unrelayed(m)
  <2>1. \A x \in Relays : relay[x].line # m
    BY <1>4 DEF LanInv, InOnePlace, RelayedOnce
  <2>2. \A b \in B!Agents : ~In(m, got[b])
    BY <1>4 DEF LanInv, InOnePlace, NothingTwice
  <2>3. \A k \in B!Conns : ~In(m, down[k])
    BY <1>4 DEF LanInv, InOnePlace, GoesDownOnce
  <2> QED BY <2>1, <2>2, <2>3 DEF Unrelayed, Unread
<1>6. \A k \in B!Conns : ~In(m, up[k])
  BY <1>4 DEF LanInv, InOnePlace, GoesUpOnce
<1> QED BY <1>2, <1>3, <1>4, <1>5, <1>6 DEF Lines, Emitted

\* The agent of the server emits a line.
LEMMA TheServerEmits ==
  ASSUME B!LanAssumption, LanInv, B!ServerEmits PROVE LanInv'
<1>1. PICK m, S : m = Len(author') /\ S = {B!Owner(k) : k \in clientes \cap B!Open}
  OBVIOUS
<1>2. /\ UNCHANGED <<phase, closing, client, conns, clientes, handlers, cut, up, down, buffer, got>>
      /\ relay[Server] = B!NoRelay /\ author' = Append(author, Server) /\ due' = Append(due, S)
      /\ B!RelayTo(Server, [line |-> m, todo |-> clientes, failed |-> {}])
  BY <1>1 DEF B!ServerEmits, B!pipes, B!received
<1>3. clientes \subseteq Opened /\ clientes \subseteq B!Conns /\ Server \in Relays
      /\ Server \in B!Agents /\ S \subseteq B!Agents /\ S = {B!Owner(k) : k \in clientes \ cut}
  <2>1. clientes \subseteq Opened /\ clientes \subseteq B!Conns
    BY DEF LanInv, LanShapes, Opened
  <2>2. clientes \cap B!Open = clientes \ cut
    BY <2>1 DEF B!Open, Opened
  <2> QED BY <1>1, <2>1, <2>2, LanOwners
<1>4. /\ m \in Nat \ {0} /\ m \notin Lines /\ Lines' = Lines \cup {m}
      /\ author' \in Seq(B!Agents) /\ due' \in Seq(SUBSET B!Agents) /\ Len(due') = Len(author')
      /\ author'[m] = Server /\ due'[m] = S
      /\ \A y \in Lines : y # m /\ author'[y] = author[y] /\ due'[y] = due[y]
      /\ Unrelayed(m) /\ \A k \in B!Conns : ~In(m, up[k])
  <2>1. Emission(Server, S)
    BY <1>2 DEF Emission
  <2>2. Emitted(m, Server, S)
    BY <1>1, <1>2, <1>3, <2>1, EmittedIs
  <2> QED BY <2>2 DEF Emitted
<1>5. /\ relay' \in [Relays -> RelayRecords]
      /\ relay'[Server] = [line |-> m, todo |-> clientes, failed |-> {}]
      /\ \A x \in Relays : x # Server => relay'[x] = relay[x]
  <2>1. [line |-> m, todo |-> clientes, failed |-> {}] \in RelayRecords
    BY <1>3, <1>4 DEF RelayRecords
  <2> QED BY <1>2, <1>3, <2>1, RelaySet DEF LanInv
<1>6. LanShapes' /\ OnlyTheLast' /\ Buffered'
  <2>1. Buffered'
    BY <1>2, NotBuffered DEF LanInv, B!received
  <2> QED BY <1>2, <1>4, <1>5, <2>1 DEF LanInv, LanShapes, OnlyTheLast, Opened, Relays,
          B!Conns, B!Agents, B!Current, RelayRecords
<1>7. \A y, a : Unread(y, a)' <=> Unread(y, a)
  BY <1>2, UnreadStays
<1>8. GoesUpOnce'
  <2> SUFFICES ASSUME NEW j \in B!Conns, NEW y \in Nat, In(y, up[j])
               PROVE  /\ y \in Lines' /\ author'[y] = B!Owner(j) /\ Unrelayed(y)'
                      /\ \A i \in B!Conns : In(y, up[i]) => i = j
    BY <1>2 DEF GoesUpOnce, B!Conns, B!Owner
  <2>1. /\ y \in Lines /\ author[y] = B!Owner(j) /\ Unrelayed(y)
        /\ \A i \in B!Conns : In(y, up[i]) => i = j
    BY DEF LanInv, InOnePlace, GoesUpOnce
  <2>2. \A z \in Relays : relay'[z].line # y
    BY <1>4, <1>5, <2>1 DEF Unrelayed
  <2>3. Unrelayed(y)'
    BY <1>7, <2>1, <2>2 DEF Unrelayed, Relays, B!Conns, B!Agents
  <2> QED BY <1>4, <2>1, <2>3
<1>9. RelayedOnce'
  <2> SUFFICES ASSUME NEW z \in Relays, NEW n, n = relay'[z].line
               PROVE  /\ relay'[z].todo \subseteq Opened /\ relay'[z].failed \subseteq cut
                      /\ n = 0 => relay'[z] = B!NoRelay
                      /\ n # 0 => /\ n \in Lines' /\ Unread(n, Server)
                                  /\ \A w \in Relays : relay'[w].line = n => w = z
                                  /\ \A j \in relay'[z].todo \ cut : Unread(n, B!Owner(j))
    BY <1>2, <1>7 DEF RelayedOnce, Relays, B!Conns, B!Owner, B!NoRelay, Unread, Opened
  <2>1. \A w \in Relays : relay[w].line # m
    BY <1>4 DEF Unrelayed
  <2>2. CASE z = Server
    <3>1. Unread(m, Server) /\ \A j \in clientes : Unread(m, B!Owner(j))
      BY <1>3, <1>4, LanOwners DEF Unrelayed
    <3> QED BY <1>3, <1>4, <1>5, <2>1, <2>2, <3>1
  <2>3. CASE z # Server
    <3>1. relay'[z] = relay[z] /\ n # m
      BY <1>5, <2>1, <2>3
    <3>2. \A w \in Relays : relay'[w].line = n => relay[w].line = n
      BY <1>5, <3>1
    <3> QED BY <1>4, <3>1, <3>2 DEF LanInv, InOnePlace, RelayedOnce
  <2> QED BY <2>2, <2>3
<1>10. GoesDownOnce' /\ NothingTwice'
  BY <1>2, <1>4 DEF LanInv, InOnePlace, GoesDownOnce, NothingTwice, B!Conns, B!Owner, B!Agents
<1>11. ASSUME NEW y \in Lines', NEW a \in due'[y] PROVE a # author'[y] /\ OnItsWay(y, a)'
  <2>1. CASE y = m
    <3>1. PICK k \in clientes \ cut : B!Owner(k) = a
      BY <1>3, <1>4, <2>1
    <3>2. a # Server
      BY <1>3, <3>1, LanOwners
    <3>3. OnItsWay(y, a)'
      <4>1. /\ k \in relay'[Server].todo \ cut' /\ relay'[Server].line = y /\ B!Owner(k) = a
            /\ Server \in Relays
        BY <1>2, <1>3, <1>5, <2>1, <3>1
      <4> QED BY <4>1 DEF OnItsWay, B!Owner, Relays, B!Conns
    <3>4. author'[y] = Server
      BY <1>4, <2>1
    <3> QED BY <3>2, <3>3, <3>4
  <2>2. CASE y # m
    <3>1. y \in Lines /\ a \in due[y] /\ author'[y] = author[y]
      BY <1>4, <2>2
    <3>2. a # author[y] /\ OnItsWay(y, a)
      BY <3>1 DEF LanInv, Owed
    <3>3. \A z \in Relays : relay[z].line = y => relay'[z] = relay[z]
      <4>1. y # 0
        BY <3>1, LinesAre
      <4> QED BY <1>2, <1>5, <4>1 DEF B!NoRelay
    <3> QED BY <1>2, <3>1, <3>2, <3>3 DEF OnItsWay, B!Owner, Relays, B!Conns
  <2> QED BY <2>1, <2>2
<1>12. Owed'
  BY <1>11 DEF Owed
<1> QED BY <1>6, <1>8, <1>9, <1>10, <1>12 DEF LanInv, InOnePlace

\* The agent of a client emits a line.
LEMMA AClientEmits ==
  ASSUME B!LanAssumption, LanInv, NEW c \in Clients, B!ClientEmits(c) PROVE LanInv'
<1>1. PICK k, m, S :
        /\ k = B!Current(c) /\ m = Len(author')
        /\ S = {Server} \cup {B!Owner(j) : j \in (clientes \cap B!Open) \ {B!Current(c)}}
  OBVIOUS
<1>2. /\ UNCHANGED <<phase, closing, client, conns, clientes, handlers, cut, down, relay, buffer,
                     got>>
      /\ author' = Append(author, c) /\ due' = Append(due, S)
      /\ client[c] = "reading" /\ k \notin cut /\ up' = [up EXCEPT ![k] = Append(up[k], m)]
  BY <1>1 DEF B!ClientEmits, B!received
<1>3. k \in Opened /\ k \in B!Conns /\ B!Owner(k) = c /\ c \in B!Agents /\ c # Server
  BY <1>1, <1>2, CurrentIs, LanOwners DEF LanInv, Opened
<1>4. /\ clientes \subseteq Opened /\ clientes \subseteq B!Conns
      /\ S \subseteq B!Agents /\ S = {Server} \cup {B!Owner(j) : j \in (clientes \ cut) \ {k}}
  <2>1. clientes \subseteq Opened /\ clientes \subseteq B!Conns
    BY DEF LanInv, LanShapes, Opened
  <2>2. clientes \cap B!Open = clientes \ cut
    BY <2>1 DEF B!Open, Opened
  <2> QED BY <1>1, <2>1, <2>2, LanOwners
<1>5. /\ m \in Nat \ {0} /\ m \notin Lines /\ Lines' = Lines \cup {m}
      /\ author' \in Seq(B!Agents) /\ due' \in Seq(SUBSET B!Agents) /\ Len(due') = Len(author')
      /\ author'[m] = c /\ due'[m] = S
      /\ \A y \in Lines : y # m /\ author'[y] = author[y] /\ due'[y] = due[y]
      /\ Unrelayed(m) /\ \A j \in B!Conns : ~In(m, up[j])
  <2>1. Emission(c, S)
    BY <1>2 DEF Emission
  <2>2. Emitted(m, c, S)
    BY <1>1, <1>2, <1>3, <1>4, <2>1, EmittedIs
  <2> QED BY <2>2 DEF Emitted
<1>6. /\ Append(up[k], m) \in Seq(Nat)
      /\ \A y : In(y, Append(up[k], m)) <=> In(y, up[k]) \/ y = m
      /\ Once(up[k]) => Once(Append(up[k], m))
  BY <1>3, <1>5, AppendIn DEF LanInv, LanShapes
<1>7. /\ up' \in [B!Conns -> Seq(Nat)]
      /\ \A y : In(y, up'[k]) <=> In(y, up[k]) \/ y = m
      /\ \A j \in B!Conns : j # k => up'[j] = up[j]
      /\ Once(up[k]) => Once(up'[k])
  BY <1>2, <1>3, <1>6 DEF LanInv, LanShapes
<1>8. LanShapes' /\ OnlyTheLast' /\ Buffered'
  <2>1. Buffered'
    BY <1>2, NotBuffered DEF LanInv, B!received
  <2> QED BY <1>2, <1>5, <1>7, <2>1 DEF LanInv, LanShapes, OnlyTheLast, Opened, Relays,
          B!Conns, B!Agents, B!Current
<1>9. \A y, a : Unread(y, a)' <=> Unread(y, a)
  BY <1>2, UnreadStays
<1>10. GoesUpOnce'
  <2> SUFFICES ASSUME NEW j \in B!Conns, NEW y \in Nat, In(y, up'[j])
               PROVE  /\ y \in Lines' /\ author'[y] = B!Owner(j) /\ Unrelayed(y)'
                      /\ \A i \in B!Conns : In(y, up'[i]) => i = j
    BY DEF GoesUpOnce, B!Conns, B!Owner
  <2>1. Unrelayed(y) => Unrelayed(y)'
    BY <1>2, <1>9 DEF Unrelayed, Relays, B!Conns, B!Agents
  <2>2. CASE y = m
    BY <1>3, <1>5, <1>7, <2>1, <2>2
  <2>3. CASE y # m
    <3>1. \A i \in B!Conns : In(y, up'[i]) => In(y, up[i])
      BY <1>7, <2>3
    <3>2. /\ y \in Lines /\ author[y] = B!Owner(j) /\ Unrelayed(y)
          /\ \A i \in B!Conns : In(y, up[i]) => i = j
      BY <3>1 DEF LanInv, InOnePlace, GoesUpOnce
    <3> QED BY <1>5, <2>1, <3>1, <3>2
  <2> QED BY <2>2, <2>3
<1>11. RelayedOnce'
  BY <1>2, <1>5, <1>9 DEF LanInv, InOnePlace, RelayedOnce, Relays, B!Conns, B!Owner, B!NoRelay,
     Opened
<1>12. GoesDownOnce' /\ NothingTwice'
  <2>1. \A j \in B!Conns : Once(up'[j])
    BY <1>7 DEF LanInv, InOnePlace, NothingTwice
  <2>2. GoesDownOnce'
    BY <1>2, <1>5 DEF LanInv, InOnePlace, GoesDownOnce, B!Conns, B!Owner
  <2> QED BY <1>2, <1>5, <2>1, <2>2 DEF LanInv, InOnePlace, NothingTwice, B!Conns, B!Agents
<1>13. ASSUME NEW y \in Lines', NEW a \in due'[y] PROVE a # author'[y] /\ OnItsWay(y, a)'
  <2>1. CASE y = m
    <3>1. In(y, up'[k])
      BY <1>7, <2>1
    <3>2. CASE a = Server
      BY <1>3, <1>5, <2>1, <3>1, <3>2 DEF OnItsWay, B!Conns
    <3>3. CASE a # Server
      <4>1. PICK j \in (clientes \ cut) \ {k} : B!Owner(j) = a
        BY <1>4, <1>5, <2>1, <3>3
      <4>2. a # c
        BY <1>2, <1>3, <1>4, <4>1, OneUp DEF LanInv
      <4> QED BY <1>2, <1>3, <1>5, <2>1, <3>1, <4>1, <4>2 DEF OnItsWay, B!Owner, B!Conns
    <3> QED BY <3>2, <3>3
  <2>2. CASE y # m
    <3>1. y \in Lines /\ a \in due[y] /\ author'[y] = author[y]
      BY <1>5, <2>2
    <3>2. a # author[y] /\ OnItsWay(y, a)
      BY <3>1 DEF LanInv, Owed
    <3>3. \A j \in B!Conns : In(y, up[j]) => In(y, up'[j])
      BY <1>7
    <3> QED BY <1>2, <3>1, <3>2, <3>3 DEF OnItsWay, B!Owner, Relays, B!Conns
  <2> QED BY <2>1, <2>2
<1>14. Owed'
  BY <1>13 DEF Owed
<1> QED BY <1>8, <1>10, <1>11, <1>12, <1>14 DEF LanInv, InOnePlace
-----------------------------------------------------------------------------
(***************************************************************************)
(* BroadcastLan: the theorem                                               *)
(***************************************************************************)
\* The bots start apart, and nothing is on its way.
LEMMA LanInit == ASSUME B!LanAssumption, B!Init PROVE LanInv
<1>1. LanShapes
  BY DEF B!Init, B!LanAssumption, LanShapes, Opened, Relays, B!NoRelay, B!Agents, B!Conns
<1>2. OnlyTheLast
  BY DEF B!Init, OnlyTheLast, Opened, B!Conns
<1>3. \A k \in B!Conns : up[k] = <<>> /\ down[k] = <<>>
  BY DEF B!Init
<1>4. \A m : ~In(m, <<>>)
  BY DEF In
<1>5. Once(<<>>) /\ Ends(<<>>, <<>>)
  BY DEF Once, Ends
<1>6. \A a \in B!Agents : got[a] = <<>> /\ buffer[a] = <<>>
  BY DEF B!Init
<1>7. InOnePlace
  <2>1. GoesUpOnce /\ GoesDownOnce /\ NothingTwice
    BY <1>3, <1>4, <1>5, <1>6 DEF GoesUpOnce, GoesDownOnce, NothingTwice
  <2>2. RelayedOnce
    BY DEF B!Init, RelayedOnce, Relays, B!NoRelay
  <2> QED BY <2>1, <2>2 DEF InOnePlace
<1>8. Buffered
  BY <1>5, <1>6 DEF Buffered, B!LanAssumption
<1>9. Owed
  <2>1. author = <<>>
    BY DEF B!Init
  <2>2. Lines = {}
    BY <2>1 DEF Lines
  <2> QED BY <2>2 DEF Owed
<1> QED BY <1>1, <1>2, <1>7, <1>8, <1>9 DEF LanInv

\* No step breaks the invariant.
LEMMA LanStep ==
  ASSUME B!LanAssumption, LanInv, B!Next \/ UNCHANGED B!vars PROVE LanInv'
<1>1. CASE UNCHANGED B!vars
  BY <1>1 DEF B!vars, B!pipes, B!received, LanInv, LanShapes, OnlyTheLast, InOnePlace, GoesUpOnce,
     RelayedOnce, GoesDownOnce, NothingTwice, Buffered, Owed, OnItsWay, Unrelayed, Unread, Opened,
     Relays, Lines, B!Conns, B!Agents, B!Owner, B!NoRelay, B!Current
<1>2. CASE B!Start \/ B!Stop \/ B!Stopped
  BY <1>2, TheAdapterMoves
<1>3. CASE B!StopListening
  BY <1>3, TheServerStopsListening
<1>4. CASE B!ServerEmits
  BY <1>4, TheServerEmits
<1>5. ASSUME NEW x \in B!Conns \cup {Server}, B!RelayStep(x) PROVE LanInv'
  BY <1>5, ARelayWrites, ARelayEnds DEF B!RelayStep, Relays
<1>6. ASSUME NEW k \in B!Conns, B!ConnStep(k) PROVE LanInv'
  BY <1>6, TheServerReads, AHandlerEnds, AConnectionBreaks, AWriterIsClosed DEF B!ConnStep
<1>7. ASSUME NEW c \in Clients, B!ClientStep(c) PROVE LanInv'
  BY <1>7, AClientConnects, AClientEmits, AClientReads, AClientStartsOver DEF B!ClientStep
<1> QED BY <1>1, <1>2, <1>3, <1>4, <1>5, <1>6, <1>7 DEF B!Next

\* What the invariant says of the events that the bots receive.
LEMMA LanInvHolds ==
  ASSUME B!LanAssumption, LanInv PROVE B!AtMostOnce /\ B!NobodyLeftOut
<1>1. \A a \in B!Agents : /\ got[a] \in Seq(Nat) /\ buffer[a] \in Seq(Nat) /\ Once(got[a])
                          /\ Len(buffer[a]) <= MaxSize /\ Ends(buffer[a], got[a])
                          /\ \A m \in Nat : In(m, got[a]) => m \in Lines /\ author[m] # a
  BY DEF LanInv, LanShapes, InOnePlace, NothingTwice, Buffered
<1>2. B!TypeOK
  BY <1>1, EndsIsSuffix DEF B!TypeOK, LanInv, LanShapes
<1>3. ASSUME NEW a \in B!Agents
      PROVE  /\ B!IsInjective(got[a])
             /\ \A m \in Nat : m \in B!ToSet(got[a]) <=> In(m, got[a])
             /\ B!ToSet(got[a]) \subseteq Nat
  <2>1. got[a] \in Seq(Nat) /\ DOMAIN got[a] = 1..Len(got[a])
    BY <1>1
  <2>2. B!ToSet(got[a]) = {got[a][i] : i \in 1..Len(got[a])}
    BY <2>1 DEF B!ToSet
  <2>3. B!IsInjective(got[a])
    BY <1>1, <2>1 DEF B!IsInjective, Once
  <2> QED BY <2>1, <2>2, <2>3 DEF In
<1>4. B!AtMostOnce
  BY <1>1, <1>2, <1>3 DEF B!AtMostOnce
<1>5. B!NobodyLeftOut
  <2> SUFFICES ASSUME B!Quiet, NEW m \in Lines, NEW a \in due[m] PROVE m \in B!ToSet(got[a])
    BY DEF B!NobodyLeftOut, Lines
  <2>1. OnItsWay(m, a) /\ m \in Nat \ {0} /\ a \in B!Agents
    BY LinesAre DEF LanInv, Owed, LanShapes, Lines
  <2>2. \A k \in B!Conns : ~In(m, up[k]) /\ ~In(m, down[k])
    BY DEF B!Quiet, In
  <2>3. \A x \in Relays : relay[x].line # m
    BY <2>1 DEF B!Quiet, LanInv, LanShapes, B!NoRelay
  <2>4. In(m, got[a])
    BY <2>1, <2>2, <2>3 DEF OnItsWay
  <2> QED BY <1>3, <2>1, <2>4
<1> QED BY <1>4, <1>5

\* A behavior whose subject is the LAN moves as the LAN does.
LEMMA LanMoves ==
  [Next]_vars => subject' = subject /\ (subject = "lan" => B!Next \/ UNCHANGED B!vars)
  BY OneSubject DEF Next, vars, OfLan, B!vars, B!pipes, B!received

\* Whatever connections end and start over, nobody receives an event twice or one of its own,
\* and once all is quiet whoever had to receive one did: for any clients, messages, accidents.
THEOREM NobodyIsLeftOut == Spec => []LanHolds
<1> DEFINE J == subject = "lan" => LanInv
<1>1. Init => J
  BY LanInit, HarnessAssumption DEF Init
<1>2. J /\ [Next]_vars => J'
  BY LanMoves, LanStep, HarnessAssumption
<1>3. J => LanHolds
  BY LanInvHolds, HarnessAssumption DEF LanHolds
<1> QED BY <1>1, <1>2, <1>3, PTL DEF Spec
-----------------------------------------------------------------------------
(***************************************************************************)
(* ChildRun: the invariant                                                 *)
(***************************************************************************)
CrCall(i, j) == [id |-> <<i, j>>, n |-> <<i, j>>]
CrPlaces == {"llm", "tools", "closing", "asking", "spent", "ended", "paused", "interrupted"}

\* What the variables are.
CrShapes ==
  /\ waits \in BOOLEAN /\ pc \in CrPlaces /\ running \in BOOLEAN /\ roto \in BOOLEAN /\ marked \in BOOLEAN
  /\ trace \in Seq(C!Messages) /\ saved \in Seq(C!Messages) /\ pending \in C!Messages \cup {None}
  /\ batch \in Seq([id : C!Numbers, n : C!Numbers]) /\ desde \in Nat

\* What is said begins with the task, and the results of a batch come right after it, in its order.
CrAnswer(t, i) == \E a \in 1 .. i - 1 : i - a \in 1 .. Len(t[a].calls)
CrGroups(t) ==
  /\ Len(t) > 0 /\ t[1].role = "user"
  /\ \A i \in 1 .. Len(t) :
       /\ t[i].role # "assistant" => t[i].calls = <<>>
       /\ Len(t[i].calls) <= MaxBatch /\ t[i].size # "cut"
       /\ \A j \in 1 .. Len(t[i].calls) : t[i].calls[j] = CrCall(i, j)
       /\ \A j \in 1 .. Len(t[i].calls) : i + j <= Len(t) => t[i + j].role = "tool" /\ t[i + j].id = <<i, j>>
       /\ t[i].role = "tool" => CrAnswer(t, i)

\* What is left of a batch is the end of the last one.
CrOpen(t, b) ==
  /\ \A i \in 1 .. Len(t) : i + Len(t[i].calls) > Len(t) =>
       /\ i + Len(t[i].calls) = Len(t) + Len(b)
       /\ \A j \in 1 .. Len(b) : b[j] = CrCall(i, (Len(t) - i) + j)
  /\ Len(b) > 0 => \E i \in 1 .. Len(t) : i + Len(t[i].calls) > Len(t)

\* What was executed has its result, but for the call that runs.
CrRan(t, r, R0, K) ==
  \A p \in R0 : \E i \in 1 .. Len(t) : \E j \in 1 .. Len(t[i].calls) :
    p = <<i, j>> /\ ((i + j <= Len(t) /\ p \in K) \/ (r /\ i + j = Len(t) + 1))

\* The rows are what was said, but for the message on its way; those of earlier legs are whole.
CrKept(s, t, p, d) ==
  /\ Len(s) = (IF p = None THEN Len(t) ELSE Len(t) - 1) /\ (p # None => p = t[Len(t)])
  /\ \A i \in 1 .. Len(s) : s[i] = t[i] \/ s[i] = C!Cut(t[i])
  /\ d <= Len(s) /\ \A i \in 1 .. d : s[i] = t[i]

CrClosing(t) == t[Len(t)].role = "assistant" /\ t[Len(t)].calls = <<>>
CrPlace ==
  /\ pc # "tools" => batch = <<>> /\ ~running
  /\ running => Len(batch) > 0 /\ pending = None
  /\ pc \in {"closing", "asking"} => CrClosing(trace)
  /\ pc = "asking" => ~waits
CrTalk ==
  /\ trace = seen /\ report = None /\ ~marked
  /\ CrGroups(trace) /\ CrOpen(trace, batch) /\ CrRan(trace, running, ran, known)
CrRows ==
  /\ waits \/ roto => pending = None
  /\ ~waits /\ ~roto => CrKept(saved, trace, pending, desde)
CrLives == C!Alive => CrTalk /\ CrPlace /\ CrRows
CrPaused ==
  pc = "paused" =>
    /\ CrTalk /\ CrClosing(trace) /\ saved = trace /\ batch = <<>> /\ ~running
    /\ ~roto /\ ~waits /\ pending = None /\ C!Left >= 1

CrInv == CrShapes /\ CrLives /\ CrPaused /\ C!ToldWhatRan

\* The calls of what was said, by their places.
LEMMA CrCallsAre ==
  ASSUME NEW t \in Seq(C!Messages)
  PROVE  /\ \A p : p \in C!CallsOf(t) <=> \E i \in 1 .. Len(t) : \E j \in 1 .. Len(t[i].calls) : p = <<i, j>>
         /\ \A i \in 1 .. Len(t) : t[i] \in C!Messages /\ Len(t[i].calls) \in Nat
<1>1. DOMAIN t = 1 .. Len(t) /\ \A i \in 1 .. Len(t) : t[i] \in C!Messages
  OBVIOUS
<1>2. \A i \in 1 .. Len(t) : t[i].calls \in Seq([id : C!Numbers, n : C!Numbers])
  BY <1>1 DEF C!Messages
<1>3. \A i \in 1 .. Len(t) : DOMAIN t[i].calls = 1 .. Len(t[i].calls) /\ Len(t[i].calls) \in Nat
  BY <1>2
<1>4. \A p : p \in C!CallsOf(t) <=> \E i \in 1 .. Len(t) : p \in {i} \X (1 .. Len(t[i].calls))
  BY <1>1, <1>3 DEF C!CallsOf
<1> QED BY <1>1, <1>3, <1>4

\* The rows a report is made of: some of what was said, from one message to another.
CrWindow(w, t, f, s) ==
  /\ Len(w) = s - f + 1
  /\ \A k \in 1 .. Len(w) : w[k].role = t[k + f - 1].role /\ w[k].calls = t[k + f - 1].calls
                             /\ w[k].id = t[k + f - 1].id

\* The calls without a result of a window are those of one message, the last with calls.
LEMMA CrUnanswered ==
  ASSUME NEW t \in Seq(C!Messages), CrGroups(t), NEW s \in Nat, s <= Len(t), NEW f \in Nat, 1 <= f, f <= s + 1,
         NEW w \in Seq(C!Messages), CrWindow(w, t, f, s)
  PROVE  /\ \A p : p \in C!SinPar(w) <=>
              \E k \in 1 .. Len(w) : \E j \in 1 .. Len(w[k].calls) : p = <<k, j>> /\ k + f - 1 + j > s
         /\ \A k \in 1 .. Len(w) : \A j \in 1 .. Len(w[k].calls) : C!Call(w, <<k, j>>).n = <<k + f - 1, j>>
         /\ \A k, k2 \in 1 .. Len(w) : \A j \in 1 .. Len(w[k].calls) : \A j2 \in 1 .. Len(w[k2].calls) :
              k + f - 1 + j > s /\ k2 + f - 1 + j2 > s => k = k2
<1>1. Len(w) = s - f + 1 /\ Len(t) \in Nat
  BY DEF CrWindow
<1>2. ASSUME NEW k \in 1 .. Len(w)
      PROVE  /\ k + f - 1 \in 1 .. Len(t) /\ k + f - 1 <= s /\ w[k].calls = t[k + f - 1].calls
             /\ Len(w[k].calls) \in Nat
             /\ \A j \in 1 .. Len(w[k].calls) : w[k].calls[j] = CrCall(k + f - 1, j)
  <2>1. k + f - 1 \in 1 .. Len(t) /\ k + f - 1 <= s
    BY <1>1
  <2>2. w[k].calls = t[k + f - 1].calls
    BY DEF CrWindow
  <2>3. Len(t[k + f - 1].calls) \in Nat
    BY <2>1, CrCallsAre
  <2> QED BY <2>1, <2>2, <2>3 DEF CrGroups
<1>3. ASSUME NEW k \in 1 .. Len(w), NEW j \in 1 .. Len(w[k].calls)
      PROVE  /\ C!Call(w, <<k, j>>).n = <<k + f - 1, j>>
             /\ C!Call(w, <<k, j>>).id = <<k + f - 1, j>>
  <2>1. w[k].calls[j] = CrCall(k + f - 1, j)
    BY <1>2
  <2>2. C!Call(w, <<k, j>>) = w[k].calls[j]
    BY DEF C!Call
  <2> QED BY <2>1, <2>2 DEF CrCall
<1>4. ASSUME NEW k \in 1 .. Len(w), NEW j \in 1 .. Len(w[k].calls)
      PROVE  <<k + f - 1, j>> \in C!Answered(w) <=> k + f - 1 + j <= s
  <2>1. PICK i \in 1 .. Len(t) : i = k + f - 1 /\ i <= s
    BY <1>2
  <2>2. j \in 1 .. Len(t[i].calls) /\ j \in Nat /\ Len(t[i].calls) \in Nat
    BY <1>2, <2>1
  <2>3. ASSUME i + j <= s
        PROVE  <<i, j>> \in C!Answered(w)
    <3>1. t[i + j].role = "tool" /\ t[i + j].id = <<i, j>>
      <4>1. \A l \in 1 .. Len(t[i].calls) : i + l <= Len(t) => t[i + l].role = "tool" /\ t[i + l].id = <<i, l>>
        BY DEF CrGroups
      <4>2. i + j <= Len(t)
        BY <1>1, <2>1, <2>2, <2>3
      <4> QED BY <2>2, <4>1, <4>2
    <3>2. PICK l \in 1 .. Len(w) : l + f - 1 = i + j
      <4>1. i + j - f + 1 \in 1 .. Len(w) /\ (i + j - f + 1) + f - 1 = i + j
        BY <1>1, <2>1, <2>2, <2>3
      <4> QED BY <4>1
    <3>3. w[l].role = "tool" /\ w[l].id = <<i, j>>
      BY <3>1, <3>2 DEF CrWindow
    <3>4. l \in DOMAIN w
      OBVIOUS
    <3> QED BY <3>3, <3>4 DEF C!Answered
  <2>4. ASSUME <<i, j>> \in C!Answered(w)
        PROVE  i + j <= s
    <3>1. PICK l \in DOMAIN w : w[l].role = "tool" /\ w[l].id = <<i, j>>
      BY <2>4 DEF C!Answered
    <3>2. l \in 1 .. Len(w)
      OBVIOUS
    <3>3. PICK m \in 1 .. Len(t) : m = l + f - 1 /\ m <= s
      BY <1>2, <3>2
    <3>4. t[m].role = "tool" /\ t[m].id = <<i, j>>
      BY <3>1, <3>2, <3>3 DEF CrWindow
    <3>5. PICK a \in 1 .. m - 1 : m - a \in 1 .. Len(t[a].calls)
      BY <3>4 DEF CrGroups, CrAnswer
    <3>6. PICK q \in 1 .. Len(t[a].calls) : q = m - a
      BY <3>5
    <3>7. a \in 1 .. Len(t) /\ a + q = m /\ a + q <= Len(t)
      <4>1. m \in Nat /\ m <= Len(t) /\ a \in Nat /\ 1 <= a /\ a <= m - 1
        BY <1>1, <3>3
      <4> QED BY <1>1, <3>6, <4>1
    <3>8. \A x \in 1 .. Len(t[a].calls) : a + x <= Len(t) => t[a + x].role = "tool" /\ t[a + x].id = <<a, x>>
      BY <3>7 DEF CrGroups
    <3>9. t[m].id = <<a, q>>
      BY <3>7, <3>8
    <3>10. a = i /\ q = j
      BY <3>4, <3>9
    <3> QED BY <3>3, <3>7, <3>10
  <2> QED BY <2>1, <2>3, <2>4
<1>5. \A p : p \in C!SinPar(w) <=>
        \E k \in 1 .. Len(w) : \E j \in 1 .. Len(w[k].calls) : p = <<k, j>> /\ k + f - 1 + j > s
  <2>1. \A p : p \in C!SinPar(w) <=> p \in C!CallsOf(w) /\ C!Call(w, p).id \notin C!Answered(w)
    BY DEF C!SinPar
  <2>2. \A k \in 1 .. Len(w) : \A j \in 1 .. Len(w[k].calls) : ~(k + f - 1 + j <= s) <=> k + f - 1 + j > s
    BY <1>2
  <2>3. ASSUME NEW p \in C!SinPar(w)
        PROVE  \E k \in 1 .. Len(w) : \E j \in 1 .. Len(w[k].calls) : p = <<k, j>> /\ k + f - 1 + j > s
    <3>1. p \in C!CallsOf(w) /\ C!Call(w, p).id \notin C!Answered(w)
      BY <2>1
    <3>2. PICK k \in 1 .. Len(w) : \E j \in 1 .. Len(w[k].calls) : p = <<k, j>>
      BY <3>1, CrCallsAre
    <3>3. PICK j \in 1 .. Len(w[k].calls) : p = <<k, j>>
      BY <3>2
    <3>4. ~(k + f - 1 + j <= s)
      BY <1>3, <1>4, <3>1, <3>3
    <3> QED BY <2>2, <3>3, <3>4
  <2>4. ASSUME NEW k \in 1 .. Len(w), NEW j \in 1 .. Len(w[k].calls), k + f - 1 + j > s
        PROVE  <<k, j>> \in C!SinPar(w)
    <3>1. ~(k + f - 1 + j <= s)
      BY <2>2, <2>4
    <3>2. C!Call(w, <<k, j>>).id \notin C!Answered(w)
      BY <1>3, <1>4, <3>1
    <3>3. <<k, j>> \in C!CallsOf(w)
      BY CrCallsAre
    <3> QED BY <2>1, <3>2, <3>3
  <2> QED BY <2>3, <2>4
<1>6. ASSUME NEW k \in 1 .. Len(w), NEW k2 \in 1 .. Len(w), NEW j \in 1 .. Len(w[k].calls),
             NEW j2 \in 1 .. Len(w[k2].calls), k + f - 1 + j > s, k < k2
      PROVE  FALSE
  <2>1. PICK i \in 1 .. Len(t) : i = k + f - 1
    BY <1>2
  <2>2. PICK i2 \in 1 .. Len(t) : i2 = k2 + f - 1 /\ i2 <= s
    BY <1>2
  <2>3. j \in 1 .. Len(t[i].calls) /\ Len(t[i].calls) \in Nat
    BY <1>2, <2>1
  <2>4. i2 - i \in 1 .. Len(t[i].calls) /\ i + (i2 - i) = i2 /\ i2 <= Len(t)
    BY <1>1, <1>6, <2>1, <2>2, <2>3
  <2>5. t[i2].role = "tool"
    BY <2>4 DEF CrGroups
  <2>6. t[i2].calls = <<>>
    BY <2>5 DEF CrGroups
  <2>7. w[k2].calls = <<>>
    BY <1>2, <2>2, <2>6
  <2> QED BY <2>7
<1>7. ASSUME NEW k \in 1 .. Len(w), NEW k2 \in 1 .. Len(w), NEW j \in 1 .. Len(w[k].calls),
             NEW j2 \in 1 .. Len(w[k2].calls), k + f - 1 + j > s, k2 + f - 1 + j2 > s
      PROVE  k = k2
  <2>1. k < k2 \/ k2 < k \/ k = k2
    OBVIOUS
  <2> QED BY <1>6, <1>7, <2>1
<1> QED BY <1>3, <1>5, <1>7

\* What a report names: the call after the last result, and as not started only later ones.
LEMMA CrNames ==
  ASSUME NEW t \in Seq(C!Messages), CrGroups(t), NEW s \in Nat, s <= Len(t), NEW f \in Nat, 1 <= f, f <= s + 1,
         NEW w \in Seq(C!Messages), CrWindow(w, t, f, s), NEW why
  PROVE  /\ \A i \in f .. s : \A j \in 1 .. Len(t[i].calls) :
              i + j = s + 1 => C!Failure(why, w).in_flight = <<i, j>>
         /\ \A n \in C!Failure(why, w).not_started :
              \E i \in 1 .. s : \E j \in 1 .. Len(t[i].calls) : n = <<i, j>> /\ i + j > s + 1
<1>1. /\ \A p : p \in C!SinPar(w) <=>
              \E k \in 1 .. Len(w) : \E j \in 1 .. Len(w[k].calls) : p = <<k, j>> /\ k + f - 1 + j > s
      /\ \A k \in 1 .. Len(w) : \A j \in 1 .. Len(w[k].calls) : C!Call(w, <<k, j>>).n = <<k + f - 1, j>>
      /\ \A k, k2 \in 1 .. Len(w) : \A j \in 1 .. Len(w[k].calls) : \A j2 \in 1 .. Len(w[k2].calls) :
           k + f - 1 + j > s /\ k2 + f - 1 + j2 > s => k = k2
  BY CrUnanswered
<1>2. /\ Len(w) = s - f + 1
      /\ \A k \in 1 .. Len(w) : w[k].calls = t[k + f - 1].calls /\ Len(w[k].calls) \in Nat
  BY CrCallsAre DEF CrWindow
<1>3. ASSUME NEW k \in 1 .. Len(w), NEW j \in 1 .. Len(w[k].calls), k + f - 1 + j = s + 1
      PROVE  C!InFlight(w) = {<<k, j>>}
  <2>1. <<k, j>> \in C!SinPar(w)
    <3>1. k + f - 1 + j > s
      BY <1>3
    <3> QED BY <1>1, <3>1
  <2>2. ASSUME NEW p \in C!SinPar(w)
        PROVE  p = <<k, j>> \/ (C!Before(<<k, j>>, p) /\ ~C!Before(p, <<k, j>>))
    <3>1. PICK k2 \in 1 .. Len(w) : \E j2 \in 1 .. Len(w[k2].calls) : p = <<k2, j2>> /\ k2 + f - 1 + j2 > s
      BY <1>1
    <3>2. PICK j2 \in 1 .. Len(w[k2].calls) : p = <<k2, j2>> /\ k2 + f - 1 + j2 > s
      BY <3>1
    <3>3. k + f - 1 + j > s
      BY <1>3
    <3>4. k2 = k
      BY <1>1, <3>2, <3>3
    <3>5. j2 >= j
      BY <1>2, <1>3, <3>2, <3>4
    <3>6. j2 = j \/ (j < j2 /\ ~(j2 < j))
      BY <1>2, <3>5
    <3> QED BY <3>2, <3>4, <3>6 DEF C!Before
  <2>3. ~C!Before(<<k, j>>, <<k, j>>)
    BY <1>2 DEF C!Before
  <2>4. \A p : p \in C!InFlight(w) <=> p \in C!SinPar(w) /\ \A q \in C!SinPar(w) : ~C!Before(q, p)
    BY DEF C!InFlight
  <2>5. <<k, j>> \in C!InFlight(w)
    BY <2>1, <2>2, <2>3, <2>4
  <2>6. \A p \in C!InFlight(w) : p = <<k, j>>
    BY <2>1, <2>2, <2>4
  <2> QED BY <2>5, <2>6
<1>4. ASSUME NEW i \in f .. s, NEW j \in 1 .. Len(t[i].calls), i + j = s + 1
      PROVE  C!Failure(why, w).in_flight = <<i, j>>
  <2>1. PICK k \in 1 .. Len(w) : k + f - 1 = i
    <3>1. i - f + 1 \in 1 .. Len(w) /\ (i - f + 1) + f - 1 = i
      BY <1>2
    <3> QED BY <3>1
  <2>2. j \in 1 .. Len(w[k].calls)
    BY <1>2, <2>1
  <2>3. C!InFlight(w) = {<<k, j>>} /\ C!Call(w, <<k, j>>).n = <<i, j>>
    BY <1>1, <1>3, <1>4, <2>1, <2>2
  <2>4. C!SinPar(w) # {}
    BY <2>3 DEF C!InFlight
  <2>5. {C!Call(w, p).n : p \in C!InFlight(w)} = {<<i, j>>}
    <3>1. PICK p : p = <<k, j>>
      OBVIOUS
    <3>2. C!InFlight(w) = {p} /\ C!Call(w, p).n = <<i, j>>
      BY <2>3, <3>1
    <3>3. {C!Call(w, q).n : q \in {p}} = {C!Call(w, p).n}
      OBVIOUS
    <3> QED BY <3>2, <3>3
  <2>6. (CHOOSE n \in {<<i, j>>} : TRUE) = <<i, j>>
    OBVIOUS
  <2> QED BY <2>4, <2>5, <2>6 DEF C!Failure
<1>5. ASSUME NEW n \in C!Failure(why, w).not_started
      PROVE  \E i \in 1 .. s : \E j \in 1 .. Len(t[i].calls) : n = <<i, j>> /\ i + j > s + 1
  <2>1. PICK p \in C!SinPar(w) \ C!InFlight(w) : n = C!Call(w, p).n
    BY <1>5 DEF C!Failure
  <2>2. PICK k \in 1 .. Len(w) : \E j \in 1 .. Len(w[k].calls) : p = <<k, j>> /\ k + f - 1 + j > s
    BY <1>1, <2>1
  <2>3. PICK j \in 1 .. Len(w[k].calls) : p = <<k, j>> /\ k + f - 1 + j > s
    BY <2>2
  <2>4. n = <<k + f - 1, j>>
    BY <1>1, <2>1, <2>3
  <2>5. k + f - 1 + j # s + 1
    BY <1>3, <2>1, <2>3
  <2>6. k + f - 1 + j > s + 1 /\ k + f - 1 \in 1 .. s
    BY <1>2, <2>3, <2>5
  <2>7. j \in 1 .. Len(t[k + f - 1].calls)
    BY <1>2
  <2> QED BY <2>4, <2>6, <2>7
<1> QED BY <1>4, <1>5

\* What the parent is told is what was executed.
LEMMA CrTold ==
  ASSUME NEW t \in Seq(C!Messages), CrGroups(t), NEW s \in Nat, s <= Len(t), NEW f \in Nat, 1 <= f, f <= s + 1,
         NEW w \in Seq(C!Messages), CrWindow(w, t, f, s), NEW why, NEW r \in BOOLEAN, NEW R0, NEW K, CrRan(t, r, R0, K),
         s = Len(t) \/ (s + 1 = Len(t) /\ ~r),
         r => \A i \in 1 .. Len(t) : i + Len(t[i].calls) > Len(t) => f <= i
  PROVE  /\ R0 \ K \subseteq {C!Failure(why, w).in_flight}
         /\ C!Failure(why, w).not_started \cap R0 = {}
<1>1. /\ \A i \in f .. s : \A j \in 1 .. Len(t[i].calls) :
              i + j = s + 1 => C!Failure(why, w).in_flight = <<i, j>>
      /\ \A n \in C!Failure(why, w).not_started :
              \E i \in 1 .. s : \E j \in 1 .. Len(t[i].calls) : n = <<i, j>> /\ i + j > s + 1
  BY CrNames
<1>2. \A i \in 1 .. Len(t) : Len(t[i].calls) \in Nat
  BY CrCallsAre
<1>3. ASSUME NEW p \in R0 \ K
      PROVE  p = C!Failure(why, w).in_flight
  <2>1. PICK i \in 1 .. Len(t) : \E j \in 1 .. Len(t[i].calls) : p = <<i, j>> /\ r /\ i + j = Len(t) + 1
    BY <1>3 DEF CrRan
  <2>2. PICK j \in 1 .. Len(t[i].calls) : p = <<i, j>> /\ r /\ i + j = Len(t) + 1
    BY <2>1
  <2>3. s = Len(t) /\ i + Len(t[i].calls) > Len(t)
    BY <1>2, <2>2
  <2>4. i \in f .. s
    BY <2>2, <2>3
  <2> QED BY <1>1, <2>2, <2>3, <2>4
<1>4. ASSUME NEW p \in R0, p \in C!Failure(why, w).not_started
      PROVE  FALSE
  <2>1. PICK i \in 1 .. s : \E j \in 1 .. Len(t[i].calls) : p = <<i, j>> /\ i + j > s + 1
    BY <1>1, <1>4
  <2>2. PICK j \in 1 .. Len(t[i].calls) : p = <<i, j>> /\ i + j > s + 1
    BY <2>1
  <2>3. PICK k \in 1 .. Len(t) : \E l \in 1 .. Len(t[k].calls) :
          p = <<k, l>> /\ (k + l <= Len(t) \/ (r /\ k + l = Len(t) + 1))
    BY DEF CrRan
  <2>4. PICK l \in 1 .. Len(t[k].calls) : p = <<k, l>> /\ (k + l <= Len(t) \/ (r /\ k + l = Len(t) + 1))
    BY <2>3
  <2>5. i = k /\ j = l
    BY <2>2, <2>4
  <2>6. k + l <= s + 1
    BY <1>2, <2>4
  <2> QED BY <1>2, <2>2, <2>5, <2>6
<1> QED BY <1>3, <1>4

\* A message said after all the calls of the last answer have their results.
LEMMA CrSay ==
  ASSUME NEW t \in Seq(C!Messages), CrGroups(t), CrOpen(t, <<>>), NEW m \in C!Messages,
         m.role \in {"user", "assistant"}, m.role # "assistant" => m.calls = <<>>, m.size # "cut",
         Len(m.calls) <= MaxBatch, \A j \in 1 .. Len(m.calls) : m.calls[j] = CrCall(Len(t) + 1, j),
         NEW R0, NEW K, CrRan(t, FALSE, R0, K)
  PROVE  /\ CrGroups(Append(t, m)) /\ CrOpen(Append(t, m), m.calls) /\ CrRan(Append(t, m), FALSE, R0, K)
         /\ Append(t, m) \in Seq(C!Messages) /\ Len(Append(t, m)) = Len(t) + 1
         /\ Append(t, m)[Len(t) + 1] = m /\ \A i \in 1 .. Len(t) : Append(t, m)[i] = t[i]
<1>1. PICK t2 : t2 = Append(t, m)
  OBVIOUS
<1>2. /\ t2 \in Seq(C!Messages) /\ Len(t2) = Len(t) + 1 /\ Len(t) \in Nat
      /\ t2[Len(t) + 1] = m /\ \A i \in 1 .. Len(t) : t2[i] = t[i]
  BY <1>1
<1>3. \A i \in 1 .. Len(t) : Len(t[i].calls) \in Nat /\ i + Len(t[i].calls) <= Len(t)
  <2>1. \A i \in 1 .. Len(t) : Len(t[i].calls) \in Nat
    BY CrCallsAre
  <2>2. \A i \in 1 .. Len(t) : ~(i + Len(t[i].calls) > Len(t))
    <3>1. PICK z : z = <<>> /\ Len(z) = 0
      OBVIOUS
    <3>2. \A i \in 1 .. Len(t) : i + Len(t[i].calls) > Len(t) => i + Len(t[i].calls) = Len(t) + Len(z)
      BY <3>1 DEF CrOpen
    <3> QED BY <1>2, <2>1, <3>1, <3>2
  <2> QED BY <1>2, <2>1, <2>2
<1>4. Len(m.calls) \in Nat
  BY DEF C!Messages
<1>5. \A i \in 1 .. Len(t2) : i = Len(t) + 1 \/ i \in 1 .. Len(t)
  BY <1>2
<1>6. CrGroups(t2)
  <2>1. Len(t2) > 0 /\ t2[1].role = "user"
    BY <1>2 DEF CrGroups
  <2>2. ASSUME NEW i \in 1 .. Len(t)
        PROVE  /\ t2[i].role # "assistant" => t2[i].calls = <<>>
               /\ Len(t2[i].calls) <= MaxBatch /\ t2[i].size # "cut"
               /\ \A j \in 1 .. Len(t2[i].calls) : t2[i].calls[j] = CrCall(i, j)
    BY <1>2 DEF CrGroups
  <2>3. ASSUME NEW i \in 1 .. Len(t), NEW j \in 1 .. Len(t2[i].calls)
        PROVE  t2[i + j].role = "tool" /\ t2[i + j].id = <<i, j>>
    <3>1. t2[i] = t[i]
      BY <1>2
    <3>2. i + j \in 1 .. Len(t)
      BY <1>2, <1>3, <3>1
    <3>3. t[i + j].role = "tool" /\ t[i + j].id = <<i, j>>
      BY <3>1, <3>2 DEF CrGroups
    <3> QED BY <1>2, <3>2, <3>3
  <2>4. ASSUME NEW i \in 1 .. Len(t), t2[i].role = "tool"
        PROVE  CrAnswer(t2, i)
    <3>1. CrAnswer(t, i)
      BY <1>2, <2>4 DEF CrGroups
    <3>2. PICK a \in 1 .. i - 1 : i - a \in 1 .. Len(t[a].calls)
      BY <3>1 DEF CrAnswer
    <3>3. t2[a] = t[a]
      BY <1>2
    <3> QED BY <3>2, <3>3 DEF CrAnswer
  <2>5. /\ t2[Len(t) + 1].role # "assistant" => t2[Len(t) + 1].calls = <<>>
        /\ Len(t2[Len(t) + 1].calls) <= MaxBatch /\ t2[Len(t) + 1].size # "cut"
        /\ \A j \in 1 .. Len(t2[Len(t) + 1].calls) : t2[Len(t) + 1].calls[j] = CrCall(Len(t) + 1, j)
        /\ t2[Len(t) + 1].role # "tool"
    BY <1>2
  <2>6. \A j \in 1 .. Len(t2[Len(t) + 1].calls) : ~(Len(t) + 1 + j <= Len(t2))
    BY <1>2, <1>4
  <2> QED BY <1>5, <2>1, <2>2, <2>3, <2>4, <2>5, <2>6 DEF CrGroups
<1>7. CrOpen(t2, m.calls)
  <2>1. ASSUME NEW i \in 1 .. Len(t2), i + Len(t2[i].calls) > Len(t2)
        PROVE  i = Len(t) + 1
    BY <1>2, <1>3, <1>5, <2>1
  <2>2. ASSUME NEW i \in 1 .. Len(t2), i + Len(t2[i].calls) > Len(t2)
        PROVE  /\ i + Len(t2[i].calls) = Len(t2) + Len(m.calls)
               /\ \A j \in 1 .. Len(m.calls) : m.calls[j] = CrCall(i, (Len(t2) - i) + j)
    <3>1. i = Len(t) + 1 /\ Len(t2) - i = 0 /\ t2[i] = m
      BY <1>2, <2>1, <2>2
    <3>2. \A j \in 1 .. Len(m.calls) : (Len(t2) - i) + j = j
      BY <1>4, <3>1
    <3> QED BY <1>2, <1>4, <3>1, <3>2
  <2>3. Len(m.calls) > 0 => \E i \in 1 .. Len(t2) : i + Len(t2[i].calls) > Len(t2)
    <3>1. PICK i \in 1 .. Len(t2) : i = Len(t) + 1
      BY <1>2
    <3>2. t2[i] = m /\ Len(t2) = i
      BY <1>2, <3>1
    <3> QED BY <1>4, <3>1, <3>2
  <2> QED BY <2>2, <2>3 DEF CrOpen
<1>8. CrRan(t2, FALSE, R0, K)
  <2>1. ASSUME NEW p \in R0
        PROVE  \E i \in 1 .. Len(t2) : \E j \in 1 .. Len(t2[i].calls) : p = <<i, j>> /\ i + j <= Len(t2) /\ p \in K
    <3>1. PICK i \in 1 .. Len(t) : \E j \in 1 .. Len(t[i].calls) : p = <<i, j>> /\ i + j <= Len(t) /\ p \in K
      BY DEF CrRan
    <3>2. PICK j \in 1 .. Len(t[i].calls) : p = <<i, j>> /\ i + j <= Len(t) /\ p \in K
      BY <3>1
    <3>3. i \in 1 .. Len(t2) /\ t2[i] = t[i] /\ i + j <= Len(t2)
      BY <1>2, <1>3, <3>2
    <3> QED BY <3>2, <3>3
  <2> QED BY <2>1 DEF CrRan
<1> QED BY <1>1, <1>2, <1>6, <1>7, <1>8

\* The result of the call that runs.
LEMMA CrResult ==
  ASSUME NEW t \in Seq(C!Messages), CrGroups(t), NEW b \in Seq([id : C!Numbers, n : C!Numbers]), CrOpen(t, b),
         Len(b) > 0, MaxBatch \in Nat, NEW m \in C!Messages, m.role = "tool", m.calls = <<>>, m.size # "cut",
         m.id = Head(b).id, NEW R0, NEW K, CrRan(t, TRUE, R0, K)
  PROVE  /\ CrGroups(Append(t, m)) /\ CrOpen(Append(t, m), Tail(b))
         /\ CrRan(Append(t, m), FALSE, R0, K \cup {Head(b).n})
         /\ Append(t, m) \in Seq(C!Messages) /\ Len(Append(t, m)) = Len(t) + 1
         /\ Append(t, m)[Len(t) + 1] = m /\ \A i \in 1 .. Len(t) : Append(t, m)[i] = t[i]
<1>1. PICK t2 : t2 = Append(t, m)
  OBVIOUS
<1>2. /\ t2 \in Seq(C!Messages) /\ Len(t2) = Len(t) + 1 /\ Len(t) \in Nat
      /\ t2[Len(t) + 1] = m /\ \A i \in 1 .. Len(t) : t2[i] = t[i]
  BY <1>1
<1>3. \A i \in 1 .. Len(t) : Len(t[i].calls) \in Nat
  BY CrCallsAre
<1>4. Len(t2[Len(t) + 1].calls) = 0 /\ t2[Len(t) + 1].calls = <<>>
  BY <1>2
<1>5. \A i \in 1 .. Len(t2) : i = Len(t) + 1 \/ i \in 1 .. Len(t)
  BY <1>2
<1>6. Head(b) = b[1] /\ Len(b) \in Nat
  OBVIOUS
<1>7. ASSUME NEW i \in 1 .. Len(t), NEW j \in 1 .. Len(t[i].calls), i + j = Len(t) + 1
      PROVE  Head(b).id = <<i, j>> /\ Head(b).n = <<i, j>>
  <2>1. i + Len(t[i].calls) > Len(t)
    BY <1>2, <1>3, <1>7
  <2>2. b[1] = CrCall(i, (Len(t) - i) + 1)
    <3>1. \A x \in 1 .. Len(b) : b[x] = CrCall(i, (Len(t) - i) + x)
      BY <2>1 DEF CrOpen
    <3> QED BY <1>6, <3>1
  <2>3. (Len(t) - i) + 1 = j
    <3>1. PICK L : L = Len(t)
      OBVIOUS
    <3>2. PICK N : N = Len(t[i].calls)
      OBVIOUS
    <3>3. L \in Nat /\ N \in Nat
      BY <1>2, <1>3, <3>1, <3>2
    <3>4. i \in 1 .. L /\ j \in 1 .. N /\ i + j = L + 1
      BY <1>7, <3>1, <3>2
    <3>5. (L - i) + 1 = j
      BY <3>3, <3>4
    <3> QED BY <3>1, <3>5
  <2> QED BY <1>6, <2>2, <2>3 DEF CrCall
<1>8. PICK i0 \in 1 .. Len(t) : i0 + Len(t[i0].calls) > Len(t)
  BY DEF CrOpen
<1>9. CrGroups(t2)
  <2>1. Len(t2) > 0 /\ t2[1].role = "user"
    BY <1>2 DEF CrGroups
  <2>2. ASSUME NEW i \in 1 .. Len(t)
        PROVE  /\ t2[i].role # "assistant" => t2[i].calls = <<>>
               /\ Len(t2[i].calls) <= MaxBatch /\ t2[i].size # "cut"
               /\ \A j \in 1 .. Len(t2[i].calls) : t2[i].calls[j] = CrCall(i, j)
    BY <1>2 DEF CrGroups
  <2>3. ASSUME NEW i \in 1 .. Len(t), NEW j \in 1 .. Len(t2[i].calls), i + j <= Len(t2)
        PROVE  t2[i + j].role = "tool" /\ t2[i + j].id = <<i, j>>
    <3>1. t2[i] = t[i]
      BY <1>2
    <3>2. CASE i + j <= Len(t)
      <4>1. i + j \in 1 .. Len(t)
        BY <1>2, <1>3, <3>1, <3>2
      <4>2. t[i + j].role = "tool" /\ t[i + j].id = <<i, j>>
        BY <3>1, <3>2 DEF CrGroups
      <4> QED BY <1>2, <4>1, <4>2
    <3>3. CASE i + j = Len(t) + 1
      <4>1. Head(b).id = <<i, j>>
        BY <1>7, <3>1, <3>3
      <4>2. t2[i + j] = m
        BY <1>2, <3>3
      <4> QED BY <4>1, <4>2
    <3>4. i + j <= Len(t) \/ i + j = Len(t) + 1
      <4>1. PICK L : L = Len(t)
        OBVIOUS
      <4>2. PICK N : N = Len(t[i].calls)
        OBVIOUS
      <4>3. L \in Nat /\ N \in Nat /\ Len(t2) = L + 1
        BY <1>2, <1>3, <4>1, <4>2
      <4>4. i \in 1 .. L /\ j \in 1 .. N /\ i + j <= L + 1
        BY <2>3, <3>1, <4>1, <4>2, <4>3
      <4>5. i + j <= L \/ i + j = L + 1
        BY <4>3, <4>4
      <4> QED BY <4>1, <4>5
    <3> QED BY <3>2, <3>3, <3>4
  <2>4. ASSUME NEW i \in 1 .. Len(t), t2[i].role = "tool"
        PROVE  CrAnswer(t2, i)
    <3>1. CrAnswer(t, i)
      BY <1>2, <2>4 DEF CrGroups
    <3>2. PICK a \in 1 .. i - 1 : i - a \in 1 .. Len(t[a].calls)
      BY <3>1 DEF CrAnswer
    <3>3. t2[a] = t[a]
      BY <1>2
    <3> QED BY <3>2, <3>3 DEF CrAnswer
  <2>5. CrAnswer(t2, Len(t) + 1)
    <3>1. i0 \in 1 .. (Len(t) + 1) - 1 /\ t2[i0] = t[i0]
      BY <1>2
    <3>2. (Len(t) + 1) - i0 \in 1 .. Len(t[i0].calls)
      BY <1>2, <1>3, <1>8
    <3> QED BY <3>1, <3>2 DEF CrAnswer
  <2>6. MaxBatch >= 0 /\ \A j \in 1 .. Len(t2[Len(t) + 1].calls) : FALSE
    BY <1>4
  <2>7. t2[Len(t) + 1].size # "cut" /\ Len(t2[Len(t) + 1].calls) <= MaxBatch
    BY <1>2, <1>4, <2>6
  <2> QED BY <1>4, <1>5, <2>1, <2>2, <2>3, <2>4, <2>5, <2>6, <2>7 DEF CrGroups
<1>10. CrOpen(t2, Tail(b))
  <2>1. Len(Tail(b)) = Len(b) - 1 /\ \A j \in 1 .. Len(Tail(b)) : Tail(b)[j] = b[j + 1] /\ j + 1 \in 1 .. Len(b)
    BY <1>6
  <2>2. ASSUME NEW i \in 1 .. Len(t2), i + Len(t2[i].calls) > Len(t2)
        PROVE  i \in 1 .. Len(t) /\ t2[i] = t[i] /\ i + Len(t[i].calls) > Len(t)
    BY <1>2, <1>3, <1>4, <1>5, <2>2
  <2>3. ASSUME NEW i \in 1 .. Len(t2), i + Len(t2[i].calls) > Len(t2)
        PROVE  /\ i + Len(t2[i].calls) = Len(t2) + Len(Tail(b))
               /\ \A j \in 1 .. Len(Tail(b)) : Tail(b)[j] = CrCall(i, (Len(t2) - i) + j)
    <3>1. i \in 1 .. Len(t) /\ t2[i] = t[i] /\ i + Len(t[i].calls) > Len(t)
      BY <2>2, <2>3
    <3>2. /\ i + Len(t[i].calls) = Len(t) + Len(b)
          /\ \A j \in 1 .. Len(b) : b[j] = CrCall(i, (Len(t) - i) + j)
      BY <3>1 DEF CrOpen
    <3>3. ASSUME NEW j \in 1 .. Len(Tail(b))
          PROVE  Tail(b)[j] = CrCall(i, (Len(t2) - i) + j)
      <4>1. (Len(t) - i) + (j + 1) = (Len(t2) - i) + j
        BY <1>2, <3>1
      <4> QED BY <2>1, <3>2, <4>1
    <3>4. i + Len(t2[i].calls) = Len(t2) + Len(Tail(b))
      <4>1. PICK x, y : x = Len(t) /\ y = Len(b) /\ x \in Nat /\ y \in Nat
        BY <1>2, <1>6
      <4>2. PICK q : q = Len(t[i].calls) /\ q = Len(t2[i].calls) /\ q \in Nat /\ i + q = x + y
        BY <1>3, <3>1, <3>2, <4>1
      <4>3. Len(Tail(b)) = y - 1 /\ Len(t2) = x + 1
        BY <1>2, <2>1, <4>1
      <4>4. i \in Nat /\ i + q = (x + 1) + (y - 1)
        <5>1. i \in Nat /\ q \in Nat /\ x \in Nat /\ y \in Nat /\ i + q = x + y
          BY <1>2, <3>1, <4>1, <4>2
        <5> QED BY <5>1
      <4> QED BY <4>2, <4>3, <4>4
    <3> QED BY <3>3, <3>4
  <2>4. ASSUME Len(Tail(b)) > 0
        PROVE  i0 \in 1 .. Len(t2) /\ i0 + Len(t2[i0].calls) > Len(t2)
    <3>1. i0 + Len(t[i0].calls) = Len(t) + Len(b)
      BY <1>8 DEF CrOpen
    <3> QED BY <1>2, <1>6, <2>1, <2>4, <3>1
  <2> QED BY <2>3, <2>4 DEF CrOpen
<1>11. CrRan(t2, FALSE, R0, K \cup {Head(b).n})
  <2>1. ASSUME NEW p \in R0
        PROVE  \E i \in 1 .. Len(t2) : \E j \in 1 .. Len(t2[i].calls) :
                 p = <<i, j>> /\ i + j <= Len(t2) /\ p \in K \cup {Head(b).n}
    <3>1. PICK i \in 1 .. Len(t) : \E j \in 1 .. Len(t[i].calls) :
            p = <<i, j>> /\ ((i + j <= Len(t) /\ p \in K) \/ i + j = Len(t) + 1)
      BY DEF CrRan
    <3>2. PICK j \in 1 .. Len(t[i].calls) : p = <<i, j>> /\ ((i + j <= Len(t) /\ p \in K) \/ i + j = Len(t) + 1)
      BY <3>1
    <3>3. i \in 1 .. Len(t2) /\ t2[i] = t[i] /\ i + j <= Len(t2)
      BY <1>2, <1>3, <3>2
    <3>4. p \in K \cup {Head(b).n}
      BY <1>7, <3>2
    <3> QED BY <3>2, <3>3, <3>4
  <2> QED BY <2>1 DEF CrRan
<1> QED BY <1>1, <1>2, <1>9, <1>10, <1>11

\* The call that begins to run is the one after the last result.
LEMMA CrRunsNext ==
  ASSUME NEW t \in Seq(C!Messages), NEW b \in Seq([id : C!Numbers, n : C!Numbers]), CrOpen(t, b), Len(b) > 0,
         NEW R0, NEW K, CrRan(t, FALSE, R0, K)
  PROVE  CrRan(t, TRUE, R0 \cup {Head(b).n}, K)
<1>1. PICK i \in 1 .. Len(t) : i + Len(t[i].calls) > Len(t)
  BY DEF CrOpen
<1>2. Head(b) = b[1] /\ Len(b) \in Nat /\ Len(t) \in Nat
  OBVIOUS
<1>3. b[1] = CrCall(i, (Len(t) - i) + 1)
  <2>1. \A x \in 1 .. Len(b) : b[x] = CrCall(i, (Len(t) - i) + x)
    BY <1>1 DEF CrOpen
  <2> QED BY <1>2, <2>1
<1>4. PICK j : j = (Len(t) - i) + 1
  OBVIOUS
<1>5. j \in 1 .. Len(t[i].calls) /\ i + j = Len(t) + 1
  BY <1>1, <1>2, <1>4, CrCallsAre
<1>6. Head(b).n = <<i, j>>
  BY <1>2, <1>3, <1>4 DEF CrCall
<1>7. ASSUME NEW p \in R0 \cup {Head(b).n}
      PROVE  \E k \in 1 .. Len(t) : \E l \in 1 .. Len(t[k].calls) :
               p = <<k, l>> /\ ((k + l <= Len(t) /\ p \in K) \/ k + l = Len(t) + 1)
  <2>1. CASE p \in R0
    BY <2>1 DEF CrRan
  <2>2. CASE p = <<i, j>>
    BY <1>5, <2>2
  <2> QED BY <1>6, <2>1, <2>2
<1> QED BY <1>7 DEF CrRan

\* What a row keeps of a message.
LEMMA CrCuts ==
  ASSUME NEW m \in C!Messages
  PROVE  /\ C!Cut(m) \in C!Messages /\ C!Cut(m).role = m.role /\ C!Cut(m).calls = m.calls /\ C!Cut(m).id = m.id
         /\ C!Cut(m).size # "cut" => C!Cut(m) = m
BY DEF C!Cut, C!Messages

\* What is said goes to its row, and the rows stay what was said.
LEMMA CrRowsOfSaid ==
  ASSUME C!ChildAssumption, CrShapes, CrRows, NEW m \in C!Messages, C!Say(m), UNCHANGED <<desde, waits>>
  PROVE  CrRows' /\ roto' = roto /\ saved' = saved /\ pending' \in C!Messages \cup {None}
<1>1. /\ pending = None /\ trace' = Append(trace, m) /\ roto' = roto /\ saved' = saved
      /\ pending' = IF roto \/ waits THEN None ELSE m
  BY DEF C!Say
<1>2. m # None /\ trace \in Seq(C!Messages) /\ saved \in Seq(C!Messages) /\ desde \in Nat
  BY DEF C!ChildAssumption, CrShapes
<1>3. ASSUME ~waits, ~roto
      PROVE  CrKept(saved', trace', pending', desde')
  <2>1. CrKept(saved, trace, None, desde)
    BY <1>1, <1>3 DEF CrRows
  <2>2. PICK t2 : t2 = Append(trace, m)
    OBVIOUS
  <2>3. /\ Len(t2) = Len(trace) + 1 /\ t2[Len(t2)] = m /\ \A i \in 1 .. Len(trace) : t2[i] = trace[i]
        /\ Len(trace) \in Nat
    BY <1>2, <2>2
  <2>4. CrKept(saved, t2, m, desde)
    BY <1>2, <2>1, <2>3 DEF CrKept
  <2> QED BY <1>1, <1>3, <2>2, <2>4
<1> QED BY <1>1, <1>3 DEF CrRows

\* After the last result, a message begins a new group.
LEMMA CrTalkOfSaid ==
  ASSUME C!ChildAssumption, CrInv, pc = "llm", NEW m \in C!Messages, C!Say(m), m.role \in {"user", "assistant"},
         m.role # "assistant" => m.calls = <<>>, m.size # "cut", Len(m.calls) <= MaxBatch,
         \A j \in 1 .. Len(m.calls) : m.calls[j] = CrCall(Len(trace) + 1, j),
         UNCHANGED <<desde, waits, marked, report, ran, known>>
  PROVE  /\ CrRows' /\ saved' \in Seq(C!Messages) /\ trace' \in Seq(C!Messages) /\ roto' = roto
         /\ pending' \in C!Messages \cup {None}
         /\ trace' = seen' /\ report' = None /\ ~marked'
         /\ CrGroups(trace') /\ CrOpen(trace', m.calls) /\ CrRan(trace', FALSE, ran', known')
         /\ trace'[Len(trace')] = m
<1>1. C!Alive
  BY DEF C!Alive
<1>2. CrTalk /\ CrPlace /\ CrRows /\ CrShapes
  BY <1>1 DEF CrInv, CrLives
<1>3. batch = <<>> /\ ~running /\ trace \in Seq(C!Messages) /\ running = FALSE
  BY <1>2 DEF CrPlace, CrShapes
<1>4. CrOpen(trace, <<>>) /\ CrRan(trace, FALSE, ran, known) /\ CrGroups(trace)
  BY <1>2, <1>3 DEF CrTalk
<1>5. trace' = Append(trace, m) /\ seen' = Append(seen, m) /\ trace = seen
  BY <1>2 DEF C!Say, CrTalk
<1>6. /\ CrGroups(Append(trace, m)) /\ CrOpen(Append(trace, m), m.calls)
      /\ CrRan(Append(trace, m), FALSE, ran, known)
      /\ Append(trace, m) \in Seq(C!Messages) /\ Len(Append(trace, m)) = Len(trace) + 1
      /\ Append(trace, m)[Len(trace) + 1] = m
  BY <1>3, <1>4, CrSay
<1>7. CrRows' /\ roto' = roto /\ saved' = saved /\ pending' \in C!Messages \cup {None}
  BY <1>2, CrRowsOfSaid
<1> QED BY <1>2, <1>5, <1>6, <1>7 DEF CrTalk, CrShapes

\* A child with nothing to tell yet.
LEMMA CrQuiet ==
  ASSUME report' = None
  PROVE  C!ToldWhatRan'
BY DEF C!ToldWhatRan

\* A message without calls has nothing open.
LEMMA CrPlain ==
  ASSUME C!ChildAssumption, NEW role \in {"user", "assistant"}, NEW size \in {"small", "big"}, NEW t \in Seq(C!Messages),
         NEW m, m = C!Message(role, <<>>, None, size)
  PROVE  /\ m \in C!Messages /\ m.role = role /\ m.calls = <<>> /\ m.size # "cut" /\ Len(m.calls) <= MaxBatch
         /\ \A j \in 1 .. Len(m.calls) : m.calls[j] = CrCall(Len(t) + 1, j)
<1>1. PICK z : z = <<>> /\ Len(z) = 0 /\ z \in Seq([id : C!Numbers, n : C!Numbers])
  <2>1. \A S : <<>> \in Seq(S) /\ Len(<<>>) = 0
    OBVIOUS
  <2> QED BY <2>1
<1>2. m = [role |-> role, calls |-> z, id |-> None, size |-> size]
  BY <1>1 DEF C!Message
<1>3. m \in C!Messages /\ m.role = role /\ m.calls = z /\ m.size # "cut"
  <2>1. PICK S, Q : S = Seq([id : C!Numbers, n : C!Numbers]) /\ Q = C!Numbers \cup {None}
    OBVIOUS
  <2>2. z \in S /\ None \in Q /\ role \in {"user", "assistant", "tool"} /\ size \in {"small", "big", "cut"}
    BY <1>1, <2>1
  <2>3. m \in [role : {"user", "assistant", "tool"}, calls : S, id : Q, size : {"small", "big", "cut"}]
    BY <1>2, <2>2
  <2>4. m.role = role /\ m.calls = z /\ m.size = size
    BY <1>2
  <2> QED BY <2>1, <2>3, <2>4 DEF C!Messages
<1>4. 0 <= MaxBatch
  BY DEF C!ChildAssumption
<1> QED BY <1>1, <1>3, <1>4

\* Closes: the final answer.
LEMMA CrCloses ==
  ASSUME C!ChildAssumption, CrInv, NEW how \in C!Offered, C!Closes(how)
  PROVE  CrInv'
<1>1. PICK size \in {"small", "big"} : C!Say(C!Message("assistant", <<>>, None, size))
  BY DEF C!Closes
<1>2. PICK m : m = C!Message("assistant", <<>>, None, size)
  OBVIOUS
<1>3. trace \in Seq(C!Messages)
  BY DEF CrInv, CrShapes
<1>4. /\ m \in C!Messages /\ m.role = "assistant" /\ m.calls = <<>> /\ m.size # "cut" /\ Len(m.calls) <= MaxBatch
      /\ \A j \in 1 .. Len(m.calls) : m.calls[j] = CrCall(Len(trace) + 1, j)
  BY <1>2, <1>3, CrPlain
<1>5. pc = "llm" /\ C!Say(m) /\ UNCHANGED <<desde, waits, marked, report, ran, known>>
  BY <1>1, <1>2 DEF C!Closes
<1>6. /\ CrRows' /\ saved' \in Seq(C!Messages) /\ trace' \in Seq(C!Messages) /\ roto' = roto
      /\ pending' \in C!Messages \cup {None}
      /\ trace' = seen' /\ report' = None /\ ~marked'
      /\ CrGroups(trace') /\ CrOpen(trace', m.calls) /\ CrRan(trace', FALSE, ran', known')
      /\ trace'[Len(trace')] = m
  BY <1>4, <1>5, CrTalkOfSaid
<1>7. batch = <<>> /\ ~running /\ batch' = batch /\ running' = running /\ running = FALSE
  BY <1>5 DEF CrInv, CrLives, CrPlace, C!Alive, C!Closes, CrShapes
<1>8. pc' \in {"closing", "asking"} /\ (pc' = "asking" => ~waits')
  BY <1>5 DEF C!Closes, C!Offered
<1>9. CrTalk'
  BY <1>4, <1>6, <1>7 DEF CrTalk
<1>10. CrPlace'
  BY <1>4, <1>6, <1>7, <1>8 DEF CrPlace, CrClosing
<1>11. CrShapes'
  BY <1>5, <1>6, <1>7, <1>8 DEF CrInv, CrShapes, CrPlaces
<1>12. CrPaused' /\ C!ToldWhatRan'
  BY <1>6, <1>8, CrQuiet DEF CrPaused
<1> QED BY <1>6, <1>9, <1>10, <1>11, <1>12 DEF CrInv, CrLives

\* OutOfIterations: the last thing the child says.
LEMMA CrOutOf ==
  ASSUME C!ChildAssumption, CrInv, C!OutOfIterations
  PROVE  CrInv'
<1>1. /\ pc = "llm" /\ pc' = "spent" /\ UNCHANGED <<batch, running, marked, desde, report, ran, known, waits>>
  BY DEF C!OutOfIterations
<1>2. CrTalk /\ CrPlace /\ CrRows /\ CrShapes
  BY <1>1 DEF CrInv, CrLives, C!Alive
<1>3. batch = <<>> /\ ~running /\ running = FALSE
  BY <1>1, <1>2 DEF CrPlace, CrShapes
<1>4. /\ CrRows' /\ saved' \in Seq(C!Messages) /\ trace' \in Seq(C!Messages) /\ roto' = roto
      /\ pending' \in C!Messages \cup {None} /\ CrTalk'
  <2>1. CASE UNCHANGED <<C!recorder, seen>>
    BY <1>1, <1>2, <2>1 DEF C!recorder, CrTalk, CrRows, CrShapes
  <2>2. CASE C!Say(C!Message("assistant", <<>>, None, "small"))
    <3>1. PICK m : m = C!Message("assistant", <<>>, None, "small")
      OBVIOUS
    <3>2. trace \in Seq(C!Messages)
      BY <1>2 DEF CrShapes
    <3>3. /\ m \in C!Messages /\ m.role = "assistant" /\ m.calls = <<>> /\ m.size # "cut" /\ Len(m.calls) <= MaxBatch
          /\ \A j \in 1 .. Len(m.calls) : m.calls[j] = CrCall(Len(trace) + 1, j)
      BY <3>1, <3>2, CrPlain
    <3>4. C!Say(m)
      BY <2>2, <3>1
    <3>5. /\ CrRows' /\ saved' \in Seq(C!Messages) /\ trace' \in Seq(C!Messages) /\ roto' = roto
          /\ pending' \in C!Messages \cup {None}
          /\ trace' = seen' /\ report' = None /\ ~marked'
          /\ CrGroups(trace') /\ CrOpen(trace', m.calls) /\ CrRan(trace', FALSE, ran', known')
      BY <1>1, <3>3, <3>4, CrTalkOfSaid
    <3> QED BY <1>1, <1>3, <3>3, <3>5 DEF CrTalk
  <2> QED BY <2>1, <2>2 DEF C!OutOfIterations
<1>5. CrPlace'
  BY <1>1, <1>3 DEF CrPlace
<1>6. CrShapes'
  BY <1>1, <1>2, <1>4 DEF CrShapes, CrPlaces
<1>7. CrPaused' /\ C!ToldWhatRan'
  BY <1>1, <1>4, CrQuiet DEF CrPaused, CrTalk
<1> QED BY <1>4, <1>5, <1>6, <1>7 DEF CrInv, CrLives

\* CallTools: an answer with calls, each with an id of its own.
LEMMA CrCallTools ==
  ASSUME C!ChildAssumption, ~Dsml, CrInv, C!CallTools
  PROVE  CrInv'
<1>1. /\ pc = "llm" /\ pc' = "tools" /\ UNCHANGED <<running, marked, desde, report, ran, known, waits>>
      /\ \E k \in 1..MaxBatch, size \in {"small", "big"} :
           C!Say(C!Message("assistant", C!Ids(k, FALSE), None, size)) /\ batch' = C!Ids(k, FALSE)
  <2>1. PICK k \in 1..MaxBatch, dsml \in {FALSE, Dsml}, size \in {"small", "big"} :
          C!Say(C!Message("assistant", C!Ids(k, dsml), None, size)) /\ batch' = C!Ids(k, dsml)
    BY DEF C!CallTools
  <2>2. dsml = FALSE
    BY DEF C!ChildAssumption
  <2> QED BY <2>1, <2>2 DEF C!CallTools
<1>2. CrTalk /\ CrPlace /\ CrRows /\ CrShapes
  BY <1>1 DEF CrInv, CrLives, C!Alive
<1>3. ~running /\ running = FALSE /\ trace \in Seq(C!Messages) /\ Len(trace) \in Nat /\ trace = seen
  BY <1>1, <1>2 DEF CrPlace, CrShapes, CrTalk
<1>4. PICK k \in 1..MaxBatch, size \in {"small", "big"} :
        C!Say(C!Message("assistant", C!Ids(k, FALSE), None, size)) /\ batch' = C!Ids(k, FALSE)
  BY <1>1
<1>5. MaxBatch \in Nat /\ k \in Nat
  BY DEF C!ChildAssumption
<1>6. PICK b : b = C!Ids(k, FALSE)
  OBVIOUS
<1>7. b = [i \in 1 .. k |-> [id |-> <<Len(trace) + 1, i>>, n |-> <<Len(trace) + 1, i>>]]
  BY <1>3, <1>6 DEF C!Ids, C!Number
<1>8. /\ b \in Seq([id : C!Numbers, n : C!Numbers]) /\ Len(b) = k
      /\ \A j \in 1 .. Len(b) : b[j] = CrCall(Len(trace) + 1, j)
  <2>1. \A i \in 1 .. k : <<Len(trace) + 1, i>> \in C!Numbers
    BY <1>3, <1>5 DEF C!Numbers
  <2>2. b \in [1 .. k -> [id : C!Numbers, n : C!Numbers]]
    BY <1>7, <2>1
  <2>3. b \in Seq([id : C!Numbers, n : C!Numbers]) /\ Len(b) = k
    <3>1. \A S : b \in [1 .. k -> S] => b \in Seq(S) /\ Len(b) = k
      BY <1>5
    <3> QED BY <2>2, <3>1
  <2> QED BY <1>7, <2>3 DEF CrCall
<1>9. PICK m : m = C!Message("assistant", b, None, size)
  OBVIOUS
<1>10. m \in C!Messages /\ m.role = "assistant" /\ m.calls = b /\ m.size # "cut"
  <2>1. PICK S, Q : S = Seq([id : C!Numbers, n : C!Numbers]) /\ Q = C!Numbers \cup {None}
    OBVIOUS
  <2>2. b \in S /\ None \in Q /\ size \in {"small", "big", "cut"}
    BY <1>8, <2>1
  <2>3. m = [role |-> "assistant", calls |-> b, id |-> None, size |-> size]
    BY <1>9 DEF C!Message
  <2>4. m \in [role : {"user", "assistant", "tool"}, calls : S, id : Q, size : {"small", "big", "cut"}]
    BY <2>2, <2>3
  <2> QED BY <2>1, <2>3, <2>4 DEF C!Messages
<1>11. /\ CrRows' /\ saved' \in Seq(C!Messages) /\ trace' \in Seq(C!Messages) /\ roto' = roto
       /\ pending' \in C!Messages \cup {None}
       /\ trace' = seen' /\ report' = None /\ ~marked'
       /\ CrGroups(trace') /\ CrOpen(trace', m.calls) /\ CrRan(trace', FALSE, ran', known')
  <2>1. Len(m.calls) <= MaxBatch /\ \A j \in 1 .. Len(m.calls) : m.calls[j] = CrCall(Len(trace) + 1, j)
    BY <1>5, <1>8, <1>10
  <2>2. C!Say(m)
    BY <1>4, <1>6, <1>9
  <2> QED BY <1>1, <1>10, <2>1, <2>2, CrTalkOfSaid
<1>12. CrTalk'
  BY <1>1, <1>3, <1>4, <1>6, <1>10, <1>11 DEF CrTalk
<1>13. CrPlace'
  BY <1>1, <1>3 DEF CrPlace
<1>14. CrShapes'
  BY <1>1, <1>2, <1>4, <1>6, <1>8, <1>11 DEF CrShapes, CrPlaces
<1>15. CrPaused' /\ C!ToldWhatRan'
  BY <1>1, <1>11, CrQuiet DEF CrPaused
<1> QED BY <1>11, <1>12, <1>13, <1>14, <1>15 DEF CrInv, CrLives

\* RunTool and BatchDone: nothing is said.
LEMMA CrBatch ==
  ASSUME CrInv, C!RunTool \/ C!BatchDone
  PROVE  CrInv'
<1>1. pc = "tools" /\ pending = None /\ UNCHANGED <<batch, trace, pending, roto, saved, marked, desde, report, known, seen, waits>>
  BY DEF C!RunTool, C!BatchDone, C!recorder, C!history
<1>2. CrTalk /\ CrPlace /\ CrRows /\ CrShapes
  BY <1>1 DEF CrInv, CrLives, C!Alive
<1>3. CASE C!RunTool
  <2>1. batch # <<>> /\ ~running /\ running' = TRUE /\ running = FALSE /\ ran' = ran \cup {Head(batch).n} /\ pc' = pc
    BY <1>2, <1>3 DEF C!RunTool, CrShapes
  <2>2. Len(batch) > 0 /\ batch \in Seq([id : C!Numbers, n : C!Numbers]) /\ trace \in Seq(C!Messages)
    <3>1. batch \in Seq([id : C!Numbers, n : C!Numbers]) /\ trace \in Seq(C!Messages)
      BY <1>2 DEF CrShapes
    <3> QED BY <2>1, <3>1
  <2>3. CrRan(trace, TRUE, ran \cup {Head(batch).n}, known)
    BY <1>2, <2>1, <2>2, CrRunsNext DEF CrTalk
  <2>4. CrTalk'
    BY <1>1, <1>2, <2>1, <2>3 DEF CrTalk
  <2>5. CrPlace'
    BY <1>1, <1>2, <2>1, <2>2 DEF CrPlace
  <2>6. CrShapes'
    BY <1>1, <1>2, <2>1 DEF CrShapes
  <2>7. CrPaused' /\ C!ToldWhatRan' /\ CrRows'
    BY <1>1, <1>2, <2>1, CrQuiet DEF CrPaused, CrRows, CrTalk
  <2> QED BY <2>4, <2>5, <2>6, <2>7 DEF CrInv, CrLives
<1>4. CASE C!BatchDone
  <2>1. batch = <<>> /\ running' = running /\ ran' = ran /\ pc' = "llm" /\ running \in BOOLEAN
    BY <1>2, <1>4 DEF C!BatchDone, C!history, CrShapes
  <2>2. ~running
    BY <1>2, <2>1 DEF CrPlace
  <2>3. CrTalk' /\ CrRows'
    BY <1>1, <1>2, <2>1 DEF CrTalk, CrRows
  <2>4. CrPlace'
    BY <1>1, <2>1, <2>2 DEF CrPlace
  <2>5. CrShapes'
    BY <1>1, <1>2, <2>1 DEF CrShapes, CrPlaces
  <2>6. CrPaused' /\ C!ToldWhatRan'
    BY <1>1, <1>2, <2>1, CrQuiet DEF CrPaused, CrTalk
  <2> QED BY <2>3, <2>4, <2>5, <2>6 DEF CrInv, CrLives
<1> QED BY <1>3, <1>4

\* ToolAnswers: the result of the call that runs.
LEMMA CrToolAnswers ==
  ASSUME C!ChildAssumption, CrInv, C!ToolAnswers
  PROVE  CrInv'
<1>1. /\ pc = "tools" /\ running /\ running' = FALSE /\ batch' = Tail(batch) /\ known' = known \cup {Head(batch).n}
      /\ UNCHANGED <<pc, marked, desde, report, ran, waits>>
      /\ C!Say(C!Message("tool", <<>>, Head(batch).id, "small"))
  BY DEF C!ToolAnswers
<1>2. CrTalk /\ CrPlace /\ CrRows /\ CrShapes
  BY <1>1 DEF CrInv, CrLives, C!Alive
<1>3. /\ Len(batch) > 0 /\ running = TRUE /\ pending = None
      /\ batch \in Seq([id : C!Numbers, n : C!Numbers]) /\ trace \in Seq(C!Messages)
  BY <1>1, <1>2 DEF CrPlace, CrShapes
<1>4. PICK c : c = Head(batch)
  OBVIOUS
<1>5. c \in [id : C!Numbers, n : C!Numbers] /\ Tail(batch) \in Seq([id : C!Numbers, n : C!Numbers])
  <2>1. \A S : batch \in Seq(S) => Head(batch) \in S /\ Tail(batch) \in Seq(S)
    BY <1>3
  <2> QED BY <1>3, <1>4, <2>1
<1>6. PICK m : m = C!Message("tool", <<>>, c.id, "small")
  OBVIOUS
<1>7. m \in C!Messages /\ m.role = "tool" /\ m.calls = <<>> /\ m.size # "cut" /\ m.id = c.id
  <2>1. PICK S, Q : S = Seq([id : C!Numbers, n : C!Numbers]) /\ Q = C!Numbers \cup {None}
    OBVIOUS
  <2>2. PICK z : z = <<>> /\ z \in S
    <3>1. \A T : <<>> \in Seq(T)
      OBVIOUS
    <3> QED BY <2>1, <3>1
  <2>3. c.id \in Q
    BY <1>5, <2>1
  <2>4. m = [role |-> "tool", calls |-> z, id |-> c.id, size |-> "small"]
    BY <1>6, <2>2 DEF C!Message
  <2>5. m \in [role : {"user", "assistant", "tool"}, calls : S, id : Q, size : {"small", "big", "cut"}]
    BY <2>2, <2>3, <2>4
  <2> QED BY <2>1, <2>2, <2>4, <2>5 DEF C!Messages
<1>8. C!Say(m)
  BY <1>1, <1>4, <1>6
<1>9. CrGroups(trace) /\ CrOpen(trace, batch) /\ CrRan(trace, TRUE, ran, known) /\ trace = seen /\ report = None /\ ~marked
  BY <1>2, <1>3 DEF CrTalk
<1>10. MaxBatch \in Nat
  BY DEF C!ChildAssumption
<1>11. /\ CrGroups(Append(trace, m)) /\ CrOpen(Append(trace, m), Tail(batch))
       /\ CrRan(Append(trace, m), FALSE, ran, known \cup {Head(batch).n})
       /\ Append(trace, m) \in Seq(C!Messages)
  BY <1>3, <1>4, <1>7, <1>9, <1>10, CrResult
<1>12. trace' = Append(trace, m) /\ seen' = Append(seen, m)
  BY <1>8 DEF C!Say
<1>13. CrRows' /\ roto' = roto /\ saved' = saved /\ pending' \in C!Messages \cup {None}
  BY <1>1, <1>2, <1>7, <1>8, CrRowsOfSaid
<1>14. CrTalk'
  BY <1>1, <1>9, <1>11, <1>12 DEF CrTalk
<1>15. CrPlace'
  BY <1>1 DEF CrPlace
<1>16. CrShapes'
  BY <1>1, <1>2, <1>5, <1>11, <1>12, <1>13 DEF CrShapes
<1>17. CrPaused' /\ C!ToldWhatRan'
  BY <1>1, <1>9, CrQuiet DEF CrPaused
<1> QED BY <1>13, <1>14, <1>15, <1>16, <1>17 DEF CrInv, CrLives

\* Write and WriteFails: the row of the last message lands, or the recorder gives up.
LEMMA CrWrites ==
  ASSUME C!ChildAssumption, CrInv, C!Write \/ C!WriteFails
  PROVE  CrInv'
<1>1. /\ pending # None /\ pending' = None
      /\ UNCHANGED <<pc, batch, running, trace, marked, desde, report, ran, known, seen, waits>>
  BY DEF C!Write, C!WriteFails, C!history
<1>2. CrShapes /\ None \notin C!Messages
  BY DEF CrInv, C!ChildAssumption
<1>3. pending \in C!Messages
  BY <1>1, <1>2 DEF CrShapes
<1>4. \/ saved' = saved /\ roto' = TRUE
      \/ saved' = Append(saved, C!Cut(pending)) /\ roto' = roto
  BY DEF C!Write, C!WriteFails
<1>5. CrShapes'
  <2>1. saved \in Seq(C!Messages) /\ C!Cut(pending) \in C!Messages
    BY <1>2, <1>3, CrCuts DEF CrShapes
  <2>2. saved' \in Seq(C!Messages)
    BY <1>4, <2>1
  <2> QED BY <1>1, <1>2, <1>4, <2>2 DEF CrShapes
<1>6. CrPaused'
  BY <1>1 DEF CrInv, CrPaused
<1>7. C!ToldWhatRan'
  <2>1. C!ToldWhatRan
    BY DEF CrInv
  <2>2. ~(roto' /\ report'.kind = "interrupted") => ~(roto /\ report.kind = "interrupted")
    BY <1>1, <1>4
  <2> QED BY <1>1, <2>1, <2>2 DEF C!ToldWhatRan, C!InFlightIsNamed
<1>8. ASSUME C!Alive
      PROVE  CrTalk' /\ CrPlace' /\ CrRows'
  <2>1. CrTalk /\ CrPlace /\ CrRows
    BY <1>8 DEF CrInv, CrLives
  <2>2. CrTalk' /\ CrPlace'
    BY <1>1, <2>1 DEF CrTalk, CrPlace
  <2>3. ASSUME ~waits', ~roto'
        PROVE  CrKept(saved', trace', None, desde')
    <3>1. ~waits /\ ~roto /\ saved' = Append(saved, C!Cut(pending)) /\ CrKept(saved, trace, pending, desde)
      BY <1>1, <1>4, <2>1, <2>3 DEF CrRows
    <3>2. PICK s2 : s2 = Append(saved, C!Cut(pending))
      OBVIOUS
    <3>3. saved \in Seq(C!Messages) /\ trace \in Seq(C!Messages) /\ desde \in Nat
      BY <1>2 DEF CrShapes
    <3>4. /\ Len(s2) = Len(saved) + 1 /\ s2[Len(saved) + 1] = C!Cut(pending) /\ \A i \in 1 .. Len(saved) : s2[i] = saved[i]
          /\ Len(saved) \in Nat /\ Len(trace) \in Nat
      BY <3>2, <3>3
    <3>5. Len(saved) = Len(trace) - 1 /\ pending = trace[Len(trace)]
      BY <1>1, <3>1 DEF CrKept
    <3>6. \A i \in 1 .. Len(s2) : i \in 1 .. Len(saved) \/ i = Len(saved) + 1
      BY <3>4
    <3>7. CrKept(s2, trace, None, desde)
      <4>1. Len(s2) = Len(trace) /\ desde <= Len(s2)
        BY <3>1, <3>3, <3>4, <3>5 DEF CrKept
      <4>2. \A i \in 1 .. Len(s2) : s2[i] = trace[i] \/ s2[i] = C!Cut(trace[i])
        BY <3>1, <3>4, <3>5, <3>6 DEF CrKept
      <4>3. \A i \in 1 .. desde : s2[i] = trace[i]
        BY <3>1, <3>3, <3>4 DEF CrKept
      <4> QED BY <4>1, <4>2, <4>3 DEF CrKept
    <3> QED BY <1>1, <3>1, <3>2, <3>7
  <2> QED BY <1>1, <2>2, <2>3 DEF CrRows
<1> QED BY <1>1, <1>5, <1>6, <1>7, <1>8 DEF CrInv, CrLives, C!Alive

\* The rows of a report: the last ones, from the message f on.
CrFrom == IF Len(saved) > LastSteps THEN Len(saved) - LastSteps + 1 ELSE 1

\* What a report made of the trace, or of the last rows, tells of a child that lives.
LEMMA CrReports ==
  ASSUME C!ChildAssumption, CrInv, C!Alive
  PROVE  /\ \A why : /\ ran \ known \subseteq {C!Failure(why, trace).in_flight}
                     /\ C!Failure(why, trace).not_started \cap ran = {}
         /\ ~waits /\ ~roto => \A why : /\ ran \ known \subseteq {C!Failure(why, C!LastRows).in_flight}
                                        /\ C!Failure(why, C!LastRows).not_started \cap ran = {}
<1>1. CrTalk /\ CrPlace /\ CrRows /\ CrShapes
  BY DEF CrInv, CrLives
<1>2. /\ trace \in Seq(C!Messages) /\ saved \in Seq(C!Messages) /\ Len(trace) \in Nat /\ Len(saved) \in Nat
      /\ running \in BOOLEAN
  BY <1>1 DEF CrShapes
<1>3. CrGroups(trace) /\ CrRan(trace, running, ran, known)
  BY <1>1 DEF CrTalk
<1>4. ASSUME NEW why
      PROVE  /\ ran \ known \subseteq {C!Failure(why, trace).in_flight}
             /\ C!Failure(why, trace).not_started \cap ran = {}
  <2>1. CrWindow(trace, trace, 1, Len(trace))
    BY <1>2 DEF CrWindow
  <2>2. running => \A i \in 1 .. Len(trace) : i + Len(trace[i].calls) > Len(trace) => 1 <= i
    OBVIOUS
  <2>3. Len(trace) <= Len(trace) /\ 1 \in Nat /\ 1 <= 1 /\ 1 <= Len(trace) + 1
    BY <1>2
  <2> QED BY <1>2, <1>3, <2>1, <2>2, <2>3, CrTold
<1>5. ASSUME ~waits, ~roto, NEW why
      PROVE  /\ ran \ known \subseteq {C!Failure(why, C!LastRows).in_flight}
             /\ C!Failure(why, C!LastRows).not_started \cap ran = {}
  <2>1. CrKept(saved, trace, pending, desde)
    BY <1>1, <1>5 DEF CrRows
  <2>2. LastSteps \in Nat /\ LastSteps >= 1 /\ MaxBatch \in Nat /\ MaxBatch <= LastSteps
    BY DEF C!ChildAssumption
  <2>3. PICK f : f = CrFrom
    OBVIOUS
  <2>4. f \in Nat /\ 1 <= f /\ f <= Len(saved) + 1 /\ f + LastSteps >= Len(saved) + 1
        /\ (f = 1 \/ f = Len(saved) - LastSteps + 1)
    BY <1>2, <2>2, <2>3 DEF CrFrom
  <2>5. PICK w : w = SubSeq(saved, f, Len(saved))
    OBVIOUS
  <2>6. C!LastRows = w
    BY <2>3, <2>5 DEF C!LastRows, CrFrom
  <2>7. /\ w \in Seq(C!Messages) /\ Len(w) = Len(saved) - f + 1
        /\ \A k \in 1 .. Len(w) : w[k] = saved[k + f - 1] /\ k + f - 1 \in 1 .. Len(saved)
    BY <1>2, <2>4, <2>5
  <2>8. /\ Len(saved) <= Len(trace)
        /\ Len(saved) = Len(trace) \/ (Len(saved) + 1 = Len(trace) /\ pending # None)
    BY <1>2, <2>1 DEF CrKept
  <2>9. \A i \in 1 .. Len(saved) : /\ saved[i].role = trace[i].role /\ saved[i].calls = trace[i].calls
                                   /\ saved[i].id = trace[i].id
    <3>1. ASSUME NEW i \in 1 .. Len(saved)
          PROVE  /\ saved[i].role = trace[i].role /\ saved[i].calls = trace[i].calls
                 /\ saved[i].id = trace[i].id
      <4>1. trace[i] \in C!Messages
        BY <1>2, <2>8
      <4>2. saved[i] = trace[i] \/ saved[i] = C!Cut(trace[i])
        BY <2>1 DEF CrKept
      <4> QED BY <4>1, <4>2, CrCuts
    <3> QED BY <3>1
  <2>10. CrWindow(w, trace, f, Len(saved))
    BY <2>7, <2>9 DEF CrWindow
  <2>11. Len(saved) = Len(trace) \/ (Len(saved) + 1 = Len(trace) /\ ~running)
    BY <1>1, <2>8 DEF CrPlace
  <2>12. running => \A i \in 1 .. Len(trace) : i + Len(trace[i].calls) > Len(trace) => f <= i
    <3>1. ASSUME running, NEW i \in 1 .. Len(trace), i + Len(trace[i].calls) > Len(trace)
          PROVE  f <= i
      <4>1. Len(trace[i].calls) \in Nat /\ Len(trace[i].calls) <= MaxBatch
        BY <1>2, <1>3, CrCallsAre DEF CrGroups
      <4>2. Len(saved) = Len(trace)
        BY <2>11, <3>1
      <4> QED BY <1>2, <2>2, <2>4, <3>1, <4>1, <4>2
    <3> QED BY <3>1
  <2>13. /\ ran \ known \subseteq {C!Failure(why, w).in_flight}
         /\ C!Failure(why, w).not_started \cap ran = {}
    BY <1>2, <1>3, <2>4, <2>7, <2>8, <2>10, <2>11, <2>12, CrTold
  <2> QED BY <2>6, <2>13
<1> QED BY <1>4, <1>5

\* A report that names what was executed.
LEMMA CrTells ==
  ASSUME report' = None \/ /\ ran' \ known' \subseteq {report'.in_flight}
                           /\ report'.not_started \cap ran' = {}
  PROVE  C!ToldWhatRan'
BY DEF C!ToldWhatRan, C!InFlightIsNamed

\* Timeout, Raises, Spent, Delivered and NoPause: the child ends.
LEMMA CrEnds ==
  ASSUME C!ChildAssumption, CrInv,
         C!Timeout \/ C!Raises \/ C!Spent \/ C!Delivered \/ C!NoPause
  PROVE  CrInv'
<1>1. /\ C!Alive /\ pc' = "ended" /\ batch' = <<>> /\ running' = FALSE /\ marked' = (marked \/ roto)
      /\ UNCHANGED <<trace, pending, roto, saved, desde, ran, known, seen, waits>>
      /\ \/ report' = report
         \/ report' = None
         \/ \E why : report' = C!Failure(why, trace)
  BY DEF C!Timeout, C!Working, C!Raises, C!Spent, C!Delivered, C!NoPause, C!Fails, C!Ends, C!Marks, C!Alive,
         C!recorder, C!history
<1>2. CrShapes /\ report = None
  BY <1>1 DEF CrInv, CrLives, CrTalk
<1>3. C!ToldWhatRan'
  <2>1. CASE report' = None
    BY <2>1, CrQuiet
  <2>2. CASE \E why : report' = C!Failure(why, trace)
    <3>1. PICK why : report' = C!Failure(why, trace)
      BY <2>2
    <3>2. ran \ known \subseteq {report'.in_flight} /\ report'.not_started \cap ran = {}
      BY <1>1, <3>1, CrReports
    <3> QED BY <1>1, <3>2, CrTells
  <2> QED BY <1>1, <1>2, <2>1, <2>2
<1>4. CrShapes'
  <2>1. <<>> \in Seq([id : C!Numbers, n : C!Numbers])
    <3>1. \A S : <<>> \in Seq(S)
      OBVIOUS
    <3> QED BY <3>1
  <2>2. (marked \/ roto) \in BOOLEAN
    OBVIOUS
  <2> QED BY <1>1, <1>2, <2>1, <2>2 DEF CrShapes, CrPlaces
<1> QED BY <1>1, <1>3, <1>4 DEF CrInv, CrLives, CrPaused, C!Alive

\* Stop and Crash: the parent is told from the rows.
LEMMA CrInterrupted ==
  ASSUME C!ChildAssumption, CrInv, C!Stop \/ C!Crash
  PROVE  CrInv'
<1>1. /\ C!Alive /\ ~waits /\ pc' = "interrupted" /\ batch' = <<>> /\ running' = FALSE
      /\ UNCHANGED <<roto, saved, desde, ran, known, seen, waits>>
      /\ report' = C!Failure("interrupted", C!LastRows)
      /\ marked' = marked \/ marked' = (marked \/ roto)
      /\ trace' = trace \/ trace' = saved
      /\ pending' = pending \/ pending' = None
  BY DEF C!Stop, C!Crash, C!Ends, C!Marks, C!recorder, C!history
<1>2. CrShapes
  BY DEF CrInv
<1>3. C!ToldWhatRan'
  <2>1. CASE ~roto
    <3>1. ran \ known \subseteq {report'.in_flight} /\ report'.not_started \cap ran = {}
      BY <1>1, <2>1, CrReports
    <3> QED BY <1>1, <3>1, CrTells
  <2>2. CASE roto
    <3>1. report'.kind = "interrupted" /\ roto'
      BY <1>1, <2>2 DEF C!Failure
    <3> QED BY <3>1 DEF C!ToldWhatRan
  <2> QED BY <2>1, <2>2
<1>4. CrShapes'
  <2>1. <<>> \in Seq([id : C!Numbers, n : C!Numbers])
    <3>1. \A S : <<>> \in Seq(S)
      OBVIOUS
    <3> QED BY <3>1
  <2>2. (marked \/ roto) \in BOOLEAN /\ marked \in BOOLEAN
    BY <1>2 DEF CrShapes
  <2> QED BY <1>1, <1>2, <2>1, <2>2 DEF CrShapes, CrPlaces
<1> QED BY <1>1, <1>3, <1>4 DEF CrInv, CrLives, CrPaused, C!Alive

\* What the snapshot makes of the rows of a child that asks.
LEMMA CrSnapshot ==
  ASSUME CrInv, pc = "asking", ~roto, pending = None
  PROVE  /\ ~waits /\ Len(saved) = Len(trace)
         /\ \A k : C!Completed(k) \in Seq(C!Messages)
         /\ C!Completed(Len(saved)) = trace
<1>1. CrTalk /\ CrPlace /\ CrRows /\ CrShapes
  BY DEF CrInv, CrLives, C!Alive
<1>2. ~waits /\ CrKept(saved, trace, None, desde)
  BY <1>1 DEF CrPlace, CrRows
<1>3. /\ trace \in Seq(C!Messages) /\ saved \in Seq(C!Messages) /\ desde \in Nat /\ Len(saved) = Len(trace)
      /\ Len(saved) \in Nat
  BY <1>1, <1>2 DEF CrShapes, CrKept
<1>4. DOMAIN saved = 1 .. Len(saved) /\ \A i \in 1 .. Len(saved) : saved[i] \in C!Messages /\ trace[i] \in C!Messages
  BY <1>3
<1>5. ASSUME NEW k
      PROVE  C!Completed(k) \in Seq(C!Messages)
  <2>1. C!Completed(k) \in [1 .. Len(saved) -> C!Messages]
    BY <1>4 DEF C!Completed
  <2> QED BY <1>3, <2>1
<1>6. ASSUME NEW i \in 1 .. Len(saved)
      PROVE  (IF i \in C!Incomplete /\ i <= Len(saved) THEN trace[i] ELSE saved[i]) = trace[i]
  <2>1. CASE i \in C!Incomplete
    BY <1>3, <2>1
  <2>2. CASE i \notin C!Incomplete
    <3>1. i <= desde \/ saved[i].size # "cut"
      BY <1>3, <1>4, <2>2 DEF C!Incomplete
    <3>2. saved[i] = trace[i] \/ saved[i] = C!Cut(trace[i])
      BY <1>2 DEF CrKept
    <3>3. i <= desde => saved[i] = trace[i]
      BY <1>2, <1>3 DEF CrKept
    <3>4. C!Cut(trace[i]).size # "cut" => C!Cut(trace[i]) = trace[i]
      BY <1>4, CrCuts
    <3> QED BY <2>2, <3>1, <3>2, <3>3, <3>4
  <2> QED BY <2>1, <2>2
<1>7. C!Completed(Len(saved)) = [i \in 1 .. Len(saved) |-> trace[i]]
  BY <1>4, <1>6 DEF C!Completed
<1>8. trace = [i \in 1 .. Len(saved) |-> trace[i]]
  BY <1>3
<1> QED BY <1>2, <1>3, <1>5, <1>7, <1>8

\* Pauses and SnapshotFails: the rows of this leg are made whole.
LEMMA CrPauses ==
  ASSUME C!ChildAssumption, CrInv, C!Pauses \/ C!SnapshotFails
  PROVE  CrInv'
<1>1. /\ pc = "asking" /\ ~roto /\ pending = None /\ batch' = <<>> /\ running' = FALSE /\ C!Left >= 1
      /\ UNCHANGED <<trace, pending, roto, desde, report, ran, known, seen, waits>>
  BY DEF C!Pauses, C!SnapshotFails, C!Ends, C!history
<1>2. CrTalk /\ CrPlace /\ CrRows /\ CrShapes
  BY <1>1 DEF CrInv, CrLives, C!Alive
<1>3. /\ ~waits /\ Len(saved) = Len(trace) /\ \A k : C!Completed(k) \in Seq(C!Messages)
      /\ C!Completed(Len(saved)) = trace
  BY <1>1, CrSnapshot
<1>4. <<>> \in Seq([id : C!Numbers, n : C!Numbers])
  <2>1. \A S : <<>> \in Seq(S)
    OBVIOUS
  <2> QED BY <2>1
<1>5. C!ToldWhatRan'
  BY <1>1, <1>2, CrQuiet DEF CrTalk
<1>6. CASE C!Pauses
  <2>1. pc' = "paused" /\ saved' = trace /\ marked' = marked
    BY <1>3, <1>6 DEF C!Pauses, C!Ends
  <2>2. CrShapes'
    BY <1>1, <1>2, <1>4, <2>1 DEF CrShapes, CrPlaces
  <2>3. batch = <<>> /\ running = FALSE /\ CrClosing(trace)
    BY <1>1, <1>2 DEF CrPlace, CrShapes
  <2>4. CrTalk'
    BY <1>1, <1>2, <2>1, <2>3 DEF CrTalk
  <2>5. C!Left' >= 1
    BY <1>1 DEF C!Left
  <2>6. CrPaused'
    BY <1>1, <1>3, <2>1, <2>3, <2>4, <2>5 DEF CrPaused
  <2> QED BY <1>5, <2>1, <2>2, <2>6 DEF CrInv, CrLives, C!Alive
<1>7. CASE C!SnapshotFails
  <2>1. pc' = "ended" /\ marked' = TRUE /\ \E k : saved' = C!Completed(k)
    BY <1>7 DEF C!SnapshotFails, C!Ends
  <2>2. CrShapes'
    BY <1>1, <1>2, <1>3, <1>4, <2>1 DEF CrShapes, CrPlaces
  <2> QED BY <1>5, <2>1, <2>2 DEF CrInv, CrLives, CrPaused, C!Alive
<1> QED BY <1>6, <1>7

\* Resume: the trace is what the rows say, and the answer.
LEMMA CrResume ==
  ASSUME C!ChildAssumption, CrInv, C!Resume
  PROVE  CrInv'
<1>1. PICK m : m = C!Message("user", <<>>, None, "small")
  OBVIOUS
<1>2. /\ pc = "paused" /\ trace' = Append(saved, m) /\ seen' = Append(seen, m) /\ pending' = m
      /\ roto' = FALSE /\ desde' = Len(saved) /\ pc' = "llm"
      /\ UNCHANGED <<batch, running, saved, marked, report, ran, known, waits>>
  BY <1>1 DEF C!Resume
<1>3. /\ CrTalk /\ saved = trace /\ batch = <<>> /\ ~running /\ ~waits
  BY <1>2 DEF CrInv, CrPaused
<1>4. CrShapes /\ trace \in Seq(C!Messages) /\ Len(trace) \in Nat /\ running = FALSE
  BY <1>3 DEF CrInv, CrShapes
<1>5. /\ m \in C!Messages /\ m.role = "user" /\ m.calls = <<>> /\ m.size # "cut" /\ Len(m.calls) <= MaxBatch
      /\ \A j \in 1 .. Len(m.calls) : m.calls[j] = CrCall(Len(trace) + 1, j)
  BY <1>1, <1>4, CrPlain
<1>6. CrGroups(trace) /\ CrOpen(trace, <<>>) /\ CrRan(trace, FALSE, ran, known) /\ trace = seen /\ report = None /\ ~marked
  BY <1>3, <1>4 DEF CrTalk
<1>7. /\ CrGroups(Append(trace, m)) /\ CrOpen(Append(trace, m), m.calls) /\ CrRan(Append(trace, m), FALSE, ran, known)
      /\ Append(trace, m) \in Seq(C!Messages) /\ Len(Append(trace, m)) = Len(trace) + 1
      /\ Append(trace, m)[Len(trace) + 1] = m /\ \A i \in 1 .. Len(trace) : Append(trace, m)[i] = trace[i]
  BY <1>4, <1>5, <1>6, CrSay
<1>8. CrTalk'
  BY <1>2, <1>3, <1>4, <1>5, <1>6, <1>7 DEF CrTalk
<1>9. CrRows'
  <2>1. m # None
    BY <1>5 DEF C!ChildAssumption
  <2>2. PICK t2 : t2 = Append(trace, m)
    OBVIOUS
  <2>3. CrKept(trace, t2, m, Len(trace))
    BY <1>4, <1>7, <2>1, <2>2 DEF CrKept
  <2> QED BY <1>2, <1>3, <2>2, <2>3 DEF CrRows
<1>10. CrPlace'
  BY <1>2, <1>3 DEF CrPlace
<1>11. CrShapes'
  BY <1>2, <1>3, <1>4, <1>5, <1>7 DEF CrShapes, CrPlaces
<1>12. CrPaused' /\ C!ToldWhatRan'
  BY <1>2, <1>6, CrQuiet DEF CrPaused
<1> QED BY <1>8, <1>9, <1>10, <1>11, <1>12 DEF CrInv, CrLives

\* At first there is the task.
LEMMA CrInit == ASSUME C!ChildAssumption, C!Init PROVE CrInv
<1>1. PICK m : m = C!Message("user", <<>>, None, "small")
  OBVIOUS
<1>2. /\ waits \in BOOLEAN /\ pc = "llm" /\ batch = <<>> /\ running = FALSE
      /\ trace = <<m>> /\ seen = <<m>> /\ pending = (IF waits THEN None ELSE m)
      /\ roto = FALSE /\ saved = <<>> /\ marked = FALSE /\ desde = 0
      /\ report = None /\ ran = {} /\ known = {}
  BY <1>1 DEF C!Init
<1>3. PICK z : z = <<>> /\ Len(z) = 0 /\ z \in Seq(C!Messages) /\ z \in Seq([id : C!Numbers, n : C!Numbers])
  <2>1. \A S : <<>> \in Seq(S)
    OBVIOUS
  <2> QED BY <2>1
<1>4. m \in C!Messages /\ m.role = "user" /\ m.calls = <<>> /\ m.size # "cut" /\ Len(m.calls) <= MaxBatch
  BY <1>1, <1>3, CrPlain
<1>5. trace \in Seq(C!Messages) /\ Len(trace) = 1 /\ trace[1] = m /\ \A i \in 1 .. Len(trace) : i = 1
  BY <1>2, <1>4
<1>6. Len(trace[1].calls) = 0 /\ \A j \in 1 .. Len(trace[1].calls) : FALSE
  BY <1>3, <1>4, <1>5
<1>7. CrGroups(trace)
  BY <1>4, <1>5, <1>6 DEF CrGroups
<1>8. CrOpen(trace, batch)
  BY <1>2, <1>3, <1>5, <1>6 DEF CrOpen
<1>9. CrRan(trace, running, ran, known)
  BY <1>2 DEF CrRan
<1>10. CrTalk /\ CrPlace
  BY <1>2, <1>7, <1>8, <1>9 DEF CrTalk, CrPlace
<1>11. CrRows
  <2>1. m # None
    BY <1>4 DEF C!ChildAssumption
  <2>2. ~waits => CrKept(z, trace, m, 0)
    BY <1>3, <1>5, <2>1 DEF CrKept
  <2> QED BY <1>2, <1>3, <2>2 DEF CrRows
<1>12. CrShapes
  BY <1>2, <1>3, <1>4, <1>5 DEF CrShapes, CrPlaces
<1> QED BY <1>2, <1>10, <1>11, <1>12 DEF CrInv, CrLives, CrPaused, C!ToldWhatRan

\* The steps of a child keep the invariant.
LEMMA CrStep ==
  ASSUME C!ChildAssumption, ~Dsml, CrInv, C!Next
  PROVE  CrInv'
BY CrWrites, CrCallTools, CrBatch, CrToolAnswers, CrCloses, CrEnds, CrOutOf, CrPauses, CrResume, CrInterrupted DEF C!Next

\* The rows of a child that paused can be resumed, whole.
LEMMA CrGood ==
  ASSUME C!ChildAssumption, CrInv
  PROVE  C!ToldWhatRan /\ C!PauseIsResumable
<1>1. ASSUME pc = "paused"
      PROVE  /\ C!Resumable(saved) /\ C!Left >= 1
             /\ C!Inspection.resumable /\ C!Inspection.question = seen[Len(seen)]
  <2>1. /\ CrTalk /\ CrClosing(trace) /\ saved = trace /\ batch = <<>> /\ C!Left >= 1
    BY <1>1 DEF CrInv, CrPaused
  <2>2. /\ trace \in Seq(C!Messages) /\ Len(trace) \in Nat /\ Len(trace) > 0 /\ CrGroups(trace) /\ CrOpen(trace, <<>>)
        /\ ~marked /\ trace = seen
    BY <2>1 DEF CrInv, CrShapes, CrTalk, CrGroups
  <2>3. \A i \in 1 .. Len(trace) : Len(trace[i].calls) \in Nat /\ ~(i + Len(trace[i].calls) > Len(trace))
    <3>1. PICK z : z = <<>> /\ Len(z) = 0
      OBVIOUS
    <3>2. \A i \in 1 .. Len(trace) : i + Len(trace[i].calls) > Len(trace) => i + Len(trace[i].calls) = Len(trace) + Len(z)
      BY <2>2, <3>1 DEF CrOpen
    <3>3. \A i \in 1 .. Len(trace) : Len(trace[i].calls) \in Nat
      BY <2>2, CrCallsAre
    <3> QED BY <2>2, <3>1, <3>2, <3>3
  <2>4. C!SinPar(trace) = {}
    <3>1. CrWindow(trace, trace, 1, Len(trace))
      BY <2>2 DEF CrWindow
    <3>2. \A p : p \in C!SinPar(trace) <=>
             \E k \in 1 .. Len(trace) : \E j \in 1 .. Len(trace[k].calls) : p = <<k, j>> /\ k + 1 - 1 + j > Len(trace)
      <4>1. Len(trace) <= Len(trace) /\ 1 \in Nat /\ 1 <= 1 /\ 1 <= Len(trace) + 1
        BY <2>2
      <4> QED BY <2>2, <3>1, <4>1, CrUnanswered
    <3>3. \A k \in 1 .. Len(trace) : \A j \in 1 .. Len(trace[k].calls) : ~(k + 1 - 1 + j > Len(trace))
      BY <2>2, <2>3
    <3> QED BY <3>2, <3>3
  <2>5. C!Resumable(trace)
    <3>1. trace # <<>> /\ trace[1].role = "user" /\ \A i \in DOMAIN trace : trace[i].size # "cut"
      BY <2>2 DEF CrGroups
    <3> QED BY <2>1, <2>4, <3>1 DEF C!Resumable, CrClosing
  <2>6. C!Recuperada = trace[Len(trace)]
    <3>1. trace # <<>> /\ trace[Len(trace)].role = "assistant" /\ trace[Len(trace)].size # "cut"
      BY <2>1, <2>2 DEF CrGroups, CrClosing
    <3> QED BY <2>1, <3>1 DEF C!Recuperada
  <2> QED BY <2>1, <2>2, <2>5, <2>6 DEF C!Inspection
<1>2. C!Alive => trace = seen
  BY DEF CrInv, CrLives, CrTalk
<1> QED BY <1>1, <1>2 DEF CrInv, C!PauseIsResumable

\* The steps of the sum, for the child.
LEMMA CrMoves ==
  [Next]_vars => subject' = subject /\ (subject = "child" => C!Next \/ UNCHANGED C!vars)
  BY OneSubject DEF Next, vars, OfChild, C!vars, C!recorder, C!history

\* Where no provider repeats ids: however a child is cut, stopped or killed, its disk fails and it
\* asks and goes on, the failure its parent is told names the call whose result never came and
\* none that ran as not started; and a child that paused can be resumed with all it said, for any
\* rounds, batches and faults (run_agent_one_shot.py, failure_report.py, sqlite_task_store.py).
THEOREM TheParentIsToldWhatRan == ASSUME ~Dsml PROVE Spec => []ChildHolds
<1> DEFINE J == subject = "child" => CrInv
<1>1. Init => J
  BY CrInit, HarnessAssumption DEF Init
<1>2. J /\ [Next]_vars => J'
  <2> SUFFICES ASSUME J, [Next]_vars, subject' = "child" PROVE CrInv'
    OBVIOUS
  <2>1. subject = "child" /\ CrInv /\ (C!Next \/ UNCHANGED C!vars)
    BY CrMoves
  <2>2. CASE C!Next
    BY <2>1, <2>2, CrStep, HarnessAssumption
  <2>3. CASE UNCHANGED C!vars
    BY <2>1, <2>3 DEF C!vars, C!recorder, C!history, CrInv, CrShapes, CrLives, CrPaused, CrTalk, CrPlace, CrRows,
       C!Alive, C!ToldWhatRan, C!InFlightIsNamed, C!Left
  <2> QED BY <2>1, <2>2, <2>3
<1>3. J => ChildHolds
  BY CrGood, HarnessAssumption DEF ChildHolds
<1> QED BY <1>1, <1>2, <1>3, PTL DEF Spec
=============================================================================
