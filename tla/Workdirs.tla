------------------------------- MODULE Workdirs -------------------------------
(***************************************************************************)
(* The call of the delegate tool and the working directory of a background *)
(* delegation (agents/delegation/delegate_tool.py, workdirs.py and what of *)
(* background_queue.py handles them).                                      *)
(*                                                                         *)
(* A directory is made by a thread, with copies of the input files in it,  *)
(* before the row that refers to it; en_creacion covers it in between.  A  *)
(* start prunes old rows with their directories and sweeps the directories *)
(* no row refers to.  The scheduler is started before the queue: a turn of *)
(* its may delegate while the queue starts.                                *)
(***************************************************************************)
EXTENDS Integers, FiniteSets, Functions

CONSTANTS
  Calls,                \* calls of the delegate tool
  Names,                \* names a directory can get
  Files,                \* input files
  None,
  TurnsDuringStart,     \* may a call come while the queue starts?
  MaxFaults, MaxStarts  \* bounds: failures of the disk, starts of the daemon

WorkdirsAssumption ==
  /\ None \notin Calls \cup Names \cup Files \cup {"success", "failed"}
  /\ TurnsDuringStart \in BOOLEAN /\ MaxFaults \in Nat /\ MaxStarts \in Nat

VARIABLES
  boot,        \* how far the start of the queue is
  call,        \* the calls: where each is, its directory and its files
  en_creacion, \* _en_creacion
  live,        \* delegations whose child is at work
  dirs,        \* the directories on disk: name -> files in it
  rows,        \* bg_tasks: call -> workdir
  prune,       \* directories of pruned rows, not deleted yet
  protected,   \* what the sweep will not delete; its refs before that
  entries,     \* what it listed and has not looked at
  faults, starts

sweep == <<prune, protected, entries>>
disk == <<dirs, rows>>
vars == <<boot, call, en_creacion, live, disk, sweep, faults, starts>>

Outside == [pc |-> "idle", dir |-> None, files |-> {}, cut |-> FALSE, answer |-> None]
Without(f, x) == Restrict(f, DOMAIN f \ {x})
\* An entry more; one that is there is left alone.
With(f, x, v) == [y \in DOMAIN f \cup {x} |-> IF y \in DOMAIN f THEN f[y] ELSE v]
RowDirs == {rows[c] : c \in DOMAIN rows} \ {None}
Moves(c, pc) == call' = [call EXCEPT ![c].pc = pc]
Fails(c) == call' = [call EXCEPT ![c].pc = "rejected", ![c].answer = "failed"]
Serving == boot = "up" \/ (TurnsDuringStart /\ boot # "down")
Fault == faults < MaxFaults /\ faults' = faults + 1

(***************************************************************************)
(* DelegateTool.execute and enqueue                                        *)
(***************************************************************************)
\* What a call asks for; a target the caller may use, may not, does not know, or none.
Asks == [resume : BOOLEAN, wait : BOOLEAN, prompt : BOOLEAN, reply : BOOLEAN,
         target : {"allowed", "forbidden", "unknown", None}]

RefusedResume(a, files) == a.resume /\ (a.wait \/ files # {} \/ a.prompt \/ ~a.reply)
RefusedStart(a, files) ==
  ~a.resume /\ (a.target \in {None, "forbidden"} \/ (a.wait /\ files # {}))

\* Answered failed before anything is touched.
Rechazo(c, a, files) ==
  /\ Serving /\ call[c].pc = "idle"
  /\ RefusedResume(a, files) \/ RefusedStart(a, files)
  /\ Fails(c)
  /\ UNCHANGED <<boot, en_creacion, live, disk, sweep, faults, starts>>

\* resume: whatever the queue answers, the child keeps the directory of its row.
ExecuteResume(c, a, files) ==
  /\ Serving /\ call[c].pc = "idle" /\ a.resume /\ ~RefusedResume(a, files)
  /\ \E answer \in {"success", "failed"} : call' = [call EXCEPT ![c] = [@ EXCEPT !.pc = "done", !.answer = answer]]
  /\ UNCHANGED <<boot, en_creacion, live, disk, sweep, faults, starts>>

\* wait: the child is built and run in the turn, with no row and no directory; a target that is not
\* a sub-agent, a timeout, the iterations or any exception answers failed.
ExecuteSync(c, a, files) ==
  /\ Serving /\ call[c].pc = "idle" /\ ~a.resume /\ a.wait /\ ~RefusedStart(a, files)
  /\ \E answer \in {"failed"} \cup (IF a.target = "unknown" THEN {} ELSE {"success"}) :
       call' = [call EXCEPT ![c] = [@ EXCEPT !.pc = "done", !.answer = answer]]
  /\ UNCHANGED <<boot, en_creacion, live, disk, sweep, faults, starts>>

\* In background: a file that is not there, outside the workspace, or too many of them, is
\* refused before the directory.
Invalid(c, files) == files # {} /\ Fails(c)
ExecuteAsync(c, a, files) ==
  /\ Serving /\ call[c].pc = "idle" /\ ~a.resume /\ ~a.wait /\ ~RefusedStart(a, files)
  /\ \/ Invalid(c, files)
     \/ call' = [call EXCEPT ![c] = [@ EXCEPT !.pc = "creating", !.files = files]]
  /\ UNCHANGED <<boot, en_creacion, live, disk, sweep, faults, starts>>

\* A random name; one that is taken is tried again, and the directory there is left alone.
Crear(c) ==
  /\ call[c].pc = "creating"
  /\ \E n \in Names \ {call[d].dir : d \in Calls} :
       /\ dirs' = With(dirs, n, {})
       /\ call' = [call EXCEPT ![c].dir = n, ![c].pc = "copying"]
  /\ UNCHANGED <<boot, en_creacion, live, rows, sweep, faults, starts>>

\* With input files nothing is enqueued; without, the child works with no directory.
CrearFalla(c) ==
  /\ call[c].pc = "creating" /\ Fault
  /\ IF call[c].files # {} /\ ~call[c].cut THEN Fails(c)
     ELSE Moves(c, IF call[c].cut THEN "rejected" ELSE "registering")
  /\ UNCHANGED <<boot, en_creacion, live, disk, sweep, starts>>

Copied(c) == IF call[c].dir \in DOMAIN dirs THEN dirs[call[c].dir] ELSE {}
Copy(c) ==
  /\ call[c].pc = "copying" /\ call[c].dir \in DOMAIN dirs
  /\ \E f \in call[c].files \ Copied(c) : dirs' = [dirs EXCEPT ![call[c].dir] = @ \cup {f}]
  /\ UNCHANGED <<boot, call, en_creacion, live, rows, sweep, faults, starts>>

\* Mutant: what was copied stays.
CopyFailsOnly(c) ==
  /\ call[c].pc = "copying" /\ call[c].dir \in DOMAIN dirs /\ call[c].files # Copied(c)
  /\ Fails(c)
  /\ UNCHANGED <<boot, en_creacion, live, disk, sweep, faults, starts>>

\* A file that went away, or a directory that did: what was copied is rolled back.
CopyFails(c) ==
  /\ call[c].pc = "copying" /\ call[c].files # Copied(c)
  /\ \/ call[c].dir \notin DOMAIN dirs /\ UNCHANGED faults
     \/ call[c].dir \in DOMAIN dirs /\ Fault
  /\ dirs' = Without(dirs, call[c].dir) /\ Fails(c)
  /\ UNCHANGED <<boot, en_creacion, live, rows, sweep, starts>>

\* The end of the thread: a call that was cut is not there to go on.
EnCreacion(c) ==
  /\ call[c].pc = "copying" /\ call[c].files = Copied(c)
  /\ en_creacion' = en_creacion \cup {call[c].dir}
  /\ Moves(c, IF call[c].cut THEN "done" ELSE "registering")
  /\ UNCHANGED <<boot, live, disk, sweep, faults, starts>>

\* _registrar: the row, or an id in memory when the store is not open or fails.
Registrar(c) ==
  /\ call[c].pc = "registering"
  /\ \/ boot # "opening" /\ rows' = With(rows, c, call[c].dir) /\ UNCHANGED faults
     \/ boot = "opening" /\ UNCHANGED <<rows, faults>>
     \/ Fault /\ UNCHANGED rows
  /\ Moves(c, "row")
  /\ UNCHANGED <<boot, en_creacion, live, dirs, sweep, starts>>

Enqueue(c) ==
  /\ call[c].pc = "row"
  /\ live' = live \cup {c} /\ en_creacion' = en_creacion \ {call[c].dir}
  /\ call' = [call EXCEPT ![c].pc = "done", ![c].answer = "success"]
  /\ UNCHANGED <<boot, disk, sweep, faults, starts>>

\* The turn is cut at one of its awaits.  Its thread goes on.
Cancelled(c) ==
  \/ /\ call[c].pc \in {"creating", "copying"} /\ ~call[c].cut
     /\ call' = [call EXCEPT ![c].cut = TRUE]
     /\ UNCHANGED <<boot, en_creacion, live, disk, sweep, faults, starts>>
  \/ /\ call[c].pc \in {"registering", "row"}
     /\ dirs' = Without(dirs, call[c].dir) /\ en_creacion' = en_creacion \ {call[c].dir}
     /\ call' = [call EXCEPT ![c].pc = "rejected", ![c].cut = TRUE]
     /\ UNCHANGED <<boot, live, rows, sweep, faults, starts>>

\* The child writes its outputs; here it only ends, and its row can be pruned.
Ends(c) ==
  /\ c \in live /\ live' = live \ {c}
  /\ UNCHANGED <<boot, call, en_creacion, disk, sweep, faults, starts>>

(***************************************************************************)
(* start and stop                                                          *)
(***************************************************************************)
OpenStore ==
  /\ boot = "opening" /\ boot' = "pruning"
  /\ \E old \in SUBSET (DOMAIN rows \ live) :
       /\ rows' = Restrict(rows, DOMAIN rows \ old)
       /\ prune' = {rows[c] : c \in old} \ {None}
  /\ UNCHANGED <<call, en_creacion, live, dirs, protected, entries, faults, starts>>

\* The row first, then the directory; rmtree may fail.
BorrarPodado(n) ==
  /\ boot = "pruning" /\ n \in prune /\ prune' = prune \ {n}
  /\ \/ dirs' = Without(dirs, n) /\ UNCHANGED faults
     \/ Fault /\ UNCHANGED dirs
  /\ UNCHANGED <<boot, call, en_creacion, live, rows, protected, entries, starts>>

Referenciados ==
  /\ boot = "pruning" /\ prune = {}
  /\ boot' = "referring" /\ protected' = RowDirs
  /\ UNCHANGED <<call, en_creacion, live, disk, prune, entries, faults, starts>>

Barrer ==
  /\ boot = "referring" /\ boot' = "listing" /\ protected' = protected \cup en_creacion
  /\ UNCHANGED <<call, en_creacion, live, disk, prune, entries, faults, starts>>

Listar ==
  /\ boot = "listing" /\ boot' = "sweeping" /\ entries' = DOMAIN dirs
  /\ UNCHANGED <<call, en_creacion, live, disk, prune, protected, faults, starts>>

BorrarHuerfano(n) ==
  /\ boot = "sweeping" /\ n \in entries /\ entries' = entries \ {n}
  /\ \/ n \in protected /\ UNCHANGED <<dirs, faults>>
     \/ n \notin protected /\ dirs' = Without(dirs, n) /\ UNCHANGED faults
     \/ n \notin protected /\ Fault /\ UNCHANGED dirs
  /\ UNCHANGED <<boot, call, en_creacion, live, rows, prune, protected, starts>>

Started ==
  /\ boot = "sweeping" /\ entries = {} /\ boot' = "up" /\ protected' = {}
  /\ UNCHANGED <<call, en_creacion, live, disk, prune, entries, faults, starts>>

Start ==
  /\ boot = "down" /\ starts < MaxStarts /\ starts' = starts + 1 /\ boot' = "opening"
  /\ UNCHANGED <<call, en_creacion, live, disk, sweep, faults>>

\* The process ends, at whatever step it was.
Crash ==
  /\ boot # "down" /\ boot' = "down"
  /\ call' = [c \in Calls |-> IF call[c].pc = "idle" THEN call[c] ELSE [call[c] EXCEPT !.pc = "done"]]
  /\ en_creacion' = {} /\ live' = {} /\ prune' = {} /\ protected' = {} /\ entries' = {}
  /\ UNCHANGED <<disk, faults, starts>>

(***************************************************************************)
(* What inspect says of the directory of a task                            *)
(***************************************************************************)
Describir(n) == [exists |-> n \in DOMAIN dirs,
                 entries |-> IF n \in DOMAIN dirs THEN dirs[n] ELSE {}]
Inspect(c) == IF c \in live THEN Describir(call[c].dir)
              ELSE IF c \in DOMAIN rows THEN Describir(rows[c]) ELSE None

-----------------------------------------------------------------------------
Init ==
  /\ boot = "down" /\ call = [c \in Calls |-> Outside] /\ en_creacion = {} /\ live = {}
  /\ dirs = <<>> /\ rows = <<>> /\ prune = {} /\ protected = {} /\ entries = {}
  /\ faults = 0 /\ starts = 0

Next ==
  \/ \E c \in Calls :
       \/ \E a \in Asks, files \in SUBSET Files :
            \/ Rechazo(c, a, files) \/ ExecuteResume(c, a, files)
            \/ ExecuteSync(c, a, files) \/ ExecuteAsync(c, a, files)
       \/ Crear(c) \/ CrearFalla(c) \/ Copy(c) \/ CopyFails(c) \/ EnCreacion(c)
       \/ Registrar(c) \/ Enqueue(c) \/ Cancelled(c) \/ Ends(c)
  \/ \E n \in Names : BorrarPodado(n) \/ BorrarHuerfano(n)
  \/ OpenStore \/ Referenciados \/ Barrer \/ Listar \/ Started \/ Start \/ Crash

Spec == Init /\ [][Next]_vars

-----------------------------------------------------------------------------
\* A delegation that was given a directory keeps it, with its input files, as long as its child
\* is at work, whatever the start prunes and sweeps meanwhile.
ChildKeepsItsDir ==
  \A c \in live : call[c].dir # None =>
    Inspect(c).exists /\ call[c].files \subseteq Inspect(c).entries

\* A row never refers to a directory that is gone: the row goes first, and a crash leaves a
\* directory without a row, not the other way round.  (A call cut while it registers is not
\* told of its row.)
RowsHaveTheirDir ==
  \A c \in DOMAIN rows : rows[c] # None /\ ~call[c].cut => Inspect(c).exists

\* A call that was answered failed left neither a child nor a row nor a directory.
FailedLeavesNothing ==
  \A c \in Calls : call[c].answer = "failed" =>
    c \notin live /\ c \notin DOMAIN rows /\ (call[c].cut \/ call[c].dir \notin DOMAIN dirs)

DirsAreKept == ChildKeepsItsDir /\ RowsHaveTheirDir /\ FailedLeavesNothing

\* Once the queue has started, every directory is that of a row, of a child at work or of a call
\* under way, unless a failure of the disk or a cut call left it for the next start.
NothingLeftBehind ==
  boot = "up" /\ faults = 0 =>
    \A n \in DOMAIN dirs : n \in RowDirs \/ \E c \in Calls :
      call[c].dir = n /\ (call[c].pc \notin {"idle", "rejected", "done"} \/ c \in live \/ call[c].cut)

\* Calls, starts, crashes and failures of the disk take no directory from a child at work or a
\* row, and leave none behind.
DirsHold == DirsAreKept /\ NothingLeftBehind

=============================================================================
