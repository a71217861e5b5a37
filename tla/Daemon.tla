-------------------------------- MODULE Daemon --------------------------------
(***************************************************************************)
(* The process: it loads its layers of configuration, starts its channels, *)
(* serves, and starts over when somebody asks for a reload (app/runner.py, *)
(* app/bootstrap.py, app/assembly.py, config/).                            *)
(*                                                                         *)
(* A layer is a partial function from keys to values; a merge puts one     *)
(* over another.  The layers of an agent are global.yaml, its own file and *)
(* the overrides of `config set`, which live in memory and which a manual  *)
(* /reload discards.  The panel of another process writes a file, checks   *)
(* it and may undo it; the operator edits the files with no check at all.  *)
(***************************************************************************)
EXTENDS Integers, Sequences

CONSTANTS
  Agents,
  AgentKeys,             \* blocks AgentConfig declares
  GlobalKeys,            \* blocks only GlobalConfig declares
  Fixed,                 \* paths config set may not touch
  Values, Default,
  None,                  \* no value, no request, nothing to restore
  Loads, Builds,         \* configurations of an agent the loader, the factories accept
  MaxSets, MaxReloads, MaxEdits, MaxCrashes  \* bounds

Keys == AgentKeys \cup GlobalKeys
ASSUME DaemonAssumption ==
  /\ AgentKeys \cap GlobalKeys = {} /\ Fixed \subseteq Keys
  /\ "global" \notin Agents /\ None \notin {"aplicar", "descartar"}
  /\ Default \in [Keys -> Values] /\ Default \in Loads \cap Builds
  /\ Loads \cup Builds \subseteq [Keys -> Values]
  /\ \A n \in {MaxSets, MaxReloads, MaxEdits, MaxCrashes} : n \in Nat

VARIABLES
  files,      \* global.yaml and the file of each agent
  panel,      \* what the panel restores if the loader refuses what it wrote
  overrides,  \* the accepted entries, in order
  avisos,     \* notices to deliver when the daemon is back
  taken,      \* those the hook is delivering
  phase, modo, stopping,
  config,     \* what the process is running with
  verified,   \* history: a set or a boot accepted these files and these entries
  told,       \* history: the last notice delivered
  sets, reloads, edits, crashes

runner == <<phase, modo, stopping>>
store == <<overrides, avisos>>
counters == <<sets, reloads, edits, crashes>>
vars == <<files, panel, store, taken, runner, config, verified, told, counters>>

Files == {"global"} \cup Agents
KeysOf(f) == IF f = "global" THEN Keys ELSE AgentKeys
NoLayer == [k \in {} |-> None]

(***************************************************************************)
(* Layers                                                                  *)
(***************************************************************************)
Merge(base, over) ==
  [k \in DOMAIN base \cup DOMAIN over |-> IF k \in DOMAIN over THEN over[k] ELSE base[k]]
Only(k, v) == [x \in {k} |-> v]

\* destino_de: the schema decides whose an entry is.
Owner(a, k) == IF k \in AgentKeys THEN a ELSE "global"
Entry(a, k, v) == [owner |-> Owner(a, k), path |-> k, valor |-> v]
\* The entries of an owner, merged in order: the last one of a path stays.
Of(S, owner) == {i \in DOMAIN S : S[i].owner = owner}
LastOf(S, owner, k) ==
  CHOOSE i \in Of(S, owner) : S[i].path = k /\ \A j \in Of(S, owner) : S[j].path = k => j <= i
Materialize(S, owner) ==
  [k \in {S[i].path : i \in Of(S, owner)} |-> S[LastOf(S, owner, k)].valor]

\* The overrides of an owner go over its files.
Aplicar(base, S, owner) == Merge(base, Materialize(S, owner))
Effective(F, S, a) ==
  LET global == Aplicar(F["global"], S, "global")
  IN Merge(Default, Aplicar(Merge(global, F[a]), S, a))
LoadAll(F, S) == [a \in Agents |-> Effective(F, S, a)]

\* load_global_config and AgentRegistry; then verificar_construccion.
Assembled(F, S, a) == Effective(F, S, a) \in Loads
Verificar(F, S, a) == Effective(F, S, a) \in Builds
Loadable(F, S) == \A a \in Agents : Assembled(F, S, a)
Constructible(F, S) == \A a \in Agents : Verificar(F, S, a)
Starts(F, S) == Loadable(F, S) /\ Constructible(F, S)

(***************************************************************************)
(* config set                                                              *)
(***************************************************************************)
Serving == phase \in {"starting", "hook", "up", "draining"}
OpenAlways == TRUE
Open == modo # "descartar"
CandidateAlone(e) == <<e>>
Candidate(e) == Append(overrides, e)

EsFijo(k) == k \in Fixed
SinCambio(now, next, a, k) == next[a][k] = now[a][k]
Aviso(a, k, v) == [agent |-> a, path |-> k, valor |-> v]

\* The store: an override with the notice of its chat, if any; or none of either.
Agregar(e, notices) == overrides' = Append(overrides, e) /\ avisos' = avisos \o notices
DescartarTodo == overrides' = <<>> /\ avisos' = <<>>
\* request_reload_para_aplicar: a manual reload wins.
Apply == modo' = IF modo = None THEN "aplicar" ELSE modo

AcceptSet(a, k, v, notify) ==
  LET e == Entry(a, k, v)
      now == LoadAll(files, overrides)
      next == LoadAll(files, Candidate(e))
  IN /\ Serving /\ Open /\ sets < MaxSets /\ ~EsFijo(k)
     /\ Starts(files, overrides) /\ Starts(files, Candidate(e))
     /\ IF SinCambio(now, next, a, k)
          THEN UNCHANGED <<store, modo, verified>>
          ELSE /\ Agregar(e, IF notify THEN <<Aviso(a, k, v)>> ELSE <<>>)
               /\ Apply /\ verified' = TRUE
     /\ sets' = sets + 1
     /\ UNCHANGED <<files, panel, taken, phase, stopping, config, told, reloads, edits, crashes>>

\* The tool knows the chat of its turn, or has no chat to tell; the slash has its own.
ToolSet(a, k, v) == \E notify \in BOOLEAN : AcceptSet(a, k, v, notify)
ConfigSlash(a, k, v) == k \in AgentKeys /\ AcceptSet(a, k, v, TRUE)

\* /reload, inaki reload, POST /admin/reload.
RequestReload ==
  /\ Serving /\ reloads < MaxReloads
  /\ DescartarTodo /\ modo' = "descartar"
  /\ verified' = (verified /\ overrides = <<>>) /\ reloads' = reloads + 1
  /\ UNCHANGED <<files, panel, taken, phase, stopping, config, told, sets, edits, crashes>>

(***************************************************************************)
(* The files: the panel, and the operator                                  *)
(***************************************************************************)
\* What is inherited is absent from the layer.
Inherit(layer, k) == [x \in DOMAIN layer \ {k} |-> layer[x]]
\* A value, or None to inherit.
Written(F, f, k, v) == [F EXCEPT ![f] = IF v = None THEN Inherit(@, k) ELSE Merge(@, Only(k, v))]

PanelWrites(f, k, v) ==
  /\ panel = None /\ edits < MaxEdits /\ edits' = edits + 1
  /\ panel' = [file |-> f, layer |-> files[f]]
  /\ files' = Written(files, f, k, v) /\ verified' = FALSE
  /\ UNCHANGED <<store, taken, runner, config, told, sets, reloads, crashes>>
PanelAccepts == Loadable(files, <<>>)
PanelChecks ==
  /\ panel # None /\ panel' = None
  /\ files' = IF PanelAccepts THEN files ELSE [files EXCEPT ![panel.file] = panel.layer]
  /\ verified' = (verified /\ PanelAccepts)
  /\ UNCHANGED <<store, taken, runner, config, told, counters>>

EditByHand(f, k, v) ==
  /\ edits < MaxEdits /\ edits' = edits + 1
  /\ files' = Written(files, f, k, v) /\ verified' = FALSE
  /\ UNCHANGED <<panel, store, taken, runner, config, told, sets, reloads, crashes>>

(***************************************************************************)
(* The runner                                                              *)
(***************************************************************************)
\* bootstrap and ensamblar: one step with no await.  They read the files and the store,
\* and make a new reloader.
Boot(S, failed) ==
  /\ IF Starts(files, S)
       THEN /\ phase' = "starting" /\ config' = LoadAll(files, S) /\ verified' = TRUE
       ELSE /\ phase' = failed /\ UNCHANGED <<config, verified>>
  /\ modo' = None /\ told' = None
\* A process that starts has nothing in memory.
ColdStart ==
  /\ phase \in {"down", "off"} /\ Boot(<<>>, "off")
  /\ overrides' = <<>> /\ avisos' = <<>> /\ taken' = <<>> /\ stopping' = FALSE
  /\ UNCHANGED <<files, panel, counters>>
Rebuild ==
  /\ phase = "booting" /\ Boot(overrides, "down")
  /\ UNCHANGED <<files, panel, store, taken, stopping, counters>>
\* What neither the loader nor the factories see, or a bug: exit 1, systemd starts over.
Crash ==
  /\ phase \notin {"down", "off"} /\ crashes < MaxCrashes /\ crashes' = crashes + 1
  /\ phase' = "down" /\ modo' = None /\ told' = None
  /\ UNCHANGED <<files, panel, store, taken, stopping, config, verified, sets, reloads, edits>>

\* startup and _start_channels, then the hook takes the notices.
ChannelsStarted ==
  /\ phase = "starting" /\ phase' = "hook"
  /\ taken' = avisos /\ avisos' = <<>>
  /\ UNCHANGED <<files, panel, overrides, modo, stopping, config, verified, told, counters>>
Deliver ==
  /\ phase = "hook" /\ taken # <<>> /\ taken' = Tail(taken)
  /\ told' = Head(taken)
  /\ UNCHANGED <<files, panel, store, runner, config, verified, counters>>
HookEnds ==
  /\ phase = "hook" /\ taken = <<>> /\ phase' = "up"
  /\ UNCHANGED <<files, panel, store, taken, modo, stopping, config, verified, told, counters>>
Signal ==
  /\ Serving /\ ~stopping /\ stopping' = TRUE
  /\ UNCHANGED <<files, panel, store, taken, phase, modo, config, verified, told, counters>>
\* asyncio.wait: a reload, or a signal; channels stop and wait for their handlers.
WakesOnFirst == modo = "aplicar" \/ stopping
Wakes == modo # None \/ stopping
Drain ==
  /\ phase = "up" /\ Wakes /\ phase' = "draining"
  /\ UNCHANGED <<files, panel, store, taken, modo, stopping, config, verified, told, counters>>
Drained ==
  /\ phase = "draining" /\ phase' = IF modo # None /\ ~stopping THEN "booting" ELSE "off"
  /\ UNCHANGED <<files, panel, store, taken, modo, stopping, config, verified, told, counters>>

Init ==
  /\ files = [f \in Files |-> NoLayer] /\ panel = None
  /\ overrides = <<>> /\ avisos = <<>> /\ taken = <<>>
  /\ phase = "off" /\ modo = None /\ stopping = FALSE
  /\ config = LoadAll(files, <<>>) /\ verified = TRUE /\ told = None
  /\ sets = 0 /\ reloads = 0 /\ edits = 0 /\ crashes = 0

Writes(f, k, v) == PanelWrites(f, k, v) \/ EditByHand(f, k, v)
Runs == \/ Rebuild \/ ChannelsStarted \/ Deliver \/ HookEnds \/ Drain \/ Drained
Next == \/ \E a \in Agents, k \in Keys, v \in Values : ToolSet(a, k, v) \/ ConfigSlash(a, k, v)
        \/ RequestReload \/ Signal \/ Crash \/ ColdStart \/ PanelChecks \/ Runs
        \/ \E f \in Files : \E k \in KeysOf(f), v \in Values \cup {None} : Writes(f, k, v)
Spec == Init /\ [][Next]_vars /\ WF_vars(Runs)

(***************************************************************************)
(* Properties                                                              *)
(***************************************************************************)
TypeOK ==
  /\ phase \in {"off", "down", "starting", "hook", "up", "draining", "booting"}
  /\ modo \in {None, "aplicar", "descartar"} /\ config \in [Agents -> [Keys -> Values]]
  /\ \A f \in Files : DOMAIN files[f] \subseteq KeysOf(f)

\* What config set accepted is what the daemon runs with as soon as no reload is
\* pending, and what a manual reload discarded does not come back: neither a set that
\* arrives while the daemon closes nor one that follows the reload escapes.
RuntimeLayer ==
  /\ TypeOK
  /\ modo = "descartar" => overrides = <<>> /\ avisos = <<>>
  /\ phase \in {"starting", "hook", "up"} /\ modo = None =>
       \A a \in Agents : Merge(config[a], Merge(Materialize(overrides, "global"),
                                                Materialize(overrides, a))) = config[a]

\* A change that was accepted never keeps the daemon from coming back: unless somebody
\* touched the files meanwhile or an unforeseen failure, the next boot starts.
AcceptedStarts ==
  [][phase = "booting" /\ verified /\ crashes' = crashes => phase' # "down"]_vars

\* A reload is never lost, whenever it is asked for: the runner starts over or ends.
ReloadHappens == (modo # None) ~> (modo = None \/ phase = "off")

\* bootstrap.py:78 "el cambio ya está aplicado y el aviso es cortesía".
\* Promised, and not kept by the code: README, section 5.
ToldIsApplied == told # None => config[told.agent][told.path] = told.valor

\* apply_changes.py:1 "editar una capa y dejar en disco SOLO lo que arranca".
\* Promised, and not kept by the code: README, section 5.
PanelKeepsWhatStarts ==
  [][panel # None /\ panel' = None /\ Starts([files EXCEPT ![panel.file] = panel.layer], <<>>)
       => Starts(files', <<>>)]_vars
=============================================================================
