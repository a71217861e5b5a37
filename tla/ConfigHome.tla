------------------------------ MODULE ConfigHome ------------------------------
(***************************************************************************)
(* The files of the configuration over starts of the daemon: the           *)
(* migrations every start runs on them (config/loader.py and that of the   *)
(* Telegram channel), the load that refuses what they should have moved,   *)
(* and the two writers that replace a file whole, YamlRepository and the   *)
(* store of the tools.                                                     *)
(*                                                                         *)
(* A migration rewrites a file in place: open("w") cuts it, and the dump   *)
(* fills it.  A file is a partial function from paths to values; a value   *)
(* of tool_config is the set of its namespaces.                            *)
(***************************************************************************)
EXTENDS Sequences, Integers, FiniteSets, Functions, TLC

CONSTANTS
  Homes,                        \* homes an earlier version may have left: file -> content
  Values, Namespaces, None,
  Faults,                       \* of "open", "late", "dump", "unlink": how a write can fail
  MaxFaults, MaxStarts, MaxEdits \* bounds

HomeAssumption ==
  /\ Faults \subseteq {"open", "late", "dump", "unlink"}
  /\ MaxFaults \in Nat /\ MaxStarts \in Nat /\ MaxEdits \in Nat

VARIABLES
  disk,          \* the files: name -> content
  at,            \* the step of the start, and the files it has left
  loaded, tools, \* what the process runs with, and ToolConfigStore._data
  wanted,        \* history: what the operator wrote, layer by layer
  configured,    \* history: the tool namespaces that were configured
  clean,         \* history: nothing failed since this start, and no layer was edited
  faults, starts, edits

process == <<loaded, tools>>
history == <<wanted, configured>>
vars == <<disk, at, process, history, clean, faults, starts, edits>>

Layers == {"global", "agent"}
Secrets(l) == IF l = "global" THEN "global.secrets" ELSE "agent.secrets"
Retired == {"photos.debug", "knowledge.threshold"}
Old == Retired \cup {"photos.enrollment_chats", "broadcast.behavior", "tool_config"}

Has(f, k) == f \in DOMAIN disk /\ k \in DOMAIN disk[f]
Without(c, S) == Restrict(c, DOMAIN c \ S)
Merge(base, over) == over @@ base

\* _move_group_fields_broadcast_to_groups: groups wins.
Moved(c) ==
  IF "broadcast.behavior" \notin DOMAIN c THEN c
  ELSE Without(c, {"broadcast.behavior"}) @@ ("groups.behavior" :> c["broadcast.behavior"])

Enrolled(c) ==
  Without(c, {"photos.enrollment_chats"})
    @@ ("photos.faces.enrollment_chats" :> c["photos.enrollment_chats"])
Conflict(c) ==
  /\ {"photos.enrollment_chats", "photos.faces.enrollment_chats"} \subseteq DOMAIN c
  /\ c["photos.enrollment_chats"] # c["photos.faces.enrollment_chats"]

(***************************************************************************)
(* Steps of ensure_user_config                                             *)
(***************************************************************************)
Step(s, todo) == [step |-> s, todo |-> todo]
Groups == Step("groups", <<"global", "global.secrets", "agent", "agent.secrets">>)
FoldAll == Step("fold", <<"global", "agent">>)
Goto(s) == at' = s
Rest == [at EXCEPT !.todo = Tail(@)]
RestOfFold == Step("fold", Tail(at.todo))
Aborted == Step("aborted", <<>>)
Fault(kind) ==
  kind \in Faults /\ faults < MaxFaults /\ faults' = faults + 1 /\ clean' = FALSE

\* open("w"), the dump, and what fails after it (close, chmod).
Write(f, content, then, fails) ==
  \/ disk' = Merge(disk, f :> content) /\ Goto(then) /\ UNCHANGED <<faults, clean>>
  \/ Fault("open") /\ Goto(fails) /\ UNCHANGED disk
  \/ Fault("late") /\ disk' = Merge(disk, f :> content) /\ Goto(fails)
  \/ Fault("dump") /\ disk' = Merge(disk, f :> <<>>) /\ at' \in {fails, Step("down", <<>>)}
Pass(then) == Goto(then) /\ UNCHANGED <<disk, faults, clean>>

Starting(s) == at.step = s /\ UNCHANGED <<process, history, starts, edits>>

EnsureGlobal ==
  /\ Starting("start")
  /\ IF "global" \in DOMAIN disk THEN Pass(Step("tool", <<>>))
     ELSE Write("global", <<>>, Step("tool", <<>>), Aborted)

MigrateTool ==
  /\ Starting("tool")
  /\ IF "tool_config" \notin DOMAIN disk /\ Has("global.secrets", "tool_config")
       THEN Write("tool_config", Restrict(disk["global.secrets"], {"tool_config"}),
                  Step("tool_clean", <<>>), Groups)
       ELSE Pass(Groups)

CleanTool ==
  /\ Starting("tool_clean")
  /\ Write("global.secrets", Without(disk["global.secrets"], {"tool_config"}), Groups, Groups)

\* migrate_telegram_group_fields, one file.
MigrateGroups ==
  /\ Starting("groups")
  /\ IF at.todo = <<>> THEN Pass(FoldAll)
     ELSE LET f == Head(at.todo) IN
          IF Has(f, "broadcast.behavior") THEN Write(f, Moved(disk[f]), Rest, Rest)
                                          ELSE Pass(Rest)

\* migrate_secrets_into_main_layers, one pair: the main layer, and then the secrets.
Stranded(l) == Has(Secrets(l), "tool_config") /\ "tool_config" \notin DOMAIN disk
\* Mutant: the secrets go before the main layer has them.
FoldUnlinksFirst ==
  /\ Starting("fold")
  /\ IF at.todo = <<>> THEN Pass(Step("debug", <<>>))
     ELSE LET l == Head(at.todo) IN
          IF {l, Secrets(l)} \subseteq DOMAIN disk
            THEN LET plain == Without(disk[Secrets(l)], {"tool_config"}) IN
                 Write(l, Merge(disk[l], plain), [at EXCEPT !.step = "drop"],
                                                 [at EXCEPT !.step = "drop"])
            ELSE Pass(Rest)

Fold ==
  /\ Starting("fold")
  /\ IF at.todo = <<>> THEN Pass(Step("debug", <<>>))
     ELSE LET l == Head(at.todo) IN
          IF {l, Secrets(l)} \subseteq DOMAIN disk
            THEN LET plain == Without(disk[Secrets(l)], {"tool_config"})
                     drop == [at EXCEPT !.step = "drop"]
                 IN IF plain = <<>> THEN Pass(drop)
                    ELSE Write(l, Merge(disk[l], plain), drop, Rest)
            ELSE Pass(Rest)

Drop ==
  /\ Starting("drop")
  /\ LET s == Secrets(Head(at.todo)) IN
     IF Stranded(Head(at.todo))
       THEN Write(s, Restrict(disk[s], {"tool_config"}), RestOfFold, RestOfFold)
       ELSE \/ disk' = Without(disk, {s}) /\ Goto(RestOfFold) /\ UNCHANGED <<faults, clean>>
            \/ Fault("unlink") /\ Goto(RestOfFold) /\ UNCHANGED disk

\* migrate_photos_debug and migrate_knowledge_token_budget: an error goes through.
Retire(s, k, then) ==
  /\ Starting(s)
  /\ IF Has("global", k) THEN Write("global", Without(disk["global"], {k}), then, Aborted)
                         ELSE Pass(then)

MigrateEnrollment ==
  /\ Starting("enrollment")
  /\ IF ~Has("global", "photos.enrollment_chats") THEN Pass(Step("budget", <<>>))
     ELSE IF Conflict(disk["global"]) THEN Pass(Aborted)
     ELSE Write("global", Enrolled(disk["global"]), Step("budget", <<>>), Aborted)

(***************************************************************************)
(* The load                                                                *)
(***************************************************************************)
\* _check_top_level and the models refuse a path they do not know; an agent has its id.
Accepted ==
  /\ \A l \in Layers : \A k \in Old : ~Has(l, k)
  /\ "agent" \in DOMAIN disk => Has("agent", "id")
Configured == IF Has("tool_config", "tool_config") THEN disk["tool_config"]["tool_config"] ELSE {}

Load ==
  /\ at.step = "load"
  /\ IF Accepted
       THEN /\ Goto(Step("up", <<>>)) /\ tools' = Configured
            /\ loaded' = IF "agent" \in DOMAIN disk THEN Merge(disk["global"], disk["agent"])
                         ELSE None
       ELSE Goto(Aborted) /\ UNCHANGED process
  /\ UNCHANGED <<disk, history, clean, faults, starts, edits>>

Start ==
  /\ at.step \in {"down", "aborted"} /\ starts < MaxStarts
  /\ Goto(Step("start", <<>>)) /\ starts' = starts + 1 /\ clean' = TRUE
  /\ UNCHANGED <<disk, process, history, faults, edits>>

\* The process ends, between two writes.
Crash ==
  /\ at.step \notin {"down", "aborted"} /\ Goto(Step("down", <<>>))
  /\ loaded' = None /\ tools' = {}
  /\ UNCHANGED <<disk, history, clean, faults, starts, edits>>

(***************************************************************************)
(* Writers                                                                 *)
(***************************************************************************)
\* What a layer says, whatever of it is still to be migrated.
Layer(l) ==
  IF l \notin DOMAIN disk THEN None
  ELSE LET secrets == IF Secrets(l) \in DOMAIN disk THEN Moved(disk[Secrets(l)]) ELSE <<>>
           both == Without(Merge(Moved(disk[l]), secrets), Retired \cup {"tool_config"})
       IN IF "photos.enrollment_chats" \in DOMAIN both /\ ~Conflict(both)
            THEN Enrolled(both) ELSE both

\* write_layer: a file of its own that replaces the layer, or nothing.
WriteLayer(l, k, v) ==
  /\ at.step \in {"up", "aborted"} /\ edits < MaxEdits /\ edits' = edits + 1
  /\ l \in DOMAIN disk
  /\ disk' = [disk EXCEPT ![l] = IF v = None THEN Without(@, {k}) ELSE Merge(@, k :> v)]
  /\ wanted' = [wanted EXCEPT ![l] = Layer(l)'] /\ clean' = FALSE
  /\ UNCHANGED <<at, process, configured, faults, starts>>

\* ToolConfigStore.set: the memory first; it writes the whole block.
SetTool(ns) ==
  /\ at.step = "up" /\ edits < MaxEdits /\ edits' = edits + 1
  /\ tools' = tools \cup {ns}
  /\ \/ /\ disk' = Merge(disk, "tool_config" :> ("tool_config" :> tools'))
        /\ configured' = configured \cup {ns} /\ UNCHANGED <<faults, clean>>
     \/ Fault("open") /\ UNCHANGED <<disk, configured>>
  /\ UNCHANGED <<at, loaded, wanted, starts>>

-----------------------------------------------------------------------------
Init ==
  /\ disk \in Homes
  /\ at = Step("down", <<>>) /\ loaded = None /\ tools = {}
  /\ wanted = [l \in Layers |-> Layer(l)]
  /\ configured = IF "tool_config" \in DOMAIN disk THEN Configured
                  ELSE IF Has("global.secrets", "tool_config")
                    THEN disk["global.secrets"]["tool_config"] ELSE {}
  /\ clean = TRUE /\ faults = 0 /\ starts = 0 /\ edits = 0

Next ==
  \/ Start \/ EnsureGlobal \/ MigrateTool \/ CleanTool \/ MigrateGroups \/ Fold \/ Drop
  \/ Retire("debug", "photos.debug", Step("enrollment", <<>>)) \/ MigrateEnrollment
  \/ Retire("budget", "knowledge.threshold", Step("load", <<>>))
  \/ Load \/ Crash
  \/ \E l \in Layers, v \in Values : WriteLayer(l, "api_key", v)
  \/ WriteLayer("global", "photos.enrollment_chats", None)
  \/ \E ns \in Namespaces : SetTool(ns)

Spec == Init /\ [][Next]_vars

-----------------------------------------------------------------------------
\* Whatever a start does, fails at or is cut in the middle of, the layers say what the operator
\* wrote in them: each value is in the main file or still in the secrets that win over it.
LayersAreKept == \A l \in Layers : Layer(l) = wanted[l]

\* A start in which nothing fails ends what earlier ones left undone: the daemon runs with what
\* the operator wrote, its tools with what they were configured with, and no secrets are left
\* but those of an agent that was deleted.  (A store that was made anew after a failed migration
\* hides what is stranded: see ToolConfigKept.)
CleanStartIsWhole ==
  at.step = "up" /\ clean =>
    /\ loaded = IF wanted["agent"] = None THEN None
                ELSE Merge(wanted["global"], wanted["agent"])
    /\ faults = 0 => tools = configured
    /\ \A l \in Layers : l \in DOMAIN disk => Secrets(l) \notin DOMAIN disk

\* "perder credenciales de tools por un OSError no es opcion": the credentials of a tool are in
\* the file the store reads, or in the secrets the next start migrates.
\* Promised, and not kept by the code: README, section 5.
ToolConfigKept ==
  configured \subseteq
    (IF "tool_config" \in DOMAIN disk THEN Configured
     ELSE IF Has("global.secrets", "tool_config") THEN disk["global.secrets"]["tool_config"] ELSE {})

=============================================================================
