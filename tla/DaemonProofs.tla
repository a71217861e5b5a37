----------------------------- MODULE DaemonProofs -----------------------------
(***************************************************************************)
(* Proofs about Daemon, for any agents, blocks and values, whatever the    *)
(* loader and the factories accept and however often anything happens:     *)
(*                                                                         *)
(*   - the layers of the runtime are over those of the files in what the   *)
(*     process runs with (RuntimeLayer);                                   *)
(*   - what config set accepted starts (AcceptedStarts).                   *)
(*                                                                         *)
(* The first rests on whose an entry is: the layers of global.yaml and of  *)
(* an agent have no path in common, so the file of the agent, which is     *)
(* merged between the two, cannot hide an override of global.yaml.         *)
(***************************************************************************)
EXTENDS Daemon, WellFoundedInduction, TLAPS

(***************************************************************************)
(* The inductive invariant                                                 *)
(***************************************************************************)
Overrides == {e \in [owner : Files, path : Keys, valor : Values] : e.path \in KeysOf(e.owner)
                /\ (e.owner = "global" => e.path \in GlobalKeys)}
Layer(f) == UNION {[K -> Values] : K \in SUBSET KeysOf(f)}

\* What the files, the store and the process hold.
Shapes ==
  /\ TypeOK
  /\ files \in [Files -> UNION {Layer(f) : f \in Files}]
  /\ \A f \in Files : files[f] \in Layer(f)
  /\ panel = None \/ (panel.file \in Files /\ panel.layer \in Layer(panel.file))
  /\ overrides \in Seq(Overrides) /\ crashes \in Nat

\* The history variable says of the files and entries of the moment that they start.
Verified == verified /\ phase \notin {"off", "down"} => Starts(files, overrides)

Sound == Shapes /\ RuntimeLayer /\ Verified
-----------------------------------------------------------------------------
(***************************************************************************)
(* Layers                                                                  *)
(***************************************************************************)
LEMMA LeastNatural ==
  ASSUME NEW T, T \subseteq Nat, T # {}
  PROVE  \E x \in T : \A y \in T : x <= y
<1>1. PICK x \in T : \A y \in T : ~ (<<y, x>> \in OpToRel(<, Nat))
  BY NatLessThanWellFounded, WFMin
<1>2. \A y \in T : ~ (y < x)
  BY <1>1 DEF OpToRel
<1> QED BY <1>2

\* LastOf chooses an entry of the path.
LEMMA LastIsThere ==
  ASSUME NEW S \in Seq(Overrides), NEW owner, NEW i \in Of(S, owner)
  PROVE  LastOf(S, owner, S[i].path) \in Of(S, owner) /\ S[LastOf(S, owner, S[i].path)].path = S[i].path
<1> DEFINE I == {j \in Of(S, owner) : S[j].path = S[i].path}
           T == {Len(S) - j : j \in I}
<1>1. I \subseteq 1 .. Len(S) /\ I # {} /\ Len(S) \in Nat
  BY DEF Of
<1>2. T \subseteq Nat /\ T # {}
  BY <1>1
<1>3. PICK x \in T : \A y \in T : x <= y
  BY <1>2, LeastNatural
<1>4. PICK last \in I : x = Len(S) - last
  BY <1>3
<1>5. \A j \in I : Len(S) - j \in T
  OBVIOUS
<1>6. \A j \in I : j <= last
  <2> TAKE j \in I
  <2>1. Len(S) - last <= Len(S) - j
    BY <1>3, <1>4, <1>5
  <2>2. j \in Int /\ last \in Int /\ Len(S) \in Int
    BY <1>1
  <2> HIDE DEF I, T
  <2> QED BY <2>1, <2>2
<1>7. \E m \in Of(S, owner) : S[m].path = S[i].path
        /\ \A j \in Of(S, owner) : S[j].path = S[i].path => j <= m
  BY <1>6
<1> QED BY <1>7 DEF LastOf

\* The layer of an owner has paths of that owner only.
LEMMA MaterializedLayer ==
  ASSUME NEW S \in Seq(Overrides), NEW owner \in Files
  PROVE  /\ Materialize(S, owner) \in Layer(owner)
         /\ owner = "global" => DOMAIN Materialize(S, owner) \subseteq GlobalKeys
<1> DEFINE D == {S[i].path : i \in Of(S, owner)}
<1>1. \A i \in Of(S, owner) : S[i] \in Overrides /\ S[i].owner = owner
  BY DEF Of
<1>2. \A i \in Of(S, owner) : S[i].valor \in Values
  BY <1>1 DEF Overrides
<1>3. \A k \in D : S[LastOf(S, owner, k)].valor \in Values
  BY <1>2, LastIsThere
<1>4. D \subseteq KeysOf(owner) /\ (owner = "global" => D \subseteq GlobalKeys)
  BY <1>1 DEF Overrides
<1>5. Materialize(S, owner) \in [D -> Values]
  BY <1>3 DEF Materialize
<1> QED BY <1>4, <1>5 DEF Layer

\* Merging layers of paths of K gives a layer of them, with all of the base's.
LEMMA LayerType ==
  ASSUME NEW f, NEW l \in Layer(f)
  PROVE  DOMAIN l \subseteq KeysOf(f) /\ l = [k \in DOMAIN l |-> l[k]] /\ \A k \in DOMAIN l : l[k] \in Values
BY DEF Layer

\* What an agent runs with: at each path, its own override, its file, the override of
\* global.yaml, that file, the default.
LEMMA EffectiveIs ==
  ASSUME DaemonAssumption, NEW F, \A f \in Files : F[f] \in Layer(f),
         NEW S \in Seq(Overrides), NEW a \in Agents
  PROVE  LET G == Materialize(S, "global")
             A == Materialize(S, a)
         IN /\ Effective(F, S, a) \in [Keys -> Values]
            /\ DOMAIN G \subseteq GlobalKeys /\ DOMAIN A \subseteq AgentKeys
            /\ \A k \in DOMAIN A : Effective(F, S, a)[k] = A[k]
            /\ \A k \in DOMAIN G : Effective(F, S, a)[k] = G[k]
<1> DEFINE G == Materialize(S, "global")
           A == Materialize(S, a)
           global == Merge(F["global"], G)
           own == Merge(Merge(global, F[a]), A)
<1>1. "global" \in Files /\ a \in Files /\ KeysOf("global") = Keys /\ KeysOf(a) = AgentKeys
  BY DEF Files, KeysOf, DaemonAssumption
<1>2. /\ DOMAIN F["global"] \subseteq Keys /\ DOMAIN F[a] \subseteq AgentKeys
      /\ DOMAIN G \subseteq GlobalKeys /\ DOMAIN A \subseteq AgentKeys
  BY <1>1, LayerType, MaterializedLayer
<1>3. /\ \A k \in DOMAIN F["global"] : F["global"][k] \in Values
      /\ \A k \in DOMAIN F[a] : F[a][k] \in Values
      /\ \A k \in DOMAIN G : G[k] \in Values
      /\ \A k \in DOMAIN A : A[k] \in Values
  BY <1>1, LayerType, MaterializedLayer
<1>4. Effective(F, S, a) = Merge(Default, own)
  BY DEF Effective, Aplicar
<1> HIDE DEF G, A
<1>5. /\ DOMAIN global = DOMAIN F["global"] \cup DOMAIN G
      /\ \A k \in DOMAIN global : global[k] = IF k \in DOMAIN G THEN G[k] ELSE F["global"][k]
  BY DEF Merge
<1>6. /\ DOMAIN own = DOMAIN global \cup DOMAIN F[a] \cup DOMAIN A
      /\ \A k \in DOMAIN own : own[k] = IF k \in DOMAIN A THEN A[k]
                                        ELSE IF k \in DOMAIN F[a] THEN F[a][k] ELSE global[k]
  BY DEF Merge
<1> HIDE DEF global, own
<1>7. DOMAIN own \subseteq Keys /\ \A k \in DOMAIN own : own[k] \in Values
  BY <1>2, <1>3, <1>5, <1>6 DEF Keys
<1>8. Default \in [Keys -> Values]
  BY DEF DaemonAssumption
<1>9. /\ Merge(Default, own) \in [Keys -> Values]
      /\ \A k \in DOMAIN own : Merge(Default, own)[k] = own[k]
  BY <1>7, <1>8 DEF Merge
<1>10. \A k \in DOMAIN G : k \notin AgentKeys
  BY <1>2 DEF DaemonAssumption
<1>11. \A k \in DOMAIN G : own[k] = G[k] /\ k \in DOMAIN own
  BY <1>2, <1>5, <1>6, <1>10
<1>12. \A k \in DOMAIN A : own[k] = A[k] /\ k \in DOMAIN own
  BY <1>6
<1> QED BY <1>2, <1>4, <1>9, <1>11, <1>12 DEF G, A

\* The overrides are over whatever the files say.
LEMMA OverridesStay ==
  ASSUME DaemonAssumption, NEW F, \A f \in Files : F[f] \in Layer(f),
         NEW S \in Seq(Overrides), NEW a \in Agents
  PROVE  Merge(Effective(F, S, a), Merge(Materialize(S, "global"), Materialize(S, a)))
           = Effective(F, S, a)
<1> DEFINE G == Materialize(S, "global")
           A == Materialize(S, a)
           E == Effective(F, S, a)
<1>1. /\ E \in [Keys -> Values]
      /\ DOMAIN G \subseteq GlobalKeys /\ DOMAIN A \subseteq AgentKeys
      /\ \A k \in DOMAIN A : E[k] = A[k]
      /\ \A k \in DOMAIN G : E[k] = G[k]
  BY EffectiveIs
<1> HIDE DEF G, A, E
<1>2. /\ DOMAIN Merge(G, A) \subseteq Keys
      /\ \A k \in DOMAIN Merge(G, A) : Merge(G, A)[k] = E[k]
  BY <1>1 DEF Merge, Keys
<1> DEFINE M == Merge(G, A)
<1> HIDE DEF M
<1>3. Merge(E, M) = [k \in Keys |-> E[k]]
  BY <1>1, <1>2 DEF Merge, M
<1> QED BY <1>1, <1>3 DEF G, A, E, M
-----------------------------------------------------------------------------
(***************************************************************************)
(* Every step keeps the invariant                                          *)
(***************************************************************************)
\* An entry belongs to whom the schema says.
LEMMA EntryIsAnOverride ==
  ASSUME DaemonAssumption, NEW a \in Agents, NEW k \in Keys, NEW v \in Values
  PROVE  Entry(a, k, v) \in Overrides
BY DEF Entry, Owner, Overrides, Files, KeysOf, Keys, DaemonAssumption

\* What the panel and the operator write is a layer.
LEMMA WrittenIsALayer ==
  ASSUME DaemonAssumption, Shapes, NEW f \in Files, NEW k \in KeysOf(f),
         NEW v \in Values \cup {None}
  PROVE  \A g \in Files : Written(files, f, k, v)[g] \in Layer(g)
<1> DEFINE new == IF v = None THEN Inherit(files[f], k) ELSE Merge(files[f], Only(k, v))
<1>1. files[f] \in Layer(f) /\ DOMAIN files[f] \subseteq KeysOf(f)
      /\ \A x \in DOMAIN files[f] : files[f][x] \in Values
  BY LayerType DEF Shapes
<1>2. CASE v = None
  <2>1. Inherit(files[f], k) \in [DOMAIN files[f] \ {k} -> Values]
    BY <1>1 DEF Inherit
  <2>2. DOMAIN files[f] \ {k} \in SUBSET KeysOf(f)
    BY <1>1
  <2>3. Inherit(files[f], k) \in Layer(f)
    BY <2>1, <2>2 DEF Layer
  <2> QED BY <1>2, <2>3 DEF Written, Shapes
<1>3. CASE v # None
  <2>1. Merge(files[f], Only(k, v)) \in [DOMAIN files[f] \cup {k} -> Values]
    BY <1>1, <1>3 DEF Merge, Only
  <2>2. DOMAIN files[f] \cup {k} \in SUBSET KeysOf(f)
    BY <1>1
  <2>3. Merge(files[f], Only(k, v)) \in Layer(f)
    BY <2>1, <2>2 DEF Layer
  <2> QED BY <1>3, <2>3 DEF Written, Shapes
<1> QED BY <1>2, <1>3

\* A boot that starts runs with the overrides it was given.
LEMMA BootIsSound ==
  ASSUME DaemonAssumption, NEW S \in Seq(Overrides), NEW failed \in {"down", "off"},
         \A f \in Files : files[f] \in Layer(f),
         config \in [Agents -> [Keys -> Values]], Boot(S, failed)
  PROVE  /\ config' \in [Agents -> [Keys -> Values]] /\ modo' = None
         /\ \/ phase' = failed /\ UNCHANGED <<config, verified>>
            \/ /\ phase' = "starting" /\ Starts(files, S)
               /\ \A a \in Agents : Merge(config'[a], Merge(Materialize(S, "global"),
                                                            Materialize(S, a))) = config'[a]
<1>1. CASE Starts(files, S)
  <2>1. config' = [a \in Agents |-> Effective(files, S, a)] /\ phase' = "starting" /\ modo' = None
    BY <1>1 DEF Boot, LoadAll
  <2>2. \A a \in Agents : config'[a] = Effective(files, S, a)
                          /\ Effective(files, S, a) \in [Keys -> Values]
    BY <2>1, EffectiveIs
  <2> QED BY <1>1, <2>1, <2>2, OverridesStay
<1>2. CASE ~Starts(files, S)
  BY <1>2 DEF Boot
<1> QED BY <1>1, <1>2

LEMMA InitSound == DaemonAssumption /\ Init => Sound
<1> SUFFICES ASSUME DaemonAssumption, Init PROVE Sound
  OBVIOUS
<1>1. \A f \in Files : files[f] = NoLayer /\ NoLayer \in Layer(f)
  <2>1. NoLayer \in [{} -> Values]
    BY DEF NoLayer
  <2>2. \A f \in Files : {} \in SUBSET KeysOf(f)
    OBVIOUS
  <2>3. \A f \in Files : NoLayer \in Layer(f)
    BY <2>1, <2>2 DEF Layer
  <2> QED BY <2>3 DEF Init
<1>2. <<>> \in Seq(Overrides) /\ overrides = <<>>
  BY DEF Init
<1>3. config \in [Agents -> [Keys -> Values]]
  BY <1>1, <1>2, EffectiveIs DEF Init, LoadAll
<1> QED BY <1>1, <1>2, <1>3 DEF Init, Sound, Shapes, TypeOK, RuntimeLayer, Verified, NoLayer

LEMMA SetIsSound ==
  ASSUME DaemonAssumption, Sound, NEW a \in Agents, NEW k \in Keys, NEW v \in Values,
         NEW notify \in BOOLEAN, AcceptSet(a, k, v, notify)
  PROVE  Sound'
<1>1. CASE overrides' = overrides /\ avisos' = avisos /\ modo' = modo /\ verified' = verified
  BY <1>1 DEF AcceptSet, Sound, Shapes, TypeOK, RuntimeLayer, Verified
<1>2. CASE /\ overrides' = Append(overrides, Entry(a, k, v)) /\ Apply /\ verified' = TRUE
           /\ Starts(files, Append(overrides, Entry(a, k, v)))
  <2>1. overrides' \in Seq(Overrides)
    BY <1>2, EntryIsAnOverride DEF Sound, Shapes
  <2>2. modo' \in {"aplicar", "descartar"} /\ modo' # "descartar" /\ modo' # None
    BY <1>2 DEF Apply, AcceptSet, Open, Sound, Shapes, TypeOK, DaemonAssumption
  <2>3. UNCHANGED <<files, panel, phase, config, crashes>>
    BY DEF AcceptSet
  <2> QED BY <1>2, <2>1, <2>2, <2>3 DEF Sound, Shapes, TypeOK, RuntimeLayer, Verified
<1> QED BY <1>1, <1>2 DEF AcceptSet, Agregar, Candidate, store

LEMMA FilesAreSound ==
  ASSUME DaemonAssumption, Sound,
         \/ PanelChecks
         \/ \E f \in Files : \E k \in KeysOf(f), v \in Values \cup {None} : Writes(f, k, v)
  PROVE  Sound'
<1>1. CASE PanelChecks
  <2>1. \A f \in Files : files'[f] \in Layer(f)
    BY <1>1 DEF PanelChecks, Sound, Shapes
  <2>2. files' \in [Files -> UNION {Layer(f) : f \in Files}]
    BY <1>1, <2>1 DEF PanelChecks, Sound, Shapes
  <2>3. \A f \in Files : DOMAIN files'[f] \subseteq KeysOf(f)
    BY <2>1, LayerType
  <2>4. verified' => files' = files /\ verified
    BY <1>1 DEF PanelChecks
  <2> QED BY <1>1, <2>1, <2>2, <2>3, <2>4
          DEF PanelChecks, Sound, Shapes, TypeOK, RuntimeLayer, Verified, store, runner, counters
<1>2. ASSUME NEW f \in Files, NEW k \in KeysOf(f), NEW v \in Values \cup {None}, Writes(f, k, v)
      PROVE  Sound'
  <2>1. files' = Written(files, f, k, v) /\ verified' = FALSE
        /\ UNCHANGED <<store, runner, config, crashes>>
    BY <1>2 DEF Writes, PanelWrites, EditByHand
  <2>2. \A g \in Files : files'[g] \in Layer(g)
    BY <2>1, WrittenIsALayer DEF Sound
  <2>3. files' \in [Files -> UNION {Layer(g) : g \in Files}]
    BY <2>1, <2>2 DEF Written, Sound, Shapes
  <2>4. \A g \in Files : DOMAIN files'[g] \subseteq KeysOf(g)
    BY <2>2, LayerType
  <2>5. panel' = None \/ (panel'.file \in Files /\ panel'.layer \in Layer(panel'.file))
    BY <1>2 DEF Writes, PanelWrites, EditByHand, Sound, Shapes
  <2> QED BY <2>1, <2>2, <2>3, <2>4, <2>5
          DEF Sound, Shapes, TypeOK, RuntimeLayer, Verified, store, runner
<1> QED BY <1>1, <1>2

LEMMA StepIsSound == DaemonAssumption /\ Sound /\ [Next]_vars => Sound'
<1> SUFFICES ASSUME DaemonAssumption, Sound, [Next]_vars PROVE Sound'
  OBVIOUS
<1>1. ASSUME NEW a \in Agents, NEW k \in Keys, NEW v \in Values,
             ToolSet(a, k, v) \/ ConfigSlash(a, k, v)
      PROVE  Sound'
  BY <1>1, SetIsSound DEF ToolSet, ConfigSlash
<1> USE DEF Sound, Shapes, TypeOK, RuntimeLayer, Verified
<1>2. CASE RequestReload
  <2>1. overrides' = <<>> /\ avisos' = <<>> /\ modo' = "descartar"
        /\ UNCHANGED <<files, panel, phase, config, crashes>>
        /\ verified' = (verified /\ overrides = <<>>)
    BY <1>2 DEF RequestReload, DescartarTodo
  <2>2. <<>> \in Seq(Overrides)
    OBVIOUS
  <2>3. verified' => verified /\ overrides' = overrides
    BY <2>1
  <2>4. Verified'
    BY <2>1, <2>3
  <2>5. Shapes'
    BY <2>1, <2>2
  <2>6. RuntimeLayer'
    BY <2>1, <2>5 DEF DaemonAssumption
  <2> QED BY <2>4, <2>5, <2>6
<1>3. CASE Signal
  BY <1>3 DEF Signal, store, counters
<1>4. CASE Crash
  <2>1. phase' = "down" /\ modo' = None /\ UNCHANGED <<files, panel, overrides, avisos, config>>
        /\ crashes' = crashes + 1
    BY <1>4 DEF Crash, store
  <2>2. Shapes'
    BY <2>1
  <2>3. RuntimeLayer' /\ Verified'
    BY <2>1, <2>2 DEF DaemonAssumption
  <2> QED BY <2>2, <2>3
<1>5. CASE ColdStart
  <2>1. overrides' = <<>> /\ avisos' = <<>> /\ <<>> \in Seq(Overrides)
        /\ UNCHANGED <<files, panel, crashes>> /\ Boot(<<>>, "off")
    BY <1>5 DEF ColdStart, counters
  <2>2. /\ config' \in [Agents -> [Keys -> Values]] /\ modo' = None
        /\ \/ phase' = "off" /\ UNCHANGED <<config, verified>>
           \/ /\ phase' = "starting" /\ Starts(files, <<>>)
              /\ \A a \in Agents : Merge(config'[a], Merge(Materialize(<<>>, "global"),
                                                           Materialize(<<>>, a))) = config'[a]
    BY <2>1, BootIsSound
  <2>3. Starts(files', overrides') = Starts(files, <<>>)
    BY <2>1
  <2> QED BY <2>1, <2>2, <2>3 DEF DaemonAssumption
<1>6. CASE Rebuild
  <2>1. UNCHANGED <<files, panel, overrides, avisos, crashes>> /\ Boot(overrides, "down")
    BY <1>6 DEF Rebuild, store, counters
  <2>2. /\ config' \in [Agents -> [Keys -> Values]] /\ modo' = None
        /\ \/ phase' = "down" /\ UNCHANGED <<config, verified>>
           \/ /\ phase' = "starting" /\ Starts(files, overrides)
              /\ \A a \in Agents : Merge(config'[a], Merge(Materialize(overrides, "global"),
                                                           Materialize(overrides, a))) = config'[a]
    BY <2>1, BootIsSound
  <2> QED BY <2>1, <2>2 DEF DaemonAssumption
<1>7. CASE PanelChecks \/ \E f \in Files : \E k \in KeysOf(f), v \in Values \cup {None} : Writes(f, k, v)
  BY <1>7, FilesAreSound
<1>8. CASE ChannelsStarted \/ Deliver \/ HookEnds \/ Drain \/ Drained
  BY <1>8 DEF ChannelsStarted, Deliver, HookEnds, Drain, Drained, store, runner, counters
<1>9. CASE UNCHANGED vars
  BY <1>9 DEF vars, store, runner, counters
<1> QED BY <1>1, <1>2, <1>3, <1>4, <1>5, <1>6, <1>7, <1>8, <1>9 DEF Next, Runs
-----------------------------------------------------------------------------
LEMMA AlwaysSound == ASSUME DaemonAssumption PROVE Spec => []Sound
<1>1. Init => Sound
  BY InitSound
<1>2. Sound /\ [Next]_vars => Sound'
  BY StepIsSound
<1> QED BY <1>1, <1>2, PTL DEF Spec

\* Whatever is set, reloaded, edited, restored or cut: what config set accepted is over the
\* files in what the process runs with as soon as no reload is pending, and what a manual
\* reload discarded does not come back.
THEOREM AcceptedIsWhatRuns == Spec => []RuntimeLayer
<1>1. DaemonAssumption
  BY DaemonAssumption
<1>2. Sound => RuntimeLayer
  BY DEF Sound
<1> QED BY <1>1, <1>2, AlwaysSound, PTL

\* A change that was accepted never keeps the daemon from coming back, unless the files
\* were touched meanwhile or something unforeseen failed.
THEOREM AcceptedComesBack == Spec => AcceptedStarts
<1>1. DaemonAssumption
  BY DaemonAssumption
<1>2. Sound /\ [Next]_vars => [phase = "booting" /\ verified /\ crashes' = crashes => phase' # "down"]_vars
  <2> SUFFICES ASSUME Sound, [Next]_vars, phase = "booting", verified, crashes' = crashes
               PROVE  phase' # "down"
    OBVIOUS
  <2>1. Starts(files, overrides)
    BY DEF Sound, Verified
  <2>2. CASE Rebuild
    BY <2>1, <2>2 DEF Rebuild, Boot
  <2>3. CASE Crash
    BY <2>3 DEF Crash, Sound, Shapes, TypeOK
  <2>4. CASE UNCHANGED phase
    BY <2>4
  <2>5. CASE ~(Rebuild \/ Crash \/ UNCHANGED phase)
    BY <2>5, ZenonT(60) DEF Next, Runs, ToolSet, ConfigSlash, AcceptSet, RequestReload, Signal, ColdStart,
                PanelChecks, ChannelsStarted, Deliver, HookEnds, Drain, Drained, Writes, PanelWrites,
                EditByHand, runner, vars
  <2> QED BY <2>2, <2>3, <2>4, <2>5
<1> QED BY <1>1, <1>2, AlwaysSound, PTL DEF Spec, AcceptedStarts
=============================================================================
