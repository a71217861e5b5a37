------------------------------ MODULE MCHarness ------------------------------
(***************************************************************************)
(* What surrounds the turns, for TLC, one subject at a time: the subject   *)
(* of a behavior moves and the variables of the others stay Off.  pc,      *)
(* faults, starts and tools belong to two or three of them.                *)
(*                                                                         *)
(* Child: up to four rounds with answers of one or two calls and a write   *)
(* that fails.  Workdirs: two calls of the delegate tool, two names, two   *)
(* starts of the daemon and a failure of the disk.  Routing: three tools,  *)
(* one pinned, one for the operator only, three turns.  Wire: two tool     *)
(* calls in an answer, sets of tools that grow from none to two.  Home:    *)
(* every home of OldHomes, two starts, a write that fails, an edit.  Lan:  *)
(* a server and two clients, three connections between them, two messages, *)
(* and a line that comes late or a connection that is cut.                 *)
(***************************************************************************)
EXTENDS Integers, Functions, OldHomes

CONSTANTS
  None, Off,
  MaxIterations, LastSteps, Dsml,                             \* of a child
  Calls, Names, Files, TurnsDuringStart,                      \* of the delegate tool
  Tools, Pinned, Operator, TopK, Ttl, Threshold, MaxTurns, MaxSteps,  \* of the routing
  MaxAnswers, MaxTools,                                       \* of the wire
  Values, Namespaces, Faults, MaxEdits,                       \* of the home
  Server, Clients, MaxSize, MaxMessages, MaxConns, MaxDrops, MaxBreaks, MaxLinks,  \* of the LAN
  MaxBatch, MaxFaults, MaxStarts                              \* of more than one

VARIABLES
  subject, pc, faults, starts, tools,
  waits, batch, running, trace, pending, roto, saved, marked, desde, report, ran, known, seen,
  boot, call, en_creacion, live, dirs, rows, prune, protected, entries,
  many, sticky, turn, turns, since,
  dialect, msgs, answers,
  disk, at, loaded, wanted, configured, clean, edits,
  phase, closing, client, conns, clientes, handlers, cut, up, down, relay, author, buffer, got,
  due, drops

Symmetry == Permutations(Clients)
StepsOfATurn == [w \in {"inbound", "dispatch"} |-> IF w = "inbound" THEN 2 ELSE 0]

C == INSTANCE ChildRun
D == INSTANCE Workdirs
R == INSTANCE ToolRouting
W == INSTANCE ProviderWire
H == INSTANCE ConfigHome
B == INSTANCE BroadcastLan

ASSUME HarnessAssumption ==
  /\ C!ChildAssumption /\ D!WorkdirsAssumption /\ R!RoutingAssumption
  /\ W!WireAssumption /\ H!HomeAssumption /\ B!LanAssumption /\ MaxLinks \in Nat
-----------------------------------------------------------------------------
\* The variables that only one subject has.
OfChild == <<waits, batch, running, trace, pending, roto, saved, marked, desde, report, ran, known,
             seen>>
OfDirs == <<boot, call, en_creacion, live, dirs, rows, prune, protected, entries>>
OfRouting == <<many, sticky, turn, turns, since>>
OfWire == <<dialect, msgs, answers>>
OfHome == <<disk, at, loaded, wanted, configured, clean, edits>>
OfLan == <<phase, closing, client, conns, clientes, handlers, cut, up, down, relay, author, buffer,
           got, due, drops>>
vars == <<subject, pc, faults, starts, tools, OfChild, OfDirs, OfRouting, OfWire, OfHome, OfLan>>

NoChild ==
  /\ waits = Off /\ batch = Off /\ running = Off /\ trace = Off /\ pending = Off /\ roto = Off
  /\ saved = Off /\ marked = Off /\ desde = Off /\ report = Off /\ ran = Off /\ known = Off
  /\ seen = Off
NoDirs ==
  /\ boot = Off /\ call = Off /\ en_creacion = Off /\ live = Off /\ dirs = Off /\ rows = Off
  /\ prune = Off /\ protected = Off /\ entries = Off
NoRouting == many = Off /\ sticky = Off /\ turn = Off /\ turns = Off /\ since = Off
NoWire == dialect = Off /\ msgs = Off /\ answers = Off
NoHome ==
  /\ disk = Off /\ at = Off /\ loaded = Off /\ wanted = Off /\ configured = Off /\ clean = Off
  /\ edits = Off
NoLan ==
  /\ phase = Off /\ closing = Off /\ client = Off /\ conns = Off /\ clientes = Off
  /\ handlers = Off /\ cut = Off /\ up = Off /\ down = Off /\ relay = Off /\ author = Off
  /\ buffer = Off /\ got = Off /\ due = Off /\ drops = Off

Init ==
  \/ /\ subject = "child" /\ C!Init /\ NoDirs /\ NoRouting /\ NoWire /\ NoHome /\ NoLan
     /\ starts = Off /\ tools = Off
  \/ /\ subject = "dirs" /\ D!Init /\ NoChild /\ NoRouting /\ NoWire /\ NoHome /\ NoLan
     /\ pc = Off /\ tools = Off
  \/ /\ subject = "routing" /\ R!Init /\ NoChild /\ NoDirs /\ NoWire /\ NoHome /\ NoLan
     /\ pc = Off /\ faults = Off /\ starts = Off /\ tools = Off
  \/ /\ subject = "wire" /\ W!Init /\ NoChild /\ NoDirs /\ NoRouting /\ NoHome /\ NoLan
     /\ faults = Off /\ starts = Off
  \/ /\ subject = "home" /\ H!Init /\ NoChild /\ NoDirs /\ NoRouting /\ NoWire /\ NoLan
     /\ pc = Off
  \/ /\ subject = "lan" /\ B!Init /\ NoChild /\ NoDirs /\ NoRouting /\ NoWire /\ NoHome
     /\ pc = Off /\ faults = Off /\ starts = Off /\ tools = Off

\* The bounds of the LAN: what goes wrong, and how often it is connected.
FewAccidents == (drops' = 0 \/ cut' = {}) /\ FoldFunction(+, 0, conns') <= MaxLinks

Next ==
  /\ UNCHANGED subject
  /\ \/ /\ subject = "child" /\ C!Next
        /\ UNCHANGED <<OfDirs, OfRouting, OfWire, OfHome, OfLan, starts, tools>>
     \/ /\ subject = "dirs" /\ D!Next
        /\ UNCHANGED <<OfChild, OfRouting, OfWire, OfHome, OfLan, pc, tools>>
     \/ /\ subject = "routing" /\ R!Next
        /\ UNCHANGED <<OfChild, OfDirs, OfWire, OfHome, OfLan, pc, faults, starts, tools>>
     \/ /\ subject = "wire" /\ W!Next
        /\ UNCHANGED <<OfChild, OfDirs, OfRouting, OfHome, OfLan, faults, starts>>
     \/ /\ subject = "home" /\ H!Next
        /\ UNCHANGED <<OfChild, OfDirs, OfRouting, OfWire, OfLan, pc>>
     \/ /\ subject = "lan" /\ B!Next /\ FewAccidents
        /\ UNCHANGED <<OfChild, OfDirs, OfRouting, OfWire, OfHome, pc, faults, starts, tools>>

Spec == Init /\ [][Next]_vars
-----------------------------------------------------------------------------
\* However a delegated child ends, its parent is told what it ran and what may have run, and a
\* pause can be resumed with all the child saw (run_agent_one_shot.py, failure_report.py).
ChildHolds == subject = "child" => C!ToldWhatRan /\ C!PauseIsResumable

\* Calls, starts, crashes and failures of the disk take no directory from a child at work or a
\* row, and leave none behind (workdirs.py, background_queue.py).
DirsHold == subject = "dirs" => D!DirsHold

\* Turns of two kinds at a time, clears and messages in flight: what a query selected stays for
\* its turns, and a turn has the tools it must have and no more (sticky_selector.py,
\* _turn_pipeline.py).
RoutingHolds == subject = "routing" => R!RoutingHolds

\* What any answer, drain, cut or closing request leaves in the conversation is sent as the
\* dialect of the provider asks, and signed reasoning as it was produced (anthropic.py, ...).
WireHolds == subject = "wire" => W!EveryCallIsAnswered /\ W!ThinkingIsUntouched

\* The migrations of a start may fail or be cut at any write: the layers say what the operator
\* wrote, and a start in which nothing fails ends them (loader.py, config_store.py).
HomeHolds == subject = "home" => H!LayersAreKept /\ H!CleanStartIsWhole

\* Clients that come, go and start over: nobody receives an event twice or its own, and the loss
\* of one takes nothing from the others (tcp.py).
LanHolds == subject = "lan" => B!AtMostOnce /\ B!NobodyLeftOut
=============================================================================
