----------------------------- MODULE LazyCatalog -----------------------------
(***************************************************************************)
(* The vectors a turn ranks skills and tools with (skills/yaml_skill_repo.py,*)
(* tools/registry.py and embedding/).                                      *)
(*                                                                         *)
(* Nothing is embedded until the first turn asks.  That turn walks the     *)
(* skills and then the tools, one awaited lookup in the cache and, failing *)
(* that, one request per entry; turns of other chats walk them as well, and*)
(* a turn may be cut at any of those awaits.  The cache outlives the       *)
(* process, whose next configuration may name another provider.  A vector  *)
(* is the provider and the model that made it; scores are left out.        *)
(***************************************************************************)
EXTENDS Integers, Sequences, Functions

CONSTANTS
  Skills, Tools,  \* skill files and registered tools, in order
  Turns,          \* turns that may run at the same time
  Models,         \* what embedding may be configured with
  Provider,       \* model -> name of its provider
  Tries,          \* _MAX_INTENTOS
  Cuts,           \* _MAX_RECORTES_POR_400
  Missing,
  MaxStarts       \* bound: times the process starts

CatalogAssumption ==
  /\ Tries \in Nat \ {0} /\ Cuts \in Nat /\ MaxStarts \in Nat \ {0}
  /\ Skills \in Seq(Range(Skills)) /\ Tools \in Seq(Range(Tools))
  /\ Missing \notin Models /\ Range(Skills) \cap Range(Tools) = {}

VARIABLES
  model,   \* embedding.model of this process
  starts,
  cache,   \* embedding_cache: entry and provider -> vector
  list,    \* _skills and _embeddings, side by side
  loaded,  \* _loaded
  vectors, \* _embeddings of the registry
  ready,   \* _embeddings_ready
  turn,    \* where each turn is
  absent   \* history: skills that the last load that emptied the list gave up

vars == <<model, starts, cache, list, loaded, vectors, ready, turn, absent>>
process == <<model, starts>>

Entries == Range(Skills) \cup Range(Tools)
Providers == {Provider[m] : m \in Models}
\* Mutant: a vector is kept by what it is of.
KeyContentOnly(e) == <<e, CHOOSE p \in Providers : TRUE>>
Key(e) == <<e, Provider[model]>>

Idle == [pc |-> "idle", in |-> "skills", at |-> 1, vec |-> Missing, tries |-> 0, cuts |-> 0, owns |-> FALSE]
Walked(t) == IF turn[t].in = "skills" THEN Skills ELSE Tools
Entry(t) == Walked(t)[turn[t].at]
Becomes(t, s) == turn' = [turn EXCEPT ![t] = s]
At(t, pc) == turn[t].pc = pc /\ UNCHANGED process

Init ==
  /\ model \in Models /\ starts = 1
  /\ cache = [k \in Entries \X Providers |-> Missing]
  /\ list = <<>> /\ loaded = FALSE /\ vectors = [e \in Range(Tools) |-> Missing] /\ ready = FALSE
  /\ turn = [t \in Turns |-> Idle] /\ absent = {}

(***************************************************************************)
(* The walks                                                               *)
(***************************************************************************)
\* list_all and retrieve: the list is emptied by whoever finds it not loaded.
WalkSkills(t) ==
  /\ At(t, "idle") /\ ~loaded
  /\ list' = <<>> /\ absent' = {}
  /\ turn' = [u \in Turns |-> IF u = t THEN [Idle EXCEPT !.pc = "look", !.owns = TRUE]
                              ELSE [turn[u] EXCEPT !.owns = FALSE]]
  /\ UNCHANGED <<cache, loaded, vectors, ready>>

\* get_schemas_relevant, once the skills are there.
WalkTools(t) ==
  /\ At(t, "idle") /\ loaded /\ ~ready /\ Becomes(t, [Idle EXCEPT !.pc = "look", !.in = "tools"])
  /\ UNCHANGED <<cache, list, loaded, vectors, ready, absent>>

Embedded(t) == turn[t].in = "tools" /\ vectors[Entry(t)] # Missing

\* A tool that is embedded is passed over; a cache that cannot be read has nothing.
Look(t) ==
  /\ At(t, "look") /\ turn[t].at <= Len(Walked(t))
  /\ \/ Embedded(t) /\ Becomes(t, [turn[t] EXCEPT !.at = @ + 1])
     \/ /\ ~Embedded(t) /\ cache[Key(Entry(t))] # Missing
        /\ Becomes(t, [turn[t] EXCEPT !.pc = "add", !.vec = cache[Key(Entry(t))]])
     \/ ~Embedded(t) /\ Becomes(t, [turn[t] EXCEPT !.pc = "ask"])
  /\ UNCHANGED <<cache, list, loaded, vectors, ready, absent>>

\* A skill that cannot be embedded is left out with a warning; a tool ends the turn.
GivesUp(t) ==
  IF turn[t].in = "skills"
  THEN [Idle EXCEPT !.pc = "look", !.at = turn[t].at + 1, !.owns = turn[t].owns]
  ELSE Idle
Lost(t, gone) == absent' = IF turn[t].in = "skills" /\ turn[t].owns THEN absent \cup gone ELSE absent

\* One request: an answer, an error worth another try, a text too long that is halved,
\* or an error for good.
Ask(t) ==
  /\ At(t, "ask")
  /\ LET s == turn[t] IN
     \/ Becomes(t, [s EXCEPT !.pc = "add", !.vec = model, !.tries = 0, !.cuts = 0]) /\ UNCHANGED absent
     \/ s.tries + 1 < Tries /\ Becomes(t, [s EXCEPT !.tries = @ + 1]) /\ UNCHANGED absent
     \/ s.cuts < Cuts /\ Becomes(t, [s EXCEPT !.tries = 0, !.cuts = @ + 1]) /\ UNCHANGED absent
     \/ Becomes(t, GivesUp(t)) /\ Lost(t, {Entry(t)})
  /\ UNCHANGED <<cache, list, loaded, vectors, ready>>

Appended(t) == Append(list, [of |-> Entry(t), vec |-> turn[t].vec])

\* What was asked for is cached, unless the cache cannot be written, and then added.
Add(t) ==
  /\ At(t, "add")
  /\ \E kept \in BOOLEAN : cache' = IF kept THEN [cache EXCEPT ![Key(Entry(t))] = turn[t].vec] ELSE cache
  /\ IF turn[t].in = "skills"
     THEN list' = Appended(t) /\ UNCHANGED vectors
     ELSE vectors' = [vectors EXCEPT ![Entry(t)] = turn[t].vec] /\ UNCHANGED list
  /\ Becomes(t, [turn[t] EXCEPT !.pc = "look", !.at = @ + 1, !.vec = Missing])
  /\ UNCHANGED <<loaded, ready, absent>>

WalkEnds(t) ==
  /\ At(t, "look") /\ turn[t].at > Len(Walked(t)) /\ Becomes(t, Idle)
  /\ IF turn[t].in = "skills" THEN loaded' = TRUE /\ UNCHANGED ready ELSE ready' = TRUE /\ UNCHANGED loaded
  /\ UNCHANGED <<cache, list, vectors, absent>>

\* The turn is cut (the request that wanted it went away, the daemon stops the channel).
Cut(t) ==
  /\ UNCHANGED process /\ turn[t].pc # "idle" /\ Becomes(t, Idle)
  /\ Lost(t, {Walked(t)[i] : i \in turn[t].at..Len(Walked(t))})
  /\ UNCHANGED <<cache, list, loaded, vectors, ready>>

\* A new process, maybe with other settings, and what is left of the old one: the cache.
Restart ==
  /\ starts < MaxStarts /\ starts' = starts + 1 /\ model' \in Models
  /\ list' = <<>> /\ loaded' = FALSE /\ vectors' = [e \in Range(Tools) |-> Missing] /\ ready' = FALSE
  /\ turn' = [t \in Turns |-> Idle] /\ absent' = {}
  /\ UNCHANGED cache

Next ==
  \/ Restart
  \/ \E t \in Turns : WalkSkills(t) \/ WalkTools(t) \/ Look(t) \/ Ask(t) \/ Add(t) \/ WalkEnds(t) \/ Cut(t)

Spec == Init /\ [][Next]_vars

(***************************************************************************)
(* What a turn ranks                                                       *)
(***************************************************************************)
Walking(in) == \E t \in Turns : turn[t].pc # "idle" /\ turn[t].in = in

\* Once loaded, what there is to rank is everything that could be embedded: several turns
\* that load at the same time, failures and cuts lose no tool at all, and no skill but
\* those the last load to empty the list did not get to add.
NothingIsMissing ==
  /\ ready => \A e \in Range(Tools) : vectors[e] # Missing
  /\ loaded /\ ~Walking("skills") =>
       Range(Skills) \ absent \subseteq {list[i].of : i \in DOMAIN list}

\* Queries are compared with vectors of the provider they are embedded with, whatever
\* the cache was filled with before.
OneProvider ==
  /\ \A i \in DOMAIN list : Provider[list[i].vec] = Provider[model]
  /\ \A e \in Range(Tools) : vectors[e] # Missing => Provider[vectors[e]] = Provider[model]

\* ... and of the same model.
\* Promised, and not kept by the code: README, section 5.
OneModel ==
  /\ \A i \in DOMAIN list : list[i].vec = model
  /\ \A e \in Range(Tools) : vectors[e] # Missing => vectors[e] = model

\* A skill is in the catalogue once.
\* Promised, and not kept by the code: README, section 5.
SkillsAreLoadedOnce == \A i, j \in DOMAIN list : list[i].of = list[j].of => i = j
===============================================================================
