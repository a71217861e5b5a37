------------------------------- MODULE MCStores -------------------------------
(***************************************************************************)
(* What outlives a turn, for TLC, one subject at a time: the subject of a  *)
(* behavior moves and the variables of the others stay Off.  vectors, call *)
(* calls and turn belong to two of them.                                   *)
(*                                                                         *)
(* Memory: two conversations and one turn that uses the tool, beside the   *)
(* nightly run and the commands.  Faces: three points in line, the first   *)
(* like the second and the third like no other.  Index: two documents, one *)
(* of them outside the glob, and two calls at a time.  Catalog: two skills *)
(* and a tool, two turns, a model of each of two providers.                *)
(***************************************************************************)
EXTENDS Integers, FiniteSets, TLC

CONSTANTS
  None, NoScope, NoTopic, Nobody, Missing, Off,
  Scopes, Topics, Jobs, Command, Callers, KeepLast, Bounds,         \* of the memory
  Points, MatchAt, AmbiguousAt, K, Chats, Private, FaceTurns,       \* of the faces
  MaxPhotos, MaxFaces, MaxEnrolled,
  Files, Glob, Words, Size, Overlap, Cap, Workers, MaxChanges, MaxCalls,  \* of the index
  Skills, Tools, CatalogTurns, Models, Provider, Tries, Cuts, MaxStarts   \* of the catalog

VARIABLES
  subject,
  channels, log, alive, infused, memories, vectors, digest, job, call, seeds, offered, read,
  reread, late, cleared, renewed, overlap, runs, calls, faults, bound,
  persons, rows, vecs, photos, look, metadata, turn, enrolled,
  disk, db, writer, tx, changes, external,
  model, starts, cache, list, loaded, ready, absent

Symmetry == Permutations(Scopes) \cup Permutations(Topics) \cup Permutations(Workers)

\* Conversations that fill up beside two runs; memories edited beside one.
FewRuns == {[rows |-> 2, memories |-> 0, runs |-> 2, calls |-> 0, faults |-> 1],
            [rows |-> 3, memories |-> 0, runs |-> 1, calls |-> 0, faults |-> 1],
            [rows |-> 1, memories |-> 2, runs |-> 1, calls |-> 2, faults |-> 1]}
\* One run after another, each of which extracts.
TwoRuns == {[rows |-> 2, memories |-> 2, runs |-> 2, calls |-> 0, faults |-> 0]}

\* The versions of a document, the catalog and who embeds with each model, of stores.cfg.
OneWordAndTwo == <<1, 2>>
TwoSkills == <<"s1", "s2">>
OneTool == <<"t1">>
ProviderOf == [m \in {"small", "e5"} |-> IF m = "e5" THEN "e5_onnx" ELSE "openai"]

L == INSTANCE LongTermMemory
F == INSTANCE FaceRegistry WITH Turns <- FaceTurns
I == INSTANCE KnowledgeIndex
C == INSTANCE LazyCatalog WITH Turns <- CatalogTurns

ASSUME StoresAssumption ==
  L!MemoryAssumption /\ F!FaceRegistryAssumption /\ I!KnowledgeAssumption /\ C!CatalogAssumption
-----------------------------------------------------------------------------
\* The variables that only one subject has.
OfMemory == <<channels, log, alive, infused, memories, digest, job, seeds, offered, read, reread,
              late, cleared, renewed, overlap, runs, faults, bound>>
OfFaces == <<persons, rows, vecs, photos, look, metadata, enrolled>>
OfIndex == <<disk, db, writer, tx, changes, external>>
OfCatalog == <<model, starts, cache, list, loaded, ready, absent>>
vars == <<subject, OfMemory, OfFaces, OfIndex, OfCatalog, vectors, call, calls, turn>>

NoMemory ==
  /\ channels = Off /\ log = Off /\ alive = Off /\ infused = Off /\ memories = Off /\ digest = Off
  /\ job = Off /\ seeds = Off /\ offered = Off /\ read = Off /\ reread = Off /\ late = Off
  /\ cleared = Off /\ renewed = Off /\ overlap = Off /\ runs = Off /\ faults = Off /\ bound = Off
NoFaces ==
  /\ persons = Off /\ rows = Off /\ vecs = Off /\ photos = Off /\ look = Off /\ metadata = Off
  /\ enrolled = Off
NoIndex ==
  disk = Off /\ db = Off /\ writer = Off /\ tx = Off /\ changes = Off /\ external = Off
NoCatalog ==
  /\ model = Off /\ starts = Off /\ cache = Off /\ list = Off /\ loaded = Off /\ ready = Off
  /\ absent = Off

Init ==
  \/ /\ subject = "memory" /\ L!Init /\ NoFaces /\ NoIndex /\ NoCatalog /\ turn = Off
  \/ /\ subject = "faces" /\ F!Init /\ NoMemory /\ NoIndex /\ NoCatalog
     /\ vectors = Off /\ call = Off /\ calls = Off
  \/ /\ subject = "index" /\ I!Init /\ NoMemory /\ NoFaces /\ NoCatalog
     /\ vectors = Off /\ turn = Off
  \/ /\ subject = "catalog" /\ C!Init /\ NoMemory /\ NoFaces /\ NoIndex
     /\ call = Off /\ calls = Off

Next ==
  /\ UNCHANGED subject
  /\ \/ /\ subject = "memory" /\ L!Next
        /\ UNCHANGED <<OfFaces, OfIndex, OfCatalog, turn>>
     \/ /\ subject = "faces" /\ F!Next
        /\ UNCHANGED <<OfMemory, OfIndex, OfCatalog, vectors, call, calls>>
     \/ /\ subject = "index" /\ I!Next
        /\ UNCHANGED <<OfMemory, OfFaces, OfCatalog, vectors, turn>>
     \/ /\ subject = "catalog" /\ C!Next
        /\ UNCHANGED <<OfMemory, OfFaces, OfIndex, call, calls>>

Spec == Init /\ [][Next]_vars
-----------------------------------------------------------------------------
\* Runs that overlap, fail half way or race with the tool skip no message and read none twice,
\* leave every conversation its last messages, and every memory the embedding of its content
\* (consolidate_memory.py, sqlite_memory_repo.py, sqlite_history_store.py).
MemoryHolds ==
  subject = "memory" => L!VectorsMatch /\ L!NothingSkipped /\ L!ContextIsKept /\ L!ReadOnce

\* reconcile_memory.py:18-20: the neighbours of a seed over the threshold go with it to the LLM.
SimilarAreReconsidered == subject = "memory" => L!SimilarAreReconsidered

\* The three tables of the registry agree whatever photos are processed beside a tool, and a
\* face that is in them is never taken for a stranger (sqlite_face_registry.py).
FacesHold == subject = "faces" => F!RegistryAgrees /\ F!KnownIsRecognised

\* The tables of the index agree after every commit of two calls at a time, and a pass that ends
\* leaves the version that lies in the folder (document_knowledge_source.py).
IndexHolds == [](subject = "index" => I!TablesAgree)
              /\ [][subject = "index" => I!IndexIsFresh]_vars

\* Turns that load the catalogue at the same time, failures, cuts and restarts with another model
\* lose no tool, no skill, and compare no vectors of two providers (yaml_skill_repo.py,
\* tools/registry.py, embedding/cache.py).
CatalogHolds == subject = "catalog" => C!NothingIsMissing /\ C!OneProvider
=============================================================================
