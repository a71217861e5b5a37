---------------------------- MODULE LongTermMemory ----------------------------
(***************************************************************************)
(* The long-term memory of one agent: the consolidation that reads the     *)
(* pending rows of the history with an LLM, stores what it extracts and    *)
(* trims what it read (use_cases/consolidate_memory.py), the                *)
(* reconciliation of similar memories (reconcile_memory.py), the memory    *)
(* tool (tools/memory_tool.py), the digest of each conversation            *)
(* (digest.py), and the two stores they share.                             *)
(*                                                                         *)
(* The nightly task and the commands /consolidate and /new call the same   *)
(* use case with nothing that keeps them apart.  Each await is a step.     *)
(* Two contents are similar when they are about the same topic; a search   *)
(* may miss a neighbour, crowded out by those of other agents.             *)
(***************************************************************************)
EXTENDS Integers, Sequences, FiniteSets

CONSTANTS
  Scopes, NoScope,         \* conversations (channel, chat_id)
  Topics, NoTopic,         \* what contents and embeddings are about
  Jobs, Command,           \* the consolidations; the one of /new
  Callers,                 \* turns that use the memory tool
  KeepLast,                \* resolved_keep_last_messages
  Bounds                   \* bounds: how many rows, memories, runs, calls and faults

MemoryAssumption ==
  /\ Command \in Jobs /\ KeepLast \in Nat \ {0}
  /\ Bounds \subseteq [rows : Nat, memories : Nat, runs : Nat, calls : Nat, faults : Nat]

VARIABLES
  channels,               \* the scopes of channels_infused
  log, alive, infused,    \* rows ever appended; those in the table; those marked
  memories, vectors,      \* memories and memory_embeddings, by order of creation
  digest,                 \* the digest file of each scope
  job, call, seeds,       \* consolidations, tool calls, the pass of the reconciler
  offered,                \* history: pairs the reconciler showed to its LLM
  read, reread,           \* history: rows read by an extraction, and read again
  late, cleared, renewed, \* history: arrived during a run; cleared on request, by /new
  overlap, runs, calls, faults, bound

vars == <<channels, log, alive, infused, memories, vectors, digest, job, call, seeds,
          offered, read, reread, late, cleared, renewed, overlap, runs, calls, faults, bound>>
env == <<channels, bound>>
hist == <<log, alive, infused, late, cleared, renewed>>
mem == <<memories, vectors>>
recon == <<seeds, offered>>
reading == <<read, reread, overlap>>
counts == <<runs, calls, faults>>

Ids == 1..Len(log)
Active == {k \in 1..Len(memories) : ~memories[k].deleted}
Deleted(S) == [k \in 1..Len(memories) |-> [memories[k] EXCEPT !.deleted = @ \/ k \in S]]
Recent(s) == {k \in Active : memories[k].scope = s}

NoJob == [stage |-> "idle", batch |-> {}, scope |-> NoScope, facts |-> {}, shows |-> {},
          then |-> NoScope]
NoCall == [stage |-> "idle", topic |-> NoTopic, hit |-> 0, scope |-> NoScope, shows |-> {}]
Running(j) == job[j].stage # "idle"
OneFails == faults < bound.faults /\ faults' = faults + 1

(***************************************************************************)
(* The history                                                             *)
(***************************************************************************)
\* A turn appends a row of its scope: conversation, or the trail of its tools.
Say(s, kind) ==
  /\ Len(log) < bound.rows
  /\ log' = Append(log, [scope |-> s, kind |-> kind])
  /\ alive' = alive \cup {Len(log')}
  /\ late' = IF \E j \in Jobs : Running(j) THEN late \cup {Len(log')} ELSE late
  /\ UNCHANGED <<env, infused, cleared, renewed, mem, digest, job, call, recon, reading, counts>>

RowsOf(s) == {i \in alive : log[i].scope = s}
\* /clear, by itself.
Clear(s) ==
  /\ RowsOf(s) # {}
  /\ alive' = alive \ RowsOf(s) /\ cleared' = cleared \cup RowsOf(s)
  /\ UNCHANGED <<env, log, infused, late, renewed, mem, digest, job, call, recon, reading, counts>>

Pending == {i \in alive \ infused : log[i].scope \in channels /\ log[i].kind = "text"}
First(S) == {i \in S : \A k \in S : i <= k}

\* mark_infused: every row of the scope that is pending by then.
MarkedAll(s) == {i \in alive : log[i].scope \in channels}
Marked(s) == RowsOf(s)

\* trim: what is older than the KeepLast-th row of conversation of its scope.
Newer(i) == {k \in alive : k >= i /\ log[k].scope = log[i].scope /\ log[k].kind = "text"}
Trimmed == {i \in alive : \E c \in Newer(i) : c > i /\ Cardinality(Newer(c)) = KeepLast}

(***************************************************************************)
(* Consolidation                                                           *)
(***************************************************************************)
To(j, r) == job' = [job EXCEPT ![j] = r]
Scope(j) == job[j].scope
\* The rows of a conversation that the run still has to read.
Of(j, s) == {i \in job[j].batch : log[i].scope = s}

Load(j) ==
  /\ ~Running(j) /\ runs < bound.runs /\ runs' = runs + 1
  /\ \E then \in {NoScope} \cup (IF j = Command THEN Scopes ELSE {}) :
       IF Pending # {}
       THEN To(j, [NoJob EXCEPT !.stage = "extract", !.batch = Pending, !.then = then])
       ELSE To(j, [NoJob EXCEPT !.stage = IF then = NoScope THEN "idle" ELSE "clear",
                                !.then = then])
  /\ overlap' = (overlap \/ \E k \in Jobs \ {j} : Running(k))
  /\ UNCHANGED <<env, hist, mem, digest, call, recon, read, reread, calls, faults>>

\* The scopes go in the order of their first rows.  The LLM answers what is worth keeping of
\* one; an answer with no list aborts.
Facts == {facts \in SUBSET Topics : Len(memories) + Cardinality(facts) <= bound.memories}
Extract(j) ==
  /\ job[j].stage = "extract"
  /\ \E i \in First(job[j].batch), facts \in Facts :
       LET s == log[i].scope
       IN /\ To(j, [job[j] EXCEPT !.stage = "store", !.scope = s, !.facts = facts])
          /\ read' = read \cup Of(j, s) /\ reread' = reread \cup (read \cap Of(j, s))
  /\ UNCHANGED <<env, hist, mem, digest, call, recon, overlap, counts>>

NewMemory(t, s) == [topic |-> t, scope |-> s, deleted |-> FALSE, reconciled |-> FALSE]
StoreFact(j) ==
  /\ job[j].stage = "store" /\ Len(memories) < bound.memories
  /\ \E t \in job[j].facts :
       /\ memories' = Append(memories, NewMemory(t, Scope(j)))
       /\ vectors' = Append(vectors, t)
       /\ To(j, [job[j] EXCEPT !.facts = @ \ {t}])
  /\ UNCHANGED <<env, hist, digest, call, recon, reading, counts>>

\* DigestWriter.write: reads the recent ones, then writes the file (best effort).
LookRecent(j) ==
  /\ job[j].stage = "store" /\ job[j].facts = {}
  /\ To(j, [job[j] EXCEPT !.stage = "write", !.shows = Recent(Scope(j))])
  /\ UNCHANGED <<env, hist, mem, digest, call, recon, reading, counts>>
WriteDigest(j) ==
  /\ job[j].stage = "write"
  /\ \/ digest' = [digest EXCEPT ![Scope(j)] = job[j].shows] /\ UNCHANGED faults
     \/ OneFails /\ UNCHANGED digest
  /\ To(j, [job[j] EXCEPT !.stage = "mark"])
  /\ UNCHANGED <<env, hist, mem, call, recon, reading, runs, calls>>

MarkInfused(j) ==
  /\ job[j].stage = "mark"
  /\ infused' = infused \cup Marked(Scope(j))
  /\ LET rest == job[j].batch \ Of(j, Scope(j))
     IN To(j, [job[j] EXCEPT !.batch = rest, !.scope = NoScope,
                             !.stage = IF rest = {} THEN "trim" ELSE "extract"])
  /\ UNCHANGED <<env, log, alive, late, cleared, renewed, mem, digest, call, recon, reading, counts>>

Trim(j) ==
  /\ job[j].stage = "trim" /\ alive' = alive \ Trimmed
  /\ To(j, IF job[j].then = NoScope THEN NoJob ELSE [job[j] EXCEPT !.stage = "clear"])
  /\ UNCHANGED <<env, log, infused, late, cleared, renewed, mem, digest, call, recon, reading, counts>>

\* /new: once consolidated, the chat is cleared.
ClearAfter(j) ==
  /\ job[j].stage = "clear" /\ alive' = alive \ RowsOf(job[j].then)
  /\ renewed' = renewed \cup RowsOf(job[j].then)
  /\ To(j, NoJob)
  /\ UNCHANGED <<env, log, infused, late, cleared, mem, digest, call, recon, reading, counts>>

\* The LLM, the embedder or a store raises: the run ends there, nothing is trimmed
\* and /new clears nothing.
Abort(j) ==
  /\ Running(j) /\ job[j].stage # "write" /\ OneFails /\ To(j, NoJob)
  /\ UNCHANGED <<env, hist, mem, digest, call, recon, reading, runs, calls>>

(***************************************************************************)
(* The memory tool                                                         *)
(***************************************************************************)
Calling(c, r) == call' = [call EXCEPT ![c] = r]
Writing(c, s) == Calling(c, [NoCall EXCEPT !.stage = "look", !.scope = s])

\* create: search_with_scores, then update of the neighbour or a new memory.
Similar(t) == {k \in Active : vectors[k] = t}
SearchNeighbour(c) ==
  /\ call[c].stage = "idle" /\ calls < bound.calls /\ calls' = calls + 1
  /\ \E t \in Topics, s \in Scopes : \E hit \in Similar(t) \cup {0} :
       Calling(c, [NoCall EXCEPT !.stage = "found", !.topic = t, !.scope = s, !.hit = hit])
  /\ UNCHANGED <<env, hist, mem, digest, job, recon, reading, runs, faults>>
Create(c) ==
  /\ call[c].stage = "found" /\ call[c].hit = 0 /\ Len(memories) < bound.memories
  /\ memories' = Append(memories, NewMemory(call[c].topic, call[c].scope))
  /\ vectors' = Append(vectors, call[c].topic)
  /\ Writing(c, call[c].scope)
  /\ UNCHANGED <<env, hist, digest, job, recon, reading, counts>>

\* SQLiteMemoryRepository.update, with a content: only of an active memory, with its
\* embedding in the same transaction.
Update(k, t) ==
  IF memories[k].deleted THEN UNCHANGED mem
  ELSE memories' = [memories EXCEPT ![k].topic = t] /\ vectors' = [vectors EXCEPT ![k] = t]
Done(c, k) == IF memories[k].deleted THEN Calling(c, NoCall) ELSE Writing(c, memories[k].scope)
Merge(c) ==
  /\ call[c].stage = "found" /\ call[c].hit # 0
  /\ Update(call[c].hit, call[c].topic) /\ Done(c, call[c].hit)
  /\ UNCHANGED <<env, hist, digest, job, recon, reading, counts>>
UpdateCall(c) ==
  /\ call[c].stage = "idle" /\ calls < bound.calls /\ calls' = calls + 1
  /\ \E k \in 1..Len(memories), t \in Topics : Update(k, t) /\ Done(c, k)
  /\ UNCHANGED <<env, hist, digest, job, recon, reading, runs, faults>>
Delete(c) ==
  /\ call[c].stage = "idle" /\ calls < bound.calls /\ calls' = calls + 1
  /\ \E k \in Active : memories' = Deleted({k}) /\ Writing(c, memories[k].scope)
  /\ UNCHANGED <<env, hist, vectors, digest, job, recon, reading, runs, faults>>

CallLooks(c) ==
  /\ call[c].stage = "look"
  /\ Calling(c, [call[c] EXCEPT !.stage = "write", !.shows = Recent(call[c].scope)])
  /\ UNCHANGED <<env, hist, mem, digest, job, recon, reading, counts>>
CallWrites(c) ==
  /\ call[c].stage = "write" /\ Calling(c, NoCall)
  /\ digest' = [digest EXCEPT ![call[c].scope] = call[c].shows]
  /\ UNCHANGED <<env, hist, mem, job, recon, reading, counts>>

(***************************************************************************)
(* Reconciliation                                                          *)
(***************************************************************************)
\* One pass at a time: its seeds left, and procesados.
NoPass == [todo |-> {}, done |-> {}]
LoadUnreconciled ==
  /\ seeds = NoPass
  /\ seeds' = [NoPass EXCEPT !.todo = {k \in Active : ~memories[k].reconciled}]
  /\ seeds' # NoPass
  /\ UNCHANGED <<env, hist, mem, digest, job, call, offered, reading, counts>>

\* load_unreconciled reads a memory without its embedding, and a search with no
\* embedding finds nothing.
Loaded(k) == NoTopic
Neighbours(t) == IF t = NoTopic THEN {} ELSE Similar(t)
Cluster(k) == {n \in Neighbours(Loaded(k)) \ ({k} \cup seeds.done) :
                 memories[n].scope = memories[k].scope}

MarkReconciled(m, S) == [k \in DOMAIN m |-> [m[k] EXCEPT !.reconciled = @ \/ k \in S]]
\* What the LLM asks for, once parsed: which of those it read to drop, with merge or
\* supersede, and what a merge says of them.  No list is no action; downweight changes
\* neither.
Actions(S) == [drop : SUBSET S, into : Topics \cup {NoTopic}]
\* An exception leaves the cluster as it is, and only the seed as reconciled.
Decisions(k) ==
  LET nothing == [drop |-> {}, into |-> NoTopic]
      all == {k} \cup Cluster(k)
  IN {[do |-> nothing, marks |-> {k}]}
     \cup IF all = {k} THEN {} ELSE {[do |-> d, marks |-> all] : d \in Actions(all)}
Kept(d) == MarkReconciled(Deleted(d.do.drop), d.marks \ d.do.drop)
Apply(k, d) ==
  /\ memories' = IF d.do.into = NoTopic THEN Kept(d)
                 ELSE Append(Kept(d), [NewMemory(d.do.into, memories[k].scope) EXCEPT !.reconciled = TRUE])
  /\ vectors' = IF d.do.into = NoTopic THEN vectors ELSE Append(vectors, d.do.into)

Reconcile ==
  \E k \in First(seeds.todo) :
    /\ \E d \in Decisions(k) :
         /\ d.do.into # NoTopic => Len(memories) < bound.memories
         /\ Apply(k, d)
         /\ LET rest == seeds.todo \ d.marks
            IN seeds' = IF rest = {} THEN NoPass
                        ELSE [todo |-> rest, done |-> seeds.done \cup d.marks]
    /\ offered' = offered \cup {<<k, n>> : n \in Cluster(k)}
    /\ UNCHANGED <<env, hist, digest, job, call, reading, counts>>

Init ==
  /\ channels \in {Scopes} \cup {{s} : s \in Scopes}
  /\ bound \in Bounds
  /\ log = <<>> /\ alive = {} /\ infused = {} /\ memories = <<>> /\ vectors = <<>>
  /\ digest = [s \in Scopes |-> {}] /\ job = [j \in Jobs |-> NoJob]
  /\ call = [c \in Callers |-> NoCall] /\ seeds = NoPass /\ offered = {}
  /\ read = {} /\ reread = {} /\ late = {} /\ cleared = {} /\ renewed = {} /\ overlap = FALSE
  /\ runs = 0 /\ calls = 0 /\ faults = 0

JobStep(j) == \/ Load(j) \/ Extract(j) \/ StoreFact(j) \/ LookRecent(j) \/ WriteDigest(j)
              \/ MarkInfused(j) \/ Trim(j) \/ ClearAfter(j) \/ Abort(j)
CallStep(c) == SearchNeighbour(c) \/ Create(c) \/ Merge(c) \/ UpdateCall(c) \/ Delete(c)
               \/ CallLooks(c) \/ CallWrites(c)
Next == \/ \E s \in Scopes : Clear(s) \/ \E kind \in {"text", "tool"} : Say(s, kind)
        \/ \E j \in Jobs : JobStep(j)
        \/ \E c \in Callers : CallStep(c)
        \/ LoadUnreconciled \/ Reconcile
Spec == Init /\ [][Next]_vars

(***************************************************************************)
(* Properties                                                              *)
(***************************************************************************)
TypeOK ==
  /\ alive \subseteq Ids /\ infused \subseteq Ids /\ read \subseteq Ids
  /\ memories \in Seq([topic : Topics, scope : Scopes, deleted : BOOLEAN, reconciled : BOOLEAN])
  /\ \A j \in Jobs : job[j].stage \in {"extract", "store", "write", "mark"} => job[j].batch # {}
  /\ \A c \in Callers : call[c].hit \in 0..Len(memories)

\* The embedding of a memory is that of its content, deleted or not, whoever edits it
\* meanwhile: a search never answers with what a memory no longer says.
VectorsMatch == /\ TypeOK /\ Len(vectors) = Len(memories)
                /\ \A k \in 1..Len(memories) : vectors[k] = memories[k].topic

\* A message of a conversation that feeds the memory is marked, or leaves the history,
\* only after an extraction read it, unless it arrived while a run was on: a run that
\* fails half way, or another beside it, makes none be skipped.
NothingSkipped ==
  \A i \in Ids : /\ log[i].scope \in channels /\ log[i].kind = "text"
                 /\ i \in infused \/ i \notin alive
                 => i \in read \cup late \cup cleared

\* A trim leaves the last KeepLast messages of every conversation, however long the
\* trail of their tools.
LastMessages(s) == {i \in Ids : log[i].scope = s /\ log[i].kind = "text"
                      /\ Cardinality({k \in Ids : k > i /\ log[k].scope = s
                                        /\ log[k].kind = "text"}) < KeepLast}
ContextIsKept ==
  \A s \in Scopes : LastMessages(s) \subseteq alive \cup cleared \cup renewed

\* A message is read again only after a run that failed or beside another one.
ReadOnce == reread # {} => faults > 0 \/ overlap

\* docs/flujo_ejecucion.md:302 "with `infused=1` it was already processed in a
\* previous run".
\* Promised, and not kept by the code: README, section 5.
InfusedWasRead ==
  \A i \in infused : log[i].kind = "text" => i \in read

\* reconcile_memory.py:18-20: the neighbours of a seed over the threshold go with it to
\* the LLM.  For memories that nobody edited.
SimilarAreReconsidered ==
  calls = 0 => \A k, n \in Active :
    /\ k < n /\ vectors[k] = vectors[n] /\ memories[k].scope = memories[n].scope
    /\ memories[k].reconciled /\ memories[n].reconciled
    => <<k, n>> \in offered \/ <<n, k>> \in offered
=============================================================================
