---------------------------- MODULE KnowledgeIndex ----------------------------
(***************************************************************************)
(* The index of a folder of documents (knowledge/).                        *)
(*                                                                         *)
(* A document is cut into windows of words; each window is a row of chunks *)
(* and a row of chunk_embeddings, and files_indexed keeps the mtime it was *)
(* read at.  Indexing, ingesting and deleting are calls of turns of any    *)
(* agent and of the command line: each has a connection of its own, reads  *)
(* what it will delete and then writes in one transaction, and SQLite lets *)
(* one of them write at a time.                                            *)
(*                                                                         *)
(* A document is its version, which stands for its mtime too; headers and  *)
(* pages only choose where windows begin.  There is one document source:   *)
(* which source a call means is settled before it starts.                  *)
(***************************************************************************)
EXTENDS Integers, Sequences, FiniteSets, FiniteSetsExt

CONSTANTS
  Files,          \* names a document of the folder can have
  Glob,           \* those the glob of the source matches
  Words,          \* version -> its number of words
  Size, Overlap,  \* chunk_size and chunk_overlap
  Cap,            \* max_total_chunks of an answer
  Workers,        \* calls that run at the same time
  Nobody,
  MaxChanges, MaxCalls  \* bounds

KnowledgeAssumption ==
  /\ Files \subseteq Nat \ {0} /\ Glob \subseteq Files /\ Nobody \notin Workers
  /\ Words \in Seq(Nat) /\ 1 \in DOMAIN Words
  /\ Size \in Nat \ {0} /\ Overlap \in Nat /\ Cap \in Nat \ {0}
  /\ MaxChanges \in Nat /\ MaxCalls \in Nat

VARIABLES
  disk,     \* the folder: file -> version, or Absent
  db,       \* what is committed: chunks, vectors (ids of chunks), rows of files_indexed
  writer,   \* the call whose transaction is open
  tx,       \* the database as that transaction sees it
  call,     \* what each call is doing
  calls,    \* calls so far: the ids of the chunks of one never come back
  changes,  \* changes of the folder by its owner so far
  external  \* a source whose database the user builds: is its schema right, was it checked

vars == <<disk, db, writer, tx, call, calls, changes, external>>

Versions == DOMAIN Words
Absent == 0
NoRow == [mtime |-> Absent, count |-> 0]
Outside == 0  \* a chunk of a source that is not the folder

(***************************************************************************)
(* A document and its chunks                                               *)
(***************************************************************************)
\* A chunk starts every Size - Overlap words, at least one further on.
Stride == IF Size > Overlap THEN Size - Overlap ELSE 1
Starts(v) == {i \in 0..(Words[v] - 1) : i % Stride = 0}
Window(v, i) == (i + 1)..(IF i + Size < Words[v] THEN i + Size ELSE Words[v])
ChunksOf(d, f) == {c \in d.chunks : c.file = f}

EmptyDb == [chunks |-> {}, vectors |-> {}, rows |-> [f \in Files |-> NoRow]]

\* Mutant: chunks go by the ids too.
WipeById(d, f, ids) == [d EXCEPT !.vectors = @ \ ids, !.chunks = @ \ ids]

\* The embeddings go by the ids that were read, the chunks by their file.
Wipe(d, f, ids) ==
  [d EXCEPT !.vectors = @ \ ids, !.chunks = {c \in @ : c.file # f}]

\* A chunk whose embedding failed is dropped; the row counts the others.
Filed(d, f, v, kept) ==
  [d EXCEPT !.chunks = @ \cup kept, !.vectors = @ \cup kept,
            !.rows[f] = [mtime |-> v, count |-> Cardinality(kept)]]

Unfiled(d, f, ids) == [Wipe(d, f, ids) EXCEPT !.rows[f] = NoRow]

(***************************************************************************)
(* Calls                                                                   *)
(***************************************************************************)
Idle == [op |-> "idle", todo |-> {}, seen |-> [f \in Files |-> Absent], file |-> Outside,
         version |-> Absent, ids |-> {}, physical |-> FALSE, touched |-> {}]

Init ==
  /\ disk \in [Files -> {Absent, 1}] /\ \A f \in Files \ Glob : disk[f] = Absent
  /\ db = EmptyDb /\ tx = EmptyDb /\ writer = Nobody
  /\ call = [w \in Workers |-> Idle] /\ calls = 0 /\ changes = 0
  /\ external = [good |-> TRUE, validated |-> FALSE]

Becomes(w, c) == call' = [call EXCEPT ![w] = c]
First(S) == {f \in S : \A g \in S : f <= g}
\* Files somebody else changed while a pass over the folder runs.
Touch(f, w) ==
  [u \in Workers |-> IF u # w /\ call[u].op # "idle" THEN [call[u] EXCEPT !.touched = @ \cup {f}]
                     ELSE call[u]]
Changed(f, w, c) == call' = [Touch(f, w) EXCEPT ![w] = c]
Starting(w) == call[w].op = "idle" /\ calls < MaxCalls /\ calls' = calls + 1
Outsiders == <<changes, external>>

\* index: the files the glob matches, in order, and the rows as they are now.
StartIndex(w) ==
  /\ Starting(w)
  /\ Becomes(w, [Idle EXCEPT !.op = "index", !.seen = [f \in Files |-> db.rows[f].mtime],
                   !.todo = {f \in Glob : disk[f] # Absent}])
  /\ UNCHANGED <<disk, db, writer, tx, Outsiders>>

\* ingest: the document is copied over the one of that name, with its mtime.
StartIngest(w) ==
  /\ Starting(w)
  /\ \E f \in Files, v \in Versions :
       /\ disk' = [disk EXCEPT ![f] = v]
       /\ Changed(f, w, [Idle EXCEPT !.op = "ingest", !.todo = {f}])
  /\ UNCHANGED <<db, writer, tx, Outsiders>>

\* A file of the pass: gone, unchanged or unreadable, it is left; otherwise it is
\* read and the ids of its old chunks are.  ingest reads whatever the mtime.
Skips(c, f) ==
  \/ disk[f] = Absent
  \/ c.op = "index" /\ c.seen[f] = disk[f]

NextFile(c, f) == [c EXCEPT !.todo = @ \ {f}, !.file = Outside, !.ids = {}]

Pass(w) ==
  /\ call[w].op \in {"index", "ingest"} /\ call[w].file = Outside
  /\ LET c == call[w] IN
     \E f \in First(c.todo) :
       \/ Skips(c, f) /\ Becomes(w, NextFile(c, f))
       \/ ~Skips(c, f) /\ Becomes(w, [NextFile(c, f) EXCEPT !.touched = @ \cup {f}])  \* chunkear_archivo raises
       \/ ~Skips(c, f) /\ Becomes(w, [c EXCEPT !.file = f, !.version = disk[f], !.ids = ChunksOf(db, f)])
  /\ UNCHANGED <<disk, db, writer, tx, calls, Outsiders>>

\* The first DELETE opens the transaction; each chunk is embedded inside it.
\* An embedding may fail on its own.
WriteFile(w) ==
  /\ call[w].file # Outside /\ call[w].op \in {"index", "ingest"} /\ writer = Nobody
  /\ writer' = w
  /\ LET c == call[w] IN
     \E embedded \in SUBSET Starts(c.version) :
       tx' = Filed(Wipe(db, c.file, c.ids), c.file, c.version,
                   {[file |-> c.file, version |-> c.version, at |-> i, by |-> calls, w |-> w] : i \in embedded})
  /\ UNCHANGED <<disk, db, call, calls, Outsiders>>

Commit(w) ==
  /\ writer = w /\ db' = tx /\ writer' = Nobody /\ tx' = EmptyDb
  /\ LET c == call[w] IN
     Changed(c.file, w, IF c.op = "delete" THEN [c EXCEPT !.todo = {}, !.version = Absent] ELSE NextFile(c, c.file))
  /\ UNCHANGED <<disk, calls, Outsiders>>

\* The pass is over: its statistics are told.
EndPass(w) ==
  /\ call[w].op \in {"index", "ingest"} /\ call[w].todo = {} /\ Becomes(w, Idle)
  /\ UNCHANGED <<disk, db, writer, tx, calls, Outsiders>>

(***************************************************************************)
(* Deleting                                                                *)
(***************************************************************************)
\* _resolver_file_path: a name that is not in the index deletes nothing.
StartDelete(w) ==
  /\ Starting(w)
  /\ \E f \in Files, physical \in BOOLEAN :
       /\ db.rows[f] # NoRow
       /\ Becomes(w, [Idle EXCEPT !.op = "delete", !.todo = {f}, !.physical = physical])
  /\ UNCHANGED <<disk, db, writer, tx, Outsiders>>

ReadIds(w) ==
  /\ call[w].op = "delete" /\ call[w].file = Outside
  /\ \E f \in call[w].todo :
       Becomes(w, [call[w] EXCEPT !.file = f, !.ids = ChunksOf(db, f)])
  /\ UNCHANGED <<disk, db, writer, tx, calls, Outsiders>>

WriteDelete(w) ==
  /\ call[w].op = "delete" /\ call[w].file # Outside /\ call[w].todo # {} /\ writer = Nobody
  /\ writer' = w /\ tx' = Unfiled(db, call[w].file, call[w].ids)
  /\ UNCHANGED <<disk, db, call, calls, Outsiders>>

\* The file goes only when it had chunks, and with it what is on disk by now.
Unlink(w) ==
  /\ call[w].op = "delete" /\ call[w].file # Outside /\ call[w].todo = {}
  /\ LET c == call[w] IN
     IF c.physical /\ c.ids # {}
     THEN disk' = [disk EXCEPT ![c.file] = Absent] /\ Changed(c.file, w, Idle)
     ELSE Becomes(w, Idle) /\ UNCHANGED disk
  /\ UNCHANGED <<db, writer, tx, calls, Outsiders>>

\* A turn is cut, the database stays locked for 5 s, a process dies: the open
\* transaction is rolled back.
Fail(w) ==
  /\ call[w].op # "idle" /\ Becomes(w, Idle)
  /\ IF writer = w THEN writer' = Nobody /\ tx' = EmptyDb ELSE UNCHANGED <<writer, tx>>
  /\ UNCHANGED <<disk, db, calls, Outsiders>>

(***************************************************************************)
(* The owner of the folder, and searching                                  *)
(***************************************************************************)
Change ==
  /\ changes < MaxChanges /\ changes' = changes + 1
  /\ \E f \in Files, v \in {Absent} \cup Versions :
       /\ v # disk[f] /\ disk' = [disk EXCEPT ![f] = v]
       /\ call' = Touch(f, Nobody)
  /\ UNCHANGED <<db, writer, tx, calls, external>>

Rebuild ==
  /\ changes < MaxChanges /\ changes' = changes + 1
  /\ external' = [external EXCEPT !.good = ~@]
  /\ UNCHANGED <<disk, db, writer, tx, call, calls>>

\* The nearest vectors, as many as asked for; the join drops those of no chunk.
Found(k) ==
  {V \cap db.chunks : V \in {W \in SUBSET db.vectors : Cardinality(W) = Min({k, Cardinality(db.vectors)})}}

\* The schema is looked at until it was right once; a source that raises is left out.
Checked == external.validated \/ external.good
Others(k) == IF external.good THEN {[file |-> Outside, at |-> i] : i \in 1..k} ELSE {}

\* knowledge_search: every source is asked, the best Cap are kept, and only then
\* those of the source that was asked for.
Answers(k, only) ==
  UNION {LET all == {[file |-> c.file, at |-> c.at] : c \in C} \cup Others(k)
         IN {IF only THEN {c \in B : c.file # Outside} ELSE B :
               B \in {A \in SUBSET all : Cardinality(A) = Min({Cap, Cardinality(all)})}} : C \in Found(k)}

Search ==
  /\ external' = [external EXCEPT !.validated = Checked]
  /\ UNCHANGED <<disk, db, writer, tx, call, calls, changes>>

\* The operations of the tool that write.
Manage(w) == StartIndex(w) \/ StartIngest(w) \/ StartDelete(w)

Next ==
  \/ \E w \in Workers :
       \/ Manage(w)
       \/ Pass(w) \/ WriteFile(w) \/ Commit(w) \/ EndPass(w)
       \/ ReadIds(w) \/ WriteDelete(w) \/ Unlink(w) \/ Fail(w)
  \/ Change \/ Rebuild \/ Search

Spec == Init /\ [][Next]_vars

(***************************************************************************)
(* What is promised                                                        *)
(***************************************************************************)
\* The three tables agree after every commit, whatever ran at the same time: the
\* chunks of a file are those its row counts, all of the version its row names
\* and written by one call, each has its embedding, and between them the windows
\* of a file that lost no embedding hold every word.
TablesAgree ==
  /\ db.chunks \subseteq db.vectors
  /\ \A f \in Files :
       LET C == ChunksOf(db, f) IN
       /\ Cardinality(C) = db.rows[f].count
       /\ \A c \in C : c.version = db.rows[f].mtime
       /\ Cardinality({<<c.by, c.w>> : c \in C}) <= 1
       /\ (db.rows[f] # NoRow /\ {c.at : c \in C} = Starts(db.rows[f].mtime)) =>
            UNION {Window(c.version, c.at) : c \in C} = 1..Words[db.rows[f].mtime]

\* A step: a pass that ends has every file of the glob it could read in the version
\* that lies in the folder, unless somebody changed that file meanwhile.
IndexIsFresh ==
  \A w \in Workers :
    (call[w].op = "index" /\ call[w].todo = {} /\ call'[w] = Idle) =>
      \A f \in Glob \ call[w].touched : disk[f] # Absent => db.rows[f].mtime = disk[f]

\* A search of the folder gives as many chunks as it was asked for while there
\* are so many: the windows of a document that was taken away are not in the way.
\* Promised, and not kept by the code: README, section 5.
SearchIsFull ==
  \A k \in 1..2 : \A C \in Found(k) : Cardinality(C) = Min({k, Cardinality(db.chunks)})
===============================================================================
