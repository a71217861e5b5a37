----------------------------- MODULE FaceRegistry -----------------------------
(***************************************************************************)
(* Photos and the registry of known faces (perception/).                   *)
(*                                                                         *)
(* A photo is matched face by face against faces.db and leaves the         *)
(* embeddings of its faces in history.db; the tools of a turn enrol a face *)
(* by its reference, forget a person and merge two.  A tool reads first    *)
(* and then writes in one transaction: the check and the write are two     *)
(* steps, and the turns of all the agents share the registry.              *)
(*                                                                         *)
(* An embedding is a point; the distance of two points says how alike the  *)
(* faces are.  Names and other details of a person are left out, and so is *)
(* the description of the scene.                                           *)
(***************************************************************************)
EXTENDS Integers, Sequences, FiniteSets, FiniteSetsExt, Functions

CONSTANTS
  Points,                \* embeddings
  MatchAt, AmbiguousAt,  \* the distances of the two thresholds
  K,                     \* neighbours asked of the index
  Chats, Private,        \* chats with photos, and those of one person
  Turns,                 \* turns that use the tools at the same time
  None,
  MaxPhotos, MaxFaces, MaxEnrolled  \* bounds

FaceRegistryAssumption ==
  /\ Points \subseteq Nat /\ MatchAt \in Nat /\ AmbiguousAt \in Nat /\ MatchAt <= AmbiguousAt
  /\ K \in Nat \ {0} /\ Private \subseteq Chats
  /\ MaxPhotos \in Nat /\ MaxFaces \in Nat \ {0} /\ MaxEnrolled \in Nat

VARIABLES
  persons,  \* person -> category and embeddings_count
  rows,     \* person_embeddings: embedding -> person
  vecs,     \* person_embeddings_vec: embedding -> point
  photos,   \* the photos of the history; the index is the history id
  look,     \* history id -> what the analysis of that photo has found so far
  metadata, \* message_face_metadata: history ids whose faces can be referred to
  turn,     \* what a tool checked and has not written yet
  enrolled  \* embeddings enrolled so far: ids are never used again

registry == <<persons, rows, vecs>>
vars == <<registry, photos, look, metadata, turn, enrolled>>

Person == 1..MaxEnrolled
Embedding == 1..MaxEnrolled
Without(f, S) == Restrict(f, DOMAIN f \ S)
With(f, k, v) == [x \in DOMAIN f \cup {k} |-> IF x = k THEN v ELSE f[x]]
RowsOf(p) == {e \in DOMAIN rows : rows[e] = p}
NextId == enrolled + 1
Distance(x, y) == IF x > y THEN x - y ELSE y - x

(***************************************************************************)
(* find_matches, and the status of a face                                  *)
(***************************************************************************)
\* The index answers K embeddings; the join drops those of nobody.
Nearest(x) ==
  {N \in kSubset(Min({K, Cardinality(DOMAIN vecs)}), DOMAIN vecs) :
     \A e \in N, f \in DOMAIN vecs \ N : Distance(vecs[e], x) <= Distance(vecs[f], x)}
Known(N) == {e \in N : e \in DOMAIN rows /\ rows[e] \in DOMAIN persons}
Closest(N, x) == {e \in N : \A f \in N : Distance(vecs[e], x) <= Distance(vecs[f], x)}

\* categoria is that of the best candidate, however far it is.
Status(d) == IF d <= MatchAt THEN "matched" ELSE IF d <= AmbiguousAt THEN "ambiguous" ELSE "unknown"
Seen(e, x) == [status |-> Status(Distance(vecs[e], x)), categoria |-> persons[rows[e]].categoria]
Stranger == [status |-> "unknown", categoria |-> None]
Matches(x) ==
  UNION {IF Known(N) = {} THEN {Stranger} ELSE {Seen(e, x) : e \in Closest(Known(N), x)}
         : N \in Nearest(x)}

(***************************************************************************)
(* ProcessPhotoUseCase                                                     *)
(***************************************************************************)
PhotoArrives(c, faces) ==
  /\ Len(photos) < MaxPhotos
  /\ photos' = Append(photos, [chat |-> c, faces |-> faces])
  /\ look' = Append(look, <<>>)
  /\ UNCHANGED <<registry, metadata, turn, enrolled>>

MatchFace(h) ==
  /\ Len(look[h]) < Len(photos[h].faces)
  /\ \E m \in Matches(photos[h].faces[Len(look[h]) + 1]) :
       look' = [look EXCEPT ![h] = Append(@, m)]
  /\ UNCHANGED <<registry, photos, metadata, turn, enrolled>>

SaveMetadata(h) ==
  /\ h \notin metadata /\ photos[h].faces # <<>> /\ Len(look[h]) = Len(photos[h].faces)
  /\ metadata' = metadata \cup {h}
  /\ UNCHANGED <<registry, photos, look, turn, enrolled>>

\* What the text says: nothing of an ignored face; the reference, only in private.
Listed(h) == {i \in DOMAIN look[h] : look[h][i].categoria # "ignorada"}
Offered(h) == {i \in Listed(h) : photos[h].chat \in Private /\ look[h][i].status # "matched"}

(***************************************************************************)
(* The tools                                                               *)
(***************************************************************************)
\* resolve_face_ref, asked with the id of the user: the photos of his own chat, never those
\* of a group.
Refs(c) == {ref \in metadata \X (1..MaxFaces) :
              photos[ref[1]].chat = c /\ ref[2] \in DOMAIN photos[ref[1]].faces}
Face(ref) == photos[ref[1]].faces[ref[2]]

Register(ref, categoria) ==
  /\ NextId <= MaxEnrolled
  /\ persons' = With(persons, NextId, [categoria |-> categoria, count |-> 1])
  /\ rows' = With(rows, NextId, NextId) /\ vecs' = With(vecs, NextId, Face(ref))
  /\ enrolled' = NextId
  /\ UNCHANGED <<photos, look, metadata, turn>>
RegisterFace(t, c) == turn[t] = None /\ \E ref \in Refs(c) : Register(ref, None)
SkipFace(t, c) == turn[t] = None /\ \E ref \in Refs(c) : Register(ref, "ignorada")

Checks(t, checked) ==
  /\ turn[t] = None /\ turn' = [turn EXCEPT ![t] = checked]
  /\ UNCHANGED <<registry, photos, look, metadata, enrolled>>
Writes(t, op) ==
  /\ turn[t] # None /\ turn[t].op = op /\ turn' = [turn EXCEPT ![t] = None]
  /\ UNCHANGED <<photos, look, metadata>>

AddCheck(t, c) == \E p \in DOMAIN persons, ref \in Refs(c) :
  Checks(t, [op |-> "add", person |-> p, ref |-> ref])
AddWrite(t) ==
  /\ Writes(t, "add") /\ NextId <= MaxEnrolled /\ enrolled' = NextId
  /\ LET p == turn[t].person
     IN /\ rows' = With(rows, NextId, p) /\ vecs' = With(vecs, NextId, Face(turn[t].ref))
        /\ persons' = IF p \in DOMAIN persons THEN [persons EXCEPT ![p].count = @ + 1] ELSE persons

\* The ids of the vectors are read before the transaction begins.
ForgetCheck(t) == \E p \in DOMAIN persons :
  Checks(t, [op |-> "forget", person |-> p, embs |-> RowsOf(p)])
OnlyTheRow(forgotten) == {}
Forgotten(forgotten) == forgotten.embs
ForgetWrite(t) ==
  /\ Writes(t, "forget")
  /\ vecs' = Without(vecs, Forgotten(turn[t]))
  /\ rows' = Without(rows, RowsOf(turn[t].person))
  /\ persons' = Without(persons, {turn[t].person})
  /\ UNCHANGED enrolled

MergeCheck(t) == \E s \in DOMAIN persons, d \in DOMAIN persons :
  s # d /\ Checks(t, [op |-> "merge", person |-> s, target |-> d])
Recount(n, total) == total
MergeWrite(t) ==
  /\ Writes(t, "merge")
  /\ LET s == turn[t].person
         d == turn[t].target
     IN /\ rows' = [e \in DOMAIN rows |-> IF rows[e] = s THEN d ELSE rows[e]]
        /\ persons' = Without([p \in DOMAIN persons |->
                        IF p = d THEN [persons[p] EXCEPT !.count = Recount(@, Cardinality(RowsOf(s) \cup RowsOf(d)))]
                                 ELSE persons[p]], {s})
  /\ UNCHANGED <<vecs, enrolled>>

NoPerson == [x \in {} |-> None]
Init ==
  /\ persons = NoPerson /\ rows = NoPerson /\ vecs = NoPerson
  /\ photos = <<>> /\ look = <<>> /\ metadata = {} /\ turn = [t \in Turns |-> None]
  /\ enrolled = 0

Tool(t) ==
  \/ \E c \in Private : RegisterFace(t, c)
  \/ \E c \in Private : SkipFace(t, c)
  \/ \E c \in Private : AddCheck(t, c)
  \/ AddWrite(t) \/ ForgetCheck(t) \/ ForgetWrite(t) \/ MergeCheck(t) \/ MergeWrite(t)
Next ==
  \/ \E c \in Chats, faces \in UNION {[1..n -> Points] : n \in 1..MaxFaces} : PhotoArrives(c, faces)
  \/ \E h \in DOMAIN look : MatchFace(h)
  \/ \E h \in DOMAIN look : SaveMetadata(h)
  \/ \E t \in Turns : Tool(t)
Spec == Init /\ [][Next]_vars

(***************************************************************************)
(* Properties                                                              *)
(***************************************************************************)
TypeOK ==
  /\ DOMAIN persons \subseteq Person /\ DOMAIN vecs \subseteq Embedding
  /\ DOMAIN rows \subseteq Embedding /\ \A e \in DOMAIN rows : rows[e] \in Person
  /\ \A e \in DOMAIN vecs : vecs[e] \in Points
  /\ metadata \subseteq DOMAIN look /\ DOMAIN look = DOMAIN photos

\* The three tables say the same: a person has the embeddings it counts, one at least,
\* and the index has the embeddings of the persons and no other.
RegistryAgrees ==
  /\ TypeOK
  /\ \A p \in DOMAIN persons : RowsOf(p) # {} /\ persons[p].count = Cardinality(RowsOf(p))
  /\ DOMAIN vecs = DOMAIN rows /\ \A e \in DOMAIN rows : rows[e] \in DOMAIN persons

\* A face that is in the registry is never a stranger, whatever else it holds.
KnownIsRecognised ==
  \A e \in DOMAIN rows : rows[e] \in DOMAIN persons => \A m \in Matches(vecs[e]) : m.status = "matched"

\* tools/face_tools.py:574 "so future photos containing the same face are silently
\* filtered (statues, paintings, strangers, etc.)": the same face, not any face nobody knows.
\* Promised, and not kept by the code: README, section 5.
OnlyIgnoredAreHidden ==
  \A h \in DOMAIN look : \A i \in DOMAIN look[h] : i \notin Listed(h) => look[h][i].status # "unknown"

\* sqlite_face_registry.py:413 "Elimina una persona y todos sus embeddings del registro".
\* Promised, and not kept by the code: README, section 5.
ForgottenIsGone == \A e \in DOMAIN vecs : e \in DOMAIN rows /\ rows[e] \in DOMAIN persons
=============================================================================
