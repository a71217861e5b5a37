---------------------------- MODULE TelegramProofs ----------------------------
(***************************************************************************)
(* Proofs about the Telegram channel, one section for each component, of   *)
(* the invariants MCTelegram runs: for any messages, albums, sends,        *)
(* updates and bounds, in place of those of telegram.cfg.  Each component  *)
(* has an inductive invariant of its own, which holds while it is the      *)
(* subject of the behavior.                                                *)
(***************************************************************************)
EXTENDS MCTelegram, Sequences, FiniteSetTheorems, SequenceTheorems, TLAPS

\* The subject of a behavior does not change.
LEMMA OneSubject == [Next]_vars => subject' = subject
BY DEF Next, vars

-----------------------------------------------------------------------------
(***************************************************************************)
(* MediaChat: the invariant                                                *)
(***************************************************************************)
Buffer == [open : BOOLEAN, held : BOOLEAN, armed : BOOLEAN]
Flushing == [on : BOOLEAN, held : BOOLEAN, got : BOOLEAN, members : SUBSET Members]

\* What the variables are.
MediaShapes ==
  /\ private \in BOOLEAN /\ vision \in BOOLEAN /\ busy \in BOOLEAN /\ faults \in Nat
  /\ repo \subseteq Members /\ held \subseteq Photos
  /\ flushed \in Seq(Albums) /\ Len(flushed) <= DedupMax
  /\ buffers \in [Albums -> Buffer] /\ flushing \in [Albums -> Flushing]
  /\ step \in [M!Items -> M!Stages] /\ turns \subseteq Albums \cup Photos \cup Others

\* Who asks for the slot of an album is its first member, before anybody holds it.
Asking(m) ==
  step[m] = "slot" =>
    /\ private /\ buffers[AlbumOf[m]].open /\ ~buffers[AlbumOf[m]].held
    /\ \A n \in Members : step[n] = "slot" /\ AlbumOf[n] = AlbumOf[m] => n = m

\* An album holds the slot while it gathers or while it flushes, not in both.
AlbumHolds(a) ==
  /\ buffers[a].held => buffers[a].open /\ ~flushing[a].held
  /\ flushing[a].held \/ flushing[a].got => flushing[a].on
  /\ a \in turns => flushing[a].held /\ flushing[a].got

PhotoHolds(p) ==
  /\ p \in held => step[p] \in {"placing", "processing", "turn"}
  /\ p \in turns => p \in held /\ step[p] = "turn"

\* The slot: its holders, and whoever has a turn is one of them.
Slot ==
  /\ \A x, y \in M!Holders : x = y
  /\ busy <=> M!Holders # {}
  /\ ~private => turns = {} /\ M!Holders = {}
  /\ turns \subseteq M!Holders

Slots == /\ \A m \in Members : Asking(m)
         /\ \A a \in Albums : AlbumHolds(a)
         /\ \A p \in Photos : PhotoHolds(p)
         /\ Slot

\* A member that was saved and not shown waits for its album.
Waits(m) ==
  m \in repo /\ step[m] = "done" /\ m \notin M!Shown =>
    LET a == AlbumOf[m]
    IN buffers[a].open \/ (flushing[a].on /\ (flushing[a].got => m \in flushing[a].members))

\* The row of an album comes before its turn.
AlbumShown(a) == a \in turns => flushing[a].members \subseteq M!Shown

\* A photo has its mark before its analysis; the rest, when it is through.
ItemShown(x) ==
  /\ x \in Photos /\ step[x] \in {"processing", "turn", "done"} => x \in M!Shown
  /\ x \in Others /\ (step[x] \in {"turn", "done"} \/ x \in turns) => x \in M!Shown

\* The members that could not be saved.
Unsaved == {m \in Members : step[m] # "new" /\ m \notin repo}

Traces == /\ \A m \in Members : Waits(m)
          /\ \A a \in Albums : AlbumShown(a)
          /\ \A x \in M!Items : ItemShown(x)
          /\ M!IsFiniteSet(Unsaved) /\ M!Cardinality(Unsaved) <= faults

MediaInv == MediaShapes /\ Slots /\ Traces
-----------------------------------------------------------------------------
(***************************************************************************)
(* What the actions do to the state                                        *)
(***************************************************************************)
\* The sizes the instance speaks of are those of the library.
LEMMA Sizes ==
  /\ \A S1 : M!IsFiniteSet(S1) <=> IsFiniteSet(S1)
  /\ \A S1 : M!Cardinality(S1) = Cardinality(S1)
BY DEF M!IsFiniteSet, IsFiniteSet, M!Cardinality, Cardinality

\* The handler of x moves and no other does.
LEMMA StageMoves ==
  ASSUME MediaShapes, NEW x \in M!Items, NEW s \in M!Stages, M!To(x, s)
  PROVE  /\ step' \in [M!Items -> M!Stages] /\ step'[x] = s
         /\ \A z \in M!Items \ {x} : step'[z] = step[z]
BY DEF MediaShapes, M!To

\* The ids of albums, members, photos and the rest are different.
LEMMA Kinds ==
  ASSUME M!MediaAssumption
  PROVE  /\ Members \subseteq M!Items /\ Photos \subseteq M!Items /\ Others \subseteq M!Items
         /\ \A m \in Members : AlbumOf[m] \in Albums /\ m \notin Photos /\ m \notin Others
         /\ \A p \in Photos : p \notin Others
         /\ \A a \in Albums : a \notin M!Items
BY DEF M!Items, M!MediaAssumption

\* A row more shows more.
LEMMA RowAdded ==
  ASSUME NEW r, rows' = rows \cup {r} PROVE M!Shown' = M!Shown \cup r.shows
BY DEF M!Shown

\* The mark of a photo gives way to its analysis, which shows it too.
LEMMA RowReplaced ==
  ASSUME NEW p, rows' = (rows \ {M!Mark(p)}) \cup {M!Full(p)} PROVE M!Shown' = M!Shown \cup {p}
<1>1. M!Mark(p).shows = {p} /\ M!Full(p).shows = {p}
  BY DEF M!Mark, M!Full
<1>2. ASSUME NEW z \in M!Shown PROVE z \in M!Shown'
  <2>1. PICK r \in rows : z \in r.shows
    BY <1>2 DEF M!Shown
  <2>2. CASE r = M!Mark(p)
    BY <1>1, <2>1, <2>2 DEF M!Shown
  <2>3. CASE r # M!Mark(p)
    BY <2>1, <2>3 DEF M!Shown
  <2> QED BY <2>2, <2>3
<1>3. p \in M!Shown'
  BY <1>1 DEF M!Shown
<1>4. ASSUME NEW z \in M!Shown' PROVE z \in M!Shown \cup {p}
  BY <1>1, <1>4 DEF M!Shown
<1> QED BY <1>2, <1>3, <1>4

-----------------------------------------------------------------------------
(***************************************************************************)
(* Types                                                                   *)
(***************************************************************************)
\* albums_flushed forgets the oldest.
LEMMA FlushedForgets ==
  ASSUME M!MediaAssumption, NEW s \in Seq(Albums), Len(s) <= DedupMax, NEW a \in Albums
  PROVE  M!Forget(Append(s, a)) \in Seq(Albums) /\ Len(M!Forget(Append(s, a))) <= DedupMax
<1>1. Append(s, a) \in Seq(Albums) /\ Len(Append(s, a)) = Len(s) + 1 /\ Len(s) \in Nat
  OBVIOUS
<1> DEFINE l == Append(s, a)
<1>2. CASE Len(l) > DedupMax
  <2>1. Tail(l) \in Seq(Albums) /\ Len(Tail(l)) = Len(l) - 1
    BY <1>1
  <2>2. Len(Tail(l)) <= DedupMax
    BY <1>1, <2>1, M!MediaAssumption DEF M!MediaAssumption
  <2> QED BY <1>2, <2>1, <2>2 DEF M!Forget
<1>3. CASE ~(Len(l) > DedupMax)
  <2>1. Len(l) <= DedupMax
    BY <1>1, <1>3, M!MediaAssumption DEF M!MediaAssumption
  <2> QED BY <1>1, <1>3, <2>1 DEF M!Forget
<1> QED BY <1>2, <1>3

\* Every step keeps the types.
LEMMA ShapesKept ==
  ASSUME M!MediaAssumption, MediaShapes, (M!Next \/ UNCHANGED M!vars) PROVE MediaShapes'
<1> USE DEF M!env, M!album
<1>1. ASSUME NEW a \in Albums, M!AlbumStep(a) PROVE MediaShapes'
  <2>1. CASE M!CloseAlbum(a)
    <3>1. /\ flushed' \in Seq(Albums) /\ Len(flushed') <= DedupMax
      BY <2>1, FlushedForgets DEF M!CloseAlbum, MediaShapes
    <3>2. M!NoBuffer \in Buffer
      BY DEF M!NoBuffer, Buffer
    <3>3. [M!NotFlushing EXCEPT !.on = TRUE, !.held = buffers[a].held] \in Flushing
      BY DEF M!NotFlushing, Flushing, MediaShapes, Buffer
    <3>4. buffers' \in [Albums -> Buffer] /\ flushing' \in [Albums -> Flushing]
      BY <2>1, <3>2, <3>3 DEF M!CloseAlbum, MediaShapes
    <3> QED BY <2>1, <3>1, <3>4 DEF M!CloseAlbum, MediaShapes
  <2>2. CASE M!Gather(a)
    <3>1. M!OfAlbum(a) \in SUBSET Members
      BY DEF M!OfAlbum, MediaShapes
    <3>2. flushing' \in [Albums -> Flushing]
      BY <2>2, <3>1 DEF M!Gather, MediaShapes, Flushing
    <3> QED BY <2>2, <3>2 DEF M!Gather, MediaShapes
  <2>3. CASE M!RecordAlbum(a)
    <3>1. M!NotFlushing \in Flushing
      BY DEF M!NotFlushing, Flushing
    <3> QED BY <2>3, <3>1 DEF M!RecordAlbum, MediaShapes
  <2> QED BY <1>1, <2>1, <2>2, <2>3 DEF M!AlbumStep
<1>2. ASSUME NEW m \in Members, M!MemberStep(m) PROVE MediaShapes'
  <2>0. m \in M!Items /\ AlbumOf[m] \in Albums
    BY Kinds
  <2>1. CASE M!Save(m)
    <3>1. step' \in [M!Items -> M!Stages]
      BY <2>0, <2>1, StageMoves DEF M!Save, M!Stages
    <3>2. repo' \subseteq Members /\ faults' \in Nat
      BY <2>1 DEF M!Save, M!Insert, MediaShapes
    <3> QED BY <2>1, <3>1, <3>2 DEF M!Save, MediaShapes
  <2>2. CASE M!Debounce(m)
    <3>1. step' \in [M!Items -> M!Stages]
      BY <2>0, <2>2, StageMoves DEF M!Debounce, M!Stages
    <3>2. M!NewBuffer \in Buffer
      BY DEF M!NewBuffer, M!NoBuffer, Buffer
    <3>3. M!Stored(AlbumOf[m]) \in [Albums -> Buffer]
      BY <2>0, <3>2 DEF M!Stored, MediaShapes
    <3>4. buffers' \in [Albums -> Buffer]
      <4>1. CASE buffers' = buffers \/ buffers' = M!Stored(AlbumOf[m])
        BY <3>3, <4>1 DEF MediaShapes
      <4>2. CASE buffers' = [M!Stored(AlbumOf[m]) EXCEPT ![AlbumOf[m]].armed = TRUE]
        BY <2>0, <3>3, <4>2 DEF Buffer
      <4> QED BY <2>2, <4>1, <4>2 DEF M!Debounce
    <3> QED BY <2>2, <3>1, <3>4 DEF M!Debounce, MediaShapes
  <2>3. CASE M!TakeSlot(m)
    <3>1. step' \in [M!Items -> M!Stages]
      BY <2>0, <2>3, StageMoves DEF M!TakeSlot, M!Stages
    <3>2. [open |-> TRUE, held |-> ~busy, armed |-> TRUE] \in Buffer
      BY DEF Buffer
    <3>3. buffers' \in [Albums -> Buffer]
      BY <2>3, <3>2 DEF M!TakeSlot, MediaShapes
    <3> QED BY <2>3, <3>1, <3>3 DEF M!TakeSlot, MediaShapes
  <2>4. CASE M!RecordStraggler(m)
    <3>1. step' \in [M!Items -> M!Stages]
      BY <2>0, <2>4, StageMoves DEF M!RecordStraggler, M!Stages
    <3> QED BY <2>4, <3>1 DEF M!RecordStraggler, MediaShapes
  <2> QED BY <1>2, <2>1, <2>2, <2>3, <2>4 DEF M!MemberStep
<1>3. ASSUME NEW p \in Photos, M!PhotoStep(p) PROVE MediaShapes'
  <2>0. p \in M!Items
    BY Kinds
  <2>1. step' \in [M!Items -> M!Stages]
    BY <1>3, <2>0, StageMoves DEF M!PhotoStep, M!StartPhoto, M!PlacePhoto, M!NoTurnForPhoto,
       M!InFlightPhoto,
                               M!EnrichPhoto, M!Stages, MediaShapes
  <2>2. held' \subseteq Photos /\ busy' \in BOOLEAN
    BY <1>3 DEF M!PhotoStep, M!StartPhoto, M!PlacePhoto, M!NoTurnForPhoto, M!LetGo, M!InFlightPhoto,
                M!EnrichPhoto, MediaShapes
  <2>3. /\ turns' \subseteq turns \cup {p}
        /\ UNCHANGED <<private, vision, faults, repo, flushed, buffers, flushing>>
    BY <1>3 DEF M!PhotoStep, M!StartPhoto, M!PlacePhoto, M!NoTurnForPhoto, M!InFlightPhoto,
       M!EnrichPhoto
  <2> QED BY <2>1, <2>2, <2>3 DEF MediaShapes
<1>4. ASSUME NEW o \in Others, M!OtherStep(o) PROVE MediaShapes'
  <2>0. o \in M!Items
    BY Kinds
  <2>1. step' \in [M!Items -> M!Stages]
    BY <1>4, <2>0, StageMoves DEF M!OtherStep, M!DepositFile, M!DepositVoice, M!Deposit, M!Receive,
                                  M!RecordInFlight, M!Stages
  <2>2. /\ turns' \subseteq turns \cup {o} /\ busy' \in {busy, TRUE}
        /\ UNCHANGED <<private, vision, faults, repo, flushed, buffers, flushing, held>>
    BY <1>4 DEF M!OtherStep, M!DepositFile, M!DepositVoice, M!Deposit, M!Receive, M!RecordInFlight
  <2> QED BY <2>1, <2>2 DEF MediaShapes
<1>5. ASSUME NEW t \in turns, M!Look(t) \/ M!EndTurn(t) PROVE MediaShapes'
  <2>1. CASE M!Look(t)
    BY <2>1 DEF M!Look, MediaShapes
  <2>2. CASE M!EndTurn(t)
    <3>1. step' \in [M!Items -> M!Stages]
      BY <2>2 DEF M!EndTurn, MediaShapes, M!Stages
    <3>2. M!NotFlushing \in Flushing
      BY DEF M!NotFlushing, Flushing
    <3>3. flushing' \in [Albums -> Flushing]
      BY <2>2, <3>2 DEF M!EndTurn, MediaShapes
    <3> QED BY <2>2, <3>1, <3>3 DEF M!EndTurn, MediaShapes
  <2> QED BY <1>5, <2>1, <2>2
<1>6. CASE UNCHANGED M!vars
  BY <1>6 DEF M!vars, MediaShapes
<1> QED BY <1>1, <1>2, <1>3, <1>4, <1>5, <1>6 DEF M!Next
-----------------------------------------------------------------------------
(***************************************************************************)
(* The slot                                                                *)
(***************************************************************************)
\* The slot stays with who holds it.
LEMMA SlotStays ==
  ASSUME Slot, M!Holders' = M!Holders, busy' = busy, private' = private, turns' \subseteq M!Holders,
         ~private => turns' = {}
  PROVE  Slot'
BY DEF Slot

\* It is taken by one when nobody held it.
LEMMA SlotTaken ==
  ASSUME NEW h, M!Holders' = {h}, busy' = TRUE, private', turns' \subseteq {h}
  PROVE  Slot'
BY DEF Slot

\* It is let go.
LEMMA SlotLetGo ==
  ASSUME M!Holders' = {}, busy' = FALSE, turns' = {}
  PROVE  Slot'
BY DEF Slot

\* Who asks for a slot still does while its album stays as it is.
LEMMA StillAsking ==
  ASSUME \A m \in Members : Asking(m), buffers' = buffers, private' = private,
         \A m \in Members : step'[m] = "slot" => step[m] = "slot"
  PROVE  \A m \in Members : Asking(m)'
BY DEF Asking

\* An album still holds it.
LEMMA AlbumsStillHold ==
  ASSUME \A a \in Albums : AlbumHolds(a), buffers' = buffers, flushing' = flushing,
         turns' \cap Albums \subseteq turns
  PROVE  \A a \in Albums : AlbumHolds(a)'
BY DEF AlbumHolds

\* A photo still holds it.
LEMMA PhotosStillHold ==
  ASSUME \A p \in Photos : PhotoHolds(p), held' = held, turns' \cap Photos \subseteq turns,
         \A p \in Photos : step'[p] = step[p]
  PROVE  \A p \in Photos : PhotoHolds(p)'
BY DEF PhotoHolds

\* Closing an album hands what it held to its task.
LEMMA SlotsClose ==
  ASSUME M!MediaAssumption, MediaShapes, Slots, NEW a \in Albums, M!CloseAlbum(a) PROVE Slots'
<1> USE DEF M!env
<1>1. /\ UNCHANGED <<private, step, held, busy, turns>>
      /\ buffers[a].armed /\ ~flushing[a].on
      /\ \A m \in Members : AlbumOf[m] = a => step[m] # "slot"
  BY DEF M!CloseAlbum
<1>2. /\ \A b \in Albums \ {a} : buffers'[b] = buffers[b] /\ flushing'[b] = flushing[b]
      /\ ~buffers'[a].held /\ ~buffers'[a].open
      /\ flushing'[a].on /\ flushing'[a].held = buffers[a].held /\ ~flushing'[a].got
  BY DEF M!CloseAlbum, MediaShapes, M!NoBuffer, M!NotFlushing
<1>3. ~flushing[a].held /\ a \notin turns
  BY <1>1 DEF Slots, AlbumHolds
<1>4. \A m \in Members : Asking(m)'
  BY <1>1, <1>2, Kinds DEF Slots, Asking
<1>5. \A b \in Albums : AlbumHolds(b)'
  BY <1>1, <1>2, <1>3 DEF Slots, AlbumHolds
<1>6. \A p \in Photos : PhotoHolds(p)'
  BY <1>1 DEF Slots, PhotoHolds
<1>7. Slot'
  <2>1. M!Holders' = M!Holders
    BY <1>1, <1>2, <1>3 DEF M!Holders
  <2> QED BY <1>1, <2>1, SlotStays DEF Slots, Slot
<1> QED BY <1>4, <1>5, <1>6, <1>7 DEF Slots

\* Its task has the turn if it has the slot.
LEMMA SlotsFlush ==
  ASSUME M!MediaAssumption, MediaShapes, Slots, NEW a \in Albums,
    M!Gather(a) \/ M!RecordAlbum(a) PROVE Slots'
<1> USE DEF M!env
<1>1. UNCHANGED <<private, buffers, step, held, busy>>
  BY DEF M!Gather, M!RecordAlbum
<1>2. \A m \in Members : Asking(m)'
  BY <1>1, StillAsking DEF Slots
<1>3. CASE M!Gather(a)
  <2>1. /\ turns' = turns /\ flushing[a].on
        /\ \A b \in Albums \ {a} : flushing'[b] = flushing[b]
        /\ flushing'[a].on = flushing[a].on /\ flushing'[a].held = flushing[a].held
        /\ flushing'[a].got
    BY <1>3 DEF M!Gather, MediaShapes, Flushing
  <2>2. \A b \in Albums : AlbumHolds(b)'
    BY <1>1, <2>1 DEF Slots, AlbumHolds
  <2>3. \A p \in Photos : PhotoHolds(p)'
    BY <1>1, <2>1, PhotosStillHold DEF Slots
  <2>4. M!Holders' = M!Holders
    BY <1>1, <2>1 DEF M!Holders
  <2> QED BY <1>1, <1>2, <2>1, <2>2, <2>3, <2>4, SlotStays DEF Slots, Slot
<1>4. CASE M!RecordAlbum(a) /\ M!AlbumTurns(a)
  <2>1. /\ flushing' = flushing /\ turns' = turns \cup {a}
        /\ flushing[a].got /\ flushing[a].held /\ private
    BY <1>4 DEF M!RecordAlbum, M!AlbumTurns
  <2>2. \A b \in Albums : AlbumHolds(b)'
    BY <1>1, <2>1 DEF Slots, AlbumHolds
  <2>3. \A p \in Photos : PhotoHolds(p)'
    BY <1>1, <2>1, Kinds DEF Slots, PhotoHolds
  <2>4. M!Holders' = M!Holders /\ a \in M!Holders
    BY <1>1, <2>1, Kinds DEF M!Holders
  <2> QED BY <1>1, <1>2, <2>1, <2>2, <2>3, <2>4, SlotStays DEF Slots, Slot
<1>5. CASE M!RecordAlbum(a) /\ ~M!AlbumTurns(a)
  <2>1. /\ turns' = turns /\ a \notin turns
        /\ \A b \in Albums \ {a} : flushing'[b] = flushing[b]
        /\ ~flushing'[a].on /\ ~flushing'[a].held /\ ~flushing'[a].got
    BY <1>5 DEF M!RecordAlbum, MediaShapes, M!NotFlushing
  <2>2. ~flushing[a].held
    <3>1. flushing[a].held => a \in M!Holders
      BY DEF M!Holders
    <3> QED BY <1>5, <3>1 DEF M!RecordAlbum, M!AlbumTurns, Slots, Slot
  <2>3. \A b \in Albums : AlbumHolds(b)'
    BY <1>1, <2>1 DEF Slots, AlbumHolds
  <2>4. \A p \in Photos : PhotoHolds(p)'
    BY <1>1, <2>1, PhotosStillHold DEF Slots
  <2>5. M!Holders' = M!Holders
    BY <1>1, <2>1, <2>2 DEF M!Holders
  <2> QED BY <1>1, <1>2, <2>1, <2>3, <2>4, <2>5, SlotStays DEF Slots, Slot
<1> QED BY <1>3, <1>4, <1>5

\* The first member of an album asks for the slot, and takes it if it is free.
LEMMA SlotsMember ==
  ASSUME M!MediaAssumption, MediaShapes, Slots, NEW m \in Members, M!MemberStep(m) PROVE Slots'
<1> USE DEF M!env, M!album
<1> DEFINE a == AlbumOf[m]
<1>0. m \in M!Items /\ a \in Albums /\ UNCHANGED <<private, flushing, held, turns>>
  BY Kinds DEF M!MemberStep, M!Save, M!Debounce, M!TakeSlot, M!RecordStraggler
<1>1. \A p \in Photos : PhotoHolds(p)'
  <2>1. \A p \in Photos : step'[p] = step[p]
    <3>1. \E s \in M!Stages : M!To(m, s)
      BY DEF M!MemberStep, M!Save, M!Debounce, M!TakeSlot, M!RecordStraggler, M!Stages
    <3> QED BY <1>0, <3>1, Kinds, StageMoves
  <2> QED BY <1>0, <2>1, PhotosStillHold DEF Slots
<1>2. CASE M!Save(m) \/ M!RecordStraggler(m)
  <2>1. UNCHANGED <<buffers, busy>>
    BY <1>2 DEF M!Save, M!RecordStraggler
  <2>2. \A n \in Members : step'[n] = "slot" => step[n] = "slot"
    <3>1. step \in [M!Items -> M!Stages]
      BY DEF MediaShapes
    <3>2. step' = [step EXCEPT ![m] = "saved"] \/ step' = [step EXCEPT ![m] = "done"]
      BY <1>2 DEF M!Save, M!RecordStraggler, M!To
    <3> QED BY <1>0, <3>1, <3>2, Kinds
  <2>3. \A n \in Members : Asking(n)'
    BY <1>0, <2>1, <2>2, StillAsking DEF Slots
  <2>4. \A b \in Albums : AlbumHolds(b)'
    BY <1>0, <2>1, AlbumsStillHold DEF Slots
  <2>5. M!Holders' = M!Holders
    BY <1>0, <2>1 DEF M!Holders
  <2> QED BY <1>0, <1>1, <2>1, <2>3, <2>4, <2>5, SlotStays DEF Slots, Slot
<1>3. CASE M!Debounce(m)
  <2>1. /\ busy' = busy /\ step'[m] \in {"straggler", "slot", "done"}
        /\ \A n \in M!Items \ {m} : step'[n] = step[n]
        /\ step'[m] = "slot" => private /\ ~buffers[a].open
    BY <1>0, <1>3 DEF M!Debounce, M!To, MediaShapes
  <2>2. /\ \A b \in Albums \ {a} : buffers'[b] = buffers[b]
        /\ buffers'[a].held => buffers[a].open /\ buffers[a].held
        /\ buffers[a].open => buffers'[a].open /\ buffers'[a].held = buffers[a].held
        /\ step'[m] = "slot" => buffers'[a].open
        /\ buffers[a].held => buffers[a].open
    <3>1. buffers[a].held => buffers[a].open
      BY <1>0 DEF Slots, AlbumHolds
    <3>2. CASE buffers' = buffers /\ step'[m] = "straggler"
      BY <1>0, <3>1, <3>2
    <3>3. CASE buffers' = M!Stored(a) /\ ~buffers[a].open
      BY <1>0, <3>1, <3>3 DEF M!Stored, M!NewBuffer, M!NoBuffer, MediaShapes
    <3>4. CASE buffers' = [M!Stored(a) EXCEPT ![a].armed = TRUE] /\ step'[m] = "done"
      <4>1. CASE buffers[a].open
        BY <1>0, <3>1, <3>4, <4>1 DEF M!Stored, MediaShapes, Buffer
      <4>2. CASE ~buffers[a].open
        <5>1. M!Stored(a) = [buffers EXCEPT ![a] = M!NewBuffer]
          BY <4>2 DEF M!Stored
        <5>2. /\ \A b \in Albums \ {a} : buffers'[b] = buffers[b]
              /\ ~buffers'[a].held
          BY <1>0, <3>4, <5>1 DEF M!NewBuffer, M!NoBuffer, MediaShapes
        <5> QED BY <3>1, <3>4, <4>2, <5>2
      <4> QED BY <4>1, <4>2
    <3> QED BY <1>0, <1>3, <3>2, <3>3, <3>4 DEF M!Debounce, M!To, MediaShapes
  <2>3. ASSUME NEW n \in Members PROVE Asking(n)'
    <3>1. CASE AlbumOf[n] # a
      BY <1>0, <2>1, <2>2, <3>1, Kinds DEF Slots, Asking
    <3>2. CASE AlbumOf[n] = a /\ step'[m] = "slot"
      <4>1. \A k \in Members : AlbumOf[k] = a => step[k] # "slot"
        BY <2>1, <3>2 DEF Slots, Asking
      <4>2. \A k \in Members : step'[k] = "slot" /\ AlbumOf[k] = a => k = m
        BY <2>1, <4>1, Kinds
      <4> QED BY <1>0, <2>1, <2>2, <3>2, <4>2 DEF Asking
    <3>3. CASE AlbumOf[n] = a /\ step'[m] # "slot"
      <4>1. \A k \in Members : step'[k] = "slot" => step[k] = "slot"
        BY <2>1, <3>3, Kinds
      <4> QED BY <1>0, <2>2, <3>3, <4>1 DEF Slots, Asking
    <3> QED BY <3>1, <3>2, <3>3
  <2>4. \A b \in Albums : AlbumHolds(b)'
    BY <1>0, <2>2 DEF Slots, AlbumHolds
  <2>5. M!Holders' = M!Holders
    <3>1. {b \in Albums : buffers'[b].held} = {b \in Albums : buffers[b].held}
      BY <2>2
    <3> QED BY <1>0, <3>1 DEF M!Holders
  <2> QED BY <1>0, <1>1, <2>1, <2>3, <2>4, <2>5, SlotStays DEF Slots, Slot
<1>4. CASE M!TakeSlot(m)
  <2>1. /\ private /\ buffers[a].open /\ ~buffers[a].held
        /\ \A n \in Members : step[n] = "slot" /\ AlbumOf[n] = a => n = m
    BY <1>4 DEF M!TakeSlot, Slots, Asking
  <2>2. /\ \A b \in Albums \ {a} : buffers'[b] = buffers[b]
        /\ buffers'[a].open /\ (buffers'[a].held <=> ~busy)
        /\ busy' = TRUE
        /\ step'[m] = "done" /\ \A n \in M!Items \ {m} : step'[n] = step[n]
    BY <1>0, <1>4 DEF M!TakeSlot, M!To, MediaShapes
  <2>3. \A n \in Members : Asking(n)'
    BY <1>0, <2>1, <2>2, Kinds DEF Slots, Asking
  <2>4. CASE busy
    <3>1. M!Holders' = M!Holders
      BY <1>0, <2>1, <2>2, <2>4 DEF M!Holders
    <3>2. \A b \in Albums : AlbumHolds(b)'
      BY <1>0, <2>1, <2>2, <2>4 DEF Slots, AlbumHolds
    <3>3. busy' = busy
      BY <2>2, <2>4
    <3> QED BY <1>0, <1>1, <2>3, <3>1, <3>2, <3>3, SlotStays DEF Slots, Slot
  <2>5. CASE ~busy
    <3>1. M!Holders = {}
      BY <2>5 DEF Slots, Slot
    <3>2. /\ \A b \in Albums : ~buffers[b].held /\ ~flushing[b].held
          /\ held = {} /\ turns = {}
      BY <3>1 DEF M!Holders, Slots, Slot
    <3>3. M!Holders' = {a}
      BY <1>0, <2>2, <2>5, <3>2 DEF M!Holders
    <3>4. \A b \in Albums : AlbumHolds(b)'
      BY <1>0, <2>2, <2>5, <3>2 DEF Slots, AlbumHolds
    <3>5. Slot'
      BY <1>0, <2>1, <2>2, <3>2, <3>3, SlotTaken
    <3> QED BY <1>1, <2>3, <3>4, <3>5 DEF Slots
  <2> QED BY <2>4, <2>5
<1> QED BY <1>2, <1>3, <1>4 DEF M!MemberStep

\* A photo keeps the slot it took until its turn ends or it has none.
LEMMA SlotsPhoto ==
  ASSUME M!MediaAssumption, MediaShapes, Slots, NEW p \in Photos, M!PhotoStep(p) PROVE Slots'
<1> USE DEF M!env, M!album
<1>0. /\ p \in M!Items /\ UNCHANGED <<private, buffers, flushing>>
      /\ turns \subseteq turns' /\ turns' \subseteq turns \cup {p}
      /\ step' \in [M!Items -> M!Stages] /\ step'[p] # "slot"
      /\ \A z \in M!Items \ {p} : step'[z] = step[z]
  BY Kinds DEF M!PhotoStep, M!StartPhoto, M!PlacePhoto, M!NoTurnForPhoto, M!InFlightPhoto,
     M!EnrichPhoto, M!To,
               MediaShapes, M!Stages
<1>1. \A m \in Members : Asking(m)'
  BY <1>0, Kinds, StillAsking DEF Slots
<1>2. \A a \in Albums : AlbumHolds(a)'
  BY <1>0, Kinds, AlbumsStillHold DEF Slots
<1>3. \A q \in Photos \ {p} : (q \in held' <=> q \in held) => PhotoHolds(q)'
  BY <1>0, Kinds DEF Slots, PhotoHolds
<1>4. CASE held' = held /\ busy' = busy /\ PhotoHolds(p)' /\ turns' \subseteq M!Holders
  <2>1. M!Holders' = M!Holders
    BY <1>0, <1>4, Kinds DEF M!Holders
  <2>2. ~private => turns' = {}
    BY <1>4 DEF Slots, Slot
  <2> QED BY <1>0, <1>1, <1>2, <1>3, <1>4, <2>1, <2>2, SlotStays DEF Slots
<1>5. CASE M!StartPhoto(p)
  <2>1. turns' = turns /\ step[p] = "new" /\ p \notin held /\ p \notin turns
    BY <1>5 DEF M!StartPhoto, Slots, PhotoHolds
  <2>2. CASE private /\ ~busy /\ vision
    <3>1. M!Holders = {}
      BY <2>2 DEF Slots, Slot
    <3>2. /\ \A b \in Albums : ~buffers[b].held /\ ~flushing[b].held
          /\ held = {} /\ turns = {}
      BY <3>1 DEF M!Holders, Slots, Slot
    <3>3. held' = {p} /\ busy' = TRUE /\ step'[p] = "placing"
      BY <1>0, <1>5, <2>2, <3>2 DEF M!StartPhoto, M!To, MediaShapes
    <3>4. M!Holders' = {p}
      BY <1>0, <2>1, <3>2, <3>3 DEF M!Holders
    <3>5. Slot'
      BY <1>0, <2>1, <2>2, <3>2, <3>3, <3>4, SlotTaken
    <3>6. PhotoHolds(p)'
      BY <2>1, <3>2, <3>3 DEF PhotoHolds
    <3> QED BY <1>1, <1>2, <1>3, <3>2, <3>3, <3>5, <3>6 DEF Slots
  <2>3. CASE ~(private /\ ~busy /\ vision)
    <3>1. held' = held /\ (busy' <=> busy) /\ busy' \in BOOLEAN
      BY <1>5, <2>3 DEF M!StartPhoto, MediaShapes
    <3>2. PhotoHolds(p)' /\ turns' \subseteq M!Holders
      BY <2>1, <3>1 DEF PhotoHolds, Slots, Slot
    <3> QED BY <1>4, <3>1, <3>2 DEF MediaShapes
  <2> QED BY <2>2, <2>3
<1>6. CASE M!PlacePhoto(p) \/ M!InFlightPhoto(p)
  <2>1. held' = held /\ busy' = busy /\ turns' = turns /\ p \notin turns
    BY <1>6 DEF M!PlacePhoto, M!InFlightPhoto, Slots, PhotoHolds
  <2>2. p \in held => step'[p] = "processing"
    BY <1>0, <1>6 DEF M!PlacePhoto, M!InFlightPhoto, M!To, MediaShapes
  <2> QED BY <1>4, <2>1, <2>2 DEF PhotoHolds, Slots, Slot
<1>7. CASE M!NoTurnForPhoto(p)
  <2>1. turns' = turns /\ p \notin turns /\ held' = held \ {p} /\ busy' = (busy /\ p \notin held)
    BY <1>7 DEF M!NoTurnForPhoto, M!LetGo, Slots, PhotoHolds
  <2>2. CASE p \in held
    <3>1. M!Holders = {p}
      BY <2>2 DEF M!Holders, Slots, Slot
    <3>2. /\ \A b \in Albums : ~buffers[b].held /\ ~flushing[b].held
          /\ held' = {} /\ turns = {}
      BY <2>1, <3>1, Kinds DEF M!Holders, Slots, Slot
    <3>3. M!Holders' = {}
      BY <1>0, <2>1, <3>2 DEF M!Holders
    <3>4. Slot'
      BY <2>1, <2>2, <3>2, <3>3, SlotLetGo
    <3>5. \A q \in Photos : PhotoHolds(q)'
      BY <2>1, <3>2 DEF PhotoHolds
    <3> QED BY <1>1, <1>2, <3>4, <3>5 DEF Slots
  <2>3. CASE p \notin held
    <3>1. held' = held /\ busy' = busy /\ PhotoHolds(p)'
      BY <2>1, <2>3 DEF PhotoHolds, MediaShapes
    <3> QED BY <1>4, <2>1, <3>1 DEF Slots, Slot
  <2> QED BY <2>2, <2>3
<1>8. CASE M!EnrichPhoto(p)
  <2>1. held' = held /\ busy' = busy
    BY <1>8 DEF M!EnrichPhoto
  <2>2. CASE private
    <3>1. p \in held /\ step'[p] = "turn"
      BY <1>0, <1>8, <2>2 DEF M!EnrichPhoto, M!To, MediaShapes
    <3>2. p \in M!Holders
      BY <3>1 DEF M!Holders
    <3> QED BY <1>0, <1>4, <2>1, <3>1, <3>2 DEF PhotoHolds, Slots, Slot
  <2>3. CASE ~private
    <3>1. p \notin held /\ turns' = turns /\ turns = {}
      BY <1>8, <2>3 DEF M!EnrichPhoto, M!Holders, Slots, Slot
    <3> QED BY <1>4, <2>1, <3>1 DEF PhotoHolds
  <2> QED BY <2>2, <2>3
<1> QED BY <1>5, <1>6, <1>7, <1>8 DEF M!PhotoStep

\* The turn of a message takes a free slot.
LEMMA SlotsOther ==
  ASSUME M!MediaAssumption, MediaShapes, Slots, NEW o \in Others, M!OtherStep(o) PROVE Slots'
<1> USE DEF M!env, M!album
<1>0. /\ o \in M!Items /\ UNCHANGED <<private, buffers, flushing, held>>
      /\ step' \in [M!Items -> M!Stages] /\ step'[o] # "slot"
      /\ \A z \in M!Items \ {o} : step'[z] = step[z]
      /\ turns' \subseteq turns \cup {o}
  BY Kinds DEF M!OtherStep, M!DepositFile, M!DepositVoice, M!Deposit, M!Receive, M!RecordInFlight,
     M!To, MediaShapes,
               M!Stages
<1>1. \A m \in Members : Asking(m)'
  BY <1>0, Kinds, StillAsking DEF Slots
<1>2. \A a \in Albums : AlbumHolds(a)'
  BY <1>0, Kinds, AlbumsStillHold DEF Slots
<1>3. \A p \in Photos : PhotoHolds(p)'
  BY <1>0, Kinds, PhotosStillHold DEF Slots
<1>4. CASE turns' = turns /\ busy' = busy
  <2>1. M!Holders' = M!Holders
    BY <1>0, <1>4 DEF M!Holders
  <2> QED BY <1>0, <1>1, <1>2, <1>3, <1>4, <2>1, SlotStays DEF Slots, Slot
<1>5. CASE private /\ ~busy /\ busy' = TRUE /\ turns' = turns \cup {o}
  <2>1. M!Holders = {}
    BY <1>5 DEF Slots, Slot
  <2>2. /\ \A b \in Albums : ~buffers[b].held /\ ~flushing[b].held
        /\ held = {} /\ turns = {}
    BY <2>1 DEF M!Holders, Slots, Slot
  <2>3. M!Holders' = {o}
    BY <1>0, <1>5, <2>2 DEF M!Holders
  <2>4. Slot'
    BY <1>0, <1>5, <2>2, <2>3, SlotTaken
  <2> QED BY <1>1, <1>2, <1>3, <2>4 DEF Slots
<1> QED BY <1>4, <1>5 DEF M!OtherStep, M!DepositFile, M!DepositVoice, M!Deposit, M!Receive,
  M!RecordInFlight

\* The slot goes with the turn.
LEMMA SlotsTurn ==
  ASSUME M!MediaAssumption, MediaShapes, Slots, NEW t \in turns,
    M!Look(t) \/ M!EndTurn(t) PROVE Slots'
<1> USE DEF M!env, M!album
<1>1. CASE M!Look(t)
  BY <1>1 DEF M!Look, Slots, Slot, M!Holders, Asking, AlbumHolds, PhotoHolds
<1>2. CASE M!EndTurn(t)
  <2>1. /\ UNCHANGED <<private, buffers>>
        /\ turns' = turns \ {t} /\ busy' = FALSE /\ held' = held \ {t}
        /\ \A z \in M!Items : step'[z] \in {step[z], "done"}
        /\ \A b \in Albums \ {t} : flushing'[b] = flushing[b]
        /\ t \in Albums => ~flushing'[t].on /\ ~flushing'[t].held /\ ~flushing'[t].got
    BY <1>2 DEF M!EndTurn, MediaShapes, M!NotFlushing
  <2>2. M!Holders = {t}
    BY DEF Slots, Slot
  <2>3. turns' = {} /\ held' = {}
    BY <2>1, <2>2 DEF M!Holders, Slots, Slot
  <2>4. \A b \in Albums : ~buffers[b].held /\ ~flushing'[b].held
    <3> SUFFICES ASSUME NEW b \in Albums PROVE ~buffers[b].held /\ ~flushing'[b].held
      OBVIOUS
    <3>1. CASE b = t
      BY <2>1, <3>1 DEF Slots, AlbumHolds
    <3>2. CASE b # t
      BY <2>1, <2>2, <3>2 DEF M!Holders
    <3> QED BY <3>1, <3>2
  <2>5. M!Holders' = {}
    BY <2>1, <2>3, <2>4 DEF M!Holders
  <2>6. Slot'
    BY <2>1, <2>3, <2>5, SlotLetGo
  <2>7. \A m \in Members : Asking(m)'
    BY <2>1, Kinds, StillAsking DEF Slots
  <2>8. \A b \in Albums : AlbumHolds(b)'
    BY <2>1, <2>3, <2>4 DEF Slots, AlbumHolds
  <2>9. \A p \in Photos : PhotoHolds(p)'
    BY <2>3 DEF PhotoHolds
  <2> QED BY <2>6, <2>7, <2>8, <2>9 DEF Slots
<1> QED BY <1>1, <1>2

\* Every step keeps the slot.
LEMMA SlotsKept ==
  ASSUME M!MediaAssumption, MediaShapes, Slots, (M!Next \/ UNCHANGED M!vars) PROVE Slots'
<1>1. CASE UNCHANGED M!vars
  BY <1>1 DEF M!vars, Slots, Slot, M!Holders, Asking, AlbumHolds, PhotoHolds
<1> QED
  BY <1>1, SlotsClose, SlotsFlush, SlotsMember, SlotsPhoto, SlotsOther, SlotsTurn
     DEF M!Next, M!AlbumStep
-----------------------------------------------------------------------------
(***************************************************************************)
(* The traces                                                              *)
(***************************************************************************)
\* Of what is shown nothing is lost.
LEMMA ShownGrows ==
  ASSUME (M!Next \/ UNCHANGED M!vars) PROVE M!Shown \subseteq M!Shown'
<1> USE DEF M!env, M!album
<1>1. CASE rows' = rows
  BY <1>1 DEF M!Shown
<1>2. CASE \E r : rows' = rows \cup {r}
  BY <1>2, RowAdded
<1>3. CASE \E p \in Photos : rows' = (rows \ {M!Mark(p)}) \cup {M!Full(p)}
  BY <1>3, RowReplaced
<1>4. ASSUME NEW a \in Albums, M!AlbumStep(a) PROVE rows' = rows \/ \E r : rows' = rows \cup {r}
  BY <1>4 DEF M!AlbumStep, M!CloseAlbum, M!Gather, M!RecordAlbum
<1>5. ASSUME NEW m \in Members, M!MemberStep(m) PROVE rows' = rows \/ \E r : rows' = rows \cup {r}
  BY <1>5 DEF M!MemberStep, M!Save, M!Debounce, M!TakeSlot, M!RecordStraggler, M!LateTrace
<1>6. ASSUME NEW p \in Photos, M!PhotoStep(p), ~M!EnrichPhoto(p)
      PROVE  rows' = rows \/ \E r : rows' = rows \cup {r}
  BY <1>6 DEF M!PhotoStep, M!StartPhoto, M!PlacePhoto, M!NoTurnForPhoto, M!InFlightPhoto
<1>7. ASSUME NEW p \in Photos, M!EnrichPhoto(p) PROVE rows' = (rows \ {M!Mark(p)}) \cup {M!Full(p)}
  BY <1>7 DEF M!EnrichPhoto
<1>8. ASSUME NEW o \in Others, M!OtherStep(o) PROVE rows' = rows \/ \E r : rows' = rows \cup {r}
  BY <1>8 DEF M!OtherStep, M!DepositFile, M!DepositVoice, M!Deposit, M!Receive, M!RecordInFlight
<1>9. ASSUME NEW t \in turns, M!Look(t) \/ M!EndTurn(t) PROVE rows' = rows
  BY <1>9 DEF M!Look, M!EndTurn
<1>10. CASE UNCHANGED M!vars
  BY <1>1, <1>10 DEF M!vars
<1> QED BY <1>1, <1>2, <1>3, <1>4, <1>5, <1>6, <1>7, <1>8, <1>9, <1>10 DEF M!Next

\* The members that could not be saved are as many as the faults, at most.
LEMMA UnsavedKept ==
  ASSUME M!MediaAssumption, MediaShapes, M!IsFiniteSet(Unsaved), M!Cardinality(Unsaved) <= faults,
         (M!Next \/ UNCHANGED M!vars)
  PROVE  M!IsFiniteSet(Unsaved)' /\ (M!Cardinality(Unsaved) <= faults)'
<1> USE DEF M!env, M!album
<1>0. M!Cardinality(Unsaved) \in Nat /\ faults \in Nat
  BY Sizes, FS_CardinalityType DEF MediaShapes
<1>1. CASE Unsaved' \subseteq Unsaved /\ faults' = faults
  <2>1. M!IsFiniteSet(Unsaved') /\ M!Cardinality(Unsaved') <= M!Cardinality(Unsaved)
        /\ M!Cardinality(Unsaved') \in Nat
    BY <1>1, Sizes, FS_Subset, FS_CardinalityType
  <2> QED BY <1>0, <1>1, <2>1
<1>2. CASE \E m \in Members : Unsaved' \subseteq Unsaved \cup {m} /\ faults' = faults + 1
  <2>1. PICK m \in Members : Unsaved' \subseteq Unsaved \cup {m} /\ faults' = faults + 1
    BY <1>2
  <2>2. /\ M!IsFiniteSet(Unsaved \cup {m})
        /\ M!Cardinality(Unsaved \cup {m}) \in {M!Cardinality(Unsaved), M!Cardinality(Unsaved) + 1}
    BY Sizes, FS_AddElement
  <2>3. /\ M!IsFiniteSet(Unsaved') /\ M!Cardinality(Unsaved') <= M!Cardinality(Unsaved \cup {m})
        /\ M!Cardinality(Unsaved') \in Nat
    BY <2>1, <2>2, Sizes, FS_Subset, FS_CardinalityType
  <2> QED BY <1>0, <2>1, <2>2, <2>3
<1>3. ASSUME repo' = repo, \A m \in Members : step[m] = "new" => step'[m] = "new"
      PROVE  Unsaved' \subseteq Unsaved
  BY <1>3 DEF Unsaved
<1>4. ASSUME NEW m \in Members, M!Save(m) PROVE Unsaved' \subseteq Unsaved \cup {m}
  <2>1. \A n \in Members \ {m} : step'[n] = step[n]
    BY <1>4, Kinds, StageMoves DEF M!Save, M!Stages
  <2>2. repo \subseteq repo'
    BY <1>4 DEF M!Save, M!Insert
  <2> QED BY <2>1, <2>2 DEF Unsaved
<1>5. ASSUME NEW m \in Members, M!Save(m)
      PROVE  (Unsaved' \subseteq Unsaved /\ faults' = faults) \/ faults' = faults + 1
  <2>1. CASE M!Insert(m) /\ UNCHANGED faults
    BY <1>4, <1>5, <2>1 DEF M!Insert, Unsaved
  <2> QED BY <1>5, <2>1 DEF M!Save
<1>6. ASSUME NEW a \in Albums, M!AlbumStep(a) PROVE UNCHANGED <<repo, step, faults>>
  BY <1>6 DEF M!AlbumStep, M!CloseAlbum, M!Gather, M!RecordAlbum
<1>7. ASSUME NEW x \in M!Items, step[x] # "new" \/ x \notin Members, NEW s \in M!Stages, M!To(x, s),
             s # "new"
      PROVE  \A m \in Members : step[m] = "new" => step'[m] = "new"
  BY <1>7, Kinds, StageMoves
<1>8. ASSUME NEW m \in Members, M!MemberStep(m), ~M!Save(m)
      PROVE  Unsaved' \subseteq Unsaved /\ faults' = faults
  <2>1. \E s \in M!Stages : M!To(m, s) /\ s # "new"
    BY <1>8 DEF M!MemberStep, M!Debounce, M!TakeSlot, M!RecordStraggler, M!Stages
  <2>2. step[m] # "new" /\ UNCHANGED <<repo, faults>>
    BY <1>8 DEF M!MemberStep, M!Debounce, M!TakeSlot, M!RecordStraggler
  <2> QED BY <1>3, <1>7, <2>1, <2>2, Kinds
<1>9. ASSUME NEW p \in Photos, M!PhotoStep(p) PROVE Unsaved' \subseteq Unsaved /\ faults' = faults
  <2>1. \E s \in M!Stages : M!To(p, s) /\ s # "new"
    BY <1>9 DEF M!PhotoStep, M!StartPhoto, M!PlacePhoto, M!NoTurnForPhoto, M!InFlightPhoto,
       M!EnrichPhoto, M!Stages
  <2>2. UNCHANGED <<repo, faults>>
    BY <1>9 DEF M!PhotoStep, M!StartPhoto, M!PlacePhoto, M!NoTurnForPhoto, M!InFlightPhoto,
       M!EnrichPhoto
  <2> QED BY <1>3, <1>7, <2>1, <2>2, Kinds
<1>10. ASSUME NEW o \in Others, M!OtherStep(o) PROVE Unsaved' \subseteq Unsaved /\ faults' = faults
  <2>1. \E s \in M!Stages : M!To(o, s) /\ s # "new"
    BY <1>10 DEF M!OtherStep, M!DepositFile, M!DepositVoice, M!Deposit, M!Receive,
       M!RecordInFlight, M!Stages
  <2>2. UNCHANGED <<repo, faults>>
    BY <1>10 DEF M!OtherStep, M!DepositFile, M!DepositVoice, M!Deposit, M!Receive, M!RecordInFlight
  <2> QED BY <1>3, <1>7, <2>1, <2>2, Kinds
<1>11. ASSUME NEW t \in turns, M!Look(t) \/ M!EndTurn(t) PROVE Unsaved' \subseteq Unsaved
  /\ faults' = faults
  <2>1. UNCHANGED <<repo, faults>>
    BY <1>11 DEF M!Look, M!EndTurn
  <2>2. \A m \in Members : m \notin turns
    BY Kinds DEF MediaShapes
  <2>3. \A m \in Members : step'[m] = step[m]
    BY <1>11, <2>2, Kinds DEF M!Look, M!EndTurn, MediaShapes
  <2> QED BY <1>3, <2>1, <2>3
<1>12. CASE UNCHANGED M!vars
  BY <1>1, <1>12 DEF M!vars, Unsaved
<1> QED
  <2>1. CASE \E a \in Albums : M!AlbumStep(a)
    BY <1>1, <1>3, <1>6, <2>1
  <2>2. CASE \E m \in Members : M!MemberStep(m)
    BY <1>1, <1>2, <1>4, <1>5, <1>8, <2>2
  <2>3. CASE \/ \E p \in Photos : M!PhotoStep(p)
             \/ \E o \in Others : M!OtherStep(o)
             \/ \E t \in turns : M!Look(t) \/ M!EndTurn(t)
    BY <1>1, <1>9, <1>10, <1>11, <2>3
  <2> QED BY <1>12, <2>1, <2>2, <2>3 DEF M!Next

\* A photo or message is shown before it is through.
LEMMA ItemsKept ==
  ASSUME M!MediaAssumption, MediaShapes, Slots, \A x \in M!Items : ItemShown(x),
    (M!Next \/ UNCHANGED M!vars)
  PROVE  \A x \in M!Items : ItemShown(x)'
<1> USE DEF M!env, M!album
<1>1. M!Shown \subseteq M!Shown'
  BY ShownGrows
<1>2. ASSUME NEW y \in M!Items, ItemShown(y)', \A x \in M!Items \ {y} : step'[x] = step[x],
             turns' \subseteq turns \cup {y}
      PROVE  \A x \in M!Items : ItemShown(x)'
  BY <1>1, <1>2 DEF ItemShown
<1>3. ASSUME NEW p \in Photos, M!PhotoStep(p) PROVE \A x \in M!Items : ItemShown(x)'
  <2>1. /\ p \in M!Items /\ p \notin Others /\ step' \in [M!Items -> M!Stages]
        /\ \A x \in M!Items \ {p} : step'[x] = step[x]
        /\ turns' \subseteq turns \cup {p}
    BY <1>3, Kinds, StageMoves DEF M!PhotoStep, M!StartPhoto, M!PlacePhoto, M!NoTurnForPhoto,
       M!InFlightPhoto,
                                   M!EnrichPhoto, M!Stages
  <2>2. CASE M!StartPhoto(p)
    <3>1. step'[p] \in {"ignored", "placing"}
      BY <2>1, <2>2 DEF M!StartPhoto, M!To, MediaShapes
    <3>2. ItemShown(p)'
      BY <2>1, <3>1 DEF ItemShown
    <3> QED BY <1>2, <2>1, <3>2
  <2>3. CASE M!PlacePhoto(p) \/ M!EnrichPhoto(p)
    <3>1. ASSUME M!PlacePhoto(p) PROVE p \in M!Shown'
      <4>1. rows' = rows \cup {M!Mark(p)}
        BY <3>1 DEF M!PlacePhoto
      <4>2. M!Shown' = M!Shown \cup M!Mark(p).shows
        BY <4>1, RowAdded
      <4> QED BY <4>2 DEF M!Mark
    <3>2. ASSUME M!EnrichPhoto(p) PROVE p \in M!Shown'
      <4>1. rows' = (rows \ {M!Mark(p)}) \cup {M!Full(p)}
        BY <3>2 DEF M!EnrichPhoto
      <4> QED BY <4>1, RowReplaced
    <3>3. ItemShown(p)'
      BY <2>1, <2>3, <3>1, <3>2 DEF ItemShown
    <3> QED BY <1>2, <2>1, <3>3
  <2>4. CASE M!NoTurnForPhoto(p) \/ M!InFlightPhoto(p)
    <3>1. step[p] = "processing"
      BY <2>4 DEF M!NoTurnForPhoto, M!InFlightPhoto
    <3>2. ItemShown(p)'
      BY <1>1, <2>1, <3>1 DEF ItemShown
    <3> QED BY <1>2, <2>1, <3>2
  <2> QED BY <1>3, <2>2, <2>3, <2>4 DEF M!PhotoStep
<1>4. ASSUME NEW o \in Others, M!OtherStep(o) PROVE \A x \in M!Items : ItemShown(x)'
  <2>1. /\ o \in M!Items /\ o \notin Photos /\ step' \in [M!Items -> M!Stages]
        /\ \A x \in M!Items \ {o} : step'[x] = step[x]
        /\ turns' \subseteq turns \cup {o}
    BY <1>4, Kinds, StageMoves DEF M!OtherStep, M!DepositFile, M!DepositVoice, M!Deposit, M!Receive,
                                   M!RecordInFlight, M!Stages
  <2>2. CASE \E r : rows' = rows \cup {r} /\ r.shows = {o}
    <3>1. o \in M!Shown'
      BY <2>2, RowAdded
    <3> QED BY <1>2, <2>1, <3>1 DEF ItemShown
  <2>3. CASE step'[o] = "inflight" /\ turns' = turns
    <3>1. ItemShown(o)'
      BY <1>1, <2>1, <2>3 DEF ItemShown
    <3> QED BY <1>2, <2>1, <3>1
  <2>4. M!Mark(o).shows = {o} /\ M!Full(o).shows = {o}
    BY DEF M!Mark, M!Full
  <2>5. CASE rows' = rows \cup {M!Mark(o)} \/ rows' = rows \cup {M!Full(o)}
    BY <2>2, <2>4, <2>5
  <2>6. CASE step[o] = "new" /\ M!To(o, "inflight") /\ turns' = turns
    BY <2>1, <2>3, <2>6 DEF M!To, MediaShapes
  <2> QED
    BY <1>4, <2>5, <2>6 DEF M!OtherStep, M!DepositFile, M!DepositVoice, M!Deposit, M!Receive,
       M!RecordInFlight
<1>5. ASSUME NEW m \in Members, M!MemberStep(m) PROVE \A x \in M!Items : ItemShown(x)'
  <2>1. turns' = turns /\ \E s \in M!Stages : M!To(m, s)
    BY <1>5 DEF M!MemberStep, M!Save, M!Debounce, M!TakeSlot, M!RecordStraggler, M!Stages
  <2>2. \A x \in M!Items \ {m} : step'[x] = step[x]
    BY <2>1, Kinds, StageMoves
  <2> QED BY <1>1, <2>1, <2>2, Kinds DEF ItemShown
<1>6. ASSUME NEW a \in Albums, M!AlbumStep(a) PROVE \A x \in M!Items : ItemShown(x)'
  <2>1. step' = step /\ turns' \subseteq turns \cup {a}
    BY <1>6 DEF M!AlbumStep, M!CloseAlbum, M!Gather, M!RecordAlbum
  <2> QED BY <1>1, <2>1, Kinds DEF ItemShown
<1>7. ASSUME NEW t \in turns, M!Look(t) PROVE \A x \in M!Items : ItemShown(x)'
  BY <1>1, <1>7 DEF M!Look, ItemShown
<1>8. ASSUME NEW t \in turns, M!EndTurn(t) PROVE \A x \in M!Items : ItemShown(x)'
  <2>1. turns' \subseteq turns /\ \A x \in M!Items \ {t} : step'[x] = step[x]
    BY <1>8 DEF M!EndTurn, MediaShapes
  <2>2. t \in Photos => step[t] = "turn"
    BY DEF Slots, PhotoHolds
  <2>3. t \in Photos \/ t \in Others => t \in M!Shown
    BY <2>2, Kinds DEF ItemShown
  <2> QED BY <1>1, <2>1, <2>3 DEF ItemShown
<1>9. CASE UNCHANGED M!vars
  BY <1>1, <1>9 DEF M!vars, ItemShown
<1> QED BY <1>3, <1>4, <1>5, <1>6, <1>7, <1>8, <1>9 DEF M!Next

\* An album closes, gathers, leaves its row and has its turn, in this order: no
\* member that was saved is left out.
LEMMA AlbumsKept ==
  ASSUME M!MediaAssumption, MediaShapes, Slots, NEW a \in Albums, M!AlbumStep(a),
         \A b \in Albums : AlbumShown(b), \A m \in Members : Waits(m), M!Shown \subseteq M!Shown'
  PROVE  (\A b \in Albums : AlbumShown(b)') /\ (\A m \in Members : Waits(m)')
<1> USE DEF M!env
<1>0. /\ repo' = repo /\ step' = step
      /\ \A b \in Albums \ {a} : flushing'[b] = flushing[b] /\ buffers'[b] = buffers[b]
      /\ turns' \subseteq turns \cup {a}
  BY DEF M!AlbumStep, M!CloseAlbum, M!Gather, M!RecordAlbum, MediaShapes
<1>1. \A b \in Albums \ {a} : AlbumShown(b)'
  BY <1>0 DEF AlbumShown
<1>2. \A m \in Members : AlbumOf[m] # a => Waits(m)'
  BY <1>0, Kinds DEF Waits
<1>3. CASE M!CloseAlbum(a)
  <2>1. flushing'[a].on /\ ~flushing'[a].got /\ turns' = turns /\ a \notin turns
    BY <1>3 DEF M!CloseAlbum, MediaShapes, M!NotFlushing, Slots, AlbumHolds
  <2>2. AlbumShown(a)' /\ \A m \in Members : AlbumOf[m] = a => Waits(m)'
    BY <2>1 DEF AlbumShown, Waits
  <2> QED BY <1>1, <1>2, <2>2
<1>4. CASE M!Gather(a)
  <2>1. /\ flushing'[a].on /\ flushing'[a].members = M!OfAlbum(a) /\ turns' = turns
    /\ a \notin turns
    BY <1>4 DEF M!Gather, MediaShapes, Flushing, Slots, AlbumHolds
  <2>2. AlbumShown(a)' /\ \A m \in Members : AlbumOf[m] = a => Waits(m)'
    BY <1>0, <2>1 DEF AlbumShown, Waits, M!OfAlbum
  <2> QED BY <1>1, <1>2, <2>2
<1>5. CASE M!RecordAlbum(a)
  <2>1. buffers' = buffers /\ flushing[a].members \subseteq M!Shown' /\ flushing[a].got
    <3>1. rows' = rows \cup {M!AlbumRow(flushing[a].members)} /\ buffers' = buffers
      /\ flushing[a].got
      BY <1>5 DEF M!RecordAlbum
    <3>2. M!Shown' = M!Shown \cup M!AlbumRow(flushing[a].members).shows
      BY <3>1, RowAdded
    <3> QED BY <3>1, <3>2 DEF M!AlbumRow
  <2>2. AlbumShown(a)'
    BY <1>5, <2>1 DEF M!RecordAlbum, AlbumShown
  <2>3. \A m \in Members : AlbumOf[m] = a => Waits(m)'
    BY <1>0, <2>1 DEF Waits
  <2> QED BY <1>1, <1>2, <2>2, <2>3
<1> QED BY <1>3, <1>4, <1>5 DEF M!AlbumStep

\* A member that is through left itself to its album or shows in a row of its own.
LEMMA MembersKept ==
  ASSUME M!MediaAssumption, MediaShapes, NEW m \in Members, M!MemberStep(m),
         \A n \in Members : Waits(n), M!Shown \subseteq M!Shown'
  PROVE  \A n \in Members : Waits(n)'
<1> USE DEF M!env, M!album
<1>0. /\ m \in M!Items /\ flushing' = flushing /\ AlbumOf[m] \in Albums
      /\ \A n \in Members \ {m} : step'[n] = step[n]
      /\ repo' \subseteq repo \cup {m}
  BY Kinds, StageMoves DEF M!MemberStep, M!Save, M!Insert, M!Debounce, M!TakeSlot,
     M!RecordStraggler, M!Stages
<1>1. /\ \A b \in Albums : buffers[b].open => buffers'[b].open
      /\ step'[m] = "done" => buffers'[AlbumOf[m]].open \/ m \in M!Shown'
  <2>1. CASE M!Save(m)
    BY <1>0, <2>1 DEF M!Save, M!To, MediaShapes
  <2>2. CASE M!RecordStraggler(m)
    <3>1. rows' = rows \cup {M!Mark(m)} /\ buffers' = buffers
      BY <2>2 DEF M!RecordStraggler, M!LateTrace
    <3>2. M!Shown' = M!Shown \cup M!Mark(m).shows
      BY <3>1, RowAdded
    <3> QED BY <3>1, <3>2 DEF M!Mark
  <2>3. CASE M!TakeSlot(m)
    BY <1>0, <2>3 DEF M!TakeSlot, MediaShapes
  <2>4. CASE M!Debounce(m)
    <3> DEFINE a == AlbumOf[m]
    <3>1. M!Stored(a) \in [Albums -> Buffer] /\ M!Stored(a)[a].open
          /\ \A b \in Albums : buffers[b].open => M!Stored(a)[b].open
      BY <1>0 DEF M!Stored, M!NewBuffer, M!NoBuffer, Buffer, MediaShapes
    <3>2. CASE buffers' = buffers /\ M!To(m, "straggler")
      BY <1>0, <3>2 DEF M!To, MediaShapes
    <3>3. CASE buffers' = M!Stored(a)
      BY <3>1, <3>3
    <3>4. CASE buffers' = [M!Stored(a) EXCEPT ![a].armed = TRUE]
      BY <1>0, <3>1, <3>4 DEF Buffer
    <3> QED BY <2>4, <3>2, <3>3, <3>4 DEF M!Debounce
  <2> QED BY <2>1, <2>2, <2>3, <2>4 DEF M!MemberStep
<1> QED BY <1>0, <1>1, Kinds DEF Waits

\* Every step keeps the traces.
LEMMA TracesKept ==
  ASSUME M!MediaAssumption, MediaInv, (M!Next \/ UNCHANGED M!vars) PROVE Traces'
<1> USE DEF M!env, M!album
<1>1. M!Shown \subseteq M!Shown'
  BY ShownGrows
<1>2. \A x \in M!Items : ItemShown(x)'
  BY ItemsKept DEF MediaInv, Traces
<1>3. M!IsFiniteSet(Unsaved)' /\ (M!Cardinality(Unsaved) <= faults)'
  BY UnsavedKept DEF MediaInv, Traces
<1>4. CASE UNCHANGED <<repo, buffers, flushing>> /\ turns' \cap Albums = turns \cap Albums
           /\ \A m \in Members : step'[m] = step[m]
  BY <1>1, <1>2, <1>3, <1>4, Kinds DEF MediaInv, Traces, Waits, AlbumShown
<1>5. ASSUME NEW a \in Albums, M!AlbumStep(a) PROVE Traces'
  BY <1>1, <1>2, <1>3, <1>5, AlbumsKept DEF MediaInv, Traces
<1>6. ASSUME NEW m \in Members, M!MemberStep(m) PROVE Traces'
  <2>1. UNCHANGED <<flushing, turns>>
    BY <1>6 DEF M!MemberStep, M!Save, M!Debounce, M!TakeSlot, M!RecordStraggler
  <2>2. \A n \in Members : Waits(n)'
    BY <1>1, <1>6, MembersKept DEF MediaInv, Traces
  <2> QED BY <1>1, <1>2, <1>3, <2>1, <2>2 DEF MediaInv, Traces, AlbumShown
<1>7. ASSUME NEW p \in Photos, M!PhotoStep(p) PROVE Traces'
  <2>1. UNCHANGED <<repo, buffers, flushing>> /\ turns' \cap Albums = turns \cap Albums
    BY <1>7, Kinds DEF M!PhotoStep, M!StartPhoto, M!PlacePhoto, M!NoTurnForPhoto, M!InFlightPhoto,
       M!EnrichPhoto
  <2>2. \E s \in M!Stages : M!To(p, s)
    BY <1>7 DEF M!PhotoStep, M!StartPhoto, M!PlacePhoto, M!NoTurnForPhoto, M!InFlightPhoto,
       M!EnrichPhoto, M!Stages
  <2>3. \A m \in Members : step'[m] = step[m]
    BY <2>2, Kinds, StageMoves DEF MediaInv
  <2> QED BY <1>4, <2>1, <2>3
<1>8. ASSUME NEW o \in Others, M!OtherStep(o) PROVE Traces'
  <2>1. UNCHANGED <<repo, buffers, flushing>> /\ turns' \cap Albums = turns \cap Albums
    BY <1>8, Kinds DEF M!OtherStep, M!DepositFile, M!DepositVoice, M!Deposit, M!Receive,
       M!RecordInFlight
  <2>2. \E s \in M!Stages : M!To(o, s)
    BY <1>8 DEF M!OtherStep, M!DepositFile, M!DepositVoice, M!Deposit, M!Receive, M!RecordInFlight,
       M!Stages
  <2>3. \A m \in Members : step'[m] = step[m]
    BY <2>2, Kinds, StageMoves DEF MediaInv
  <2> QED BY <1>4, <2>1, <2>3
<1>9. ASSUME NEW t \in turns, M!Look(t) \/ M!EndTurn(t) PROVE Traces'
  <2>1. CASE M!Look(t)
    BY <1>4, <2>1 DEF M!Look
  <2>2. CASE M!EndTurn(t)
    <3>1. /\ UNCHANGED <<repo, buffers, rows>> /\ turns' = turns \ {t}
          /\ \A b \in Albums \ {t} : flushing'[b] = flushing[b]
      BY <2>2 DEF M!EndTurn, MediaInv, MediaShapes
    <3>2. \A m \in Members : step'[m] = step[m]
      <4>1. \A m \in Members : m # t
        BY Kinds DEF MediaInv, MediaShapes
      <4> QED BY <2>2, <4>1, Kinds DEF M!EndTurn, MediaInv, MediaShapes
    <3>3. \A b \in Albums : AlbumShown(b)'
      BY <1>1, <3>1 DEF MediaInv, Traces, AlbumShown
    <3>4. t \in Albums => flushing[t].got /\ flushing[t].members \subseteq M!Shown'
      BY <1>1 DEF MediaInv, Traces, AlbumShown, Slots, AlbumHolds
    <3>5. \A m \in Members : Waits(m)'
      BY <1>1, <3>1, <3>2, <3>4, Kinds DEF MediaInv, Traces, Waits
    <3> QED BY <1>2, <1>3, <3>3, <3>5 DEF Traces
  <2> QED BY <1>9, <2>1, <2>2
<1>10. CASE UNCHANGED M!vars
  BY <1>4, <1>10 DEF M!vars
<1> QED BY <1>5, <1>6, <1>7, <1>8, <1>9, <1>10 DEF M!Next

-----------------------------------------------------------------------------
(***************************************************************************)
(* The theorems                                                            *)
(***************************************************************************)
\* Nothing has arrived at first.
LEMMA MediaInit ==
  ASSUME M!MediaAssumption, M!Init PROVE MediaInv
<1>1. MediaShapes
  <2>1. M!NoBuffer \in Buffer /\ M!NotFlushing \in Flushing
    BY DEF M!NoBuffer, M!NotFlushing, Buffer, Flushing
  <2>2. <<>> \in Seq(Albums) /\ Len(<<>>) <= DedupMax
    BY DEF M!MediaAssumption
  <2>3. [x \in M!Items |-> "new"] \in [M!Items -> M!Stages]
    BY DEF M!Stages
  <2> QED BY <2>1, <2>2, <2>3 DEF M!Init, MediaShapes
<1>2. Slots
  <2>1. \A m \in Members : step[m] = "new"
    BY Kinds DEF M!Init
  <2>2. \A a \in Albums : ~buffers[a].held /\ ~flushing[a].held /\ ~flushing[a].got
    BY DEF M!Init, M!NoBuffer, M!NotFlushing
  <2>3. M!Holders = {}
    BY <2>2 DEF M!Init, M!Holders
  <2> QED BY <2>1, <2>2, <2>3 DEF M!Init, Slots, Asking, AlbumHolds, PhotoHolds, Slot
<1>3. Traces
  <2>1. \A x \in M!Items : step[x] = "new"
    BY DEF M!Init
  <2>2. Unsaved = {}
    BY <2>1, Kinds DEF Unsaved
  <2>3. M!IsFiniteSet(Unsaved) /\ M!Cardinality(Unsaved) = 0
    BY <2>2, Sizes, FS_EmptySet
  <2> QED BY <2>1, <2>3, Kinds DEF M!Init, Traces, Waits, AlbumShown, ItemShown
<1> QED BY <1>1, <1>2, <1>3 DEF MediaInv

\* The slot has one holder.
LEMMA OneHolderFollows ==
  ASSUME MediaInv PROVE M!OneHolder
<1>1. (private => busy = (M!Holders # {})) /\ turns \subseteq M!Holders
  BY DEF MediaInv, Slots, Slot, MediaShapes
<1>2. M!Cardinality(M!Holders) <= 1
  <2>1. CASE M!Holders = {}
    BY <2>1, Sizes, FS_EmptySet
  <2>2. CASE M!Holders # {}
    <3>1. PICK h : h \in M!Holders
      BY <2>2
    <3>2. M!Holders = {h}
      BY <3>1 DEF MediaInv, Slots, Slot
    <3> QED BY <3>2, Sizes, FS_Singleton
  <2> QED BY <2>1, <2>2
<1> QED BY <1>1, <1>2 DEF M!OneHolder

\* Of the members that are through, those missing could not be saved.
LEMMA LeavesATraceFollows ==
  ASSUME M!MediaAssumption, MediaInv PROVE M!LeavesATrace
<1>1. \A x \in Photos \cup Others : step[x] = "done" => x \in M!Shown
  BY Kinds DEF MediaInv, Traces, ItemShown
<1> DEFINE Missing == {m \in Members : M!Settled(m) /\ m \notin M!Shown}
<1>2. Missing \subseteq Unsaved
  BY DEF M!Settled, Unsaved, MediaInv, Traces, Waits
<1>3. M!Cardinality(Missing) <= faults
  <2>1. M!IsFiniteSet(Unsaved) /\ M!Cardinality(Unsaved) <= faults /\ faults \in Nat
    BY DEF MediaInv, Traces, MediaShapes
  <2>2. M!IsFiniteSet(Missing) /\ M!Cardinality(Missing) <= M!Cardinality(Unsaved)
    BY <1>2, <2>1, Sizes, FS_Subset
  <2>3. M!Cardinality(Missing) \in Nat /\ M!Cardinality(Unsaved) \in Nat
    BY <2>1, <2>2, Sizes, FS_CardinalityType
  <2> QED BY <2>1, <2>2, <2>3
<1> QED BY <1>1, <1>3 DEF M!LeavesATrace

\* A step of the whole while the media are its subject is one of theirs.
LEMMA MediaMoves ==
  [Next]_vars => /\ subject' = subject
                 /\ subject = "media" => M!Next \/ UNCHANGED M!vars
BY OneSubject DEF Next, vars, OfMedia, M!vars

\* However the members of an album, photos, audios and texts race for the slot of a
\* private chat, one holds it at most, it is taken exactly while one does, and nobody
\* has a turn without it (media.py, turn_dispatch.py, scope_registry.py); and a photo
\* or a message that is through is in the history, and of the albums only the members
\* that could not be saved are missing, late ones and those that came between two
\* gatherings included.  The queue of flushed albums never exceeds _ALBUM_DEDUP_MAX.
THEOREM WhateverArrivesIsKept == Spec => []MediaHolds
<1> DEFINE J == subject = "media" => MediaInv
<1>1. Init => J
  BY MediaInit, TelegramAssumption DEF Init
<1>2. J /\ [Next]_vars => J'
  BY MediaMoves, ShapesKept, SlotsKept, TracesKept, TelegramAssumption DEF MediaInv
<1>3. J => MediaHolds
  <2>1. MediaInv => M!TypeOK
    BY DEF MediaInv, MediaShapes, M!TypeOK, M!ToSet
  <2>2. MediaInv => M!OneHolder /\ M!LeavesATrace
    BY OneHolderFollows, LeavesATraceFollows, TelegramAssumption
  <2> QED BY <2>1, <2>2 DEF MediaHolds
<1> QED BY <1>1, <1>2, <1>3, PTL DEF Spec

-----------------------------------------------------------------------------
(***************************************************************************)
(* ChannelLife                                                             *)
(***************************************************************************)
Places == {"start", "lan", "app", "confirm", "notices", "poll", "serving", "closing", "draining",
           "closed"}
LifeShapes ==
  /\ kind \in [L!Updates -> {"private", "group", "stranger"}]
  /\ tg \in [L!Updates -> {"unsent", "pending", "confirmed"}]
  /\ life \in [n : Nat, pc : Places] /\ started \in BOOLEAN
  /\ outcome \in [L!Updates -> {"none", "run", "told", "lost"}]
  /\ tasks \subseteq [u : L!Updates \cup {0}, life : Nat, what : {"handler", "flush"}]
  /\ fetched \subseteq L!Updates /\ backlog \subseteq L!Updates /\ toTell \subseteq L!Updates

\* A handler is of the iteration that serves, and of an update; a flush is of no private chat.
TaskIsOf(t) ==
  /\ t.what = "handler" => started /\ t.life = life.n /\ t.u \in L!Updates
  /\ t.what = "flush" /\ t.u \in L!Updates => ~L!Private(t.u)

\* A message is cared for when it came to something or is under way.
CaredFor(u) == outcome[u] # "none" \/ \E t \in tasks : t.u = u

LifeInv ==
  /\ LifeShapes
  /\ started => life.pc \in {"serving", "closing", "draining"}
  /\ toTell # {} => life.pc = "notices"
  /\ \A t \in tasks : TaskIsOf(t)
  /\ \A u \in L!Updates : u \in fetched /\ L!Private(u) => CaredFor(u)
  /\ L!ReadOrTold

\* What is no update's task is nobody's.
LEMMA NoUpdateZero == 0 \notin L!Updates
BY DEF L!Updates

\* A step that leaves the tasks, the outcomes, the kinds and what is fetched alone, and confirms
\* nothing but what was fetched.
LEMMA LifeGoesOn ==
  ASSUME LifeInv, UNCHANGED <<kind, outcome, tasks, fetched, toTell, started>>,
         backlog' \subseteq L!Updates, life' \in [n : Nat, pc : Places], life'.n = life.n,
         tg' \in [L!Updates -> {"unsent", "pending", "confirmed"}],
         \A u \in L!Updates : tg'[u] = "confirmed" => tg[u] = "confirmed" \/ u \in fetched,
         started => life'.pc \in {"serving", "closing", "draining"},
         toTell # {} => life'.pc = "notices"
  PROVE  LifeInv'
<1>1. LifeShapes'
  BY DEF LifeInv, LifeShapes
<1>2. \A t \in tasks' : TaskIsOf(t)'
  BY DEF LifeInv, TaskIsOf, L!Private
<1>3. \A u \in L!Updates : u \in fetched' /\ L!Private(u)' => CaredFor(u)'
  BY DEF LifeInv, CaredFor, L!Private
<1>4. L!ReadOrTold'
  BY DEF LifeInv, CaredFor, L!Private, L!ReadOrTold
<1> QED BY <1>1, <1>2, <1>3, <1>4 DEF LifeInv

\* No update is fetched at first.
LEMMA LifeInit == ASSUME L!Init PROVE LifeInv
BY DEF L!Init, LifeInv, LifeShapes, Places, TaskIsOf, L!ReadOrTold, CaredFor

\* The steps of the start and of the end that run nothing.
LEMMA LifeMovesOn ==
  ASSUME LifeInv,
         \/ \E u \in L!Updates : L!Arrive(u)
         \/ L!StartLan \/ L!StartApp \/ L!StartFails \/ L!Drain \/ L!Close
  PROVE  LifeInv'
<1>0. LifeShapes /\ \A u \in L!Updates : tg[u] = "confirmed" => tg[u] = "confirmed" \/ u \in fetched
  BY DEF LifeInv
<1>1. ASSUME NEW u \in L!Updates, L!Arrive(u) PROVE LifeInv'
  <2>1. tg' \in [L!Updates -> {"unsent", "pending", "confirmed"}]
        /\ \A v \in L!Updates : tg'[v] = "confirmed" => tg[v] = "confirmed"
    BY <1>0, <1>1 DEF L!Arrive, LifeShapes
  <2> QED BY <1>0, <1>1, <2>1, LifeGoesOn DEF L!Arrive, LifeInv, LifeShapes
<1>2. CASE L!StartLan \/ L!StartApp
  <2>1. /\ life' \in [n : Nat, pc : Places] /\ life'.n = life.n
        /\ life'.pc \in {"lan", "serving", "app"} /\ life.pc \in {"start", "lan"}
        /\ UNCHANGED <<kind, outcome, tasks, fetched, toTell, started, backlog, tg>>
    BY <1>0, <1>2 DEF L!StartLan, L!StartApp, L!At, L!Go, LifeShapes, Places
  <2>2. ~started /\ toTell = {}
    BY <2>1 DEF LifeInv
  <2> QED BY <1>0, <2>1, <2>2, LifeGoesOn DEF LifeShapes
<1>3. CASE L!StartFails \/ L!Drain
  <2>1. /\ life' \in [n : Nat, pc : Places] /\ life'.n = life.n
        /\ life.pc \in {"lan", "confirm", "app"}
        /\ UNCHANGED <<kind, outcome, tasks, fetched, toTell, started, tg>>
    BY <1>0, <1>3 DEF L!StartFails, L!Drain, L!At, L!Go, LifeShapes, Places
  <2>2. backlog' \subseteq L!Updates
    BY <1>0, <1>3 DEF L!StartFails, L!Drain, LifeShapes, L!Pending
  <2>3. ~started /\ toTell = {}
    BY <2>1 DEF LifeInv
  <2> QED BY <1>0, <2>1, <2>2, <2>3, LifeGoesOn DEF LifeShapes
<1>4. CASE L!Close
  <2>1. /\ life' \in [n : Nat, pc : Places] /\ life'.n = life.n
        /\ life'.pc = "closing" /\ life.pc = "serving"
        /\ UNCHANGED <<kind, outcome, tasks, fetched, toTell, started, backlog, tg>>
    BY <1>0, <1>4 DEF L!Close, L!At, L!Go, LifeShapes, Places
  <2>2. toTell = {}
    BY <2>1 DEF LifeInv
  <2> QED BY <1>0, <2>1, <2>2, LifeGoesOn DEF LifeShapes
<1> QED BY <1>1, <1>2, <1>3, <1>4

\* The announcement: what it confirms is to be told, and then is.
LEMMA LifeAnnounces ==
  ASSUME LifeInv, L!Confirm \/ L!Told \/ L!StartPolling \/ \E u \in L!Updates : L!Tell(u)
  PROVE  LifeInv'
<1>0. LifeShapes
  BY DEF LifeInv
<1>1. CASE L!Confirm
  <2>1. /\ life' \in [n : Nat, pc : Places] /\ life'.pc = "notices" /\ life'.n = life.n
        /\ life.pc = "confirm" /\ tg' = L!Settled(backlog)
        /\ toTell' = {u \in backlog : L!Private(u) /\ L!Authorised(u)}
        /\ UNCHANGED <<kind, outcome, tasks, fetched, started, backlog>>
    BY <1>0, <1>1 DEF L!Confirm, L!At, L!Go, LifeShapes, Places
  <2>2. ~started /\ toTell = {}
    BY <2>1 DEF LifeInv
  <2>3. LifeShapes'
    BY <1>0, <2>1 DEF LifeShapes, L!Settled
  <2>4. \A t \in tasks' : TaskIsOf(t)'
    BY <2>1 DEF LifeInv, TaskIsOf, L!Private
  <2>5. \A u \in L!Updates : u \in fetched' /\ L!Private(u)' => CaredFor(u)'
    BY <2>1 DEF LifeInv, CaredFor, L!Private
  <2>6. L!ReadOrTold'
    <3> SUFFICES ASSUME NEW u \in L!Updates, tg'[u] = "confirmed", kind[u] = "private"
                 PROVE  CaredFor(u) \/ u \in toTell'
      BY <2>1 DEF L!ReadOrTold, CaredFor, L!Private
    <3>1. CASE u \in backlog
      BY <2>1, <3>1 DEF L!Private, L!Authorised
    <3>2. CASE u \notin backlog
      BY <2>1, <2>2, <3>2 DEF L!Settled, LifeInv, L!ReadOrTold, CaredFor, L!Private
    <3> QED BY <3>1, <3>2
  <2> QED BY <2>1, <2>2, <2>3, <2>4, <2>5, <2>6 DEF LifeInv
<1>2. CASE L!Told
  <2>1. /\ life' \in [n : Nat, pc : Places] /\ life'.n = life.n
        /\ life.pc = "notices" /\ toTell = {} /\ backlog' = {}
        /\ UNCHANGED <<kind, outcome, tasks, fetched, started, toTell, tg>>
    BY <1>0, <1>2 DEF L!Told, L!At, L!Go, LifeShapes, Places
  <2>2. ~started
    BY <2>1 DEF LifeInv
  <2> QED BY <1>0, <2>1, <2>2, LifeGoesOn DEF LifeShapes
<1>3. CASE L!StartPolling
  <2>1. /\ life' \in [n : Nat, pc : Places] /\ life'.pc = "serving" /\ life'.n = life.n
        /\ life.pc = "poll" /\ started' = TRUE
        /\ UNCHANGED <<kind, outcome, tasks, fetched, backlog, toTell, tg>>
    BY <1>0, <1>3 DEF L!StartPolling, L!At, L!Go, LifeShapes, Places
  <2>2. toTell = {}
    BY <2>1 DEF LifeInv
  <2>3. LifeShapes'
    BY <1>0, <2>1 DEF LifeShapes
  <2>4. \A t \in tasks' : TaskIsOf(t)'
    BY <2>1 DEF LifeInv, TaskIsOf, L!Private
  <2>5. (\A u \in L!Updates : u \in fetched' /\ L!Private(u)' => CaredFor(u)') /\ L!ReadOrTold'
    BY <2>1 DEF LifeInv, CaredFor, L!Private, L!ReadOrTold
  <2> QED BY <2>1, <2>2, <2>3, <2>4, <2>5 DEF LifeInv
<1>4. ASSUME NEW u \in L!Updates, L!Tell(u) PROVE LifeInv'
  <2>1. /\ life.pc = "notices" /\ u \in toTell /\ toTell' = toTell \ {u}
        /\ outcome' = [outcome EXCEPT ![u] = "told"]
        /\ UNCHANGED <<kind, tg, life, started, fetched, backlog, tasks>>
    BY <1>4 DEF L!Tell, L!At
  <2>2. LifeShapes'
    BY <1>0, <2>1 DEF LifeShapes
  <2>3. \A t \in tasks' : TaskIsOf(t)'
    BY <2>1 DEF LifeInv, TaskIsOf, L!Private
  <2>4. (\A v \in L!Updates : v \in fetched' /\ L!Private(v)' => CaredFor(v)') /\ L!ReadOrTold'
    BY <1>0, <2>1 DEF LifeInv, LifeShapes, CaredFor, L!Private, L!ReadOrTold
  <2> QED BY <2>1, <2>2, <2>3, <2>4 DEF LifeInv
<1> QED BY <1>1, <1>2, <1>3, <1>4

\* What is fetched has its handler, and a handler or a flush that ends leaves its outcome.
LEMMA LifeServes ==
  ASSUME LifeInv,
         \/ \E u \in L!Updates : L!Poll(u)
         \/ \E t \in tasks : L!HandlerEnds(t) \/ L!FlushEnds(t)
         \/ \E l \in L!Lives : L!Broadcast(l)
  PROVE  LifeInv'
<1>0. LifeShapes
  BY DEF LifeInv
<1>1. ASSUME NEW u \in L!Updates, L!Poll(u) PROVE LifeInv'
  <2>1. /\ life.pc = "serving" /\ started /\ tg' = L!Settled(fetched) /\ fetched' = {u}
        /\ tasks' = tasks \cup {[u |-> u, life |-> life.n, what |-> "handler"]}
        /\ UNCHANGED <<kind, life, started, backlog, toTell, outcome>>
    BY <1>1 DEF L!Poll, L!At
  <2>2. LifeShapes'
    BY <1>0, <2>1 DEF LifeShapes, L!Settled
  <2>3. \A t \in tasks' : TaskIsOf(t)'
    BY <2>1 DEF LifeInv, TaskIsOf, L!Private
  <2>4. \A v \in L!Updates : v \in fetched' /\ L!Private(v)' => CaredFor(v)'
    <3>1. \E t \in tasks' : t.u = u
      <4>1. PICK t : t = [u |-> u, life |-> life.n, what |-> "handler"]
        OBVIOUS
      <4> QED BY <2>1, <4>1
    <3> QED BY <2>1, <3>1 DEF CaredFor
  <2>5. L!ReadOrTold'
    BY <2>1 DEF LifeInv, CaredFor, L!Private, L!ReadOrTold, L!Settled
  <2> QED BY <2>1, <2>2, <2>3, <2>4, <2>5 DEF LifeInv
<1>2. ASSUME NEW t \in tasks, L!HandlerEnds(t) PROVE LifeInv'
  <2>1. /\ t.what = "handler" /\ t.u \in L!Updates /\ t.life \in Nat
        /\ UNCHANGED <<kind, tg, life, started, fetched, backlog, toTell>>
    BY <1>0, <1>2 DEF L!HandlerEnds, LifeInv, TaskIsOf, LifeShapes
  <2>2. /\ outcome' \in [L!Updates -> {"none", "run", "told", "lost"}]
        /\ \A v \in L!Updates : outcome[v] # "none" => outcome'[v] # "none"
        /\ L!Private(t.u) => outcome'[t.u] # "none"
    BY <1>0, <1>2, <2>1 DEF L!HandlerEnds, LifeShapes, L!Private, L!Authorised
  <2>3. /\ \A s \in tasks \ {t} : s \in tasks'
        /\ \A s \in tasks' : s \in tasks \/ (/\ s = [u |-> t.u, life |-> t.life, what |-> "flush"]
                                             /\ kind[t.u] = "group")
    BY <1>2 DEF L!HandlerEnds
  <2>4. LifeShapes'
    BY <1>0, <2>1, <2>2, <2>3 DEF LifeShapes
  <2>5. \A s \in tasks' : TaskIsOf(s)'
    BY <2>1, <2>3 DEF LifeInv, TaskIsOf, L!Private
  <2>6. \A v \in L!Updates : L!Private(v) /\ CaredFor(v) => CaredFor(v)'
    BY <2>2, <2>3 DEF CaredFor, L!Private
  <2>7. (\A v \in L!Updates : v \in fetched' /\ L!Private(v)' => CaredFor(v)') /\ L!ReadOrTold'
    BY <2>1, <2>6 DEF LifeInv, L!Private, L!ReadOrTold, CaredFor
  <2> QED BY <2>1, <2>4, <2>5, <2>7 DEF LifeInv
<1>3. ASSUME NEW t \in tasks, L!FlushEnds(t) PROVE LifeInv'
  <2>1. /\ t.what = "flush" /\ tasks' = tasks \ {t}
        /\ UNCHANGED <<kind, tg, life, started, fetched, backlog, toTell>>
    BY <1>3 DEF L!FlushEnds
  <2>2. /\ outcome' \in [L!Updates -> {"none", "run", "told", "lost"}]
        /\ \A v \in L!Updates : outcome[v] # "none" => outcome'[v] # "none"
    BY <1>0, <1>3 DEF L!FlushEnds, LifeShapes
  <2>3. LifeShapes'
    BY <1>0, <2>1, <2>2 DEF LifeShapes
  <2>4. \A s \in tasks' : TaskIsOf(s)'
    BY <2>1 DEF LifeInv, TaskIsOf, L!Private
  <2>5. \A v \in L!Updates : L!Private(v) /\ CaredFor(v) => CaredFor(v)'
    BY <2>1, <2>2 DEF CaredFor, LifeInv, TaskIsOf
  <2>6. (\A v \in L!Updates : v \in fetched' /\ L!Private(v)' => CaredFor(v)') /\ L!ReadOrTold'
    BY <2>1, <2>5 DEF LifeInv, L!Private, L!ReadOrTold, CaredFor
  <2> QED BY <2>1, <2>3, <2>4, <2>6 DEF LifeInv
<1>4. ASSUME NEW l \in L!Lives, L!Broadcast(l) PROVE LifeInv'
  <2>1. /\ tasks \subseteq tasks'
        /\ \A s \in tasks' : s \in tasks \/ s = [u |-> 0, life |-> l, what |-> "flush"]
        /\ UNCHANGED <<kind, tg, life, started, fetched, backlog, toTell, outcome>>
    BY <1>4 DEF L!Broadcast
  <2>2. LifeShapes'
    BY <1>0, <2>1 DEF LifeShapes, L!Lives
  <2>3. \A s \in tasks' : TaskIsOf(s)'
    BY <2>1, NoUpdateZero DEF LifeInv, TaskIsOf, L!Private
  <2>4. (\A v \in L!Updates : v \in fetched' /\ L!Private(v)' => CaredFor(v)') /\ L!ReadOrTold'
    BY <2>1 DEF LifeInv, L!Private, L!ReadOrTold, CaredFor
  <2> QED BY <2>1, <2>2, <2>3, <2>4 DEF LifeInv
<1> QED BY <1>1, <1>2, <1>3, <1>4

\* The end of an iteration and the start of the next.
LEMMA LifeEnds ==
  ASSUME LifeInv, L!StopUpdater \/ L!StopApp \/ L!Reload \/ L!Crash
  PROVE  LifeInv'
<1>0. LifeShapes
  BY DEF LifeInv
<1>1. CASE L!StopUpdater
  <2>1. /\ life' \in [n : Nat, pc : Places] /\ life'.n = life.n /\ life.pc = "closing"
        /\ started => life'.pc = "draining"
        /\ tg' = L!Settled(fetched) /\ fetched' = {}
        /\ UNCHANGED <<kind, outcome, tasks, toTell, started, backlog>>
    BY <1>0, <1>1 DEF L!StopUpdater, L!At, L!Go, LifeShapes, Places
  <2>2. toTell = {}
    BY <2>1 DEF LifeInv
  <2>3. LifeShapes'
    BY <1>0, <2>1 DEF LifeShapes, L!Settled
  <2>4. \A t \in tasks' : TaskIsOf(t)'
    BY <2>1 DEF LifeInv, TaskIsOf, L!Private
  <2>5. L!ReadOrTold'
    BY <2>1 DEF LifeInv, CaredFor, L!Private, L!ReadOrTold, L!Settled
  <2> QED BY <2>1, <2>2, <2>3, <2>4, <2>5 DEF LifeInv
<1>2. CASE L!StopApp
  <2>1. /\ life' \in [n : Nat, pc : Places] /\ life'.n = life.n /\ life.pc = "draining"
        /\ started' = FALSE /\ L!Handlers(life.n) = {}
        /\ UNCHANGED <<kind, outcome, tasks, toTell, fetched, backlog, tg>>
    BY <1>0, <1>2 DEF L!StopApp, L!At, L!Go, LifeShapes, Places
  <2>2. toTell = {}
    BY <2>1 DEF LifeInv
  <2>3. \A t \in tasks : t.what # "handler"
    BY <2>1 DEF LifeInv, TaskIsOf, L!Handlers
  <2>4. LifeShapes'
    BY <1>0, <2>1 DEF LifeShapes
  <2>5. \A t \in tasks' : TaskIsOf(t)'
    BY <2>1, <2>3 DEF LifeInv, TaskIsOf, L!Private
  <2>6. (\A v \in L!Updates : v \in fetched' /\ L!Private(v)' => CaredFor(v)') /\ L!ReadOrTold'
    BY <2>1 DEF LifeInv, L!Private, L!ReadOrTold, CaredFor
  <2> QED BY <2>1, <2>2, <2>4, <2>5, <2>6 DEF LifeInv
<1>3. CASE L!Reload
  <2>1. /\ life' \in [n : Nat, pc : Places] /\ life.pc = "closed"
        /\ UNCHANGED <<kind, outcome, tasks, toTell, fetched, backlog, tg, started>>
    BY <1>0, <1>3 DEF L!Reload, L!At, LifeShapes, Places
  <2>2. ~started /\ toTell = {}
    BY <2>1 DEF LifeInv
  <2>3. LifeShapes'
    BY <1>0, <2>1 DEF LifeShapes
  <2>4. \A t \in tasks' : TaskIsOf(t)'
    BY <2>1, <2>2 DEF LifeInv, TaskIsOf, L!Private
  <2>5. (\A v \in L!Updates : v \in fetched' /\ L!Private(v)' => CaredFor(v)') /\ L!ReadOrTold'
    BY <2>1 DEF LifeInv, L!Private, L!ReadOrTold, CaredFor
  <2> QED BY <2>1, <2>2, <2>3, <2>4, <2>5 DEF LifeInv
<1>4. CASE L!Crash
  <2>0. life' \in [n : Nat, pc : Places]
    BY <1>0, <1>4 DEF L!Crash, LifeShapes, Places
  <2>1. /\ started' = FALSE /\ fetched' = {} /\ backlog' = {}
        /\ toTell' = {} /\ tasks' = {} /\ UNCHANGED <<kind, tg>>
    BY <1>4 DEF L!Crash
  <2>2. /\ outcome' \in [L!Updates -> {"none", "run", "told", "lost"}]
        /\ \A u \in L!Updates : outcome[u] # "none" => outcome'[u] # "none"
        /\ \A u \in L!Updates : u \in toTell \/ (tg[u] = "confirmed" /\ \E t \in tasks : t.u = u)
             => outcome'[u] # "none"
    BY <1>0, <1>4 DEF L!Crash, LifeShapes
  <2>3. LifeShapes'
    BY <1>0, <2>0, <2>1, <2>2 DEF LifeShapes
  <2>4. L!ReadOrTold'
    BY <2>1, <2>2 DEF LifeInv, L!Private, L!ReadOrTold
  <2> QED BY <2>1, <2>3, <2>4 DEF LifeInv
<1> QED BY <1>1, <1>2, <1>3, <1>4

\* No step breaks the invariant.
LEMMA LifeStep == ASSUME LifeInv, L!Next \/ UNCHANGED L!vars PROVE LifeInv'
<1>1. CASE UNCHANGED L!vars
  <2>1. UNCHANGED <<kind, tg, life, started, fetched, backlog, toTell, tasks, outcome>>
    BY <1>1 DEF L!vars
  <2> QED BY <2>1, LifeGoesOn DEF LifeInv, LifeShapes
<1>2. CASE L!Next
  BY <1>2, LifeMovesOn, LifeAnnounces, LifeServes, LifeEnds DEF L!Next
<1> QED BY <1>1, <1>2

\* A step of the whole while the life of the channel is its subject is one of it.
LEMMA LifeMoves ==
  [Next]_vars => /\ subject' = subject
                 /\ subject = "life" => L!Next \/ UNCHANGED L!vars
BY OneSubject DEF Next, vars, OfLife, L!vars

\* Through reloads, starts that fail half way and crashes: no handler is left once the container
\* of its iteration is down, and a private message that Telegram will not give again is being
\* read, came to something, or its chat is to be told (channel.py, bot.py, runner.py).
THEOREM NoMessageIsForgotten == Spec => []LifeHolds
<1> DEFINE J == subject = "life" => LifeInv
<1>1. Init => J
  BY LifeInit DEF Init
<1>2. J /\ [Next]_vars => J'
  BY LifeMoves, LifeStep
<1>3. J => LifeHolds
  BY DEF LifeInv, TaskIsOf, L!HandlersAreDrained, L!At, LifeHolds
<1> QED BY <1>1, <1>2, <1>3, PTL DEF Spec
-----------------------------------------------------------------------------
(***************************************************************************)
(* TelegramSends: the invariant                                            *)
(***************************************************************************)
Entries == [id : Senders, round : Nat \ {0}, part : Nat, content : {"whole", "error"}]
Noted == rows \cup lan

\* What the variables are; a file is rewound whenever a request reads it.
SendsShapes ==
  /\ sends \in [Senders -> S!Sent \cup {None}] /\ chat \in [S!AllChats -> Seq(Entries)]
  /\ \A id \in Senders :
       sends[id] # None => sends[id].rewound /\ sends[id].at <= sends[id].parts

\* What a chat shows is of a send to that chat; of what its caller last asked for, the parts
\* before the one it is at, or that one too if no other request follows.
Placed(c, i) ==
  LET e == chat[c][i]
      s == sends[e.id]
  IN /\ s # None /\ s.chat = c /\ e.round <= s.round
     /\ e.content = "error" => e.part = 0
     /\ e.content = "whole" =>
          e.part # 0 /\ (e.round = s.round => e.part <= s.at /\ (s.pc = "send" => e.part < s.at))
EntriesPlaced == \A c \in S!AllChats : \A i \in 1..Len(chat[c]) : Placed(c, i)

InOrder(c, i, j) ==
  LET a == chat[c][i]
      b == chat[c][j]
  IN i < j /\ a.id = b.id /\ a.round = b.round /\ b.content = "whole" => a.part < b.part
EntriesOrdered == \A c \in S!AllChats : \A i, j \in 1..Len(chat[c]) : InOrder(c, i, j)

\* As many parts are in the chat as the send is past, and all of a send that is told whole.
Counted(id) ==
  LET s == sends[id]
      n == Cardinality(S!Of(id))
  IN s # None =>
       /\ s.pc = "send" => n = s.at - 1
       /\ s.pc = "delivered" \/ (s.pc = "ok" /\ s.sink = "telegram") => n = s.parts
       /\ <<id, s.round>> \in Noted => s.pc \in {"ok", "unreachable"} /\ n = s.parts
       /\ \A r \in Nat \ {0} : <<id, r>> \in Noted => r <= s.round
AllCounted == \A id \in Senders : Counted(id)
NotedAreSent ==
  \A id \in Senders : \A r : <<id, r>> \in Noted => sends[id] # None /\ r \in Nat \ {0}

SendsInv == SendsShapes /\ EntriesPlaced /\ EntriesOrdered /\ AllCounted /\ NotedAreSent
-----------------------------------------------------------------------------
(***************************************************************************)
(* TelegramSends: what every step needs                                    *)
(***************************************************************************)
\* The router always finds a sink: the file is the last of its options.
LEMMA ResolvedIsASink ==
  ASSUME S!SendsAssumption, NEW target, NEW agent
  PROVE  S!Resolved(target, agent) \in S!Sinks
<1> DEFINE options == <<target, conf.override[target], conf.default, "file">>
           usable == {i \in DOMAIN options :
                        options[i] # None /\ S!Lookup(options[i], agent) # None}
<1>1. DOMAIN options = 1..4 /\ options[4] = "file"
  OBVIOUS
<1>2. 4 \in usable /\ usable \subseteq 1..4
  <2>1. "file" # None /\ S!Lookup("file", agent) = "file"
    BY DEF S!Lookup, S!SendsAssumption, S!Sinks
  <2> QED BY <1>1, <2>1
<1>3. \E i \in usable : \A j \in usable : i <= j
  <2>1. CASE 1 \in usable
    BY <1>2, <2>1
  <2>2. CASE 1 \notin usable /\ 2 \in usable
    BY <1>2, <2>2
  <2>3. CASE 1 \notin usable /\ 2 \notin usable /\ 3 \in usable
    BY <1>2, <2>3
  <2>4. CASE 1 \notin usable /\ 2 \notin usable /\ 3 \notin usable
    BY <1>2, <2>4
  <2> QED BY <2>1, <2>2, <2>3, <2>4
<1>4. PICK k \in usable : k = CHOOSE i \in usable : \A j \in usable : i <= j
  <2> HIDE DEF usable
  <2> QED BY <1>3
<1>5. S!Resolved(target, agent) = options[k]
  BY <1>4 DEF S!Resolved
<1>6. S!Lookup(options[k], agent) # None
  BY <1>4
<1>7. ASSUME NEW o, S!Lookup(o, agent) # None PROVE o \in S!Sinks
  BY <1>7 DEF S!Lookup, S!Sinks
<1> QED BY <1>5, <1>6, <1>7

\* The entries of a send are finitely many.
LEMMA OfIsFinite ==
  ASSUME SendsShapes, NEW id \in Senders, sends[id] # None
  PROVE  /\ S!Of(id) \subseteq 1..Len(chat[sends[id].chat]) /\ IsFiniteSet(S!Of(id))
         /\ Cardinality(S!Of(id)) \in Nat
<1>1. sends[id] \in S!Sent
  BY DEF SendsShapes
<1>2. chat[sends[id].chat] \in Seq(Entries)
  BY <1>1 DEF SendsShapes, S!Sent
<1>3. S!Of(id) \subseteq 1..Len(chat[sends[id].chat]) /\ Len(chat[sends[id].chat]) \in Nat
  BY <1>2 DEF S!Of
<1>4. IsFiniteSet(1..Len(chat[sends[id].chat]))
  BY <1>3, FS_Interval
<1> QED BY <1>3, <1>4, FS_Subset, FS_CardinalityType

\* A step of one send, after which its record is r.
Becomes(id, r) ==
  sends' \in [Senders -> S!Sent \cup {None}] /\ sends'[id] = r
  /\ \A o \in Senders : o # id => sends'[o] = sends[o]

\* One send changes, and the others are as they were.
LEMMA OneSendMoves ==
  ASSUME SendsShapes, NEW id \in Senders, NEW r \in S!Sent, sends' = [sends EXCEPT ![id] = r]
  PROVE  Becomes(id, r)
  BY DEF SendsShapes, Becomes

\* The variables stay what they are when one send changes.
LEMMA SendsShapesStay ==
  ASSUME SendsShapes, NEW id \in Senders, NEW r \in S!Sent, Becomes(id, r), r.at <= r.parts,
         r.rewound, chat' \in [S!AllChats -> Seq(Entries)]
  PROVE  SendsShapes'
  BY DEF SendsShapes, Becomes

\* An entry of a chat.
LEMMA EntryIs ==
  ASSUME SendsShapes, NEW c \in S!AllChats, NEW i \in 1..Len(chat[c])
  PROVE  /\ chat[c] \in Seq(Entries) /\ chat[c][i] \in Entries
         /\ chat[c][i].id \in Senders /\ chat[c][i].round \in Nat \ {0}
         /\ chat[c][i].part \in Nat
<1>1. chat[c] \in Seq(Entries)
  BY DEF SendsShapes
<1>2. chat[c][i] \in Entries
  BY <1>1
<1> QED BY <1>1, <1>2 DEF Entries

\* What a send keeps while its caller does not ask again.
SameSend(r, s) ==
  r.chat = s.chat /\ r.parts = s.parts /\ r.round = s.round /\ r.sink = s.sink

-----------------------------------------------------------------------------
(***************************************************************************)
(* TelegramSends: a send starts, ends or is asked for again                *)
(***************************************************************************)
\* A send of which nothing is shown or noted yet.
LEMMA ASendStarts ==
  ASSUME S!SendsAssumption, SendsInv, NEW id \in Senders, sends[id] = None, NEW r \in S!Sent,
         Becomes(id, r), r.at = 1, r.round = 1, r.pc = "send", r.rewound,
         UNCHANGED <<chat, rows, lan>>
  PROVE  SendsInv'
<1>1. SendsShapes'
  <2>1. r.at <= r.parts
    <3>1. r.parts \in Nat \ {0}
      BY DEF S!Sent
    <3> QED BY <3>1
  <2>2. chat' \in [S!AllChats -> Seq(Entries)]
    BY DEF SendsInv, SendsShapes
  <2> QED BY <2>1, <2>2, SendsShapesStay DEF SendsInv
<1>2. \A c \in S!AllChats : \A i \in 1..Len(chat[c]) : chat[c][i].id \in Senders /\ chat[c][i].id # id
  BY EntryIs DEF SendsInv, EntriesPlaced, Placed
<1>3. EntriesPlaced'
  <2> SUFFICES ASSUME NEW c \in S!AllChats, NEW i \in 1..Len(chat[c]) PROVE Placed(c, i)'
    BY DEF EntriesPlaced, S!AllChats
  <2>1. Placed(c, i)
    BY DEF SendsInv, EntriesPlaced
  <2>2. sends'[chat[c][i].id] = sends[chat[c][i].id]
    BY <1>2 DEF Becomes
  <2> QED BY <2>1, <2>2 DEF Placed
<1>4. EntriesOrdered'
  BY DEF SendsInv, EntriesOrdered, InOrder, S!AllChats
<1>5. NotedAreSent'
  BY DEF SendsInv, NotedAreSent, Becomes, Noted, S!SendsAssumption
<1>6. AllCounted'
  <2> SUFFICES ASSUME NEW o \in Senders PROVE Counted(o)'
    BY DEF AllCounted
  <2>1. CASE o # id
    <3>1. sends'[o] = sends[o] /\ S!Of(o)' = S!Of(o) /\ Counted(o)
      BY <2>1 DEF Becomes, S!Of, SendsInv, AllCounted
    <3> QED BY <3>1 DEF Counted, Noted
  <2>2. CASE o = id
    <3>1. r.chat \in S!AllChats
      BY DEF S!Sent
    <3>2. S!Of(id)' = {}
      BY <1>2, <3>1 DEF S!Of, Becomes, SendsInv, SendsShapes
    <3>3. Cardinality(S!Of(id)') = 0
      BY <3>2, FS_EmptySet
    <3>4. \A n : <<id, n>> \notin Noted'
      BY DEF SendsInv, NotedAreSent, Noted
    <3> QED BY <2>2, <3>3, <3>4 DEF Counted, Becomes
  <2> QED BY <2>1, <2>2
<1> QED BY <1>1, <1>3, <1>4, <1>5, <1>6 DEF SendsInv

\* A send that is not shown, ends apart from Telegram or changes how it is sent.
LEMMA ASendGoesOn ==
  ASSUME S!SendsAssumption, SendsInv, NEW id \in Senders, sends[id] # None, NEW r \in S!Sent,
         Becomes(id, r), SameSend(r, sends[id]), r.at = sends[id].at, r.rewound,
         sends[id].pc \in {"send", "refused"},
         r.pc = sends[id].pc \/ r.pc \in {"unreachable", "refused", "told"}
           \/ (r.pc = "ok" /\ r.sink # "telegram"),
         UNCHANGED <<chat, rows, lan>>
  PROVE  SendsInv'
<1>0. /\ sends[id] \in S!Sent /\ sends[id].at <= sends[id].parts
      /\ r.pc = "send" => sends[id].pc = "send"
  BY DEF SendsInv, SendsShapes
<1>1. SendsShapes'
  <2>1. chat' \in [S!AllChats -> Seq(Entries)]
    BY DEF SendsInv, SendsShapes
  <2> QED BY <1>0, <2>1, SendsShapesStay DEF SendsInv, SameSend
<1>2. EntriesPlaced'
  <2> SUFFICES ASSUME NEW c \in S!AllChats, NEW i \in 1..Len(chat[c]) PROVE Placed(c, i)'
    BY DEF EntriesPlaced, S!AllChats
  <2>1. Placed(c, i) /\ chat[c][i].id \in Senders
    BY EntryIs DEF SendsInv, EntriesPlaced
  <2>2. CASE chat[c][i].id # id
    BY <2>1, <2>2 DEF Placed, Becomes
  <2>3. CASE chat[c][i].id = id
    BY <1>0, <2>1, <2>3 DEF Placed, Becomes, SameSend, S!SendsAssumption
  <2> QED BY <2>2, <2>3
<1>3. EntriesOrdered'
  BY DEF SendsInv, EntriesOrdered, InOrder, S!AllChats
<1>4. NotedAreSent'
  BY DEF SendsInv, NotedAreSent, Becomes, Noted, S!SendsAssumption
<1>5. AllCounted'
  <2> SUFFICES ASSUME NEW o \in Senders PROVE Counted(o)'
    BY DEF AllCounted
  <2>0. Counted(o)
    BY DEF SendsInv, AllCounted
  <2>1. CASE o # id
    <3>1. sends'[o] = sends[o] /\ S!Of(o)' = S!Of(o)
      BY <2>1 DEF Becomes, S!Of
    <3> QED BY <2>0, <3>1 DEF Counted, Noted
  <2>2. CASE o = id
    <3>1. S!Of(id)' = S!Of(id)
      BY DEF S!Of, Becomes, SameSend
    <3>2. sends'[id] = r
      BY DEF Becomes
    <3>3. <<id, r.round>> \notin Noted'
      BY <1>0, <2>0, <2>2 DEF Counted, SameSend, Noted
    <3>4. \A n \in Nat \ {0} : <<id, n>> \in Noted' => n <= r.round
      BY <2>0, <2>2 DEF Counted, SameSend, Noted
    <3>5. r.pc = "send" => Cardinality(S!Of(id)') = r.at - 1
      BY <1>0, <2>0, <2>2, <3>1 DEF Counted
    <3>6. ~(r.pc = "delivered" \/ (r.pc = "ok" /\ r.sink = "telegram"))
      OBVIOUS
    <3> QED BY <2>2, <3>2, <3>3, <3>4, <3>5, <3>6 DEF Counted
  <2> QED BY <2>1, <2>2
<1> QED BY <1>1, <1>2, <1>3, <1>4, <1>5 DEF SendsInv

\* The caller asks again: what is shown or noted is of an earlier round.
LEMMA ASendIsAskedAgain ==
  ASSUME S!SendsAssumption, SendsInv, NEW id \in Senders, sends[id] # None, NEW r \in S!Sent,
         Becomes(id, r), r.chat = sends[id].chat, r.round = sends[id].round + 1, r.at = 1,
         r.pc = "send", r.rewound, UNCHANGED <<chat, rows, lan>>
  PROVE  SendsInv'
<1>0. sends[id] \in S!Sent /\ sends[id].round \in Nat \ {0} /\ r.round \in Nat \ {0}
      /\ r.chat \in S!AllChats
  BY DEF SendsInv, SendsShapes, S!Sent
<1>1. SendsShapes'
  <2>1. r.at <= r.parts
    <3>1. r.parts \in Nat \ {0}
      BY DEF S!Sent
    <3> QED BY <3>1
  <2>2. chat' \in [S!AllChats -> Seq(Entries)]
    BY DEF SendsInv, SendsShapes
  <2> QED BY <2>1, <2>2, SendsShapesStay DEF SendsInv
<1>2. \A c \in S!AllChats : \A i \in 1..Len(chat[c]) :
        /\ Placed(c, i) /\ chat[c][i].id \in Senders /\ chat[c][i].round \in Nat
        /\ chat[c][i].id = id => chat[c][i].round <= sends[id].round
  <2> SUFFICES ASSUME NEW c \in S!AllChats, NEW i \in 1..Len(chat[c])
               PROVE  /\ Placed(c, i) /\ chat[c][i].id \in Senders /\ chat[c][i].round \in Nat
                      /\ chat[c][i].id = id => chat[c][i].round <= sends[id].round
    OBVIOUS
  <2>1. Placed(c, i)
    BY DEF SendsInv, EntriesPlaced
  <2> QED BY <2>1, EntryIs DEF SendsInv, Placed
<1>3. EntriesPlaced'
  <2> SUFFICES ASSUME NEW c \in S!AllChats, NEW i \in 1..Len(chat[c]) PROVE Placed(c, i)'
    BY DEF EntriesPlaced, S!AllChats
  <2>1. CASE chat[c][i].id # id
    BY <1>2, <2>1 DEF Placed, Becomes
  <2>2. CASE chat[c][i].id = id
    <3>1. chat[c][i].round < r.round /\ chat[c][i].round <= r.round
      BY <1>0, <1>2, <2>2
    <3> QED BY <1>0, <1>2, <2>2, <3>1 DEF Placed, Becomes, S!SendsAssumption
  <2> QED BY <2>1, <2>2
<1>4. EntriesOrdered'
  BY DEF SendsInv, EntriesOrdered, InOrder, S!AllChats
<1>5. NotedAreSent'
  BY DEF SendsInv, NotedAreSent, Becomes, Noted, S!SendsAssumption
<1>6. AllCounted'
  <2> SUFFICES ASSUME NEW o \in Senders PROVE Counted(o)'
    BY DEF AllCounted
  <2>0. Counted(o)
    BY DEF SendsInv, AllCounted
  <2>1. CASE o # id
    <3>1. sends'[o] = sends[o] /\ S!Of(o)' = S!Of(o)
      BY <2>1 DEF Becomes, S!Of
    <3> QED BY <2>0, <3>1 DEF Counted, Noted
  <2>2. CASE o = id
    <3>1. \A i \in 1..Len(chat[r.chat]) : chat[r.chat][i].id = id => chat[r.chat][i].round # r.round
      BY <1>0, <1>2
    <3>2. S!Of(id)' = {}
      BY <1>0, <3>1 DEF S!Of, Becomes, SendsInv, SendsShapes
    <3>3. Cardinality(S!Of(id)') = 0
      BY <3>2, FS_EmptySet
    <3>4. \A n \in Nat \ {0} : <<id, n>> \in Noted' => n <= r.round /\ n # r.round
      BY <1>0, <2>0, <2>2 DEF Counted, Noted
    <3> QED BY <1>0, <2>2, <3>3, <3>4 DEF Counted, Becomes
  <2> QED BY <2>1, <2>2
<1> QED BY <1>1, <1>3, <1>4, <1>5, <1>6 DEF SendsInv
-----------------------------------------------------------------------------
(***************************************************************************)
(* TelegramSends: a request arrives, and the tail of a send                *)
(***************************************************************************)
\* The entry e is shown in the chat of the send id, after which its record is r.
Shows(id, e) ==
  /\ e.id = id /\ e.round = sends[id].round
  /\ chat' = [chat EXCEPT ![sends[id].chat] = Append(chat[sends[id].chat], e)]

\* What a chat holds once it shows one more entry.
LEMMA ShownIs ==
  ASSUME SendsShapes, NEW id \in Senders, sends[id] # None, NEW e \in Entries, Shows(id, e),
         NEW c, NEW n, c = sends[id].chat, n = Len(chat[c]) + 1
  PROVE  /\ c \in S!AllChats /\ n \in Nat \ {0} /\ chat' \in [S!AllChats -> Seq(Entries)]
         /\ \A d \in S!AllChats : d # c => chat'[d] = chat[d]
         /\ 1..Len(chat'[c]) = (1..Len(chat[c])) \cup {n} /\ n \notin 1..Len(chat[c])
         /\ \A i \in 1..Len(chat[c]) : chat'[c][i] = chat[c][i]
         /\ chat'[c][n] = e
<1>1. c \in S!AllChats
  BY DEF SendsShapes, S!Sent
<1>2. chat[c] \in Seq(Entries) /\ chat \in [S!AllChats -> Seq(Entries)]
  BY <1>1 DEF SendsShapes
<1>3. PICK s : s = chat[c]
  OBVIOUS
<1>4. /\ Append(s, e) \in Seq(Entries) /\ Len(Append(s, e)) = Len(s) + 1 /\ Len(s) \in Nat
      /\ \A i \in 1..Len(s) : Append(s, e)[i] = s[i]
      /\ Append(s, e)[Len(s) + 1] = e
  BY <1>2, <1>3
<1>5. /\ chat' \in [S!AllChats -> Seq(Entries)] /\ chat'[c] = Append(s, e)
      /\ \A d \in S!AllChats : d # c => chat'[d] = chat[d]
  BY <1>1, <1>2, <1>3, <1>4 DEF Shows
<1>6. 1..(Len(s) + 1) = (1..Len(s)) \cup {Len(s) + 1} /\ Len(s) + 1 \notin 1..Len(s)
  BY <1>4
<1> QED BY <1>1, <1>3, <1>4, <1>5, <1>6

\* What the step does to the entries of every send.
LEMMA OfGrows ==
  ASSUME SendsShapes, SendsShapes', NEW id \in Senders, sends[id] # None, NEW e \in Entries,
         Shows(id, e), NEW r \in S!Sent, Becomes(id, r), SameSend(r, sends[id])
  PROVE  /\ Cardinality(S!Of(id)') = Cardinality(S!Of(id)) + 1
         /\ \A o \in Senders : o # id /\ sends[o] # None => S!Of(o)' = S!Of(o)
<1>0. PICK c, n : c = sends[id].chat /\ n = Len(chat[c]) + 1
  OBVIOUS
<1>1. /\ c \in S!AllChats /\ n \in Nat \ {0}
      /\ \A d \in S!AllChats : d # c => chat'[d] = chat[d]
      /\ 1..Len(chat'[c]) = (1..Len(chat[c])) \cup {n} /\ n \notin 1..Len(chat[c])
      /\ \A i \in 1..Len(chat[c]) : chat'[c][i] = chat[c][i]
      /\ chat'[c][n] = e
  BY <1>0, ShownIs
<1>2. \A d \in S!AllChats : /\ DOMAIN chat[d] = 1..Len(chat[d])
                         /\ DOMAIN chat'[d] = 1..Len(chat'[d])
  BY DEF SendsShapes
<1>3. S!Of(id)' = S!Of(id) \cup {n}
  <2>1. sends'[id].chat = c /\ sends'[id].round = sends[id].round
    BY <1>0 DEF Becomes, SameSend
  <2>2. S!Of(id)' = {i \in 1..Len(chat'[c]) :
                       chat'[c][i].id = id /\ chat'[c][i].round = sends[id].round}
    BY <1>1, <1>2, <2>1 DEF S!Of
  <2>3. S!Of(id) = {i \in 1..Len(chat[c]) :
                      chat[c][i].id = id /\ chat[c][i].round = sends[id].round}
    BY <1>0, <1>1, <1>2 DEF S!Of
  <2> QED BY <1>1, <2>2, <2>3 DEF Shows
<1>4. n \notin S!Of(id)
  BY <1>0, <1>1, OfIsFinite
<1>5. Cardinality(S!Of(id)') = Cardinality(S!Of(id)) + 1
  BY <1>3, <1>4, OfIsFinite, FS_AddElement
<1>6. ASSUME NEW o \in Senders, o # id, sends[o] # None PROVE S!Of(o)' = S!Of(o)
  <2>1. sends'[o] = sends[o] /\ sends[o].chat \in S!AllChats
    BY <1>6 DEF Becomes, SendsShapes, S!Sent
  <2>2. CASE sends[o].chat # c
    BY <1>1, <2>1, <2>2 DEF S!Of
  <2>3. CASE sends[o].chat = c
    <3>1. S!Of(o)' = {i \in 1..Len(chat'[c]) :
                        chat'[c][i].id = o /\ chat'[c][i].round = sends[o].round}
      BY <1>1, <1>2, <2>1, <2>3 DEF S!Of
    <3>2. S!Of(o) = {i \in 1..Len(chat[c]) :
                       chat[c][i].id = o /\ chat[c][i].round = sends[o].round}
      BY <1>1, <1>2, <2>3 DEF S!Of
    <3> QED BY <1>1, <1>6, <3>1, <3>2 DEF Shows
  <2> QED BY <2>2, <2>3
<1> QED BY <1>5, <1>6

\* A part arrives, or the error of an answer that was refused.
LEMMA AnEntryIsShown ==
  ASSUME S!SendsAssumption, SendsInv, NEW id \in Senders, sends[id] # None, NEW e \in Entries,
         Shows(id, e), NEW r \in S!Sent, Becomes(id, r), SameSend(r, sends[id]), r.rewound,
         \/ /\ sends[id].pc = "send" /\ e.content = "whole" /\ e.part = sends[id].at
            /\ \/ /\ r.pc = "send" /\ r.at = sends[id].at + 1 /\ sends[id].at < sends[id].parts
               \/ /\ r.pc = "delivered" /\ r.at = sends[id].at /\ sends[id].at = sends[id].parts
               \/ r.pc = "unreachable" /\ r.at = sends[id].at
         \/ /\ sends[id].pc = "refused" /\ e.content = "error" /\ e.part = 0
            /\ r.pc = "told" /\ r.at = sends[id].at,
         UNCHANGED <<rows, lan>>
  PROVE  SendsInv'
<1>0. /\ sends[id] \in S!Sent /\ sends[id].at \in Nat \ {0} /\ sends[id].parts \in Nat \ {0}
      /\ sends[id].round \in Nat \ {0} /\ sends[id].at <= sends[id].parts
      /\ r.at <= r.parts /\ sends[id].at <= r.at /\ r # None /\ sends' [id] = r
  <2>1. sends[id] \in S!Sent /\ sends[id].at <= sends[id].parts
    BY DEF SendsInv, SendsShapes
  <2>2. /\ sends[id].at \in Nat \ {0} /\ sends[id].parts \in Nat \ {0}
        /\ sends[id].round \in Nat \ {0}
    BY <2>1 DEF S!Sent
  <2>3. r.at <= r.parts /\ sends[id].at <= r.at
    BY <2>1, <2>2 DEF SameSend
  <2> QED BY <2>1, <2>2, <2>3 DEF S!SendsAssumption, Becomes
<1>1. PICK c, n : c = sends[id].chat /\ n = Len(chat[c]) + 1
  OBVIOUS
<1>2. /\ c \in S!AllChats /\ n \in Nat \ {0} /\ chat' \in [S!AllChats -> Seq(Entries)]
      /\ \A d \in S!AllChats : d # c => chat'[d] = chat[d]
      /\ 1..Len(chat'[c]) = (1..Len(chat[c])) \cup {n} /\ n \notin 1..Len(chat[c])
      /\ \A i \in 1..Len(chat[c]) : chat'[c][i] = chat[c][i]
      /\ chat'[c][n] = e
  BY <1>1, ShownIs DEF SendsInv
<1>3. SendsShapes'
  BY <1>0, <1>2, SendsShapesStay DEF SendsInv
<1>4. ASSUME NEW d \in S!AllChats, NEW i \in 1..Len(chat[d]) PROVE Placed(d, i)'
  <2>1. Placed(d, i) /\ chat'[d][i] = chat[d][i]
    BY <1>2 DEF SendsInv, EntriesPlaced
  <2>2. /\ chat[d][i].id \in Senders /\ chat[d][i].round \in Nat \ {0}
        /\ chat[d][i].part \in Nat
    BY EntryIs DEF SendsInv
  <2>3. CASE chat[d][i].id # id
    BY <2>1, <2>2, <2>3 DEF Placed, Becomes
  <2>4. CASE chat[d][i].id = id
    <3>1. /\ sends[id].chat = d /\ chat[d][i].round <= sends[id].round
          /\ chat[d][i].content = "error" => chat[d][i].part = 0
          /\ chat[d][i].content = "whole" =>
               /\ chat[d][i].part # 0
               /\ chat[d][i].round = sends[id].round =>
                    /\ chat[d][i].part <= sends[id].at
                    /\ sends[id].pc = "send" => chat[d][i].part < sends[id].at
      BY <2>1, <2>4 DEF Placed
    <3>2. /\ r.chat = d /\ r.round = sends[id].round
      BY <3>1 DEF SameSend
    <3>3. chat[d][i].content = "whole" /\ chat[d][i].round = r.round =>
            chat[d][i].part <= r.at /\ (r.pc = "send" => chat[d][i].part < r.at)
      <4>1. r.at \in Nat /\ (r.pc = "send" => r.at = sends[id].at + 1)
        BY <1>0 DEF S!Sent
      <4> QED BY <1>0, <2>2, <3>1, <3>2, <4>1
    <3> QED BY <1>0, <2>1, <2>4, <3>1, <3>2, <3>3 DEF Placed
  <2> QED BY <2>3, <2>4
<1>5. Placed(c, n)'
  <2>1. e.id = id /\ e.round = sends[id].round /\ r.chat = c /\ r.round = e.round
    BY <1>1 DEF Shows, SameSend
  <2>2. e.content = "whole" => e.part # 0 /\ e.part <= r.at /\ (r.pc = "send" => e.part < r.at)
    BY <1>0
  <2>3. (e.content = "error" => e.part = 0) /\ e.round <= r.round
    BY <1>0, <2>1
  <2> QED BY <1>0, <1>2, <2>1, <2>2, <2>3 DEF Placed
<1>6. EntriesPlaced'
  <2> SUFFICES ASSUME NEW d \in S!AllChats, NEW i \in 1..Len(chat'[d]) PROVE Placed(d, i)'
    BY DEF EntriesPlaced, S!AllChats
  <2> QED BY <1>2, <1>4, <1>5
<1>7. EntriesOrdered'
  <2> SUFFICES ASSUME NEW d \in S!AllChats, NEW i \in 1..Len(chat'[d]), NEW j \in 1..Len(chat'[d])
               PROVE  InOrder(d, i, j)'
    BY DEF EntriesOrdered, S!AllChats
  <2>1. CASE i \in 1..Len(chat[d]) /\ j \in 1..Len(chat[d])
    <3>1. InOrder(d, i, j) /\ chat'[d][i] = chat[d][i] /\ chat'[d][j] = chat[d][j]
      BY <1>2, <2>1 DEF SendsInv, EntriesOrdered
    <3> QED BY <3>1 DEF InOrder
  <2>2. CASE d = c /\ j = n /\ i \in 1..Len(chat[c])
    <3>1. Placed(c, i) /\ chat'[c][i] = chat[c][i] /\ chat[c][i].part \in Nat
          /\ chat[c][i].content \in {"whole", "error"}
      BY <1>2, <2>2, EntryIs DEF SendsInv, EntriesPlaced, Entries
    <3>2. ASSUME chat[c][i].id = id, chat[c][i].round = e.round, e.content = "whole"
          PROVE  chat[c][i].part < e.part
      BY <1>0, <3>1, <3>2 DEF Placed, Shows
    <3> QED BY <1>2, <2>2, <3>1, <3>2 DEF InOrder, Shows
  <2>3. CASE d = c /\ i = n
    <3>0. Len(chat[c]) \in Nat
      BY <1>2 DEF SendsInv, SendsShapes
    <3>1. ~(i < j)
      BY <1>1, <1>2, <2>3, <3>0
    <3> QED BY <3>1 DEF InOrder
  <2> QED BY <1>2, <2>1, <2>2, <2>3
<1>8. NotedAreSent'
  BY <1>0 DEF SendsInv, NotedAreSent, Becomes, Noted
<1>9. AllCounted'
  <2> SUFFICES ASSUME NEW o \in Senders PROVE Counted(o)'
    BY DEF AllCounted
  <2>0. Counted(o) /\ Counted(id)
    BY DEF SendsInv, AllCounted
  <2>1. CASE o # id
    <3>1. sends'[o] = sends[o] /\ (sends[o] # None => S!Of(o)' = S!Of(o))
      BY <1>3, <2>1, OfGrows DEF Becomes, SendsInv
    <3> QED BY <2>0, <3>1 DEF Counted, Noted
  <2>2. CASE o = id
    <3>1. Cardinality(S!Of(id)') = Cardinality(S!Of(id)) + 1 /\ Cardinality(S!Of(id)) \in Nat
      BY <1>3, OfGrows, OfIsFinite DEF SendsInv
    <3>2. sends[id].pc = "send" => Cardinality(S!Of(id)) = sends[id].at - 1
      BY <2>0 DEF Counted
    <3>3. <<id, r.round>> \notin Noted'
      BY <2>0 DEF Counted, SameSend, Noted
    <3>4. \A m \in Nat \ {0} : <<id, m>> \in Noted' => m <= r.round
      BY <2>0 DEF Counted, SameSend, Noted
    <3>5. r.pc = "send" => Cardinality(S!Of(id)') = r.at - 1
      BY <1>0, <3>1, <3>2
    <3>6. r.pc = "delivered" => Cardinality(S!Of(id)') = r.parts
      BY <1>0, <3>1, <3>2 DEF SameSend
    <3>7. r.pc # "ok"
      OBVIOUS
    <3> QED BY <1>0, <2>2, <3>3, <3>4, <3>5, <3>6, <3>7 DEF Counted
  <2> QED BY <2>1, <2>2
<1> QED BY <1>3, <1>6, <1>7, <1>8, <1>9 DEF SendsInv

\* The tail of a send: an event and a row of what is whole in the chat.
LEMMA ASendIsNoted ==
  ASSUME S!SendsAssumption, SendsInv, NEW id \in Senders, S!Record(id) PROVE SendsInv'
<1>1. PICK s, p : s = sends[id] /\ p = <<id, s.round>>
  OBVIOUS
<1>2. /\ s # None /\ s.pc = "delivered" /\ UNCHANGED chat
      /\ lan' \in {lan, lan \cup {p}} /\ rows' \in {rows, rows \cup {p}}
      /\ \/ sends' = [sends EXCEPT ![id].pc = "ok"]
         \/ sends' = [sends EXCEPT ![id].pc = "unreachable"]
  BY <1>1 DEF S!Record, S!Ended
<1>3. s \in S!Sent /\ s.rewound /\ s.at <= s.parts /\ s.round \in Nat \ {0}
  BY <1>1, <1>2 DEF SendsInv, SendsShapes, S!Sent
<1>4. PICK r \in S!Sent : /\ Becomes(id, r) /\ SameSend(r, s) /\ r.at = s.at /\ r.rewound
                          /\ r.pc \in {"ok", "unreachable"} /\ r # None
  <2>1. ASSUME NEW pc \in {"ok", "unreachable"}, sends' = [sends EXCEPT ![id].pc = pc]
        PROVE  \E r \in S!Sent : /\ Becomes(id, r) /\ SameSend(r, s) /\ r.at = s.at /\ r.rewound
                                 /\ r.pc \in {"ok", "unreachable"} /\ r # None
    <3>1. PICK r : r = [s EXCEPT !.pc = pc]
      OBVIOUS
    <3>2. r \in S!Sent
      BY <1>3, <3>1 DEF S!Sent
    <3>3. /\ SameSend(r, s) /\ r.at = s.at /\ r.rewound /\ r.pc = pc
      BY <1>3, <3>1 DEF S!Sent, SameSend
    <3>4. sends' = [sends EXCEPT ![id] = r]
      BY <1>1, <2>1, <3>1
    <3>5. Becomes(id, r)
      BY <3>2, <3>4, OneSendMoves DEF SendsInv
    <3> QED BY <3>2, <3>3, <3>5 DEF S!SendsAssumption
  <2> QED BY <1>2, <2>1
<1>5. SendsShapes'
  <2>1. chat' \in [S!AllChats -> Seq(Entries)] /\ r.at <= r.parts
    BY <1>2, <1>3, <1>4 DEF SendsInv, SendsShapes, SameSend
  <2> QED BY <1>4, <2>1, SendsShapesStay DEF SendsInv
<1>6. EntriesPlaced'
  <2> SUFFICES ASSUME NEW c \in S!AllChats, NEW i \in 1..Len(chat[c]) PROVE Placed(c, i)'
    BY <1>2 DEF EntriesPlaced, S!AllChats
  <2>1. Placed(c, i) /\ chat[c][i].id \in Senders
    BY EntryIs DEF SendsInv, EntriesPlaced
  <2>2. CASE chat[c][i].id # id
    BY <1>2, <1>4, <2>1, <2>2 DEF Placed, Becomes
  <2>3. CASE chat[c][i].id = id
    BY <1>1, <1>2, <1>4, <2>1, <2>3 DEF Placed, Becomes, SameSend
  <2> QED BY <2>2, <2>3
<1>7. EntriesOrdered'
  BY <1>2 DEF SendsInv, EntriesOrdered, InOrder, S!AllChats
<1>8. Noted \subseteq Noted' /\ Noted' \subseteq Noted \cup {p}
  BY <1>2 DEF Noted
<1>9. NotedAreSent'
  <2> SUFFICES ASSUME NEW o \in Senders, NEW m, <<o, m>> \in Noted'
               PROVE  sends'[o] # None /\ m \in Nat \ {0}
    BY DEF NotedAreSent
  <2>1. CASE <<o, m>> \in Noted
    BY <1>4, <2>1 DEF SendsInv, NotedAreSent, Becomes
  <2>2. CASE <<o, m>> = p
    BY <1>1, <1>3, <1>4, <2>2 DEF Becomes
  <2> QED BY <1>8, <2>1, <2>2
<1>10. AllCounted'
  <2> SUFFICES ASSUME NEW o \in Senders PROVE Counted(o)'
    BY DEF AllCounted
  <2>0. Counted(o)
    BY DEF SendsInv, AllCounted
  <2>1. CASE o # id
    <3>1. sends'[o] = sends[o] /\ S!Of(o)' = S!Of(o)
      BY <1>2, <1>4, <2>1 DEF Becomes, S!Of
    <3>2. \A m : <<o, m>> \in Noted' <=> <<o, m>> \in Noted
      BY <1>1, <1>8, <2>1
    <3> QED BY <2>0, <3>1, <3>2 DEF Counted
  <2>2. CASE o = id
    <3>1. S!Of(id)' = S!Of(id) /\ sends'[id] = r
      BY <1>1, <1>2, <1>4 DEF S!Of, Becomes, SameSend
    <3>2. Cardinality(S!Of(id)') = r.parts
      BY <1>1, <1>2, <1>4, <2>0, <2>2, <3>1 DEF Counted, SameSend
    <3>3. \A m \in Nat \ {0} : <<id, m>> \in Noted' => m <= r.round
      <4>1. \A m \in Nat \ {0} : <<id, m>> \in Noted => m <= s.round
        BY <1>1, <1>2, <2>0, <2>2 DEF Counted
      <4> QED BY <1>1, <1>3, <1>4, <1>8, <4>1 DEF SameSend
    <3> QED BY <1>4, <2>2, <3>1, <3>2, <3>3 DEF Counted
  <2> QED BY <2>1, <2>2
<1> QED BY <1>5, <1>6, <1>7, <1>9, <1>10 DEF SendsInv
-----------------------------------------------------------------------------
(***************************************************************************)
(* TelegramSends: the theorem                                              *)
(***************************************************************************)
\* A new send is one.
LEMMA NewIsASend ==
  ASSUME NEW from \in {"reply", "text_tool", "file_tool", "router"}, NEW what \in S!Kinds,
         NEW c \in S!AllChats, NEW sink \in S!Sinks, NEW parts \in Nat \ {0}, NEW html \in BOOLEAN,
         NEW record \in BOOLEAN, NEW r, r = S!New(from, what, c, sink, parts, html, record)
  PROVE  /\ r \in S!Sent /\ r.at = 1 /\ r.round = 1 /\ r.pc = "send" /\ r.rewound /\ r.chat = c
         /\ r.parts = parts /\ r.sink = sink
<1>1. r = [from |-> from, kind |-> what, chat |-> c, sink |-> sink, parts |-> parts, at |-> 1,
           html |-> html, tries |-> 1, rewound |-> TRUE, record |-> record, round |-> 1,
           pc |-> "send"]
  BY DEF S!New
<1>2. 1 \in Nat \ {0} /\ 1 \in Nat
  OBVIOUS
<1>3. r \in S!Sent
  BY <1>1, <1>2 DEF S!Sent
<1> QED BY <1>1, <1>3

\* A text, a file, or whatever is routed, is a new send.
LEMMA ASendOfTheChannel ==
  ASSUME S!SendsAssumption, SendsInv, NEW id \in Senders,
         \/ \E c \in S!AllChats, n \in 1 .. MaxParts, from \in {"reply", "text_tool"} :
              S!SendText(id, from, c, n)
         \/ \E c \in S!AllChats, what \in S!Kinds \ {"text"}, html \in BOOLEAN :
              S!SendFile(id, what, c, html)
         \/ \E t \in {"cli", "telegram", "null"}, agent \in BOOLEAN, c \in S!AllChats,
               wanted \in BOOLEAN : S!Route(id, t, agent, c, 1, wanted)
  PROVE  SendsInv'
<1>0. /\ "text" \in S!Kinds /\ "telegram" \in S!Sinks
      /\ S!Recorded("file_tool", TRUE, TRUE) \in BOOLEAN
      /\ \A from \in {"reply", "text_tool"} : S!Recorded(from, TRUE, TRUE) \in BOOLEAN
      /\ \A agent, wanted \in BOOLEAN : S!Recorded("router", agent, wanted) \in BOOLEAN
  BY DEF S!Kinds, S!Sinks, S!Recorded
<1>1. ASSUME NEW r \in S!Sent, r.at = 1, r.round = 1, r.pc = "send", r.rewound, sends[id] = None,
             sends' = [sends EXCEPT ![id] = r], UNCHANGED <<chat, rows, lan>>
      PROVE  SendsInv'
  BY <1>1, ASendStarts, OneSendMoves DEF SendsInv
<1>2. ASSUME NEW c \in S!AllChats, NEW n \in 1 .. MaxParts, NEW from \in {"reply", "text_tool"},
             S!SendText(id, from, c, n)
      PROVE  SendsInv'
  <2>0. PICK h, w \in BOOLEAN : h = TRUE /\ w = S!Recorded(from, TRUE, TRUE)
    BY <1>0
  <2>1. PICK r : r = S!New(from, "text", c, "telegram", n, h, w)
    OBVIOUS
  <2>2. n \in Nat \ {0}
    BY DEF S!SendsAssumption
  <2>3. r \in S!Sent /\ r.at = 1 /\ r.round = 1 /\ r.pc = "send" /\ r.rewound
    BY <1>0, <2>1, <2>2, NewIsASend
  <2> QED BY <1>1, <1>2, <2>0, <2>1, <2>3 DEF S!SendText
<1>3. ASSUME NEW c \in S!AllChats, NEW what \in S!Kinds \ {"text"}, NEW html \in BOOLEAN,
             S!SendFile(id, what, c, html)
      PROVE  SendsInv'
  <2>0. PICK w \in BOOLEAN : w = S!Recorded("file_tool", TRUE, TRUE)
    BY <1>0
  <2>1. PICK r : r = S!New("file_tool", what, c, "telegram", 1, html, w)
    OBVIOUS
  <2>3. r \in S!Sent /\ r.at = 1 /\ r.round = 1 /\ r.pc = "send" /\ r.rewound
    <3>1. "file_tool" \in {"text_tool", "file_tool", "router"} /\ what \in S!Kinds /\ 1 \in Nat \ {0}
      BY <1>0, <1>3
    <3>2. w \in BOOLEAN /\ html \in BOOLEAN /\ c \in S!AllChats /\ "telegram" \in S!Sinks
      BY <1>0, <1>3, <2>0
    <3> QED BY <2>1, <3>1, <3>2, NewIsASend
  <2> QED BY <1>1, <1>3, <2>0, <2>1, <2>3 DEF S!SendFile
<1>4. ASSUME NEW t \in {"cli", "telegram", "null"}, NEW agent \in BOOLEAN, NEW c \in S!AllChats,
             NEW wanted \in BOOLEAN, S!Route(id, t, agent, c, 1, wanted)
      PROVE  SendsInv'
  <2>0. PICK h, w \in BOOLEAN : h = TRUE /\ w = S!Recorded("router", agent, wanted)
    BY <1>0
  <2>1. PICK sink \in S!Sinks : sink = S!Resolved(t, agent)
    BY ResolvedIsASink
  <2>2. PICK r : r = S!New("router", "text", c, sink, 1, h, w)
    OBVIOUS
  <2>3. r \in S!Sent /\ r.at = 1 /\ r.round = 1 /\ r.pc = "send" /\ r.rewound
    <3>1. "router" \in {"reply", "text_tool", "file_tool", "router"} /\ "text" \in S!Kinds /\ 1 \in Nat \ {0}
      BY <1>0
    <3>2. h \in BOOLEAN /\ w \in BOOLEAN /\ c \in S!AllChats /\ sink \in S!Sinks
      OBVIOUS
    <3>3. r = [from |-> "router", kind |-> "text", chat |-> c, sink |-> sink, parts |-> 1, at |-> 1,
               html |-> h, tries |-> 1, rewound |-> TRUE, record |-> w, round |-> 1, pc |-> "send"]
      BY <2>2 DEF S!New
    <3> QED BY <3>1, <3>2, <3>3 DEF S!Sent
  <2> QED BY <1>1, <1>4, <2>0, <2>1, <2>2, <2>3 DEF S!Route
<1> QED BY <1>2, <1>3, <1>4

\* What a request, a refusal or a sink that is not Telegram makes of a send.
LEMMA ARequestEnds ==
  ASSUME S!SendsAssumption, SendsInv, NEW id \in Senders,
         \/ S!Deliver(id) \/ S!Unparsed(id) \/ S!NotSent(id) \/ S!TimedOut(id) \/ S!Refused(id)
         \/ S!Unavailable(id) \/ S!Store(id) \/ S!ReplyError(id)
  PROVE  SendsInv'
<1>1. PICK s : s = sends[id]
  OBVIOUS
<1>2. s # None /\ s.pc \in {"send", "refused"} /\ UNCHANGED <<rows, lan>>
  BY <1>1 DEF S!Deliver, S!Unparsed, S!NotSent, S!TimedOut, S!Refused, S!Unavailable, S!Store,
     S!ReplyError, S!Sending
<1>3. /\ s \in S!Sent /\ s.rewound /\ s.at <= s.parts /\ s.at \in Nat \ {0} /\ s.round \in Nat \ {0}
      /\ s.tries \in Nat /\ s.parts \in Nat \ {0}
  <2>1. s \in S!Sent /\ s.rewound /\ s.at <= s.parts
    BY <1>1, <1>2 DEF SendsInv, SendsShapes
  <2> QED BY <2>1 DEF S!Sent
<1>4. ASSUME NEW r \in S!Sent, sends' = [sends EXCEPT ![id] = r], SameSend(r, s), r.at = s.at,
             r.rewound, UNCHANGED chat,
             r.pc = s.pc \/ r.pc \in {"unreachable", "refused", "told"}
               \/ (r.pc = "ok" /\ r.sink # "telegram")
      PROVE  SendsInv'
  BY <1>1, <1>2, <1>4, ASendGoesOn, OneSendMoves DEF SendsInv
<1>5. ASSUME NEW pc \in {"unreachable", "refused", "told", "ok"},
             sends' = [sends EXCEPT ![id].pc = pc], UNCHANGED chat,
             pc = "ok" => s.sink # "telegram"
      PROVE  SendsInv'
  <2>1. PICK r : r = [s EXCEPT !.pc = pc]
    OBVIOUS
  <2>2. r \in S!Sent /\ SameSend(r, s) /\ r.at = s.at /\ r.rewound /\ r.pc = pc
    BY <1>3, <2>1 DEF S!Sent, SameSend
  <2>3. sends' = [sends EXCEPT ![id] = r]
    BY <1>1, <1>5, <2>1
  <2> QED BY <1>4, <1>5, <2>2, <2>3 DEF SameSend
<1>6. ASSUME NEW e \in Entries, Shows(id, e), NEW r \in S!Sent, sends' = [sends EXCEPT ![id] = r],
             SameSend(r, s), r.rewound,
             \/ /\ s.pc = "send" /\ e.content = "whole" /\ e.part = s.at
                /\ \/ r.pc = "send" /\ r.at = s.at + 1 /\ s.at < s.parts
                   \/ r.pc = "delivered" /\ r.at = s.at /\ s.at = s.parts
                   \/ r.pc = "unreachable" /\ r.at = s.at
             \/ s.pc = "refused" /\ e.content = "error" /\ e.part = 0 /\ r.pc = "told" /\ r.at = s.at
      PROVE  SendsInv'
  BY <1>1, <1>2, <1>6, AnEntryIsShown, OneSendMoves DEF SendsInv
<1>7. PICK e : e = [id |-> id, round |-> s.round, part |-> s.at, content |-> "whole"]
  OBVIOUS
<1>8. e \in Entries /\ e.id = id /\ e.round = s.round /\ e.part = s.at /\ e.content = "whole"
  BY <1>3, <1>7 DEF Entries
<1>9. ASSUME chat' = S!Arrives(id) PROVE Shows(id, e)
  BY <1>1, <1>3, <1>7, <1>8, <1>9 DEF Shows, S!Arrives, S!Entry
<1>10. CASE S!Deliver(id)
  <2>1. chat' = S!Arrives(id) /\ s.pc = "send"
    BY <1>1, <1>10 DEF S!Deliver, S!Sending
  <2>2. CASE s.at < s.parts
    <3>1. PICK r : r = [s EXCEPT !.at = s.at + 1, !.html = TRUE, !.tries = 1]
      OBVIOUS
    <3>2. r \in S!Sent
      <4>1. s.at + 1 \in Nat \ {0}
        BY <1>3
      <4> QED BY <1>3, <3>1, <4>1 DEF S!Sent
    <3>3. SameSend(r, s) /\ r.at = s.at + 1 /\ r.rewound /\ r.pc = "send"
      BY <1>3, <2>1, <3>1 DEF S!Sent, SameSend
    <3>4. sends' = [sends EXCEPT ![id] = r]
      BY <1>1, <1>10, <2>2, <3>1 DEF S!Deliver
    <3> QED BY <1>6, <1>8, <1>9, <2>1, <2>2, <3>2, <3>3, <3>4
  <2>3. CASE ~(s.at < s.parts)
    <3>1. PICK r : r = [s EXCEPT !.pc = "delivered"]
      OBVIOUS
    <3>2. r \in S!Sent
      BY <1>3, <3>1 DEF S!Sent
    <3>3. SameSend(r, s) /\ r.at = s.at /\ r.rewound /\ r.pc = "delivered"
      BY <1>3, <2>1, <3>1 DEF S!Sent, SameSend
    <3>4. sends' = [sends EXCEPT ![id] = r]
      BY <1>1, <1>10, <2>3, <3>1 DEF S!Deliver, S!Ended
    <3>5. s.at = s.parts
      BY <1>3, <2>3
    <3> QED BY <1>6, <1>8, <1>9, <2>1, <3>2, <3>3, <3>4, <3>5
  <2> QED BY <2>2, <2>3
<1>11. CASE S!TimedOut(id)
  <2>1. /\ chat' \in {chat, S!Arrives(id)} /\ sends' = [sends EXCEPT ![id].pc = "unreachable"]
        /\ s.pc = "send"
    BY <1>1, <1>11 DEF S!TimedOut, S!Ended, S!Sending
  <2>2. CASE chat' = chat
    BY <1>5, <2>1, <2>2
  <2>3. CASE chat' = S!Arrives(id)
    <3>1. PICK r : r = [s EXCEPT !.pc = "unreachable"]
      OBVIOUS
    <3>2. r \in S!Sent
      BY <1>3, <3>1 DEF S!Sent
    <3>3. SameSend(r, s) /\ r.at = s.at /\ r.rewound /\ r.pc = "unreachable"
      BY <1>3, <2>1, <3>1 DEF S!Sent, SameSend
    <3>4. sends' = [sends EXCEPT ![id] = r]
      BY <1>1, <2>1, <3>1
    <3> QED BY <1>6, <1>8, <1>9, <2>1, <2>3, <3>2, <3>3, <3>4
  <2> QED BY <2>1, <2>2, <2>3
<1>12. CASE S!Unparsed(id)
  <2>1. PICK r : r = [s EXCEPT !.html = FALSE, !.tries = 1, !.rewound = TRUE]
    OBVIOUS
  <2>2. r \in S!Sent
    BY <1>3, <2>1 DEF S!Sent
  <2>3. SameSend(r, s) /\ r.at = s.at /\ r.rewound /\ r.pc = s.pc
    BY <1>3, <2>1 DEF S!Sent, SameSend
  <2>4. sends' = [sends EXCEPT ![id] = r] /\ UNCHANGED chat
    BY <1>1, <1>12, <2>1 DEF S!Unparsed
  <2> QED BY <1>4, <2>2, <2>3, <2>4
<1>13. CASE S!NotSent(id)
  <2>1. CASE s.kind = "text" /\ s.tries < Attempts
    <3>1. PICK r : r = [s EXCEPT !.tries = s.tries + 1]
      OBVIOUS
    <3>2. r \in S!Sent
      <4>1. s.tries + 1 \in Nat
        BY <1>3
      <4> QED BY <1>3, <3>1, <4>1 DEF S!Sent
    <3>3. SameSend(r, s) /\ r.at = s.at /\ r.rewound /\ r.pc = s.pc
      BY <1>3, <3>1 DEF S!Sent, SameSend
    <3>4. sends' = [sends EXCEPT ![id] = r] /\ UNCHANGED chat
      BY <1>1, <1>13, <2>1, <3>1 DEF S!NotSent
    <3> QED BY <1>4, <3>2, <3>3, <3>4
  <2>2. CASE ~(s.kind = "text" /\ s.tries < Attempts)
    <3>1. sends' = [sends EXCEPT ![id].pc = "unreachable"] /\ UNCHANGED chat
      BY <1>1, <1>13, <2>2 DEF S!NotSent, S!Ended
    <3> QED BY <1>5, <3>1
  <2> QED BY <2>1, <2>2
<1>14. CASE S!Refused(id)
  BY <1>5, <1>14 DEF S!Refused, S!Ended
<1>15. CASE S!Unavailable(id)
  <2>1. PICK pc \in {"unreachable", "told"} :
          sends' = [sends EXCEPT ![id].pc = pc] /\ UNCHANGED chat
    BY <1>15 DEF S!Unavailable, S!Ended
  <2> QED BY <1>5, <2>1
<1>16. CASE S!Store(id)
  BY <1>1, <1>5, <1>16 DEF S!Store, S!Ended
<1>17. CASE S!ReplyError(id)
  <2>1. PICK f : f = [S!Entry(id, "error") EXCEPT !.part = 0]
    OBVIOUS
  <2>2. /\ f \in Entries /\ f.id = id /\ f.round = s.round /\ f.part = 0 /\ f.content = "error"
    BY <1>1, <1>3, <2>1 DEF S!Entry, Entries
  <2>3. /\ sends' = [sends EXCEPT ![id].pc = "told"] /\ s.pc = "refused"
        /\ chat' \in {chat, [chat EXCEPT ![s.chat] = Append(chat[s.chat], f)]}
    BY <1>1, <1>17, <2>1 DEF S!ReplyError, S!Ended
  <2>4. CASE chat' = chat
    BY <1>5, <2>3, <2>4
  <2>5. CASE chat' = [chat EXCEPT ![s.chat] = Append(chat[s.chat], f)]
    <3>1. PICK r : r = [s EXCEPT !.pc = "told"]
      OBVIOUS
    <3>2. r \in S!Sent
      BY <1>3, <3>1 DEF S!Sent
    <3>3. SameSend(r, s) /\ r.at = s.at /\ r.rewound /\ r.pc = "told"
      BY <1>3, <3>1 DEF S!Sent, SameSend
    <3>4. sends' = [sends EXCEPT ![id] = r]
      BY <1>1, <2>3, <3>1
    <3>5. Shows(id, f)
      BY <1>1, <2>2, <2>5 DEF Shows
    <3> QED BY <1>6, <2>2, <2>3, <3>2, <3>3, <3>4, <3>5
  <2> QED BY <2>3, <2>4, <2>5
<1> QED BY <1>10, <1>11, <1>12, <1>13, <1>14, <1>15, <1>16, <1>17

\* The caller asks again for what failed.
LEMMA TheCallerAsksAgain ==
  ASSUME S!SendsAssumption, SendsInv, NEW id \in Senders, NEW html \in BOOLEAN, S!Again(id, html)
  PROVE  SendsInv'
<1>1. PICK s, n : /\ s = sends[id]
                  /\ n = S!New(s.from, s.kind, s.chat, s.sink, s.parts, html, s.record)
  OBVIOUS
<1>2. s # None /\ sends' = [sends EXCEPT ![id] = [n EXCEPT !.round = s.round + 1]]
      /\ UNCHANGED <<chat, rows, lan>>
  BY <1>1 DEF S!Again
<1>3. s \in S!Sent
  BY <1>1, <1>2 DEF SendsInv, SendsShapes
<1>4. n \in S!Sent /\ n.at = 1 /\ n.pc = "send" /\ n.rewound /\ n.chat = s.chat
  BY <1>1, <1>3, NewIsASend DEF S!Sent
<1>5. PICK r : r = [n EXCEPT !.round = s.round + 1]
  OBVIOUS
<1>6. s.round + 1 \in Nat \ {0}
  <2>1. s.round \in Nat \ {0}
    BY <1>3 DEF S!Sent
  <2> QED BY <2>1
<1>7. r \in S!Sent
  BY <1>4, <1>5, <1>6 DEF S!Sent
<1>8. r.at = 1 /\ r.pc = "send" /\ r.rewound /\ r.chat = s.chat /\ r.round = s.round + 1
  BY <1>4, <1>5 DEF S!Sent
<1>9. Becomes(id, r)
  BY <1>2, <1>5, <1>7, OneSendMoves DEF SendsInv
<1>10. sends[id] # None /\ r.chat = sends[id].chat /\ r.round = sends[id].round + 1
  BY <1>1, <1>2, <1>8
<1>11. UNCHANGED <<chat, rows, lan>>
  BY <1>2
<1>12. r.at = 1 /\ r.pc = "send" /\ r.rewound
  BY <1>8
<1> QED BY <1>7, <1>9, <1>10, <1>11, <1>12, ASendIsAskedAgain

\* Nothing is sent at first.
LEMMA SendsInit == ASSUME S!Init PROVE SendsInv
<1>1. sends \in [Senders -> S!Sent \cup {None}] /\ \A id \in Senders : sends[id] = None
  BY DEF S!Init
<1>2. \A c \in S!AllChats : chat[c] = <<>> /\ Len(chat[c]) = 0
  BY DEF S!Init
<1>3. chat \in [S!AllChats -> Seq(Entries)]
  BY DEF S!Init
<1> QED BY <1>1, <1>2, <1>3 DEF S!Init, SendsInv, SendsShapes, EntriesPlaced, EntriesOrdered,
        AllCounted, Counted, NotedAreSent, Noted

\* No step breaks the invariant.
LEMMA SendsStep ==
  ASSUME S!SendsAssumption, SendsInv, S!Next \/ UNCHANGED S!vars PROVE SendsInv'
<1>1. CASE UNCHANGED S!vars
  <2>0. UNCHANGED <<sends, chat, rows, lan>>
    BY <1>1 DEF S!vars
  <2>1. SendsShapes' /\ EntriesPlaced' /\ EntriesOrdered'
    BY <2>0 DEF SendsInv, SendsShapes, EntriesPlaced, Placed, EntriesOrdered, InOrder, S!AllChats
  <2>2. AllCounted'
    <3> SUFFICES ASSUME NEW id \in Senders PROVE Counted(id)'
      BY DEF AllCounted
    <3>1. S!Of(id)' = S!Of(id)
      BY <2>0 DEF S!Of
    <3> QED BY <2>0, <3>1 DEF SendsInv, AllCounted, Counted, Noted
  <2>3. NotedAreSent'
    BY <2>0 DEF SendsInv, NotedAreSent, Noted
  <2> QED BY <2>1, <2>2, <2>3 DEF SendsInv
<1>2. ASSUME NEW id \in Senders, S!Step(id) PROVE SendsInv'
  BY <1>2, ASendOfTheChannel, ARequestEnds, ASendIsNoted, TheCallerAsksAgain DEF S!Step
<1> QED BY <1>1, <1>2 DEF S!Next

\* What the invariant says of the chats, the rows and the events.
LEMMA SendsInvHolds ==
  ASSUME SendsInv PROVE S!OnceInOrder /\ S!SaidIsThere
<1>1. S!OnceInOrder
  <2> SUFFICES ASSUME NEW c \in S!AllChats, NEW i \in DOMAIN chat[c], NEW j \in DOMAIN chat[c]
               PROVE  /\ chat[c][i].content # "empty" /\ InOrder(c, i, j)
    BY DEF S!OnceInOrder, InOrder
  <2>1. DOMAIN chat[c] = 1..Len(chat[c])
    BY DEF SendsInv, SendsShapes
  <2>2. chat[c][i] \in Entries
    BY <2>1, EntryIs DEF SendsInv
  <2> QED BY <2>1, <2>2 DEF SendsInv, EntriesOrdered, Entries
<1>2. S!SaidIsThere
  <2> SUFFICES ASSUME NEW id \in Senders,
                      \/ sends[id] # None /\ sends[id].sink = "telegram" /\ sends[id].pc = "ok"
                      \/ <<id, IF sends[id] = None THEN 0 ELSE sends[id].round>> \in Noted
               PROVE  S!Cardinality(S!Of(id)) = sends[id].parts
    BY DEF S!SaidIsThere, Noted
  <2>1. sends[id] # None
    BY DEF SendsInv, NotedAreSent
  <2>2. Cardinality(S!Of(id)) = sends[id].parts
    BY <2>1 DEF SendsInv, AllCounted, Counted
  <2> QED BY <2>2 DEF S!Cardinality, Cardinality
<1> QED BY <1>1, <1>2

\* A behavior whose subject is the sends moves as they do.
LEMMA SendsMove ==
  [Next]_vars => subject' = subject /\ (subject = "sends" => S!Next \/ UNCHANGED S!vars)
  BY OneSubject DEF Next, vars, OfSends, S!vars

\* However the requests of any number of sends end and their callers insist, an attempt shows
\* each part of its text once and in order, and what a row, an event or a sender says was sent
\* is whole in the chat: for any chats, parts, rounds and attempts.
THEOREM WhatIsSaidIsThere == Spec => []SendsHold
<1> DEFINE J == subject = "sends" => SendsInv
<1>1. Init => J
  BY SendsInit DEF Init
<1>2. J /\ [Next]_vars => J'
  BY SendsMove, SendsStep, TelegramAssumption
<1>3. J => SendsHold
  BY SendsInvHolds DEF SendsHold
<1> QED BY <1>1, <1>2, <1>3, PTL DEF Spec

-----------------------------------------------------------------------------
(***************************************************************************)
(* GroupChat: the invariant                                                *)
(***************************************************************************)
GrNames == {None} \cup {Author[m] : m \in Msgs}
GrFlush == [pc : G!Phases, query : Seq(Msgs), sender : GrNames, sections : Chats \cup {None},
            upto : Nat]
GrLimits == [n : Nat, until : 0 .. MaxClock + Window]

\* What the variables are; the sections of a turn that waits are those of its group.
GrShapes ==
  /\ behavior \in Behaviors /\ clock \in 0 .. MaxClock /\ maxCount \in MaxCounts
  /\ estados \in [Chats -> GrLimits] /\ hist \in [Chats -> Seq(Msgs \cup {None})]
  /\ stage \in [Msgs -> G!Stages] /\ lastSender \in [Chats -> GrNames]
  /\ consultas \in [Chats -> Seq(Msgs)] /\ asked \in [Chats -> Seq(Msgs)]
  /\ flush \in [Chats -> GrFlush] /\ said \in [Chats -> Seq(Nat)]
  /\ seen \subseteq Msgs /\ late \subseteq Msgs /\ events \in 0 .. MaxEvents
GrTurns ==
  /\ extra \in Chats \cup {None}
  /\ extra # None => flush[extra].pc \notin {"none", "asleep"}
  /\ \A c \in Chats : flush[c].pc \in {"woken", "looked"} => flush[c].sections = c

\* The answers in a row, and what the limiter has of them: it counts all those that are not a
\* window old yet, and the cooldown ends a window after each.
GrLimit(s, e, p, k, max) ==
  /\ p # "none" => e.until = 0
  /\ \A i \in 1 .. Len(s) : s[i] <= k
  /\ e.until # 0 => \A i \in 1 .. Len(s) : s[i] + Window <= e.until
  /\ e.until = 0 => \A i \in 1 .. Len(s) : i + e.n <= Len(s) => s[i] + Window <= k
  /\ e.until = 0 /\ e.n >= max => Len(s) = 0
  /\ \A i \in 1 .. Len(s) : i + max <= Len(s) => s[i + max] - s[i] >= Window
GrLimited ==
  /\ behavior = "autonomous" =>
       \A c \in Chats : GrLimit(said[c], estados[c], flush[c].pc, clock, maxCount)
  /\ behavior # "autonomous" => \A c \in Chats : estados[c].until = 0

\* What has been shown, or came too late, of a group: all that is before an answer, all that was
\* there when its turn last looked, and all of it while the answer is sent.
GrTold(h, f, N) ==
  /\ f.pc = "looked" => \A i \in 1 .. Len(h) : i <= f.upto => h[i] \in N
  /\ f.pc = "sending" => \A i \in 1 .. Len(h) : h[i] \in N
  /\ \A i, j \in 1 .. Len(h) : i < j /\ h[j] = None => h[i] \in N
GrN == seen \cup late \cup {None}
GrNews ==
  /\ \A c \in Chats : GrTold(hist[c], flush[c], GrN)
  /\ \A c \in Chats : \A i \in 1 .. Len(hist[c]) : hist[c][i] # None => ChatOf[hist[c][i]] = c
  /\ \A m \in Msgs : stage[m] \notin {"new", "dropped"} =>
       \E i \in 1 .. Len(hist[ChatOf[m]]) : hist[ChatOf[m]][i] = m
  /\ \A m \in Msgs : stage[m] = "passed" /\ flush[ChatOf[m]].pc = "none" => m \in GrN
  /\ \A c \in Chats : flush[c].pc = "woken" => flush[c].upto = 0
  /\ \A c \in Chats : flush[c].pc = "looked" => flush[c].upto <= Len(hist[c])

\* What waits to be asked, and what was.
GrHas(x, m) == \E i \in 1 .. Len(x) : x[i] = m
GrOnce(x, c, b, st) ==
  /\ G!IsInjective(x)
  /\ b = "mention" =>
       \A m \in Msgs : GrHas(x, m) <=> m \notin Lan /\ ChatOf[m] = c /\ st[m] \in {"reacting", "passed"}
GrUsed ==
  /\ behavior # "mention" => \A c \in Chats : asked[c] = <<>> /\ consultas[c] = <<>>
  /\ behavior # "autonomous" => \A m \in Lan : stage[m] \in {"new", "dropped"}
  /\ \A c \in Chats : GrOnce(asked[c] \o consultas[c], c, behavior, stage)

\* The sender is the author of the last message of a human, if there is one.
GrSenderOf(q, s) ==
  \A i \in 1 .. Len(q) : G!Human(q[i]) /\ (\A j \in 1 .. Len(q) : G!Human(q[j]) => j <= i) => s = Author[q[i]]
GrSender ==
  \A c \in Chats : GrSenderOf(consultas[c], lastSender[c]) /\ GrSenderOf(flush[c].query, flush[c].sender)

GrInv == GrShapes /\ GrTurns /\ GrLimited /\ GrNews /\ GrUsed /\ GrSender

\* The steps of a flush that end it.
GrEnds(c) == G!NothingToAnswer(c) \/ G!Skip(c) \/ G!Send(c) \/ G!Fail(c)

\* A group without a flush.
LEMMA GrIdle ==
  ASSUME G!GroupAssumption
  PROVE  G!Idle \in GrFlush /\ G!Idle.pc = "none" /\ G!Idle.query = <<>> /\ G!Idle.upto = 0
<1>1. <<>> \in Seq(Msgs) /\ 0 \in Nat /\ None \in GrNames /\ "none" \in G!Phases
  BY DEF GrNames, G!Phases
<1> QED BY <1>1 DEF G!Idle, GrFlush

\* What happens to the flush of a group at its steps.
LEMMA AFlushEnds ==
  ASSUME GrInv, G!GroupAssumption, NEW c \in Chats, GrEnds(c)
  PROVE  /\ flush' = [flush EXCEPT ![c] = G!Idle] /\ flush' \in [Chats -> GrFlush]
         /\ flush'[c] = G!Idle /\ \A d \in Chats \ {c} : flush'[d] = flush[d]
         /\ extra' = None /\ flush[c].pc \in {"woken", "looked", "sending"}
         /\ UNCHANGED <<behavior, clock, maxCount, hist, stage, lastSender, consultas, seen, asked>>
<1>1. /\ flush' = [flush EXCEPT ![c] = G!Idle] /\ extra' = None
      /\ flush[c].pc \in {"woken", "looked", "sending"}
      /\ UNCHANGED <<behavior, clock, maxCount, hist, stage, lastSender, consultas, seen, asked>>
  BY DEF GrEnds, G!NothingToAnswer, G!Skip, G!Send, G!Fail, G!Done, G!At, G!limiter, G!talk
<1>2. PICK idle \in GrFlush : idle = G!Idle
  BY GrIdle
<1>3. flush \in [Chats -> GrFlush]
  BY DEF GrInv, GrShapes
<1>4. /\ [flush EXCEPT ![c] = idle] \in [Chats -> GrFlush] /\ [flush EXCEPT ![c] = idle][c] = idle
      /\ \A d \in Chats \ {c} : [flush EXCEPT ![c] = idle][d] = flush[d]
  BY <1>3
<1> QED BY <1>1, <1>2, <1>4

\* A message that passes the gate leaves its group with a flush.
LEMMA AFlushIsScheduled ==
  ASSUME GrInv, G!GroupAssumption, NEW c \in Chats, G!ScheduleFlush(c)
  PROVE  /\ flush' \in [Chats -> GrFlush] /\ flush'[c].pc # "none"
         /\ flush[c].pc # "none" => flush' = flush
         /\ flush[c].pc = "none" => flush'[c].pc = "asleep" /\ flush'[c].query = <<>>
         /\ \A d \in Chats \ {c} : flush'[d] = flush[d]
<1>1. flush \in [Chats -> GrFlush]
  BY DEF GrInv, GrShapes
<1>2. PICK idle \in GrFlush : idle = G!Idle /\ idle.query = <<>>
  BY GrIdle
<1>3. PICK f : f = [idle EXCEPT !.pc = "asleep"]
  OBVIOUS
<1>4. f \in GrFlush /\ f.pc = "asleep" /\ f.query = <<>>
  BY <1>2, <1>3 DEF GrFlush, G!Phases
<1>5. flush' = IF flush[c].pc = "none" THEN [flush EXCEPT ![c] = f] ELSE flush
  BY <1>2, <1>3 DEF G!ScheduleFlush
<1>6. CASE flush[c].pc = "none"
  BY <1>1, <1>4, <1>5, <1>6
<1>7. CASE flush[c].pc # "none"
  BY <1>1, <1>5, <1>7
<1> QED BY <1>6, <1>7

\* What the flush of a group becomes when it wakes, looks or answers.
LEMMA AFlushGoesOn ==
  ASSUME GrInv, G!GroupAssumption, NEW c \in Chats, G!Wake(c) \/ G!Look(c) \/ G!Answer(c)
  PROVE  /\ flush' \in [Chats -> GrFlush] /\ \A d \in Chats \ {c} : flush'[d] = flush[d]
         /\ flush[c].pc # "none"
         /\ G!Wake(c) => /\ flush'[c].pc = "woken" /\ flush'[c].query = consultas[c]
                         /\ flush'[c].sender = lastSender[c] /\ flush'[c].sections = c
                         /\ flush'[c].upto = 0
         /\ G!Look(c) => /\ flush'[c].pc = "looked" /\ flush'[c].query = flush[c].query
                         /\ flush'[c].sender = flush[c].sender /\ flush'[c].sections = flush[c].sections
                         /\ flush'[c].upto = Len(hist[c]) /\ flush[c].pc \in {"woken", "looked"}
         /\ G!Answer(c) => flush'[c].pc = "sending" /\ flush'[c].query = <<>> /\ flush[c].pc = "looked"
<1>1. flush \in [Chats -> GrFlush] /\ flush[c] \in GrFlush
  BY DEF GrInv, GrShapes
<1>2. PICK f : f = flush'[c]
  OBVIOUS
<1>3. CASE G!Wake(c)
  <2>1. PICK q, s : q = consultas[c] /\ s = lastSender[c] /\ q \in Seq(Msgs) /\ s \in GrNames
    BY DEF GrInv, GrShapes
  <2>2. PICK g : g = [pc |-> "woken", query |-> q, sender |-> s, sections |-> c, upto |-> 0]
    OBVIOUS
  <2>3. g \in GrFlush
    BY <2>1, <2>2 DEF GrFlush, G!Phases
  <2>4. flush' = [flush EXCEPT ![c] = g] /\ flush[c].pc = "asleep"
    BY <1>3, <2>1, <2>2 DEF G!Wake, G!At
  <2>5. ~G!Look(c) /\ ~G!Answer(c)
    BY <2>4 DEF G!Look, G!Answer, G!At
  <2> QED BY <1>1, <2>1, <2>2, <2>3, <2>4, <2>5
<1>4. CASE G!Look(c)
  <2>1. PICK n \in Nat : n = Len(hist[c])
    BY DEF GrInv, GrShapes
  <2>2. PICK o \in GrFlush : o = flush[c]
    BY <1>1
  <2>3. PICK g : g = [[[o EXCEPT !.pc = "looked"] EXCEPT !.sections = o.sections] EXCEPT !.upto = n]
    OBVIOUS
  <2>4. /\ g \in GrFlush /\ g.pc = "looked" /\ g.query = o.query /\ g.sender = o.sender
        /\ g.sections = o.sections /\ g.upto = n
    BY <2>2, <2>3 DEF GrFlush, G!Phases
  <2>5. flush' = [flush EXCEPT ![c].pc = "looked", ![c].sections = flush[c].sections, ![c].upto = n]
    BY <1>4, <2>1 DEF G!Look, G!Sections
  <2>6. flush' = [flush EXCEPT ![c] = g]
    BY <1>1, <2>2, <2>3, <2>5
  <2>7. flush[c].pc \in {"woken", "looked"}
    BY <1>4 DEF G!Look, G!At
  <2>8. ~G!Wake(c)
    BY <2>7 DEF G!Wake, G!At
  <2>9. ~G!Answer(c)
    <3>1. flush'[c].pc = "looked"
      BY <1>1, <2>4, <2>6
    <3>2. PICK idle \in GrFlush : idle = G!Idle
      BY GrIdle
    <3>3. [idle EXCEPT !.pc = "sending"].pc = "sending"
      BY <3>2 DEF GrFlush
    <3>4. G!Answer(c) => flush' = [flush EXCEPT ![c] = [idle EXCEPT !.pc = "sending"]]
      BY <3>2 DEF G!Answer
    <3> QED BY <1>1, <3>1, <3>3, <3>4
  <2> QED BY <1>1, <2>1, <2>2, <2>4, <2>6, <2>7, <2>8, <2>9
<1>5. CASE G!Answer(c) /\ ~G!Look(c)
  <2>1. PICK idle \in GrFlush : idle = G!Idle /\ idle.query = <<>>
    BY GrIdle
  <2>2. PICK g : g = [idle EXCEPT !.pc = "sending"]
    OBVIOUS
  <2>3. g \in GrFlush /\ g.pc = "sending" /\ g.query = <<>>
    BY <2>1, <2>2 DEF GrFlush, G!Phases
  <2>4. flush' = [flush EXCEPT ![c] = g] /\ flush[c].pc = "looked"
    BY <1>5, <2>1, <2>2 DEF G!Answer, G!At
  <2>5. ~G!Wake(c)
    BY <2>4 DEF G!Wake, G!At
  <2> QED BY <1>1, <1>5, <2>3, <2>4, <2>5
<1> QED BY <1>3, <1>4, <1>5

\* The variables keep their types.
LEMMA GrShapesStep ==
  ASSUME GrInv, G!GroupAssumption, G!Next \/ UNCHANGED G!vars
  PROVE  GrShapes'
<1>1. GrShapes
  BY DEF GrInv
<1>2. CASE UNCHANGED G!vars
  BY <1>1, <1>2 DEF GrShapes, G!vars, G!limiter, G!talk
<1>3. ASSUME NEW m \in Msgs, G!Record(m)
      PROVE  GrShapes'
  <2>1. PICK c \in Chats : c = ChatOf[m]
    BY DEF G!GroupAssumption
  <2>2. /\ UNCHANGED <<behavior, clock, lastSender, consultas, asked, extra, flush, seen, said, events>>
        /\ UNCHANGED <<maxCount, estados>>
    BY <1>3 DEF G!Record, G!limiter, G!talk
  <2>3. stage' \in [Msgs -> G!Stages]
    BY <1>1, <1>3 DEF G!Record, G!Step, G!Kept, G!Stages, GrShapes
  <2>4. late' \subseteq Msgs
    BY <1>1, <1>3 DEF G!Record, GrShapes
  <2>5. hist' \in [Chats -> Seq(Msgs \cup {None})]
    <3>1. hist' = hist \/ hist' = [hist EXCEPT ![c] = Append(hist[c], m)]
      BY <1>3, <2>1 DEF G!Record
    <3>2. Append(hist[c], m) \in Seq(Msgs \cup {None})
      BY <1>1 DEF GrShapes
    <3> QED BY <1>1, <3>1, <3>2 DEF GrShapes
  <2> QED BY <1>1, <2>2, <2>3, <2>4, <2>5 DEF GrShapes
<1>4. ASSUME NEW m \in Msgs, G!Disparar(m)
      PROVE  GrShapes'
  <2>1. PICK c \in Chats : c = ChatOf[m]
    BY DEF G!GroupAssumption
  <2>2. UNCHANGED <<behavior, clock, maxCount, estados, hist, extra, flush, seen, late, asked, said, events>>
    BY <1>4 DEF G!Disparar, G!limiter
  <2>3. stage' \in [Msgs -> G!Stages]
    BY <1>1, <1>4 DEF G!Disparar, G!Step, G!Stages, GrShapes
  <2>4. Author[m] \in GrNames
    BY DEF GrNames
  <2>5. lastSender' \in [Chats -> GrNames]
    BY <1>1, <1>4, <2>1, <2>4 DEF G!Disparar, G!Sender, GrShapes
  <2>6. consultas' \in [Chats -> Seq(Msgs)]
    <3>1. consultas' = consultas \/ consultas' = [consultas EXCEPT ![c] = Append(consultas[c], m)]
      BY <1>4, <2>1 DEF G!Disparar
    <3>2. Append(consultas[c], m) \in Seq(Msgs)
      BY <1>1 DEF GrShapes
    <3> QED BY <1>1, <3>1, <3>2 DEF GrShapes
  <2> QED BY <1>1, <2>2, <2>3, <2>5, <2>6 DEF GrShapes
<1>5. ASSUME NEW m \in Msgs, G!Gate(m)
      PROVE  GrShapes'
  <2>1. PICK c \in Chats : c = ChatOf[m]
    BY DEF G!GroupAssumption
  <2>2. UNCHANGED <<behavior, clock, maxCount, hist, lastSender, consultas, asked, extra, seen, late, events>>
    BY <1>5 DEF G!Gate, G!talk
  <2>3. stage' \in [Msgs -> G!Stages]
    <3>1. stage' = [stage EXCEPT ![m] = "passed"] \/ stage' = [stage EXCEPT ![m] = "held"]
      BY <1>5 DEF G!Gate
    <3> QED BY <1>1, <3>1 DEF GrShapes, G!Stages
  <2>4. flush' \in [Chats -> GrFlush]
    <3>1. flush' = flush \/ G!ScheduleFlush(c)
      BY <1>5, <2>1 DEF G!Gate
    <3> QED BY <1>1, <3>1, AFlushIsScheduled DEF GrShapes
  <2>5. said' \in [Chats -> Seq(Nat)]
    <3>1. said' = said \/ said' = [said EXCEPT ![c] = <<>>]
      BY <1>5, <2>1 DEF G!Gate
    <3>2. <<>> \in Seq(Nat)
      OBVIOUS
    <3> QED BY <1>1, <3>1, <3>2 DEF GrShapes
  <2>6. estados' \in [Chats -> GrLimits]
    <3>1. PICK no \in GrLimits : no = G!NoState
      <4>1. 0 \in Nat /\ 0 \in 0 .. MaxClock + Window
        BY DEF G!GroupAssumption
      <4> QED BY <4>1 DEF G!NoState, GrLimits
    <3>2. PICK es \in [Chats -> GrLimits] : es = IF G!Rearms(m) THEN G!Reset(c) ELSE estados
      BY <1>1, <3>1 DEF GrShapes, G!Reset
    <3>3. G!Rearmed(es, c) \in [Chats -> GrLimits]
      BY <3>1, <3>2 DEF G!Rearmed
    <3>4. estados' = estados \/ estados' = G!Rearmed(es, c)
      BY <1>5, <2>1, <3>2 DEF G!Gate
    <3> QED BY <1>1, <3>3, <3>4 DEF GrShapes
  <2> QED BY <1>1, <2>2, <2>3, <2>4, <2>5, <2>6 DEF GrShapes
<1>6. ASSUME NEW c \in Chats, G!Wake(c)
      PROVE  GrShapes'
  <2>1. /\ UNCHANGED <<behavior, clock, maxCount, estados, hist, stage, lastSender, seen, late, said, events>>
        /\ consultas' = [consultas EXCEPT ![c] = <<>>] /\ asked' = [asked EXCEPT ![c] = asked[c] \o consultas[c]]
    BY <1>6 DEF G!Wake, G!Pop, G!limiter
  <2>2. asked[c] \o consultas[c] \in Seq(Msgs) /\ <<>> \in Seq(Msgs)
    BY <1>1 DEF GrShapes
  <2> QED BY <1>1, <1>6, <2>1, <2>2, AFlushGoesOn DEF GrShapes
<1>7. ASSUME NEW c \in Chats, G!Look(c)
      PROVE  GrShapes'
  <2>1. UNCHANGED <<behavior, clock, maxCount, estados, hist, stage, lastSender, consultas, asked, extra,
                    late, said, events>>
    BY <1>7 DEF G!Look, G!limiter, G!talk
  <2>2. hist[c] \in Seq(Msgs \cup {None})
    BY <1>1 DEF GrShapes
  <2>3. G!LookAt(c) \subseteq Msgs
    BY <2>2 DEF G!LookAt, G!ToSet
  <2>4. seen' \subseteq Msgs
    BY <1>1, <1>7, <2>3 DEF G!Look, GrShapes
  <2> QED BY <1>1, <1>7, <2>1, <2>4, AFlushGoesOn DEF GrShapes
<1>8. ASSUME NEW c \in Chats
      PROVE  G!Since(c) \subseteq Msgs
  <2>1. hist[c] \in Seq(Msgs \cup {None}) /\ flush[c].upto \in Nat
    BY <1>1 DEF GrShapes, GrFlush
  <2> QED BY <2>1 DEF G!Since
<1>9. ASSUME NEW c \in Chats, G!Answer(c)
      PROVE  GrShapes'
  <2>1. /\ UNCHANGED <<behavior, clock, maxCount, estados, stage, lastSender, consultas, asked, extra, seen,
                       said, events>>
        /\ hist' = [hist EXCEPT ![c] = Append(hist[c], None)] /\ late' = late \cup G!Since(c)
    BY <1>9 DEF G!Answer, G!limiter, G!talk
  <2>2. Append(hist[c], None) \in Seq(Msgs \cup {None})
    BY <1>1 DEF GrShapes
  <2> QED BY <1>1, <1>8, <1>9, <2>1, <2>2, AFlushGoesOn DEF GrShapes
<1>10. ASSUME NEW c \in Chats, GrEnds(c)
       PROVE  GrShapes'
  <2>1. late' \subseteq Msgs /\ events' \in 0 .. MaxEvents
    BY <1>1, <1>8, <1>10 DEF GrEnds, G!NothingToAnswer, G!Skip, G!Send, G!Fail, G!Event, GrShapes, G!GroupAssumption
  <2>2. said' \in [Chats -> Seq(Nat)]
    <3>1. said' = said \/ said' = [said EXCEPT ![c] = Append(said[c], clock)]
      BY <1>10 DEF GrEnds, G!NothingToAnswer, G!Skip, G!Send, G!Fail
    <3>2. Append(said[c], clock) \in Seq(Nat)
      BY <1>1 DEF GrShapes, G!GroupAssumption
    <3> QED BY <1>1, <3>1, <3>2 DEF GrShapes
  <2>3. estados' \in [Chats -> GrLimits]
    <3>1. estados' = estados \/ estados' = G!RecordResponse(c)
      BY <1>10 DEF GrEnds, G!NothingToAnswer, G!Skip, G!Send, G!Fail, G!limiter
    <3>2. PICK e \in GrLimits : e = estados[c]
      BY <1>1 DEF GrShapes
    <3>3. PICK n, u : n = e.n + 1 /\ u = IF G!Reaches(n) THEN clock + Window ELSE e.until
      OBVIOUS
    <3>4. n \in Nat /\ u \in 0 .. MaxClock + Window
      BY <1>1, <3>2, <3>3 DEF GrLimits, GrShapes, G!GroupAssumption
    <3>5. PICK r : r = [n |-> n, until |-> u]
      OBVIOUS
    <3>6. r \in GrLimits
      BY <3>4, <3>5 DEF GrLimits
    <3>7. G!RecordResponse(c) = [estados EXCEPT ![c] = r]
      BY <1>1, <3>2, <3>3, <3>5 DEF G!RecordResponse, GrShapes
    <3> QED BY <1>1, <3>1, <3>6, <3>7 DEF GrShapes
  <2> QED BY <1>1, <1>10, <2>1, <2>2, <2>3, AFlushEnds DEF GrShapes
<1>11. ASSUME NEW n \in MaxCounts, G!SetMax(n)
       PROVE  GrShapes'
  <2>1. <<>> \in Seq(Nat)
    OBVIOUS
  <2> QED BY <1>1, <1>11, <2>1 DEF G!SetMax, G!Event, GrShapes, G!GroupAssumption, G!talk
<1>12. ASSUME G!Tick
       PROVE  GrShapes'
  BY <1>1, <1>12 DEF G!Tick, GrShapes, G!GroupAssumption, G!limiter, G!talk
<1>13. CASE \E m \in Msgs : G!Record(m) \/ G!Handler(m)
  BY <1>3, <1>4, <1>5, <1>13 DEF G!Handler
<1>14. CASE \E c \in Chats : G!Flush(c) \/ G!Fail(c)
  BY <1>6, <1>7, <1>9, <1>10, <1>14 DEF G!Flush, GrEnds
<1> QED BY <1>2, <1>11, <1>12, <1>13, <1>14 DEF G!Next

\* The sections of a turn that waits are those of its group.
LEMMA GrTurnsStep ==
  ASSUME GrInv, G!GroupAssumption, G!Next \/ UNCHANGED G!vars
  PROVE  GrTurns'
<1>1. GrTurns /\ flush \in [Chats -> GrFlush]
  BY DEF GrInv, GrShapes
<1>2. CASE UNCHANGED <<extra, flush>>
  BY <1>1, <1>2 DEF GrTurns
<1>3. ASSUME NEW m \in Msgs, G!Gate(m)
      PROVE  GrTurns'
  <2>1. PICK c \in Chats : c = ChatOf[m]
    BY DEF G!GroupAssumption
  <2>2. extra' = extra /\ (flush' = flush \/ G!ScheduleFlush(c))
    BY <1>3, <2>1 DEF G!Gate
  <2> QED BY <1>1, <2>2, AFlushIsScheduled DEF GrTurns
<1>4. ASSUME NEW c \in Chats, G!Wake(c)
      PROVE  GrTurns'
  <2>1. extra' = c
    BY <1>4 DEF G!Wake
  <2> QED BY <1>1, <1>4, <2>1, AFlushGoesOn DEF GrTurns
<1>5. ASSUME NEW c \in Chats, G!Look(c) \/ G!Answer(c)
      PROVE  GrTurns'
  <2>1. extra' = extra
    BY <1>5 DEF G!Look, G!Answer
  <2>2. flush'[c].pc = "looked" => flush'[c].sections = c
    BY <1>1, <1>5, AFlushGoesOn DEF GrTurns
  <2>3. flush'[c].pc \in {"looked", "sending"} /\ \A d \in Chats \ {c} : flush'[d] = flush[d]
    BY <1>5, AFlushGoesOn
  <2> QED BY <1>1, <2>1, <2>2, <2>3 DEF GrTurns
<1>6. ASSUME NEW c \in Chats, GrEnds(c)
      PROVE  GrTurns'
  BY <1>1, <1>6, AFlushEnds, GrIdle DEF GrTurns
<1>7. CASE \E m \in Msgs : G!Record(m) \/ G!Handler(m)
  BY <1>2, <1>3, <1>7 DEF G!Handler, G!Record, G!Disparar
<1>8. CASE \E c \in Chats : G!Flush(c) \/ G!Fail(c)
  BY <1>4, <1>5, <1>6, <1>8 DEF G!Flush, GrEnds
<1>9. CASE (\E n \in MaxCounts : G!SetMax(n)) \/ G!Tick \/ UNCHANGED G!vars
  BY <1>2, <1>9 DEF G!SetMax, G!Tick, G!vars
<1> QED BY <1>7, <1>8, <1>9 DEF G!Next

\* A window after is not before.
LEMMA AWindowAfter ==
  \A x, y, w \in Nat : x <= y => x + w <= y + w
OBVIOUS

\* The limiter after an answer: the one that fills the count starts the cooldown.
LEMMA AnAnswerIsCounted ==
  ASSUME NEW s \in Seq(Nat), NEW e \in GrLimits, NEW p, NEW k \in Nat, NEW max \in Nat \ {0},
         Window \in Nat \ {0}, GrLimit(s, e, p, k, max), p # "none",
         NEW r, r = [n |-> e.n + 1, until |-> IF e.n + 1 >= max THEN k + Window ELSE e.until],
         NEW t, t = Append(s, k)
  PROVE  GrLimit(t, r, "none", k, max)
<1>1. PICK n \in Nat, l \in Nat : n = e.n /\ l = Len(s)
  BY DEF GrLimits
<1>2. e.until = 0 /\ \A i \in 1 .. l : s[i] \in Nat
  BY <1>1 DEF GrLimit
<1>3. t \in Seq(Nat) /\ Len(t) = l + 1 /\ t[l + 1] = k /\ \A i \in 1 .. l : t[i] = s[i]
  BY <1>1
<1>4. \A i \in 1 .. l + 1 : t[i] <= k /\ t[i] \in Nat
  BY <1>1, <1>2, <1>3 DEF GrLimit
<1>5. \A i \in 1 .. l : i + n <= l => s[i] + Window <= k
  BY <1>1, <1>2 DEF GrLimit
<1>6. n >= max => l = 0
  BY <1>1, <1>2 DEF GrLimit
<1>7. r.n = n + 1 /\ (n + 1 >= max => r.until = k + Window) /\ (n + 1 < max => r.until = 0)
  BY <1>1, <1>2
<1>8. r.until # 0 => n + 1 >= max /\ r.until = k + Window
  BY <1>7
<1>9. r.until # 0 => \A i \in 1 .. l + 1 : t[i] + Window <= r.until
  <2>1. ASSUME NEW i \in 1 .. l + 1
        PROVE  t[i] + Window <= k + Window
    <3>1. PICK x \in Nat : x = t[i] /\ x <= k
      BY <1>4
    <3>2. x + Window <= k + Window
      BY <3>1, AWindowAfter
    <3> QED BY <3>1, <3>2
  <2> QED BY <1>8, <2>1
<1>10. r.until = 0 => n + 1 < max
  BY <1>7
<1>11. r.until = 0 => \A i \in 1 .. l + 1 : i + r.n <= l + 1 => t[i] + Window <= k
  BY <1>3, <1>5, <1>7
<1>12. ASSUME NEW i \in 1 .. l + 1, i + max <= l + 1
       PROVE  t[i + max] - t[i] >= Window
  <2>1. CASE i + max <= l
    <3>1. i \in 1 .. l /\ i + max \in 1 .. l
      BY <2>1
    <3>2. s[i + max] - s[i] >= Window
      BY <1>1, <2>1, <3>1 DEF GrLimit
    <3> QED BY <1>3, <3>1, <3>2
  <2>2. CASE i + max = l + 1
    <3>1. i \in 1 .. l
      BY <2>2
    <3>2. i + n <= l
      BY <1>6, <2>2, <3>1
    <3>3. s[i] + Window <= k /\ s[i] \in Nat
      BY <1>2, <1>5, <3>1, <3>2
    <3>4. t[i + max] = k /\ t[i] = s[i]
      BY <1>3, <2>2, <3>1
    <3> QED BY <3>3, <3>4
  <2>3. i + max <= l \/ i + max = l + 1
    BY <1>12
  <2> QED BY <2>1, <2>2, <2>3
<1>13. ~(r.until = 0 /\ r.n >= max)
  BY <1>7, <1>10
<1>14. PICK ln : ln = l + 1 /\ ln = Len(t)
  BY <1>3
<1> QED BY <1>4, <1>9, <1>11, <1>12, <1>13, <1>14 DEF GrLimit

\* Nothing has been said since a human spoke, or since the limit changed.
LEMMA NothingWasSaid ==
  ASSUME NEW s, s = <<>>, NEW e, NEW p, NEW k, NEW max, p # "none" => e.until = 0
  PROVE  GrLimit(s, e, p, k, max)
<1>1. Len(s) = 0
  OBVIOUS
<1> QED BY <1>1 DEF GrLimit

\* Each step keeps what the limiter has of the answers in a row.
LEMMA GrLimitedStep ==
  ASSUME GrInv, G!GroupAssumption, G!Next \/ UNCHANGED G!vars
  PROVE  GrLimited'
<1>1. /\ GrLimited /\ GrShapes /\ behavior' = behavior
  BY DEF GrInv, G!Next, G!Handler, G!Flush, G!Record, G!Disparar, G!Gate, G!Wake, G!NothingToAnswer, G!Look, G!Answer,
         G!Skip, G!Send, G!Fail, G!SetMax, G!Tick, G!vars
<1>2. clock \in Nat /\ maxCount \in Nat \ {0} /\ Window \in Nat \ {0}
  BY <1>1 DEF GrShapes, G!GroupAssumption
<1>3. ASSUME UNCHANGED <<estados, said, clock, maxCount>>,
             \A c \in Chats : flush'[c].pc = "none" \/ flush[c].pc # "none"
      PROVE  GrLimited'
  <2>1. ASSUME NEW c \in Chats, behavior = "autonomous"
        PROVE  GrLimit(said[c], estados[c], flush[c].pc, clock, maxCount)'
    <3>1. GrLimit(said[c], estados[c], flush[c].pc, clock, maxCount)
      BY <1>1, <2>1 DEF GrLimited
    <3> QED BY <1>3, <3>1 DEF GrLimit
  <2> QED BY <1>1, <1>3, <2>1 DEF GrLimited
<1>4. CASE UNCHANGED G!vars
  BY <1>3, <1>4 DEF G!vars, G!limiter
<1>5. ASSUME NEW m \in Msgs, G!Record(m) \/ G!Disparar(m)
      PROVE  GrLimited'
  BY <1>3, <1>5 DEF G!Record, G!Disparar, G!limiter
<1>6. ASSUME NEW m \in Msgs, G!Gate(m)
      PROVE  GrLimited'
  <2>1. PICK c \in Chats : c = ChatOf[m]
    BY DEF G!GroupAssumption
  <2>2. CASE behavior # "autonomous"
    <3>1. estados' = estados
      BY <1>6, <2>2 DEF G!Gate
    <3> QED BY <1>1, <2>2, <3>1 DEF GrLimited
  <2>3. CASE behavior = "autonomous"
    <3>1. PICK no \in GrLimits : no = G!NoState /\ no.until = 0 /\ no.n = 0
      <4>1. 0 \in Nat /\ 0 \in 0 .. MaxClock + Window
        BY DEF G!GroupAssumption
      <4>2. PICK r : r = G!NoState
        OBVIOUS
      <4>3. r = [n |-> 0, until |-> 0]
        BY <4>2 DEF G!NoState
      <4>4. r \in GrLimits /\ r.until = 0 /\ r.n = 0
        BY <4>1, <4>3 DEF GrLimits
      <4> QED BY <4>2, <4>4
    <3>2. PICK es, said2 : /\ es = IF G!Rearms(m) THEN [estados EXCEPT ![c] = no] ELSE estados
                           /\ said2 = IF G!Rearms(m) THEN [said EXCEPT ![c] = <<>>] ELSE said
      OBVIOUS
    <3>3. /\ es \in [Chats -> GrLimits] /\ said2 \in [Chats -> Seq(Nat)]
          /\ \A d \in Chats \ {c} : es[d] = estados[d] /\ said2[d] = said[d]
          /\ G!Rearms(m) => es[c] = no /\ said2[c] = <<>>
          /\ ~G!Rearms(m) => es = estados /\ said2 = said
      <4>1. <<>> \in Seq(Nat)
        OBVIOUS
      <4> QED BY <1>1, <3>1, <3>2, <4>1 DEF GrShapes
    <3>4. /\ estados' = G!Rearmed(es, c) /\ said' = said2 /\ UNCHANGED <<clock, maxCount>>
          /\ (G!Cooling(es, c) /\ flush' = flush) \/ (~G!Cooling(es, c) /\ G!ScheduleFlush(c))
      BY <1>6, <2>1, <2>3, <3>1, <3>2 DEF G!Gate, G!Reset, G!Holds
    <3>5. /\ flush'[c].pc = flush[c].pc \/ ~G!Cooling(es, c)
          /\ \A d \in Chats \ {c} : flush'[d] = flush[d]
      BY <3>4, AFlushIsScheduled
    <3>6. GrLimit(said2[c], es[c], flush[c].pc, clock, maxCount)
      <4>1. CASE G!Rearms(m)
        BY <3>1, <3>3, <4>1, NothingWasSaid
      <4>2. CASE ~G!Rearms(m)
        BY <1>1, <2>3, <3>3, <4>2 DEF GrLimited
      <4> QED BY <4>1, <4>2
    <3>7. PICK e \in GrLimits, s \in Seq(Nat) : e = es[c] /\ s = said2[c]
      BY <3>3
    <3>8. /\ estados'[c] = IF e.until # 0 /\ ~(e.until > clock) THEN no ELSE e
          /\ \A d \in Chats \ {c} : estados'[d] = estados[d]
      BY <3>1, <3>3, <3>4, <3>7 DEF G!Rearmed, G!Cooling
    <3>9. GrLimit(s, estados'[c], flush'[c].pc, clock, maxCount)
      <4>1. CASE e.until # 0 /\ ~(e.until > clock)
        <5>1. e.until <= clock /\ e.until \in Nat
          BY <1>2, <3>7, <4>1 DEF GrLimits, G!GroupAssumption
        <5>2. \A i \in 1 .. Len(s) : s[i] + Window <= clock
          BY <1>2, <3>6, <3>7, <4>1, <5>1 DEF GrLimit
        <5>3. estados'[c] = no
          BY <3>8, <4>1
        <5> QED BY <1>2, <3>1, <3>6, <3>7, <5>2, <5>3 DEF GrLimit
      <4>2. CASE e.until # 0 /\ e.until > clock
        <5>1. estados'[c] = e /\ flush'[c].pc = flush[c].pc
          BY <3>5, <3>7, <3>8, <4>2 DEF G!Cooling
        <5> QED BY <3>6, <3>7, <5>1
      <4>3. CASE e.until = 0
        <5>1. estados'[c] = e
          BY <3>8, <4>3
        <5> QED BY <3>6, <3>7, <4>3, <5>1 DEF GrLimit
      <4> QED BY <4>1, <4>2, <4>3
    <3>10. ASSUME NEW d \in Chats
           PROVE  GrLimit(said'[d], estados'[d], flush'[d].pc, clock', maxCount')
      <4>1. CASE d = c
        BY <3>4, <3>7, <3>9, <4>1
      <4>2. CASE d # c
        <5>1. GrLimit(said[d], estados[d], flush[d].pc, clock, maxCount)
          BY <1>1, <2>3 DEF GrLimited
        <5> QED BY <3>3, <3>4, <3>5, <3>8, <4>2, <5>1
      <4> QED BY <4>1, <4>2
    <3> QED BY <1>1, <2>3, <3>10 DEF GrLimited
  <2> QED BY <2>2, <2>3
<1>7. ASSUME NEW c \in Chats, G!Wake(c) \/ G!Look(c) \/ G!Answer(c)
      PROVE  GrLimited'
  <2>1. UNCHANGED <<estados, said, clock, maxCount>>
    BY <1>7 DEF G!Wake, G!Look, G!Answer, G!limiter
  <2>2. flush[c].pc # "none" /\ \A d \in Chats \ {c} : flush'[d] = flush[d]
    BY <1>7, AFlushGoesOn
  <2> QED BY <1>3, <2>1, <2>2
<1>8. ASSUME NEW c \in Chats, G!NothingToAnswer(c) \/ G!Skip(c) \/ G!Fail(c)
      PROVE  GrLimited'
  <2>1. UNCHANGED <<estados, said, clock, maxCount>> /\ GrEnds(c)
    BY <1>8 DEF G!NothingToAnswer, G!Skip, G!Fail, G!limiter, GrEnds
  <2>2. flush[c].pc # "none" /\ \A d \in Chats \ {c} : flush'[d] = flush[d]
    BY <2>1, AFlushEnds
  <2> QED BY <1>3, <2>1, <2>2
<1>9. ASSUME NEW c \in Chats, G!Send(c)
      PROVE  GrLimited'
  <2>1. /\ UNCHANGED <<clock, maxCount>> /\ said' = [said EXCEPT ![c] = Append(said[c], clock)]
        /\ flush[c].pc # "none" /\ flush'[c].pc = "none" /\ \A d \in Chats \ {c} : flush'[d] = flush[d]
    <3>1. GrEnds(c)
      BY <1>9 DEF GrEnds
    <3> QED BY <1>9, <3>1, AFlushEnds, GrIdle DEF G!Send
  <2>2. CASE behavior # "autonomous"
    BY <1>1, <1>9, <2>2 DEF G!Send, GrLimited
  <2>3. CASE behavior = "autonomous"
    <3>1. PICK s \in Seq(Nat), e \in GrLimits : s = said[c] /\ e = estados[c]
      BY <1>1 DEF GrShapes
    <3>2. PICK r, t : /\ r = [n |-> e.n + 1, until |-> IF e.n + 1 >= maxCount THEN clock + Window ELSE e.until]
                      /\ t = Append(s, clock)
      OBVIOUS
    <3>3. estados' = [estados EXCEPT ![c] = r] /\ said' = [said EXCEPT ![c] = t]
      <4>1. estados' = G!RecordResponse(c)
        BY <1>9, <2>3 DEF G!Send
      <4>2. G!RecordResponse(c) = [estados EXCEPT ![c] = r]
        BY <1>1, <3>1, <3>2 DEF G!RecordResponse, G!Reaches, GrShapes
      <4> QED BY <2>1, <3>1, <3>2, <4>1, <4>2
    <3>4. PICK p : p = flush[c].pc
      OBVIOUS
    <3>5. GrLimit(s, e, p, clock, maxCount)
      BY <1>1, <2>3, <3>1, <3>4 DEF GrLimited
    <3>6. GrLimit(t, r, "none", clock, maxCount)
      BY <1>2, <2>1, <3>1, <3>2, <3>4, <3>5, AnAnswerIsCounted
    <3>7. /\ estados'[c] = r /\ said'[c] = t
          /\ \A d \in Chats \ {c} : estados'[d] = estados[d] /\ said'[d] = said[d]
      BY <1>1, <3>3 DEF GrShapes
    <3>8. ASSUME NEW d \in Chats
          PROVE  GrLimit(said'[d], estados'[d], flush'[d].pc, clock', maxCount')
      <4>1. CASE d = c
        BY <2>1, <3>6, <3>7, <4>1
      <4>2. CASE d # c
        <5>1. GrLimit(said[d], estados[d], flush[d].pc, clock, maxCount)
          BY <1>1, <2>3 DEF GrLimited
        <5> QED BY <2>1, <3>7, <4>2, <5>1
      <4> QED BY <4>1, <4>2
    <3> QED BY <1>1, <2>3, <3>8 DEF GrLimited
  <2> QED BY <2>2, <2>3
<1>10. ASSUME NEW n \in MaxCounts, G!SetMax(n)
       PROVE  GrLimited'
  <2>1. UNCHANGED <<estados, flush, clock>> /\ said' = [c \in Chats |-> <<>>]
    BY <1>10 DEF G!SetMax
  <2>2. ASSUME NEW c \in Chats, behavior = "autonomous"
        PROVE  GrLimit(said'[c], estados'[c], flush'[c].pc, clock', maxCount')
    <3>1. flush[c].pc # "none" => estados[c].until = 0
      BY <1>1, <2>2 DEF GrLimited, GrLimit
    <3> QED BY <2>1, <3>1, NothingWasSaid
  <2> QED BY <1>1, <2>1, <2>2 DEF GrLimited
<1>11. ASSUME G!Tick
       PROVE  GrLimited'
  <2>1. UNCHANGED <<estados, flush, said, maxCount>> /\ clock' = clock + 1
    BY <1>11 DEF G!Tick, G!limiter
  <2>2. ASSUME NEW c \in Chats, behavior = "autonomous"
        PROVE  GrLimit(said'[c], estados'[c], flush'[c].pc, clock', maxCount')
    <3>1. GrLimit(said[c], estados[c], flush[c].pc, clock, maxCount)
      BY <1>1, <2>2 DEF GrLimited
    <3>2. \A i \in 1 .. Len(said[c]) : said[c][i] \in Nat
      BY <1>1 DEF GrShapes
    <3> QED BY <1>2, <2>1, <3>1, <3>2 DEF GrLimit
  <2> QED BY <1>1, <2>1, <2>2 DEF GrLimited
<1>12. CASE \E m \in Msgs : G!Record(m) \/ G!Handler(m)
  BY <1>5, <1>6, <1>12 DEF G!Handler
<1>13. CASE \E c \in Chats : G!Flush(c) \/ G!Fail(c)
  BY <1>7, <1>8, <1>9, <1>13 DEF G!Flush
<1> QED BY <1>4, <1>10, <1>11, <1>12, <1>13 DEF G!Next

\* A row is added at the end.
LEMMA ARowIsAdded ==
  ASSUME NEW Z, NEW h \in Seq(Z), NEW x \in Z
  PROVE  /\ Append(h, x) \in Seq(Z) /\ Len(Append(h, x)) = Len(h) + 1 /\ Len(h) \in Nat
         /\ Append(h, x)[Len(h) + 1] = x /\ \A i \in 1 .. Len(h) : Append(h, x)[i] = h[i]
OBVIOUS

\* What was shown or came too late is never taken back.
LEMMA ToldStaysTold ==
  ASSUME NEW h, NEW f, NEW N, NEW N2, N \subseteq N2, GrTold(h, f, N)
  PROVE  GrTold(h, f, N2)
BY DEF GrTold

\* Each step keeps what the groups have been told of.
LEMMA GrNewsStep ==
  ASSUME GrInv, G!GroupAssumption, G!Next \/ UNCHANGED G!vars
  PROVE  GrNews'
<1>1. GrNews /\ GrShapes
  BY DEF GrInv
<1>2. /\ \A c \in Chats : hist[c] \in Seq(Msgs \cup {None}) /\ flush[c].upto \in Nat
      /\ \A m \in Msgs : ChatOf[m] \in Chats /\ m # None
      /\ stage \in [Msgs -> G!Stages]
  BY <1>1 DEF GrShapes, GrFlush, G!GroupAssumption
<1>3. CASE UNCHANGED G!vars
  BY <1>1, <1>3 DEF GrNews, GrTold, GrN, G!vars
<1>4. ASSUME UNCHANGED <<hist, stage, flush>>, GrN \subseteq GrN'
      PROVE  GrNews'
  <2>1. \A c \in Chats : GrTold(hist[c], flush[c], GrN')
    BY <1>1, <1>4, ToldStaysTold DEF GrNews
  <2> QED BY <1>1, <1>4, <2>1 DEF GrNews
<1>5. ASSUME NEW m \in Msgs, G!Record(m)
      PROVE  GrNews'
  <2>1. PICK c \in Chats : c = ChatOf[m]
    BY <1>2
  <2>2. /\ UNCHANGED <<flush, seen>> /\ stage[m] = "new" /\ stage' = [stage EXCEPT ![m] = stage'[m]]
        /\ stage'[m] \in {"dropped", "kept", "recorded"}
    BY <1>2, <1>5 DEF G!Record, G!Step, G!Kept
  <2>3. CASE hist' = hist /\ late' = late
    <3>1. stage'[m] = "dropped" \/ hist' = [hist EXCEPT ![c] = Append(hist[c], m)]
      BY <1>2, <1>5, <2>1, <2>2 DEF G!Record, G!Step
    <3>2. stage'[m] = "dropped"
      <4>1. PICK h \in Seq(Msgs \cup {None}) : h = hist[c]
        BY <1>2
      <4>2. Append(h, m) # h
        <5>1. Len(Append(h, m)) = Len(h) + 1 /\ Len(h) \in Nat
          BY <4>1
        <5> QED BY <5>1
      <4>3. hist'[c] = h
        BY <2>3, <4>1
      <4>4. hist' = [hist EXCEPT ![c] = Append(hist[c], m)] => hist'[c] = Append(h, m)
        BY <1>1, <4>1 DEF GrShapes
      <4> QED BY <3>1, <4>2, <4>3, <4>4
    <3>3. \A n \in Msgs : n # m => stage'[n] = stage[n]
      BY <1>2, <2>2
    <3>4. GrN' = GrN
      BY <2>2, <2>3 DEF GrN
    <3> QED BY <1>1, <2>2, <2>3, <3>2, <3>3, <3>4 DEF GrNews
  <2>4. CASE hist' = [hist EXCEPT ![c] = Append(hist[c], m)]
    <3>1. PICK h, h2 : h = hist[c] /\ h2 = Append(h, m) /\ h2 = hist'[c]
      BY <1>1, <2>4 DEF GrShapes
    <3>2. /\ h2 \in Seq(Msgs \cup {None}) /\ Len(h2) = Len(h) + 1 /\ Len(h) \in Nat /\ h2[Len(h) + 1] = m
          /\ \A i \in 1 .. Len(h) : h2[i] = h[i]
      <4>1. PICK z : z = Msgs \cup {None}
        OBVIOUS
      <4>2. h \in Seq(z) /\ m \in z
        BY <1>2, <3>1, <4>1
      <4>3. /\ Append(h, m) \in Seq(z) /\ Len(Append(h, m)) = Len(h) + 1 /\ Len(h) \in Nat
            /\ Append(h, m)[Len(h) + 1] = m /\ \A i \in 1 .. Len(h) : Append(h, m)[i] = h[i]
        BY <4>2, ARowIsAdded
      <4> QED BY <3>1, <4>1, <4>3
    <3>3. \A d \in Chats \ {c} : hist'[d] = hist[d]
      BY <1>1, <2>4 DEF GrShapes
    <3>4. late' = (IF flush[c].pc = "sending" THEN late \cup {m} ELSE late) \/ late' = late
      BY <1>5, <2>1 DEF G!Record
    <3>5. flush[c].pc = "sending" => m \in GrN'
      <4>1. CASE late' = late
        <5>1. hist' # hist
          BY <3>1, <3>2
        <5> QED BY <1>5, <2>1, <5>1 DEF G!Record, GrN
      <4>2. CASE late' # late
        BY <3>4, <4>2 DEF GrN
      <4> QED BY <4>1, <4>2
    <3>6. GrN \subseteq GrN'
      BY <2>2, <3>4 DEF GrN
    <3>7. PICK f, N2 : f = flush[c] /\ N2 = GrN'
      OBVIOUS
    <3>8. GrTold(h, f, N2)
      BY <1>1, <3>1, <3>6, <3>7, ToldStaysTold DEF GrNews
    <3>9. flush[c].pc = "looked" => f.upto <= Len(h)
      BY <1>1, <3>1, <3>7 DEF GrNews
    <3>10. GrTold(h2, f, N2)
      <4>1. f.pc = "sending" => \A i \in 1 .. Len(h2) : h2[i] \in N2
        BY <3>2, <3>5, <3>7, <3>8 DEF GrTold
      <4>2. ASSUME f.pc = "looked", NEW i \in 1 .. Len(h2), i <= f.upto
            PROVE  h2[i] \in N2
        <5>1. i \in 1 .. Len(h)
          BY <1>2, <3>2, <3>7, <3>9, <4>2
        <5> QED BY <3>2, <3>8, <4>2, <5>1 DEF GrTold
      <4>3. ASSUME NEW i \in 1 .. Len(h2), NEW j \in 1 .. Len(h2), i < j, h2[j] = None
            PROVE  h2[i] \in N2
        <5>1. j # Len(h) + 1
          BY <1>2, <3>2, <4>3
        <5>2. i \in 1 .. Len(h) /\ j \in 1 .. Len(h)
          BY <3>2, <4>3, <5>1
        <5> QED BY <3>2, <3>8, <4>3, <5>2 DEF GrTold
      <4> QED BY <4>1, <4>2, <4>3 DEF GrTold
    <3>11. \A d \in Chats : GrTold(hist'[d], flush'[d], GrN')
      <4>1. \A d \in Chats \ {c} : GrTold(hist[d], flush[d], GrN')
        BY <1>1, <3>6, ToldStaysTold DEF GrNews
      <4> QED BY <2>2, <3>1, <3>3, <3>7, <3>10, <4>1
    <3>12. \A d \in Chats : \A i \in 1 .. Len(hist'[d]) : hist'[d][i] # None => ChatOf[hist'[d][i]] = d
      <4>1. \A i \in 1 .. Len(h2) : h2[i] # None => ChatOf[h2[i]] = c
        BY <1>1, <2>1, <3>1, <3>2 DEF GrNews
      <4> QED BY <1>1, <3>1, <3>3, <4>1 DEF GrNews
    <3>13. ASSUME NEW n \in Msgs, stage'[n] \notin {"new", "dropped"}
           PROVE  \E i \in 1 .. Len(hist'[ChatOf[n]]) : hist'[ChatOf[n]][i] = n
      <4>1. CASE n = m
        <5>1. Len(h) + 1 \in 1 .. Len(h2)
          BY <3>2
        <5> QED BY <2>1, <3>1, <3>2, <4>1, <5>1
      <4>2. CASE n # m
        <5>1. stage[n] \notin {"new", "dropped"}
          BY <1>2, <2>2, <3>13, <4>2
        <5>2. PICK i \in 1 .. Len(hist[ChatOf[n]]) : hist[ChatOf[n]][i] = n
          BY <1>1, <5>1 DEF GrNews
        <5>3. CASE ChatOf[n] = c
          <6>1. i \in 1 .. Len(h) /\ h[i] = n
            BY <3>1, <5>2, <5>3
          <6>2. i \in 1 .. Len(h2) /\ h2[i] = n
            BY <3>2, <6>1
          <6> QED BY <3>1, <5>3, <6>2
        <5>4. CASE ChatOf[n] # c
          BY <1>2, <3>3, <5>2, <5>4
        <5> QED BY <5>3, <5>4
      <4> QED BY <4>1, <4>2
    <3>14. \A n \in Msgs : stage'[n] = "passed" => stage[n] = "passed"
      BY <1>2, <2>2
    <3>15. \A n \in Msgs : stage'[n] = "passed" /\ flush'[ChatOf[n]].pc = "none" => n \in GrN'
      BY <1>1, <2>2, <3>6, <3>14 DEF GrNews
    <3>16. \A d \in Chats : flush'[d].pc = "looked" => flush'[d].upto <= Len(hist'[d])
      <4>1. flush[c].pc = "looked" => f.upto <= Len(h2)
        BY <1>2, <3>2, <3>7, <3>9
      <4> QED BY <1>1, <2>2, <3>1, <3>3, <3>7, <4>1 DEF GrNews
    <3>17. \A d \in Chats : flush'[d].pc = "woken" => flush'[d].upto = 0
      BY <1>1, <2>2 DEF GrNews
    <3> QED BY <3>11, <3>12, <3>13, <3>15, <3>16, <3>17 DEF GrNews
  <2> QED BY <1>5, <2>1, <2>3, <2>4 DEF G!Record
<1>6. ASSUME NEW m \in Msgs, stage[m] \in {"recorded", "reacting"}, NEW s, s \in {"reacting", "held", "passed"},
             stage' = [stage EXCEPT ![m] = s], UNCHANGED <<hist, seen, late>>,
             NEW c \in Chats, c = ChatOf[m], \A d \in Chats \ {c} : flush'[d] = flush[d],
             flush'[c].pc \in {"none", "asleep"} \/ flush'[c] = flush[c],
             flush[c].pc # "none" => flush'[c] = flush[c],
             s = "passed" => flush'[c].pc # "none"
      PROVE  GrNews'
  <2>1. GrN' = GrN /\ \A n \in Msgs : n # m => stage'[n] = stage[n]
    BY <1>2, <1>6 DEF GrN
  <2>2. \A d \in Chats : GrTold(hist'[d], flush'[d], GrN')
    <3>1. \A d \in Chats : GrTold(hist[d], flush[d], GrN)
      BY <1>1 DEF GrNews
    <3>2. GrTold(hist[c], flush'[c], GrN)
      BY <1>6, <3>1 DEF GrTold
    <3> QED BY <1>6, <2>1, <3>1, <3>2
  <2>3. \A n \in Msgs : stage'[n] \notin {"new", "dropped"} => stage[n] \notin {"new", "dropped"}
    BY <1>6, <2>1
  <2>4. ASSUME NEW n \in Msgs, stage'[n] = "passed", flush'[ChatOf[n]].pc = "none"
        PROVE  n \in GrN'
    <3>1. n # m
      BY <1>2, <1>6, <2>4
    <3>2. stage[n] = "passed" /\ flush[ChatOf[n]].pc = "none"
      BY <1>2, <1>6, <2>1, <2>4, <3>1
    <3> QED BY <1>1, <2>1, <3>2 DEF GrNews
  <2> QED BY <1>1, <1>6, <2>2, <2>3, <2>4 DEF GrNews
<1>7. ASSUME NEW m \in Msgs, G!Disparar(m)
      PROVE  GrNews'
  <2>1. PICK c \in Chats : c = ChatOf[m]
    BY <1>2
  <2> QED BY <1>6, <1>7, <2>1 DEF G!Disparar, G!Step
<1>8. ASSUME NEW m \in Msgs, G!Gate(m)
      PROVE  GrNews'
  <2>1. PICK c \in Chats : c = ChatOf[m]
    BY <1>2
  <2>2. stage[m] \in {"recorded", "reacting"} /\ UNCHANGED <<hist, seen, late>>
    BY <1>8 DEF G!Gate
  <2>3. CASE stage' = [stage EXCEPT ![m] = "held"] /\ flush' = flush
    BY <1>6, <2>1, <2>2, <2>3
  <2>4. CASE stage' = [stage EXCEPT ![m] = "passed"] /\ G!ScheduleFlush(c)
    <3>1. /\ flush'[c].pc # "none" /\ (flush[c].pc # "none" => flush' = flush)
          /\ flush[c].pc = "none" => flush'[c].pc = "asleep"
          /\ \A d \in Chats \ {c} : flush'[d] = flush[d]
      BY <2>4, AFlushIsScheduled
    <3> QED BY <1>6, <2>1, <2>2, <2>4, <3>1
  <2> QED BY <1>8, <2>1, <2>3, <2>4 DEF G!Gate
<1>9. ASSUME NEW c \in Chats, UNCHANGED <<hist, stage>>, GrN \subseteq GrN',
             \A d \in Chats \ {c} : flush'[d] = flush[d], GrTold(hist[c], flush'[c], GrN'),
             flush'[c].pc = "none" => \A i \in 1 .. Len(hist[c]) : hist[c][i] \in GrN',
             flush'[c].pc = "woken" => flush'[c].upto = 0,
             flush'[c].pc = "looked" => flush'[c].upto <= Len(hist[c])
      PROVE  GrNews'
  <2>1. \A d \in Chats \ {c} : GrTold(hist[d], flush[d], GrN')
    BY <1>1, <1>9, ToldStaysTold DEF GrNews
  <2>2. ASSUME NEW n \in Msgs, stage[n] = "passed", flush'[ChatOf[n]].pc = "none"
        PROVE  n \in GrN'
    <3>1. CASE ChatOf[n] = c
      <4>1. PICK i \in 1 .. Len(hist[c]) : hist[c][i] = n
        BY <1>1, <2>2, <3>1 DEF GrNews
      <4> QED BY <1>9, <2>2, <3>1, <4>1
    <3>2. CASE ChatOf[n] # c
      BY <1>1, <1>2, <1>9, <2>2, <3>2 DEF GrNews
    <3> QED BY <3>1, <3>2
  <2> QED BY <1>1, <1>9, <2>1, <2>2 DEF GrNews
<1>10. ASSUME NEW c \in Chats, G!Wake(c)
       PROVE  GrNews'
  <2>1. UNCHANGED <<hist, stage, seen, late>>
    BY <1>10 DEF G!Wake
  <2>2. flush'[c].pc = "woken" /\ flush'[c].upto = 0 /\ \A d \in Chats \ {c} : flush'[d] = flush[d]
    BY <1>10, AFlushGoesOn
  <2>3. GrTold(hist[c], flush'[c], GrN)
    BY <1>1, <2>2 DEF GrNews, GrTold
  <2> QED BY <1>9, <2>1, <2>2, <2>3 DEF GrN
<1>11. ASSUME NEW c \in Chats, G!Look(c)
       PROVE  GrNews'
  <2>1. UNCHANGED <<hist, stage, late>> /\ seen' = seen \cup G!LookAt(c)
    BY <1>11 DEF G!Look
  <2>2. /\ flush'[c].pc = "looked" /\ \A d \in Chats \ {c} : flush'[d] = flush[d]
        /\ flush'[c].upto = Len(hist[c]) /\ Len(hist[c]) \in Nat
    BY <1>2, <1>11, AFlushGoesOn
  <2>3. \A i \in 1 .. Len(hist[c]) : hist[c][i] \in GrN'
    <3>1. DOMAIN hist[c] = 1 .. Len(hist[c])
      BY <1>2
    <3> QED BY <2>1, <3>1 DEF GrN, G!LookAt, G!ToSet
  <2>4. GrN \subseteq GrN'
    BY <2>1 DEF GrN
  <2>5. GrTold(hist[c], flush'[c], GrN')
    BY <2>2, <2>3 DEF GrTold
  <2> QED BY <1>9, <2>1, <2>2, <2>4, <2>5
\* All of the group was shown or is too late, when the turn is past its last look.
<1>12. ASSUME NEW c \in Chats, flush[c].pc # "sending", GrN \subseteq GrN', G!Since(c) \subseteq GrN',
              flush[c].pc = "looked" \/ flush[c].upto = 0
       PROVE  \A i \in 1 .. Len(hist[c]) : hist[c][i] \in GrN'
  <2>1. PICK h, u : h = hist[c] /\ u = flush[c].upto /\ h \in Seq(Msgs \cup {None}) /\ u \in Nat
    BY <1>2
  <2>2. \A i \in 1 .. Len(h) : i > u => h[i] \in GrN'
    <3>1. \A i \in 1 .. Len(h) : i > u => i \in u + 1 .. Len(h)
      BY <2>1
    <3>2. None \in GrN'
      BY DEF GrN
    <3> QED BY <1>12, <2>1, <3>1, <3>2 DEF G!Since
  <2>3. \A i \in 1 .. Len(h) : i <= u => h[i] \in GrN
    BY <1>1, <1>12, <2>1 DEF GrNews, GrTold
  <2>4. \A i \in 1 .. Len(h) : i <= u \/ i > u
    BY <2>1
  <2> QED BY <1>12, <2>1, <2>2, <2>3, <2>4
<1>13. ASSUME NEW c \in Chats, GrEnds(c)
       PROVE  GrNews'
  <2>1. /\ UNCHANGED <<hist, stage, seen>> /\ flush'[c].pc = "none" /\ late \subseteq late'
        /\ flush[c].pc \in {"woken", "looked", "sending"} /\ \A d \in Chats \ {c} : flush'[d] = flush[d]
    BY <1>13, AFlushEnds, GrIdle DEF GrEnds, G!NothingToAnswer, G!Skip, G!Send, G!Fail
  <2>2. GrN \subseteq GrN' /\ (late' = late \cup G!Since(c) => G!Since(c) \subseteq GrN')
    BY <2>1 DEF GrN
  <2>3. \A i \in 1 .. Len(hist[c]) : hist[c][i] \in GrN'
    <3>1. CASE flush[c].pc = "sending"
      BY <1>1, <2>2, <3>1 DEF GrNews, GrTold
    <3>2. CASE flush[c].pc = "looked"
      <4>1. late' = late \cup G!Since(c)
        BY <1>13, <3>2 DEF GrEnds, G!NothingToAnswer, G!Skip, G!Send, G!Fail, G!At
      <4> QED BY <1>12, <2>2, <3>2, <4>1
    <3>3. CASE flush[c].pc = "woken" /\ G!Fail(c)
      <4>1. late' = late \cup G!Since(c)
        BY <3>3 DEF G!Fail
      <4>2. flush[c].upto = 0
        BY <1>1, <3>3 DEF GrNews
      <4> QED BY <1>12, <2>2, <3>3, <4>1, <4>2
    <3>4. CASE flush[c].pc = "woken" /\ ~G!Fail(c)
      <4>1. ~G!TrailingBatch(c)
        BY <1>13, <3>4 DEF GrEnds, G!NothingToAnswer, G!Skip, G!Send, G!At
      <4>2. PICK h \in Seq(Msgs \cup {None}) : h = hist[c]
        BY <1>2
      <4>3. CASE h = <<>>
        BY <4>2, <4>3
      <4>4. CASE h # <<>>
        <5>1. h[Len(h)] = None /\ Len(h) \in Nat /\ Len(h) # 0
          BY <4>1, <4>2, <4>4 DEF G!TrailingBatch, G!Last
        <5>2. \A i \in 1 .. Len(h) : i < Len(h) => h[i] \in GrN
          BY <1>1, <4>2, <5>1 DEF GrNews, GrTold
        <5>3. \A i \in 1 .. Len(h) : i < Len(h) \/ i = Len(h)
          BY <5>1
        <5>4. None \in GrN
          BY DEF GrN
        <5> QED BY <2>2, <4>2, <5>1, <5>2, <5>3, <5>4
      <4> QED BY <4>3, <4>4
    <3> QED BY <2>1, <3>1, <3>2, <3>3, <3>4
  <2>4. GrTold(hist[c], flush'[c], GrN')
    BY <2>1, <2>3 DEF GrTold
  <2> QED BY <1>9, <2>1, <2>2, <2>3, <2>4
<1>14. ASSUME NEW c \in Chats, G!Answer(c)
       PROVE  GrNews'
  <2>1. /\ UNCHANGED <<stage, seen>> /\ hist' = [hist EXCEPT ![c] = Append(hist[c], None)]
        /\ late' = late \cup G!Since(c)
    BY <1>14 DEF G!Answer
  <2>2. flush[c].pc = "looked" /\ flush'[c].pc = "sending" /\ \A d \in Chats \ {c} : flush'[d] = flush[d]
    BY <1>14, AFlushGoesOn
  <2>3. GrN \subseteq GrN' /\ G!Since(c) \subseteq GrN' /\ None \in GrN'
    BY <2>1 DEF GrN
  <2>4. PICK h, h2, N2 : h = hist[c] /\ h2 = Append(h, None) /\ h2 = hist'[c] /\ N2 = GrN'
    BY <1>1, <2>1 DEF GrShapes
  <2>5. \A d \in Chats \ {c} : hist'[d] = hist[d]
    BY <1>1, <2>1 DEF GrShapes
  <2>6. \A i \in 1 .. Len(h) : h[i] \in N2
    BY <1>12, <2>2, <2>3, <2>4
  <2>7. /\ Len(h2) = Len(h) + 1 /\ Len(h) \in Nat /\ h2[Len(h) + 1] = None
        /\ \A i \in 1 .. Len(h) : h2[i] = h[i]
    <3>1. PICK z : z = Msgs \cup {None}
      OBVIOUS
    <3>2. h \in Seq(z) /\ None \in z
      BY <1>2, <2>4, <3>1
    <3>3. /\ Len(Append(h, None)) = Len(h) + 1 /\ Len(h) \in Nat
          /\ Append(h, None)[Len(h) + 1] = None /\ \A i \in 1 .. Len(h) : Append(h, None)[i] = h[i]
      BY <3>2, ARowIsAdded
    <3> QED BY <2>4, <3>3
  <2>8. \A i \in 1 .. Len(h2) : h2[i] \in N2
    BY <2>3, <2>4, <2>6, <2>7
  <2>9. GrTold(h2, flush'[c], N2)
    BY <2>2, <2>8 DEF GrTold
  <2>10. \A d \in Chats \ {c} : GrTold(hist[d], flush[d], GrN')
    BY <1>1, <2>3, ToldStaysTold DEF GrNews
  <2>11. \A d \in Chats : GrTold(hist'[d], flush'[d], GrN')
    BY <2>2, <2>4, <2>5, <2>9, <2>10
  <2>12. \A d \in Chats : \A i \in 1 .. Len(hist'[d]) : hist'[d][i] # None => ChatOf[hist'[d][i]] = d
    <3>1. \A i \in 1 .. Len(h2) : h2[i] # None => ChatOf[h2[i]] = c
      BY <1>1, <2>4, <2>7 DEF GrNews
    <3> QED BY <1>1, <2>4, <2>5, <3>1 DEF GrNews
  <2>13. ASSUME NEW n \in Msgs, stage'[n] \notin {"new", "dropped"}
         PROVE  \E i \in 1 .. Len(hist'[ChatOf[n]]) : hist'[ChatOf[n]][i] = n
    <3>1. PICK i \in 1 .. Len(hist[ChatOf[n]]) : hist[ChatOf[n]][i] = n
      BY <1>1, <2>1, <2>13 DEF GrNews
    <3>2. CASE ChatOf[n] = c
      <4>1. i \in 1 .. Len(h2) /\ h2[i] = n
        BY <2>4, <2>7, <3>1, <3>2
      <4> QED BY <2>4, <3>2, <4>1
    <3>3. CASE ChatOf[n] # c
      BY <1>2, <2>5, <3>1, <3>3
    <3> QED BY <3>2, <3>3
  <2>14. ASSUME NEW n \in Msgs, stage'[n] = "passed", flush'[ChatOf[n]].pc = "none"
         PROVE  n \in GrN'
    <3>1. ChatOf[n] # c
      BY <2>2, <2>14
    <3> QED BY <1>1, <1>2, <2>1, <2>2, <2>3, <2>14, <3>1 DEF GrNews
  <2>15. \A d \in Chats : flush'[d].pc = "looked" => flush'[d].upto <= Len(hist'[d])
    BY <1>1, <2>2, <2>5 DEF GrNews
  <2>16. \A d \in Chats : flush'[d].pc = "woken" => flush'[d].upto = 0
    BY <1>1, <2>2 DEF GrNews
  <2> QED BY <2>11, <2>12, <2>13, <2>14, <2>15, <2>16 DEF GrNews
<1>15. CASE \E m \in Msgs : G!Record(m) \/ G!Handler(m)
  BY <1>5, <1>7, <1>8, <1>15 DEF G!Handler
<1>16. CASE \E c \in Chats : G!Flush(c) \/ G!Fail(c)
  BY <1>10, <1>11, <1>13, <1>14, <1>16 DEF G!Flush, GrEnds
<1>17. CASE (\E n \in MaxCounts : G!SetMax(n)) \/ G!Tick
  BY <1>4, <1>17 DEF G!SetMax, G!Tick, GrN
<1> QED BY <1>3, <1>15, <1>16, <1>17 DEF G!Next

\* A message is added to those asked once.
GrAdded(x, y, m) == G!IsInjective(y) /\ \A n \in Msgs : GrHas(y, n) <=> GrHas(x, n) \/ n = m

\* One that was not asked is added at the end of consultas.
LEMMA AQueryIsAdded ==
  \A a, b \in Seq(Msgs), m \in Msgs :
    G!IsInjective(a \o b) /\ ~GrHas(a \o b, m) => GrAdded(a \o b, a \o Append(b, m), m)
<1> SUFFICES ASSUME NEW a \in Seq(Msgs), NEW b \in Seq(Msgs), NEW m \in Msgs, NEW x, x = a \o b,
                    G!IsInjective(x), ~GrHas(x, m), NEW y, y = a \o Append(b, m)
             PROVE  GrAdded(x, y, m)
  OBVIOUS
<1>1. x \in Seq(Msgs) /\ <<m>> \in Seq(Msgs)
  BY ConcatProperties
<1>2. Append(b, m) = b \o <<m>> /\ Append(x, m) = x \o <<m>>
  BY <1>1, AppendIsConcat
<1>3. y = Append(x, m)
  BY <1>1, <1>2, ConcatAssociative
<1>4. /\ y \in Seq(Msgs) /\ Len(y) = Len(x) + 1 /\ Len(x) \in Nat /\ y[Len(x) + 1] = m
      /\ \A i \in 1 .. Len(x) : y[i] = x[i]
  BY <1>1, <1>3, ARowIsAdded
<1>5. PICK l \in Nat : l = Len(x)
  BY <1>4
<1>6. DOMAIN x = 1 .. l /\ DOMAIN y = 1 .. l + 1
  BY <1>1, <1>4, <1>5
<1>7. \A i \in 1 .. l + 1 : i \in 1 .. l \/ i = l + 1
  BY <1>5
<1>8. G!IsInjective(y)
  <2>1. SUFFICES ASSUME NEW i \in 1 .. l + 1, NEW j \in 1 .. l + 1, y[i] = y[j]
                 PROVE  i = j
    BY <1>6 DEF G!IsInjective
  <2>2. CASE i \in 1 .. l /\ j \in 1 .. l
    <3>1. x[i] = x[j]
      BY <1>4, <1>5, <2>1, <2>2
    <3> QED BY <1>6, <2>2, <3>1 DEF G!IsInjective
  <2>3. CASE i = l + 1 \/ j = l + 1
    BY <1>4, <1>5, <1>7, <2>1, <2>3 DEF GrHas
  <2> QED BY <1>7, <2>2, <2>3
<1>9. ASSUME NEW n \in Msgs
      PROVE  GrHas(y, n) <=> GrHas(x, n) \/ n = m
  <2>1. 1 .. l \subseteq 1 .. l + 1 /\ l + 1 \in 1 .. l + 1
    BY <1>5
  <2> QED BY <1>4, <1>5, <1>7, <2>1 DEF GrHas
<1> QED BY <1>8, <1>9 DEF GrAdded

\* Each step keeps what is asked.
LEMMA GrUsedStep ==
  ASSUME GrInv, G!GroupAssumption, G!Next \/ UNCHANGED G!vars
  PROVE  GrUsed'
<1>1. /\ GrUsed /\ behavior' = behavior /\ stage \in [Msgs -> G!Stages]
      /\ asked \in [Chats -> Seq(Msgs)] /\ consultas \in [Chats -> Seq(Msgs)]
  BY DEF GrInv, GrShapes, G!Next, G!Handler, G!Flush, G!Record, G!Disparar, G!Gate, G!Wake, G!NothingToAnswer, G!Look,
         G!Answer, G!Skip, G!Send, G!Fail, G!SetMax, G!Tick, G!vars
<1>2. CASE UNCHANGED <<stage, asked, consultas>>
  BY <1>1, <1>2 DEF GrUsed
<1>3. ASSUME NEW m \in Msgs, UNCHANGED <<asked, consultas>>, NEW s, stage' = [stage EXCEPT ![m] = s],
             behavior # "autonomous" /\ m \in Lan => s \in {"new", "dropped"},
             behavior = "mention" => (s \in {"reacting", "passed"} <=> stage[m] \in {"reacting", "passed"})
      PROVE  GrUsed'
  <2>1. stage'[m] = s /\ \A n \in Msgs : n # m => stage'[n] = stage[n]
    BY <1>1, <1>3
  <2>2. behavior # "autonomous" => \A n \in Lan \cap Msgs : stage'[n] \in {"new", "dropped"}
    BY <1>1, <1>3, <2>1 DEF GrUsed
  <2>3. Lan \subseteq Msgs
    BY DEF G!GroupAssumption
  <2>4. behavior = "mention" =>
          \A n \in Msgs : stage'[n] \in {"reacting", "passed"} <=> stage[n] \in {"reacting", "passed"}
    BY <1>3, <2>1
  <2>5. \A d \in Chats : GrOnce(asked[d] \o consultas[d], d, behavior, stage')
    BY <1>1, <2>4 DEF GrUsed, GrOnce
  <2> QED BY <1>1, <1>3, <2>2, <2>3, <2>5 DEF GrUsed
<1>4. ASSUME NEW m \in Msgs, G!Record(m)
      PROVE  GrUsed'
  <2>1. /\ UNCHANGED <<asked, consultas>> /\ stage[m] = "new"
        /\ m \in Lan => behavior = "autonomous"
    BY <1>4 DEF G!Record, G!Step, G!talk
  <2>2. PICK s \in {"dropped", "kept", "recorded"} : stage' = [stage EXCEPT ![m] = s]
    BY <1>4 DEF G!Record, G!Step, G!Kept
  <2> QED BY <1>3, <2>1, <2>2
<1>5. ASSUME NEW m \in Msgs, G!Disparar(m)
      PROVE  GrUsed'
  <2>1. /\ asked' = asked /\ m \notin Lan /\ stage[m] = "recorded" /\ stage' = [stage EXCEPT ![m] = "reacting"]
    BY <1>5 DEF G!Disparar, G!Step
  <2>2. CASE behavior # "mention"
    <3>1. consultas' = consultas
      BY <1>5, <2>2 DEF G!Disparar
    <3> QED BY <1>3, <2>1, <2>2, <3>1
  <2>3. CASE behavior = "mention"
    <3>1. PICK c \in Chats : c = ChatOf[m]
      BY DEF G!GroupAssumption
    <3>2. consultas' = [consultas EXCEPT ![c] = Append(consultas[c], m)]
      BY <1>5, <2>3, <3>1 DEF G!Disparar
    <3>3. PICK a, b : a = asked[c] /\ b = consultas[c] /\ a \in Seq(Msgs) /\ b \in Seq(Msgs)
      BY <1>1
    <3>4. PICK x, y : x = a \o b /\ y = a \o Append(b, m)
      OBVIOUS
    <3>5. GrOnce(x, c, behavior, stage)
      BY <1>1, <3>3, <3>4 DEF GrUsed
    <3>6. G!IsInjective(x) /\ ~GrHas(x, m)
      BY <2>1, <2>3, <3>5 DEF GrOnce
    <3>7. G!IsInjective(y) /\ \A n \in Msgs : GrHas(y, n) <=> GrHas(x, n) \/ n = m
      <4>1. GrAdded(x, y, m)
        BY <3>3, <3>4, <3>6, AQueryIsAdded
      <4> QED BY <4>1 DEF GrAdded
    <3>8. asked'[c] \o consultas'[c] = y
      BY <1>1, <2>1, <3>2, <3>3, <3>4
    <3>9. \A d \in Chats \ {c} : asked'[d] \o consultas'[d] = asked[d] \o consultas[d]
      BY <1>1, <2>1, <3>2
    <3>10. stage'[m] = "reacting" /\ \A n \in Msgs : n # m => stage'[n] = stage[n]
      BY <1>1, <2>1
    <3>11. \A n \in Lan : stage'[n] \in {"new", "dropped"}
      BY <1>1, <2>1, <2>3, <3>10 DEF GrUsed, G!GroupAssumption
    <3>12. GrOnce(y, c, behavior, stage')
      BY <2>1, <3>1, <3>5, <3>7, <3>10 DEF GrOnce
    <3>13. ASSUME NEW d \in Chats
           PROVE  GrOnce(asked'[d] \o consultas'[d], d, behavior', stage')
      <4>1. CASE d # c
        <5>1. GrOnce(asked[d] \o consultas[d], d, behavior, stage)
          BY <1>1 DEF GrUsed
        <5>2. GrOnce(asked[d] \o consultas[d], d, behavior, stage')
          BY <3>1, <3>10, <4>1, <5>1 DEF GrOnce
        <5> QED BY <1>1, <3>9, <4>1, <5>2
      <4>2. CASE d = c
        BY <1>1, <3>8, <3>12, <4>2
      <4> QED BY <4>1, <4>2
    <3> QED BY <1>1, <2>3, <3>11, <3>13 DEF GrUsed
  <2> QED BY <2>2, <2>3
<1>6. ASSUME NEW m \in Msgs, G!Gate(m)
      PROVE  GrUsed'
  <2>1. /\ UNCHANGED <<asked, consultas>> /\ stage[m] = (IF m \in Lan THEN "recorded" ELSE "reacting")
    BY <1>6 DEF G!Gate, G!talk
  <2>2. PICK s : stage' = [stage EXCEPT ![m] = s] /\ (behavior # "autonomous" => s = "passed")
    BY <1>6 DEF G!Gate
  <2>3. behavior # "autonomous" => m \notin Lan
    BY <1>1, <2>1 DEF GrUsed
  <2> QED BY <1>3, <2>1, <2>2, <2>3
<1>7. ASSUME NEW c \in Chats, G!Wake(c)
      PROVE  GrUsed'
  <2>1. /\ stage' = stage /\ consultas' = [consultas EXCEPT ![c] = <<>>]
        /\ asked' = [asked EXCEPT ![c] = asked[c] \o consultas[c]]
    BY <1>7 DEF G!Wake, G!Pop
  <2>2. PICK a, b : a = asked[c] /\ b = consultas[c] /\ a \in Seq(Msgs) /\ b \in Seq(Msgs)
    BY <1>1
  <2>3. a \o b \in Seq(Msgs)
    BY <2>2, ConcatProperties
  <2>4. (a \o b) \o <<>> = a \o b
    BY <2>3, ConcatEmptySeq
  <2>5. asked'[c] = a \o b /\ consultas'[c] = <<>> /\ \A d \in Chats \ {c} : asked'[d] = asked[d] /\ consultas'[d] = consultas[d]
    BY <1>1, <2>1, <2>2
  <2>6. \A d \in Chats : asked'[d] \o consultas'[d] = asked[d] \o consultas[d]
    BY <2>2, <2>4, <2>5
  <2>7. behavior # "mention" => a \o b = <<>>
    <3>1. behavior # "mention" => a = <<>> /\ b = <<>>
      BY <1>1, <2>2 DEF GrUsed
    <3>2. <<>> \o <<>> = <<>>
      BY <2>2, ConcatEmptySeq
    <3> QED BY <3>1, <3>2
  <2>8. behavior # "mention" => \A d \in Chats : asked'[d] = <<>> /\ consultas'[d] = <<>>
    BY <1>1, <2>5, <2>7 DEF GrUsed
  <2> QED BY <1>1, <2>1, <2>6, <2>8 DEF GrUsed
<1>8. CASE \E m \in Msgs : G!Record(m) \/ G!Handler(m)
  BY <1>4, <1>5, <1>6, <1>8 DEF G!Handler
<1>9. ASSUME NEW c \in Chats, G!Look(c) \/ G!Answer(c) \/ GrEnds(c)
      PROVE  GrUsed'
  BY <1>2, <1>9 DEF GrEnds, G!NothingToAnswer, G!Look, G!Answer, G!Skip, G!Send, G!Fail, G!talk
<1>10. CASE \E c \in Chats : G!Flush(c) \/ G!Fail(c)
  BY <1>7, <1>9, <1>10 DEF G!Flush, GrEnds
<1>11. CASE (\E n \in MaxCounts : G!SetMax(n)) \/ G!Tick \/ UNCHANGED G!vars
  BY <1>2, <1>11 DEF G!SetMax, G!Tick, G!vars, G!talk
<1> QED BY <1>8, <1>10, <1>11 DEF G!Next

\* A message that waits is the last of its sender, if a human says it.
LEMMA TheSenderOfTheLast ==
  ASSUME NEW q \in Seq(Msgs), NEW s, GrSenderOf(q, s), NEW m \in Msgs, NEW t,
         t = IF G!Human(m) THEN Author[m] ELSE s, NEW r, r = Append(q, m)
  PROVE  GrSenderOf(r, t)
<1>1. /\ Len(r) = Len(q) + 1 /\ Len(q) \in Nat /\ r[Len(q) + 1] = m
      /\ \A i \in 1 .. Len(q) : r[i] = q[i]
  BY ARowIsAdded
<1>2. SUFFICES ASSUME NEW i \in 1 .. Len(r), G!Human(r[i]), \A j \in 1 .. Len(r) : G!Human(r[j]) => j <= i
               PROVE  t = Author[r[i]]
  BY DEF GrSenderOf
<1>3. PICK n \in Nat : n = Len(q)
  BY <1>1
<1>4. n + 1 \in 1 .. Len(r) /\ 1 .. n \subseteq 1 .. Len(r)
  BY <1>1, <1>3
<1>5. CASE G!Human(m)
  <2>1. n + 1 <= i
    BY <1>1, <1>2, <1>3, <1>4, <1>5
  <2>2. i = n + 1
    BY <1>1, <1>3, <2>1
  <2> QED BY <1>1, <1>3, <1>5, <2>2
<1>6. CASE ~G!Human(m)
  <2>1. i # n + 1
    BY <1>1, <1>2, <1>3, <1>6
  <2>2. i \in 1 .. n
    BY <1>1, <1>3, <2>1
  <2>3. G!Human(q[i]) /\ r[i] = q[i]
    BY <1>1, <1>2, <1>3, <2>2
  <2>4. \A j \in 1 .. n : G!Human(q[j]) => j <= i
    BY <1>1, <1>2, <1>3, <1>4
  <2> QED BY <1>3, <1>6, <2>2, <2>3, <2>4 DEF GrSenderOf
<1> QED BY <1>5, <1>6

\* Nobody has asked anything.
LEMMA NobodyAsked ==
  ASSUME NEW s
  PROVE  GrSenderOf(<<>>, s)
<1>1. Len(<<>>) = 0
  OBVIOUS
<1>2. 1 .. 0 = {}
  OBVIOUS
<1> QED BY <1>1, <1>2 DEF GrSenderOf

\* Each step keeps the senders.
LEMMA GrSenderStep ==
  ASSUME GrInv, G!GroupAssumption, G!Next \/ UNCHANGED G!vars
  PROVE  GrSender'
<1>1. /\ GrSender /\ lastSender \in [Chats -> GrNames] /\ consultas \in [Chats -> Seq(Msgs)]
      /\ \A m \in Msgs : ChatOf[m] \in Chats
  BY DEF GrInv, GrShapes, G!GroupAssumption
<1>2. CASE UNCHANGED <<lastSender, consultas, flush>>
  BY <1>1, <1>2 DEF GrSender
<1>3. ASSUME NEW m \in Msgs, G!Disparar(m)
      PROVE  GrSender'
  <2>1. PICK c \in Chats : c = ChatOf[m]
    BY <1>1
  <2>2. PICK q, s : q = consultas[c] /\ s = lastSender[c] /\ q \in Seq(Msgs)
    BY <1>1
  <2>3. PICK t : t = IF G!Human(m) THEN Author[m] ELSE s
    OBVIOUS
  <2>4. lastSender' = [lastSender EXCEPT ![c] = t] /\ flush' = flush
    BY <1>1, <1>3, <2>1, <2>2, <2>3 DEF G!Disparar, G!Sender
  <2>5. CASE behavior = "mention"
    <3>1. PICK r : r = Append(q, m)
      OBVIOUS
    <3>2. consultas' = [consultas EXCEPT ![c] = r]
      BY <1>3, <2>1, <2>2, <2>5, <3>1 DEF G!Disparar
    <3>3. GrSenderOf(q, s)
      BY <1>1, <2>2 DEF GrSender
    <3>4. GrSenderOf(r, t)
      BY <2>2, <2>3, <3>1, <3>3, TheSenderOfTheLast
    <3> QED BY <1>1, <2>4, <3>2, <3>4 DEF GrSender
  <2>6. CASE behavior # "mention"
    <3>1. consultas' = consultas /\ q = <<>>
      BY <1>3, <2>2, <2>6 DEF G!Disparar, GrInv, GrUsed
    <3>2. GrSenderOf(q, t)
      BY <3>1, NobodyAsked
    <3> QED BY <1>1, <2>2, <2>4, <3>1, <3>2 DEF GrSender
  <2> QED BY <2>5, <2>6
<1>4. ASSUME NEW c \in Chats, UNCHANGED <<lastSender, consultas>>, \A d \in Chats \ {c} : flush'[d] = flush[d],
             GrSenderOf(flush'[c].query, flush'[c].sender)
      PROVE  GrSender'
  BY <1>1, <1>4 DEF GrSender
<1>5. ASSUME NEW m \in Msgs, G!Gate(m)
      PROVE  GrSender'
  <2>1. PICK c \in Chats : c = ChatOf[m]
    BY <1>1
  <2>2. UNCHANGED <<lastSender, consultas>> /\ (flush' = flush \/ G!ScheduleFlush(c))
    BY <1>5, <2>1 DEF G!Gate, G!talk
  <2>3. CASE flush' = flush
    BY <1>2, <2>2, <2>3
  <2>4. CASE G!ScheduleFlush(c) /\ flush[c].pc # "none"
    BY <1>2, <2>2, <2>4, AFlushIsScheduled
  <2>5. CASE G!ScheduleFlush(c) /\ flush[c].pc = "none"
    <3>1. flush'[c].query = <<>> /\ \A d \in Chats \ {c} : flush'[d] = flush[d]
      BY <2>5, AFlushIsScheduled
    <3>2. GrSenderOf(flush'[c].query, flush'[c].sender)
      BY <3>1, NobodyAsked
    <3> QED BY <1>4, <2>2, <3>1, <3>2
  <2> QED BY <2>2, <2>3, <2>4, <2>5
<1>6. ASSUME NEW c \in Chats, G!Wake(c)
      PROVE  GrSender'
  <2>1. lastSender' = lastSender /\ consultas' = [consultas EXCEPT ![c] = <<>>]
    BY <1>6 DEF G!Wake, G!Pop
  <2>2. flush'[c].query = consultas[c] /\ flush'[c].sender = lastSender[c] /\ \A d \in Chats \ {c} : flush'[d] = flush[d]
    BY <1>6, AFlushGoesOn
  <2>3. GrSenderOf(flush'[c].query, flush'[c].sender)
    BY <1>1, <2>2 DEF GrSender
  <2>4. consultas'[c] = <<>> /\ \A d \in Chats \ {c} : consultas'[d] = consultas[d]
    BY <1>1, <2>1
  <2>5. GrSenderOf(consultas'[c], lastSender'[c])
    BY <2>4, NobodyAsked
  <2> QED BY <1>1, <2>1, <2>2, <2>3, <2>4, <2>5 DEF GrSender
<1>7. ASSUME NEW c \in Chats, G!Look(c) \/ G!Answer(c)
      PROVE  GrSender'
  <2>1. UNCHANGED <<lastSender, consultas>>
    BY <1>7 DEF G!Look, G!Answer, G!talk
  <2>2. \A d \in Chats \ {c} : flush'[d] = flush[d]
    BY <1>7, AFlushGoesOn
  <2>3. CASE G!Look(c)
    <3>1. flush'[c].query = flush[c].query /\ flush'[c].sender = flush[c].sender
      BY <2>3, AFlushGoesOn
    <3>2. GrSenderOf(flush'[c].query, flush'[c].sender)
      BY <1>1, <3>1 DEF GrSender
    <3> QED BY <1>4, <2>1, <2>2, <3>2
  <2>4. CASE G!Answer(c)
    <3>1. flush'[c].query = <<>>
      BY <2>4, AFlushGoesOn
    <3>2. GrSenderOf(flush'[c].query, flush'[c].sender)
      BY <3>1, NobodyAsked
    <3> QED BY <1>4, <2>1, <2>2, <3>2
  <2> QED BY <1>7, <2>3, <2>4
<1>8. ASSUME NEW c \in Chats, GrEnds(c)
      PROVE  GrSender'
  <2>1. flush'[c].query = <<>> /\ UNCHANGED <<lastSender, consultas>> /\ \A d \in Chats \ {c} : flush'[d] = flush[d]
    BY <1>8, AFlushEnds, GrIdle
  <2>2. GrSenderOf(flush'[c].query, flush'[c].sender)
    BY <2>1, NobodyAsked
  <2> QED BY <1>4, <2>1, <2>2
<1>9. ASSUME NEW m \in Msgs, G!Record(m)
      PROVE  GrSender'
  BY <1>2, <1>9 DEF G!Record, G!talk
<1>10. CASE \E m \in Msgs : G!Record(m) \/ G!Handler(m)
  BY <1>3, <1>5, <1>9, <1>10 DEF G!Handler
<1>11. CASE \E c \in Chats : G!Flush(c) \/ G!Fail(c)
  BY <1>6, <1>7, <1>8, <1>11 DEF G!Flush, GrEnds
<1>12. CASE (\E n \in MaxCounts : G!SetMax(n)) \/ G!Tick \/ UNCHANGED G!vars
  BY <1>2, <1>12 DEF G!SetMax, G!Tick, G!vars, G!talk
<1> QED BY <1>10, <1>11, <1>12 DEF G!Next

\* At the start nobody has spoken.
LEMMA GrInit ==
  ASSUME G!GroupAssumption, G!Init
  PROVE  GrInv
<1>1. PICK idle \in GrFlush : idle = G!Idle /\ idle.pc = "none" /\ idle.query = <<>>
  BY GrIdle
<1>2. flush = [c \in Chats |-> idle]
  BY <1>1 DEF G!Init
<1>3. /\ \A c \in Chats : flush[c].pc = "none" /\ hist[c] = <<>> /\ said[c] = <<>> /\ flush[c].query = <<>>
      /\ \A c \in Chats : estados[c] = G!NoState /\ consultas[c] = <<>> /\ asked[c] = <<>>
      /\ \A m \in Msgs : stage[m] = "new"
  BY <1>1, <1>2 DEF G!Init
<1>4. GrShapes
  <2>1. /\ behavior \in Behaviors /\ clock \in 0 .. MaxClock /\ maxCount \in MaxCounts
        /\ events \in 0 .. MaxEvents /\ seen \subseteq Msgs /\ late \subseteq Msgs
        /\ stage \in [Msgs -> G!Stages] /\ lastSender \in [Chats -> GrNames]
    BY DEF G!Init, G!GroupAssumption, G!Stages, GrNames
  <2>2. G!NoState \in GrLimits
    BY DEF G!GroupAssumption, GrLimits, G!NoState
  <2>3. estados \in [Chats -> GrLimits]
    BY <2>2 DEF G!Init
  <2>4. /\ hist \in [Chats -> Seq(Msgs \cup {None})] /\ said \in [Chats -> Seq(Nat)]
        /\ consultas \in [Chats -> Seq(Msgs)] /\ asked \in [Chats -> Seq(Msgs)]
    BY DEF G!Init
  <2>5. flush \in [Chats -> GrFlush]
    BY <1>2
  <2> QED BY <2>1, <2>3, <2>4, <2>5 DEF GrShapes
<1>5. GrTurns
  BY <1>3 DEF GrTurns, G!Init
<1>6. GrLimited
  <2>1. \A c \in Chats : estados[c].until = 0
    BY <1>3 DEF G!NoState
  <2> QED BY <1>3, <2>1, NothingWasSaid DEF GrLimited
<1>7. GrNews
  <2>1. \A c \in Chats : Len(hist[c]) = 0
    BY <1>3
  <2>2. \A c \in Chats : GrTold(hist[c], flush[c], GrN)
    BY <1>3, <2>1 DEF GrTold
  <2> QED BY <1>3, <2>1, <2>2 DEF GrNews
<1>8. GrUsed
  <2>1. <<>> \o <<>> = <<>> /\ Len(<<>>) = 0 /\ DOMAIN <<>> = {}
    BY ConcatEmptySeq
  <2>2. \A c \in Chats : GrOnce(<<>>, c, behavior, stage)
    BY <1>3, <2>1 DEF GrOnce, GrHas, G!IsInjective
  <2>3. Lan \subseteq Msgs
    BY DEF G!GroupAssumption
  <2> QED BY <1>3, <2>1, <2>2, <2>3 DEF GrUsed
<1>9. GrSender
  BY <1>3, NobodyAsked DEF GrSender
<1> QED BY <1>4, <1>5, <1>6, <1>7, <1>8, <1>9 DEF GrInv

\* What waits in consultas is of its group.
LEMMA TheWaitingAreUsed ==
  ASSUME NEW a \in Seq(Msgs), NEW b \in Seq(Msgs), NEW m, GrHas(b, m)
  PROVE  GrHas(a \o b, m)
<1>1. PICK k \in Nat, l \in Nat : k = Len(a) /\ l = Len(b)
  OBVIOUS
<1>2. PICK i \in 1 .. l : b[i] = m
  BY <1>1 DEF GrHas
<1>3. /\ Len(a \o b) = k + l
      /\ \A j \in 1 .. k + l : (a \o b)[j] = IF j <= k THEN a[j] ELSE b[j - k]
  BY <1>1, ConcatProperties
<1>4. k + i \in 1 .. k + l /\ ~(k + i <= k) /\ (k + i) - k = i
  BY <1>1
<1>5. (a \o b)[k + i] = m
  BY <1>2, <1>3, <1>4
<1> QED BY <1>3, <1>4, <1>5 DEF GrHas

\* What the invariant gives of the groups.
LEMMA GrGood ==
  ASSUME GrInv, G!GroupAssumption
  PROVE  G!TypeOK /\ G!TurnIsItsOwn /\ G!NoBotStorm /\ G!OnlyTheLateWait
<1>1. GrShapes /\ GrTurns /\ GrLimited /\ GrNews /\ GrUsed /\ GrSender
  BY DEF GrInv
<1>2. \A c \in Chats : /\ hist[c] \in Seq(Msgs \cup {None}) /\ said[c] \in Seq(Nat) /\ flush[c] \in GrFlush
                       /\ asked[c] \in Seq(Msgs) /\ consultas[c] \in Seq(Msgs)
                       /\ asked[c] \o consultas[c] \in Seq(Msgs)
  BY <1>1, ConcatProperties DEF GrShapes
<1>3. G!TypeOK
  <2>1. /\ behavior \in Behaviors /\ clock \in 0 .. MaxClock /\ maxCount \in MaxCounts
        /\ events \in 0 .. MaxEvents /\ seen \subseteq Msgs /\ late \subseteq Msgs
        /\ stage \in [Msgs -> G!Stages] /\ estados \in [Chats -> [n : Nat, until : 0 .. MaxClock + Window]]
    BY <1>1 DEF GrShapes, GrLimits
  <2>2. ASSUME NEW c \in Chats
        PROVE  G!ToSet(hist[c]) \subseteq G!In(c) \cup {None}
    <3>1. PICK h : h = hist[c] /\ h \in Seq(Msgs \cup {None}) /\ \A i \in 1 .. Len(h) : h[i] # None => ChatOf[h[i]] = c
      BY <1>1, <1>2 DEF GrNews
    <3>2. DOMAIN h = 1 .. Len(h) /\ \A i \in 1 .. Len(h) : h[i] \in Msgs \cup {None}
      BY <3>1
    <3> QED BY <3>1, <3>2 DEF G!ToSet, G!In
  <2>3. ASSUME NEW c \in Chats
        PROVE  flush[c].pc \in G!Phases /\ G!ToSet(consultas[c]) \subseteq G!In(c)
    <3>1. PICK q : q = consultas[c] /\ q \in Seq(Msgs)
      BY <1>2
    <3>2. DOMAIN q = 1 .. Len(q) /\ \A i \in 1 .. Len(q) : q[i] \in Msgs
      BY <3>1
    <3>3. CASE behavior # "mention"
      <4>1. q = <<>>
        BY <1>1, <3>1, <3>3 DEF GrUsed
      <4>2. G!ToSet(q) = {}
        BY <4>1 DEF G!ToSet
      <4> QED BY <1>2, <3>1, <4>2 DEF GrFlush
    <3>4. CASE behavior = "mention"
      <4>1. GrOnce(asked[c] \o consultas[c], c, behavior, stage)
        BY <1>1 DEF GrUsed
      <4>2. \A m \in Msgs : GrHas(asked[c] \o consultas[c], m) => ChatOf[m] = c
        BY <3>4, <4>1 DEF GrOnce
      <4>3. \A m \in Msgs : GrHas(q, m) => ChatOf[m] = c
        BY <1>2, <3>1, <4>2, TheWaitingAreUsed
      <4>4. \A i \in 1 .. Len(q) : GrHas(q, q[i])
        BY DEF GrHas
      <4>5. \A i \in 1 .. Len(q) : q[i] \in G!In(c)
        BY <3>2, <4>3, <4>4 DEF G!In
      <4> QED BY <1>2, <3>1, <3>2, <4>5 DEF G!ToSet, GrFlush
    <3> QED BY <3>3, <3>4
  <2> QED BY <1>1, <2>1, <2>2, <2>3 DEF G!TypeOK, GrTurns
<1>4. G!OwnSections
  BY <1>1 DEF GrTurns, G!OwnSections, G!At
<1>5. G!ConsultaOnce
  <2>1. ASSUME NEW c \in Chats
        PROVE  /\ G!IsInjective(asked[c] \o consultas[c])
               /\ behavior = "mention" =>
                    G!ToSet(asked[c] \o consultas[c])
                      = {m \in G!In(c) \ Lan : stage[m] \in {"reacting", "passed"}}
    <3>1. PICK x \in Seq(Msgs) : x = asked[c] \o consultas[c]
      BY <1>2
    <3>2. GrOnce(x, c, behavior, stage)
      BY <1>1, <3>1 DEF GrUsed
    <3>3. DOMAIN x = 1 .. Len(x) /\ \A i \in 1 .. Len(x) : x[i] \in Msgs
      OBVIOUS
    <3>4. behavior = "mention" =>
            G!ToSet(x) = {m \in G!In(c) \ Lan : stage[m] \in {"reacting", "passed"}}
      BY <3>2, <3>3 DEF GrOnce, GrHas, G!ToSet, G!In
    <3> QED BY <3>1, <3>2, <3>4 DEF GrOnce
  <2> QED BY <2>1 DEF G!ConsultaOnce
<1>6. G!SenderAskedTheQuery
  <2>1. ASSUME NEW c \in Chats, NEW i \in DOMAIN flush[c].query, G!IsLastHuman(flush[c].query, i)
        PROVE  flush[c].sender = Author[flush[c].query[i]]
    <3>1. PICK q, s : q = flush[c].query /\ s = flush[c].sender /\ q \in Seq(Msgs)
      BY <1>2 DEF GrFlush
    <3>2. DOMAIN q = 1 .. Len(q)
      BY <3>1
    <3>3. GrSenderOf(q, s)
      BY <1>1, <3>1 DEF GrSender
    <3> QED BY <2>1, <3>1, <3>2, <3>3 DEF GrSenderOf, G!IsLastHuman
  <2> QED BY <2>1 DEF G!SenderAskedTheQuery
<1>7. G!NoBotStorm
  <2>1. ASSUME behavior = "autonomous", NEW c \in Chats, NEW i \in DOMAIN said[c], i + maxCount \in DOMAIN said[c]
        PROVE  said[c][i + maxCount] - said[c][i] >= Window
    <3>1. GrLimit(said[c], estados[c], flush[c].pc, clock, maxCount)
      BY <1>1, <2>1 DEF GrLimited
    <3>2. PICK s : s = said[c] /\ DOMAIN s = 1 .. Len(s) /\ Len(s) \in Nat
      BY <1>2
    <3> QED BY <2>1, <3>1, <3>2 DEF GrLimit
  <2> QED BY <2>1 DEF G!NoBotStorm
<1>8. G!OnlyTheLateWait
  BY <1>1 DEF GrNews, GrN, G!OnlyTheLateWait, G!At, G!GroupAssumption
<1> QED BY <1>3, <1>4, <1>5, <1>6, <1>7, <1>8 DEF G!TurnIsItsOwn

\* A step that speaks in a group finds no cooldown.
LEMMA GrSilent ==
  ASSUME GrInv, G!GroupAssumption, G!Next \/ UNCHANGED G!vars
  PROVE  G!NoAnswerWhileCooling
<1>1. GrShapes /\ GrLimited
  BY DEF GrInv
<1>2. said \in [Chats -> Seq(Nat)] /\ clock \in Nat
  BY <1>1 DEF GrShapes, G!GroupAssumption
<1>3. CASE said' = said
  BY <1>3 DEF G!NoAnswerWhileCooling
<1>4. ASSUME NEW m \in Msgs, G!Gate(m)
      PROVE  G!NoAnswerWhileCooling
  <2>1. said' = said \/ said' = [said EXCEPT ![ChatOf[m]] = <<>>]
    BY <1>4 DEF G!Gate
  <2> QED BY <1>2, <2>1 DEF G!NoAnswerWhileCooling
<1>5. ASSUME NEW c \in Chats, G!Send(c)
      PROVE  G!NoAnswerWhileCooling
  <2>1. said' = [said EXCEPT ![c] = Append(said[c], clock)] /\ flush[c].pc = "sending"
    BY <1>5 DEF G!Send, G!At
  <2>2. estados[c].until = 0
    BY <1>1, <2>1 DEF GrLimited, GrLimit
  <2>3. ~G!Cooling(estados, c)
    BY <1>2, <2>2 DEF G!Cooling
  <2>4. \A d \in Chats \ {c} : said'[d] = said[d]
    BY <1>2, <2>1
  <2> QED BY <2>3, <2>4 DEF G!NoAnswerWhileCooling
<1>6. ASSUME NEW n, G!SetMax(n)
      PROVE  G!NoAnswerWhileCooling
  BY <1>6 DEF G!SetMax, G!NoAnswerWhileCooling
<1>7. CASE \E m \in Msgs : G!Record(m) \/ G!Handler(m)
  BY <1>3, <1>4, <1>7 DEF G!Handler, G!Record, G!Disparar
<1>8. CASE \E c \in Chats : G!Flush(c) \/ G!Fail(c)
  BY <1>3, <1>5, <1>8 DEF G!Flush, G!Wake, G!NothingToAnswer, G!Look, G!Answer, G!Skip, G!Fail
<1>9. CASE G!Tick \/ UNCHANGED G!vars
  BY <1>3, <1>9 DEF G!Tick, G!vars
<1> QED BY <1>6, <1>7, <1>8, <1>9 DEF G!Next

\* The steps of a behavior whose subject are the groups are theirs.
LEMMA GrMoves ==
  [Next]_vars /\ subject = "groups" => G!Next \/ UNCHANGED G!vars
<1>1. ASSUME Next, subject = "groups"
      PROVE  G!Next
  BY <1>1 DEF Next
<1>2. UNCHANGED vars => UNCHANGED G!vars
  BY DEF vars, OfGroups, G!vars, G!limiter, G!talk
<1> QED BY <1>1, <1>2

\* The groups of a bot, for any groups, messages, authors and limits: with several groups and
\* messages on their way the turn of each is given its own sections, its own query, once, and the
\* sender who asked it; the answers in a row are limited and none is given in a cooldown; and what
\* passed the gate is shown to the LLM unless it came after the last call (group_flow.py, turn.py,
\* rate_limit.py).
THEOREM GroupsAreAnsweredRight ==
  Spec => GroupsHold
<1> DEFINE J == subject = "groups" => GrInv
<1>0. G!GroupAssumption
  BY TelegramAssumption
<1>1. Init => J
  BY <1>0, GrInit DEF Init
<1>2. J /\ [Next]_vars => J'
  <2>1. ASSUME J, [Next]_vars, subject' = "groups"
        PROVE  GrInv'
    <3>1. subject = "groups" /\ GrInv /\ (G!Next \/ UNCHANGED G!vars)
      BY <2>1, OneSubject, GrMoves
    <3>2. GrShapes' /\ GrTurns'
      BY <1>0, <3>1, GrShapesStep, GrTurnsStep
    <3>3. GrLimited' /\ GrNews'
      BY <1>0, <3>1, GrLimitedStep, GrNewsStep
    <3>4. GrUsed' /\ GrSender'
      BY <1>0, <3>1, GrUsedStep, GrSenderStep
    <3> QED BY <3>2, <3>3, <3>4 DEF GrInv
  <2> QED BY <2>1
<1>3. J => (subject = "groups" =>
              G!TypeOK /\ G!TurnIsItsOwn /\ G!NoBotStorm /\ G!OnlyTheLateWait)
  BY <1>0, GrGood
<1>4. J /\ [Next]_vars => [subject = "groups" => G!NoAnswerWhileCooling]_vars
  BY <1>0, GrMoves, GrSilent
<1> QED BY <1>1, <1>2, <1>3, <1>4, PTL DEF Spec, GroupsHold
=============================================================================
