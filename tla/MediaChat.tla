------------------------------ MODULE MediaChat ------------------------------
(***************************************************************************)
(* What arrives at a Telegram chat other than in a text of its own: albums *)
(* gathered from messages that come one by one, photos that are analysed   *)
(* before their turn, audios and files (channels/telegram/media.py), with  *)
(* the texts that arrive meanwhile (turn.py, kernel/turn_dispatch.py), the *)
(* slot of the chat in the scope registry and the rows they leave in the   *)
(* history.                                                                *)
(*                                                                         *)
(* In a group the turn, and what is dropped for being addressed to another *)
(* bot, are matters of GroupChat: here a message only leaves its row.      *)
(* Everything that arrived has a handler, each album a task besides; they  *)
(* interleave at their awaits.                                             *)
(***************************************************************************)
EXTENDS Integers, FiniteSets, SequencesExt

CONSTANTS
  Albums, Members, AlbumOf,  \* the albums and the files they are made of
  Photos,                    \* photos on their own
  Others, Kind,              \* the rest: "text", "voice" or "file"
  DedupMax,                  \* _ALBUM_DEDUP_MAX
  MaxFaults                  \* bound: files that cannot be saved

MediaAssumption ==
  /\ AlbumOf \in [Members -> Albums] /\ Kind \in [Others -> {"text", "voice", "file"}]
  /\ Members \cap Photos = {} /\ Members \cap Others = {} /\ Photos \cap Others = {}
  /\ Albums \cap (Members \cup Photos \cup Others) = {}
  /\ DedupMax \in Nat \ {0} /\ MaxFaults \in Nat

VARIABLES
  private, vision,   \* the chat; whether the analysis of photos is wired
  repo,              \* telegram_files.db: the members saved
  buffers, flushed,  \* album_buffers; albums_flushed, oldest first
  flushing,          \* the albums in their task: what they hold and gathered
  stage,             \* how far each handler is
  held,              \* the photos that took the slot
  busy,              \* the slot of the chat
  turns,             \* the turns in progress, by what started them
  rows, seen,        \* history, and history: what a call to the LLM carried
  faults

vars == <<private, vision, repo, buffers, flushed, flushing, stage, held, busy,
          turns, rows, seen, faults>>
env == <<private, vision>>
album == <<repo, buffers, flushed, flushing>>

Items == Members \cup Photos \cup Others
Stages == {"new", "saved", "slot", "straggler", "placing", "processing", "inflight",
           "turn", "done", "ignored"}

(***************************************************************************)
(* Rows: each says what it shows.  An album shows its members.             *)
(***************************************************************************)
Mark(x) == [part |-> "mark", shows |-> {x}]
Full(x) == [part |-> "full", shows |-> {x}]
Delta(x) == [part |-> "delta", shows |-> {x}]
AlbumRow(S) == [part |-> "album", shows |-> S]
Shown == UNION {r.shows : r \in rows}

To(x, s) == stage' = [stage EXCEPT ![x] = s]

(***************************************************************************)
(* Albums                                                                  *)
(***************************************************************************)
NoBuffer == [open |-> FALSE, held |-> FALSE, armed |-> FALSE]
NewBuffer == [NoBuffer EXCEPT !.open = TRUE]
NotFlushing == [on |-> FALSE, held |-> FALSE, got |-> FALSE, members |-> {}]

\* telegram_files.db.
Insert(m) == repo' = repo \cup {m}
OfAlbum(a) == {m \in repo : AlbumOf[m] = a}

\* _persist_incoming_file: best effort.
Save(m) ==
  /\ stage[m] = "new" /\ To(m, "saved")
  /\ \/ Insert(m) /\ UNCHANGED faults
     \/ faults < MaxFaults /\ faults' = faults + 1 /\ UNCHANGED repo
  /\ UNCHANGED <<env, buffers, flushed, flushing, held, busy, turns, rows, seen>>

\* _debounce_album up to the slot: the first member stores the buffer and is the
\* only one to ask for the slot.
Stored(a) == IF buffers[a].open THEN buffers ELSE [buffers EXCEPT ![a] = NewBuffer]
Straggles(a) == a \in ToSet(flushed)
Debounce(m) ==
  LET a == AlbumOf[m]
  IN /\ stage[m] = "saved"
     /\ \/ /\ Straggles(a)
           /\ To(m, "straggler") /\ UNCHANGED buffers
        \/ /\ ~Straggles(a)
           /\ private /\ ~buffers[a].open
           /\ buffers' = Stored(a) /\ To(m, "slot")
        \/ /\ ~Straggles(a)
           /\ ~(private /\ ~buffers[a].open)
           /\ buffers' = [Stored(a) EXCEPT ![a].armed = TRUE] /\ To(m, "done")
     /\ UNCHANGED <<env, repo, flushed, flushing, held, busy, turns, rows, seen, faults>>

\* The slot is taken or not, and the timer starts over.
TakeSlot(m) ==
  LET a == AlbumOf[m]
  IN /\ stage[m] = "slot" /\ To(m, "done")
     /\ buffers' = [buffers EXCEPT ![a] = [open |-> TRUE, held |-> ~busy, armed |-> TRUE]]
     /\ busy' = TRUE
     /\ UNCHANGED <<env, repo, flushed, flushing, held, turns, rows, seen, faults>>

\* _record_straggler: a trace of its own, without a turn.
LateTraceLost(m) == rows
LateTrace(m) == rows \cup {Mark(m)}
RecordStraggler(m) ==
  /\ stage[m] = "straggler" /\ To(m, "done")
  /\ rows' = LateTrace(m)
  /\ UNCHANGED <<env, album, held, busy, turns, seen, faults>>

\* The timer ends: 1.5 s, longer than the wait for the slot.  The task is the only
\* one of its album.
Forget(s) == IF Len(s) > DedupMax THEN Tail(s) ELSE s
CloseAlbum(a) ==
  /\ buffers[a].armed /\ ~flushing[a].on
  /\ \A m \in Members : AlbumOf[m] = a => stage[m] # "slot"
  /\ buffers' = [buffers EXCEPT ![a] = NoBuffer]
  /\ flushed' = Forget(Append(flushed, a))
  /\ flushing' = [flushing EXCEPT ![a] = [NotFlushing EXCEPT !.on = TRUE,
                                                             !.held = buffers[a].held]]
  /\ UNCHANGED <<env, repo, stage, held, busy, turns, rows, seen, faults>>

\* _gather_album_members, then the row, then the turn of who holds the slot.
Gather(a) ==
  /\ flushing[a].on /\ ~flushing[a].got
  /\ flushing' = [flushing EXCEPT ![a].got = TRUE,
                                  ![a].members = OfAlbum(a)]
  /\ UNCHANGED <<env, repo, buffers, flushed, stage, held, busy, turns, rows, seen, faults>>
AlbumTurns(a) == private /\ flushing[a].held
RecordAlbum(a) ==
  /\ flushing[a].got /\ a \notin turns
  /\ rows' = rows \cup {AlbumRow(flushing[a].members)}
  /\ IF AlbumTurns(a)
     THEN turns' = turns \cup {a} /\ UNCHANGED flushing
     ELSE flushing' = [flushing EXCEPT ![a] = NotFlushing] /\ UNCHANGED turns
  /\ UNCHANGED <<env, repo, buffers, flushed, stage, held, busy, seen, faults>>

(***************************************************************************)
(* Photos                                                                  *)
(***************************************************************************)
StartPhoto(p) ==
  /\ stage[p] = "new"
  /\ \/ ~vision /\ To(p, "ignored") /\ UNCHANGED <<held, busy>>
     \/ /\ vision /\ To(p, "placing")
        /\ held' = IF private /\ ~busy THEN held \cup {p} ELSE held
        /\ busy' = (busy \/ private)
  /\ UNCHANGED <<env, album, turns, rows, seen, faults>>
PlacePhoto(p) ==
  /\ stage[p] = "placing" /\ To(p, "processing")
  /\ rows' = rows \cup {Mark(p)}
  /\ UNCHANGED <<env, album, held, busy, turns, seen, faults>>

LetGo(p) == held' = held \ {p} /\ busy' = (busy /\ p \notin held)
\* Without a turn: the analysis failed, is off, or was the answer itself ("!").
NoTurnForPhoto(p) ==
  /\ stage[p] = "processing" /\ To(p, "done") /\ LetGo(p)
  /\ UNCHANGED <<env, album, turns, rows, seen, faults>>
\* The chat is busy: the analysis is a row of its own, for the turn in progress.
InFlightPhoto(p) ==
  /\ stage[p] = "processing" /\ private /\ p \notin held
  /\ To(p, "done")
  /\ rows' = rows \cup {Delta(p)}
  /\ UNCHANGED <<env, album, held, busy, turns, seen, faults>>
\* update_message_content, in place, then the turn of the photo.
EnrichPhoto(p) ==
  /\ stage[p] = "processing" /\ (~private \/ p \in held)
  /\ rows' = (rows \ {Mark(p)}) \cup {Full(p)}
  /\ IF private THEN turns' = turns \cup {p} /\ To(p, "turn")
     ELSE To(p, "done") /\ UNCHANGED turns
  /\ UNCHANGED <<env, album, held, busy, seen, faults>>

(***************************************************************************)
(* Audios, files and texts.  A file without a caption and an audio without *)
(* a transcription are deposited: a row and no turn.                       *)
(***************************************************************************)
Deposit(o) ==
  /\ stage[o] = "new" /\ To(o, "done") /\ rows' = rows \cup {Mark(o)}
  /\ UNCHANGED <<env, album, held, busy, turns, seen, faults>>
DepositFile(o) == Kind[o] = "file" /\ Deposit(o)
DepositVoice(o) == Kind[o] = "voice" /\ Deposit(o)
\* dispatch_inbound_turn; the turn of a text appends its row.
Receive(o) ==
  /\ stage[o] = "new"
  /\ \/ /\ private /\ ~busy
        /\ busy' = TRUE /\ turns' = turns \cup {o} /\ To(o, "turn")
        /\ rows' = rows \cup {Full(o)}
     \/ /\ private /\ busy /\ To(o, "inflight") /\ UNCHANGED <<busy, turns, rows>>
     \/ /\ ~private /\ To(o, "done")
        /\ rows' = rows \cup {Full(o)} /\ UNCHANGED <<busy, turns>>
  /\ UNCHANGED <<env, album, held, seen, faults>>
RecordInFlight(o) ==
  /\ stage[o] = "inflight" /\ To(o, "done")
  /\ rows' = rows \cup {Full(o)}
  /\ UNCHANGED <<env, album, held, busy, turns, seen, faults>>

(***************************************************************************)
(* Turns: each call to the LLM carries every row; the slot goes with them. *)
(***************************************************************************)
Look(t) ==
  /\ t \in turns /\ ~(rows \subseteq seen)
  /\ seen' = seen \cup rows
  /\ UNCHANGED <<env, album, stage, held, busy, turns, rows, faults>>
EndTurn(t) ==
  /\ t \in turns /\ turns' = turns \ {t}
  /\ busy' = FALSE /\ held' = held \ {t}
  /\ stage' = IF t \in Items THEN [stage EXCEPT ![t] = "done"] ELSE stage
  /\ flushing' = IF t \in Albums THEN [flushing EXCEPT ![t] = NotFlushing] ELSE flushing
  /\ UNCHANGED <<env, repo, buffers, flushed, rows, seen, faults>>

Init ==
  /\ private \in BOOLEAN /\ vision \in BOOLEAN
  /\ repo = {} /\ flushed = <<>>
  /\ buffers = [a \in Albums |-> NoBuffer] /\ flushing = [a \in Albums |-> NotFlushing]
  /\ stage = [x \in Items |-> "new"] /\ held = {} /\ busy = FALSE /\ turns = {}
  /\ rows = {} /\ seen = {} /\ faults = 0

AlbumStep(a) == CloseAlbum(a) \/ Gather(a) \/ RecordAlbum(a)
MemberStep(m) == Save(m) \/ Debounce(m) \/ TakeSlot(m) \/ RecordStraggler(m)
PhotoStep(p) == StartPhoto(p) \/ PlacePhoto(p) \/ NoTurnForPhoto(p) \/ InFlightPhoto(p)
                \/ EnrichPhoto(p)
OtherStep(o) == DepositFile(o) \/ DepositVoice(o) \/ Receive(o) \/ RecordInFlight(o)
Next == \/ \E a \in Albums : AlbumStep(a)
        \/ \E m \in Members : MemberStep(m)
        \/ \E p \in Photos : PhotoStep(p)
        \/ \E o \in Others : OtherStep(o)
        \/ \E t \in turns : Look(t) \/ EndTurn(t)
Spec == Init /\ [][Next]_vars

(***************************************************************************)
(* Properties                                                              *)
(***************************************************************************)
TypeOK ==
  /\ repo \subseteq Members /\ ToSet(flushed) \subseteq Albums /\ Len(flushed) <= DedupMax
  /\ stage \in [Items -> Stages] /\ held \subseteq Photos
  /\ turns \subseteq Albums \cup Photos \cup Others

\* The slot of a private chat is taken exactly while one album, photo or turn holds
\* it, so no two turns ever run at once there and no message finds it busy for good;
\* whichever members of an album race to open it.
Holders == {a \in Albums : buffers[a].held} \cup {a \in Albums : flushing[a].held}
           \cup held \cup (turns \cap Others)
OneHolder == /\ private => busy = (Holders # {}) /\ Cardinality(Holders) <= 1
             /\ turns \subseteq Holders

\* Whatever arrives leaves its trace in the history: in a block of its own or in
\* that of its album, late members too, unless the chat has no analysis of photos
\* or the member could not be saved.
Settled(m) == stage[m] = "done" /\ ~buffers[AlbumOf[m]].open /\ ~flushing[AlbumOf[m]].on
LeavesATrace ==
  /\ \A x \in Photos \cup Others : stage[x] = "done" => x \in Shown
  /\ Cardinality({m \in Members : Settled(m) /\ m \notin Shown}) <= faults

\* media.py:483 "ese turno en curso lo drena": what an album leaves in a busy chat
\* is seen by the turn in progress.
\* Promised, and not kept by the code: README, section 5.
AlbumIsSeen ==
  \A r \in rows : r.part = "album" /\ private /\ turns = {} /\ ~busy => r \in seen
=============================================================================
