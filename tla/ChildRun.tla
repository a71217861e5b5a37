------------------------------- MODULE ChildRun -------------------------------
(***************************************************************************)
(* One background child (kernel/run_agent_one_shot.py): what it says, what *)
(* of it is in memory and what is on disk, and what its parent is told     *)
(* when it fails, is interrupted, or pauses with a question.               *)
(*                                                                         *)
(* Every message goes to the trace first and then to an INSERT the child   *)
(* waits for; a timeout cuts the child there too, and the shielded INSERT  *)
(* still lands or fails.  A message is its role, its tool calls (or the id *)
(* it answers) and whether it exceeds the cap of a row; a call is the id   *)
(* the provider gave it and its own number: its message and its place.     *)
(***************************************************************************)
EXTENDS Integers, Sequences, FiniteSets

CONSTANTS
  MaxIterations,  \* budget of the whole delegation
  MaxBatch,       \* bound: tool calls of one answer
  LastSteps,      \* rows a startup notice is made of
  Dsml,           \* may the provider number the calls of each answer from 0?
  None,
  MaxFaults       \* bound: writes that fail

Numbers == Nat \X Nat
Messages == [role : {"user", "assistant", "tool"}, calls : Seq([id : Numbers, n : Numbers]),
             id : Numbers \cup {None}, size : {"small", "big", "cut"}]
ChildAssumption ==
  /\ None \notin Messages
  /\ MaxIterations \in Nat \ {0} /\ MaxBatch \in Nat \ {0} /\ LastSteps \in Nat \ {0}
  /\ MaxBatch <= LastSteps
  /\ Dsml \in BOOLEAN /\ MaxFaults \in Nat

VARIABLES
  waits,    \* its parent waits for it in its own turn: no rows, no pause
  pc,       \* where the child is
  batch,    \* calls of the last answer that have no result yet
  running,  \* is the first of them being executed?
  trace,    \* recorder.trace
  pending,  \* the message whose INSERT is under way
  roto,     \* recorder._roto
  saved,    \* bg_task_messages; the index is seq
  marked,   \* transcript_incomplete of the row
  desde,    \* messages of the trace before this leg (desde_seq)
  report,   \* the DelegationFailure the parent is told
  ran,      \* history: numbers of the calls that were executed
  known,    \* history: those whose result the child received
  seen,     \* history: the messages of the child, whole
  faults

recorder == <<trace, pending, roto, saved>>
history == <<ran, known, seen, waits>>
vars == <<pc, batch, running, recorder, marked, desde, report, history, faults>>

Message(role, calls, id, size) == [role |-> role, calls |-> calls, id |-> id, size |-> size]
Cut(m) == IF m.size = "big" THEN [m EXCEPT !.size = "cut"] ELSE m   \* _acotar
CallsOf(t) == UNION {{i} \X DOMAIN t[i].calls : i \in DOMAIN t}
Call(t, p) == t[p[1]].calls[p[2]]
Answered(t) == {t[i].id : i \in {j \in DOMAIN t : t[j].role = "tool"}}
Iterations(t) == Cardinality({i \in DOMAIN t : t[i].role = "assistant"})

(***************************************************************************)
(* Recorder                                                                *)
(***************************************************************************)
\* _anotar, and the loop: the trace, and then the row.
Say(m) ==
  /\ pending = None
  /\ trace' = Append(trace, m) /\ seen' = Append(seen, m)
  /\ pending' = IF roto \/ waits THEN None ELSE m
  /\ UNCHANGED <<roto, saved>>

Write ==
  /\ pending # None /\ pending' = None
  /\ saved' = Append(saved, Cut(pending))
  /\ UNCHANGED <<pc, batch, running, trace, roto, marked, desde, report, history, faults>>

WriteFails ==
  /\ pending # None /\ pending' = None
  /\ faults < MaxFaults /\ faults' = faults + 1
  /\ roto' = TRUE
  /\ UNCHANGED <<pc, batch, running, trace, saved, marked, desde, report, history>>

(***************************************************************************)
(* The tool loop of the child                                              *)
(***************************************************************************)
Working == pc \in {"llm", "tools"}
Left == MaxIterations - Iterations(trace)

\* A provider numbers its calls apart; DeepSeek's DSML ones start over in each answer.
Number(i) == <<Len(seen) + 1, i>>
Ids(k, dsml) == [i \in 1..k |-> [id |-> IF dsml THEN <<0, i>> ELSE Number(i), n |-> Number(i)]]

CallTools ==
  /\ pc = "llm" /\ Left > 0
  /\ \E k \in 1..MaxBatch, dsml \in {FALSE, Dsml}, size \in {"small", "big"} :
       Say(Message("assistant", Ids(k, dsml), None, size)) /\ batch' = Ids(k, dsml)
  /\ pc' = "tools"
  /\ UNCHANGED <<running, marked, desde, report, ran, known, waits, faults>>

\* Mutant: the tool runs while its call is still being written.
RunToolAtOnce ==
  /\ pc = "tools" /\ batch # <<>> /\ ~running
  /\ running' = TRUE /\ ran' = ran \cup {Head(batch).n}
  /\ UNCHANGED <<pc, batch, recorder, marked, desde, report, known, seen, waits, faults>>

RunTool ==
  /\ pc = "tools" /\ pending = None /\ batch # <<>> /\ ~running
  /\ running' = TRUE /\ ran' = ran \cup {Head(batch).n}
  /\ UNCHANGED <<pc, batch, recorder, marked, desde, report, known, seen, waits, faults>>

ToolAnswers ==
  /\ pc = "tools" /\ running
  /\ Say(Message("tool", <<>>, Head(batch).id, "small"))
  /\ known' = known \cup {Head(batch).n}
  /\ running' = FALSE /\ batch' = Tail(batch)
  /\ UNCHANGED <<pc, marked, desde, report, ran, waits, faults>>

BatchDone ==
  /\ pc = "tools" /\ pending = None /\ batch = <<>>
  /\ pc' = "llm"
  /\ UNCHANGED <<batch, running, recorder, marked, desde, report, history, faults>>

\* The footer of its prompt offers the question only to a child with rows to resume from.
Offered == IF waits THEN {"closing"} ELSE {"closing", "asking"}

\* The final answer, with or without a question the parent can answer.
Closes(how) ==
  /\ pc = "llm" /\ Left > 0
  /\ \E size \in {"small", "big"} : Say(Message("assistant", <<>>, None, size))
  /\ pc' = how
  /\ UNCHANGED <<batch, running, marked, desde, report, ran, known, waits, faults>>

(***************************************************************************)
(* What the parent is told                                                 *)
(***************************************************************************)
SinPar(t) == {p \in CallsOf(t) : Call(t, p).id \notin Answered(t)}
Before(p, q) == p[1] < q[1] \/ (p[1] = q[1] /\ p[2] < q[2])
InFlight(t) == {p \in SinPar(t) : \A q \in SinPar(t) : ~Before(q, p)}
Failure(kind, t) ==
  [kind |-> kind,
   in_flight |-> IF SinPar(t) = {} THEN None ELSE CHOOSE n \in {Call(t, p).n : p \in InFlight(t)} : TRUE,
   not_started |-> {Call(t, p).n : p \in SinPar(t) \ InFlight(t)}]

\* _marcar_transcript_incompleto, when the child ends.
Marks == marked' = (marked \/ roto)
Ends(how) == pc' = how /\ batch' = <<>> /\ running' = FALSE

\* A parent that waits is told the reason, and not what the child was doing.
Fails(kind) ==
  /\ Ends("ended") /\ Marks /\ report' = IF waits THEN None ELSE Failure(kind, trace)
  /\ UNCHANGED <<recorder, desde, history, faults>>
Timeout == Working /\ Fails("timeout")
Raises == pc = "llm" /\ pending = None /\ Fails("exception")

\* The last thing the child said is noted before the error goes on.
OutOfIterations ==
  /\ pc = "llm" /\ Left = 0 /\ pending = None
  /\ \/ pc' = "spent" /\ Say(Message("assistant", <<>>, None, "small"))
     \/ pc' = "spent" /\ UNCHANGED <<recorder, seen>>
  /\ UNCHANGED <<batch, running, marked, desde, report, ran, known, waits, faults>>
Spent == pc = "spent" /\ pending = None /\ Fails("max_iterations")

Delivered ==
  /\ pc = "closing" /\ pending = None
  /\ Ends("ended") /\ Marks
  /\ UNCHANGED <<recorder, desde, report, history, faults>>

(***************************************************************************)
(* Pause and resume                                                        *)
(***************************************************************************)
\* _motivo_sin_pausa, and the snapshot that makes the rows of this leg whole.
NoPause ==
  /\ pc = "asking" /\ pending = None /\ (roto \/ Left < 1)
  /\ Ends("ended") /\ Marks
  /\ UNCHANGED <<recorder, desde, report, history, faults>>

Incomplete == {i \in DOMAIN saved : i > desde /\ saved[i].size = "cut"}
Completed(k) == [i \in DOMAIN saved |-> IF i \in Incomplete /\ i <= k THEN trace[i] ELSE saved[i]]

Pauses ==
  /\ pc = "asking" /\ pending = None /\ ~roto /\ Left >= 1
  /\ Len(saved) = Len(trace)
  /\ saved' = Completed(Len(saved))
  /\ Ends("paused")
  /\ UNCHANGED <<trace, pending, roto, marked, desde, report, history, faults>>

SnapshotFails ==
  /\ pc = "asking" /\ pending = None /\ ~roto /\ Left >= 1
  /\ faults < MaxFaults /\ faults' = faults + 1
  /\ \E i \in Incomplete : saved' = Completed(i - 1)
  /\ Ends("ended") /\ marked' = TRUE
  /\ UNCHANGED <<trace, pending, roto, desde, report, history>>

\* _verificar_reanudable
Resumable(t) ==
  /\ t # <<>> /\ t[1].role = "user"
  /\ \A i \in DOMAIN t : t[i].size # "cut"
  /\ t[Len(t)].role = "assistant" /\ t[Len(t)].calls = <<>>
  /\ SinPar(t) = {}

\* The trace is read from the rows: the process may be another one.
Resume ==
  /\ pc = "paused" /\ Resumable(saved)
  /\ LET answer == Message("user", <<>>, None, "small") IN
       /\ trace' = Append(saved, answer) /\ seen' = Append(seen, answer) /\ pending' = answer
  /\ roto' = FALSE /\ desde' = Len(saved) /\ pc' = "llm"
  /\ UNCHANGED <<batch, running, saved, marked, report, ran, known, waits, faults>>

(***************************************************************************)
(* The daemon stops or dies: the parent is told from the rows              *)
(***************************************************************************)
LastRows == SubSeq(saved, IF Len(saved) > LastSteps THEN Len(saved) - LastSteps + 1 ELSE 1,
                   Len(saved))
Alive == pc \notin {"ended", "paused", "interrupted"}

\* A stop lets the finally of the child run and waits for the writes; a crash does neither.
Stop ==
  /\ Alive /\ ~waits /\ pending = None
  /\ Ends("interrupted") /\ Marks /\ report' = Failure("interrupted", LastRows)
  /\ UNCHANGED <<recorder, desde, history, faults>>
Crash ==
  /\ Alive /\ ~waits
  /\ Ends("interrupted") /\ pending' = None /\ trace' = saved
  /\ report' = Failure("interrupted", LastRows)
  /\ UNCHANGED <<roto, saved, marked, desde, history, faults>>

(***************************************************************************)
(* What background_tasks says of a child that paused, also after a restart *)
(***************************************************************************)
\* The question is the last message of the rows, if that is still a closing answer.
Recuperada ==
  IF saved # <<>> /\ saved[Len(saved)].role = "assistant" /\ saved[Len(saved)].size # "cut"
  THEN saved[Len(saved)] ELSE None
Inspection ==
  [resumable |-> ~marked, question |-> Recuperada, steps |-> LastRows,
   omitted |-> Len(saved) - Len(LastRows)]

-----------------------------------------------------------------------------
Init ==
  LET task == Message("user", <<>>, None, "small") IN
  /\ waits \in BOOLEAN
  /\ pc = "llm" /\ batch = <<>> /\ running = FALSE
  /\ trace = <<task>> /\ seen = <<task>> /\ pending = IF waits THEN None ELSE task
  /\ roto = FALSE /\ saved = <<>> /\ marked = FALSE /\ desde = 0
  /\ report = None /\ ran = {} /\ known = {} /\ faults = 0

Next ==
  \/ Write \/ WriteFails
  \/ CallTools \/ RunTool \/ ToolAnswers \/ BatchDone
  \/ \E how \in Offered : Closes(how)
  \/ Timeout \/ Raises \/ OutOfIterations \/ Spent \/ Delivered
  \/ NoPause \/ Pauses \/ SnapshotFails \/ Resume
  \/ Stop \/ Crash

Spec == Init /\ [][Next]_vars

-----------------------------------------------------------------------------
\* A call that was executed and whose result never came has an unknown effect: the failure
\* names it.
InFlightIsNamed == report # None => ran \ known \subseteq {report.in_flight}

\* What the parent is told of a failed child: that, and no call that was executed is said not
\* to have started.  (The rows of a daemon that died after its disk failed may not have it.)
ToldWhatRan ==
  report # None /\ ~(roto /\ report.kind = "interrupted") =>
    /\ InFlightIsNamed
    /\ report.not_started \cap ran = {}

\* A pause promises a continuation: whatever happened before, the rows of a paused child can
\* be resumed, the inspection says so and shows the question, and the child that resumes them
\* sees all it saw, whole.
PauseIsResumable ==
  /\ pc = "paused" => /\ Resumable(saved) /\ Left >= 1
                      /\ Inspection.resumable /\ Inspection.question = seen[Len(seen)]
  /\ desde > 0 /\ Alive => trace = seen

=============================================================================
