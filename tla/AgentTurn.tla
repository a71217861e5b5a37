------------------------------ MODULE AgentTurn ------------------------------
(***************************************************************************)
(* One conversation of one agent: its turns (kernel/run_agent.py and the   *)
(* tool loop, kernel/_tool_loop.py), the routing of what arrives while one *)
(* runs (kernel/turn_dispatch.py, agents/scope_registry.py), the turns the *)
(* scheduler and the background delegations start (agents/dispatcher.py)   *)
(* and the rows of the conversation in history.db                          *)
(* (memory/adapters/sqlite_history_store.py).                              *)
(*                                                                         *)
(* Two turns may run at a time: the one of a channel, which holds the slot *)
(* of the scope registry, and the one of the dispatcher, which holds a     *)
(* lock of its own.  Each action is what a turn does between two awaits    *)
(* that let the others act; a query and what is computed from its answer   *)
(* is one action.                                                          *)
(***************************************************************************)
EXTENDS Integers, FiniteSets, SequencesExt

CONSTANTS
  Msgs,        \* what users send through the channels
  Notices,     \* what the dispatcher is asked to run: [bg-N], agent_send
  NoMsg,
  MaxIter,     \* tool_call_max_iterations
  MaxResets,   \* _MAX_INFLIGHT_ITER_RESETS
  Threshold,   \* circuit_breaker_threshold
  Window,      \* max_messages of the store; 0: no limit
  KeepLast,    \* what trim keeps of a scope
  Photos,      \* the messages that are photos
  Tasks,       \* those sent as an ephemeral task (--task)
  Batches,     \* how many tools the LLM may call at once
  MaxCalls,    \* bound: tool calls
  MaxEvents    \* bound: stops, clears, trims, crashes, failed LLM calls

ASSUME TurnAssumption ==
  /\ NoMsg \notin Msgs \cup Notices /\ Msgs \cap Notices = {}
  /\ MaxIter \in Nat \ {0} /\ MaxResets \in Nat /\ Threshold \in Nat \ {0}
  /\ Window \in Nat /\ KeepLast \in Nat \ {0}
  /\ Photos \subseteq Msgs /\ Tasks \subseteq Msgs
  /\ Batches \subseteq Nat \ {0} /\ MaxCalls \in Nat /\ MaxEvents \in Nat

VARIABLES
  rows,            \* history: the rows of the scope, oldest first
  lastId,          \* the AUTOINCREMENT of the table
  busy, cancel,    \* the scope in the two sets of the scope registry
  inbox,           \* where each message is
  turn,            \* the turns in progress
  calls, events,   \* how many of each bound were used
  erased, skipped  \* history: messages cleared or trimmed; turns that skipped

vars == <<rows, lastId, busy, cancel, inbox, turn, calls, events, erased, skipped>>

Turns == {"inbound", "dispatch"}
Everyone == Msgs \cup Notices
Stages == {"idle", "begin", "ready", "loaded", "top", "llm", "tools", "wrapup", "persist"}

(***************************************************************************)
(* Messages and rows.  A content is the message of the user it carries, or *)
(* nothing worth telling apart.                                            *)
(***************************************************************************)
User(m) == [role |-> "user", msg |-> m, calls |-> {}, call |-> 0]
Text == [role |-> "assistant", msg |-> NoMsg, calls |-> {}, call |-> 0]
Asks(S) == [Text EXCEPT !.calls = S]
Result(c) == [role |-> "tool", msg |-> NoMsg, calls |-> {}, call |-> c]

Conversational(m) == m.role \in {"user", "assistant"} /\ m.calls = {}
Plain(rs) == [i \in DOMAIN rs |-> rs[i].m]
MsgsOf(ms) == {ms[i].msg : i \in DOMAIN ms} \ {NoMsg}
Recorded == MsgsOf(Plain(rows))

\* by: the turn that wrote the row, named by what started it.
RowOf(id, by, m) == [id |-> id, by |-> by, m |-> m]
AppendRow(by, m) == /\ rows' = Append(rows, RowOf(lastId + 1, by, m))
                    /\ lastId' = lastId + 1
NoRow == UNCHANGED <<rows, lastId>>

\* The id of the n-th conversational row from the end; 0 when there are fewer.
Cut(n) == LET ids == {rows[i].id : i \in {j \in DOMAIN rows :
                                            Conversational(rows[j].m)}}
              nth == {x \in ids : Cardinality({y \in ids : y >= x}) = n}
          IN IF n = 0 \/ nth = {} THEN 0 ELSE CHOOSE x \in nth : TRUE
\* The rows are in order of id: those from one on are the end of the history.
From(id) == SubSeq(rows, Cardinality({i \in DOMAIN rows : rows[i].id < id}) + 1, Len(rows))

(***************************************************************************)
(* _drop_orphan_tool_messages, one message at a time.  want is what the    *)
(* open group still lacks, later the messages found inside it.             *)
(***************************************************************************)
Closed(out) == [out |-> out, group |-> <<>>, later |-> <<>>, want |-> {}]

TopLevel(out, m) ==
  CASE m.role = "assistant" /\ m.calls # {} ->
         [out |-> out, group |-> <<m>>, later |-> <<>>, want |-> m.calls]
    [] m.role = "tool" -> Closed(out)
    [] OTHER -> Closed(Append(out, m))

Joins(s, m) == m.role = "tool" /\ m.call \in s.want
Joined(s, m) ==
  LET g == Append(s.group, m)
  IN IF s.want = {m.call} THEN Closed(s.out \o g \o s.later)
     ELSE [s EXCEPT !.group = g, !.want = @ \ {m.call}]

Scan(s, m) ==
  CASE s.want = {} -> TopLevel(s.out, m)
    [] s.want # {} /\ Joins(s, m) -> Joined(s, m)
    [] s.want # {} /\ Conversational(m) -> [s EXCEPT !.later = Append(@, m)]
    [] OTHER -> TopLevel(s.out \o s.later, m)

\* What the scan knows after all of ms, from what it knew after each prefix.
Scanned(ms) ==
  LET scanned[n \in 0 .. Len(ms)] ==
        IF n = 0 THEN Closed(<<>>) ELSE Scan(scanned[n - 1], ms[n])
  IN scanned[Len(ms)]

DropOrphanToolMessages(ms) == Scanned(ms).out \o Scanned(ms).later

Loaded == DropOrphanToolMessages(Plain(From(Cut(Window))))
TrailingUserBatch(ms) ==
  {i \in DOMAIN ms : \A j \in i .. Len(ms) : ms[j].role = "user"}

\* load_user_messages_since
Since(cursor) ==
  LET new(r) == r.m.role = "user" /\ r.id > cursor
      since[n \in 0 .. Len(rows)] ==
        IF n = 0 THEN <<>>
        ELSE IF new(rows[n]) THEN Append(since[n - 1], rows[n].m) ELSE since[n - 1]
  IN since[Len(rows)]
NewCursor(cursor) ==
  LET ids == {rows[i].id : i \in {j \in DOMAIN rows : rows[j].m.role = "user"}}
  IN IF \E x \in ids : x > cursor THEN CHOOSE x \in ids : \A y \in ids : y <= x
     ELSE cursor
LastRowId == IF rows = <<>> THEN 0 ELSE Last(rows).id

(***************************************************************************)
(* The state of a turn.  from and base bound the rows the turn does not    *)
(* see for having landed between its load and its cursor; rounds and       *)
(* stopped are history: calls to the LLM, a stop accepted since it began.  *)
(***************************************************************************)
NoTurn == [pc |-> "idle", kind |-> "none", own |-> NoMsg, ctx |-> <<>>,
           cursor |-> 0, from |-> 0, base |-> 0, iter |-> 0, resets |-> 0,
           todo |-> <<>>, cancelled |-> FALSE, said |-> FALSE, fails |-> 0,
           open |-> FALSE, trace |-> <<>>, skip |-> FALSE,
           rounds |-> 0, stopped |-> FALSE]

NewTurn(kind, m) == [NoTurn EXCEPT !.pc = "begin", !.kind = kind, !.own = m]
Ephemeral(t) == turn[t].kind = "task"
SkipCapable(t) == turn[t].kind = "notice"
IncrementalAlways(t) == ~Ephemeral(t)
Incremental(t) == ~Ephemeral(t) /\ ~SkipCapable(t)

At(t, pc) == turn[t].pc = pc
Go(t, changes) == turn' = [turn EXCEPT ![t] = changes]

Init ==
  /\ rows = <<>> /\ lastId = 0
  /\ busy = FALSE /\ cancel = FALSE
  /\ inbox = [m \in Everyone |-> "new"]
  /\ turn = [t \in Turns |-> NoTurn]
  /\ calls = 0 /\ events = 0 /\ erased = {} /\ skipped = {}

(***************************************************************************)
(* Inbound routing and the scope registry.                                 *)
(***************************************************************************)
KindsOf(m) == IF m \notin Photos \cup Tasks THEN {"message"}
              ELSE {k \in {"photo", "task"} :
                      m \in IF k = "photo" THEN Photos ELSE Tasks}

Receive(m) ==
  /\ inbox[m] = "new"
  /\ IF busy
     THEN /\ inbox' = [inbox EXCEPT ![m] = "racing"]
          /\ UNCHANGED <<busy, turn>>
     ELSE /\ busy' = TRUE
          /\ inbox' = [inbox EXCEPT ![m] = "taken"]
          /\ \E kind \in KindsOf(m) : Go("inbound", NewTurn(kind, m))
  /\ UNCHANGED <<rows, lastId, cancel, calls, events, erased, skipped>>

\* record_user_message and the ACK; the turn that was there may have ended.
RecordInFlight(m) ==
  /\ inbox[m] = "racing"
  /\ AppendRow(NoMsg, User(m))
  /\ inbox' = [inbox EXCEPT ![m] = "acked"]
  /\ UNCHANGED <<busy, cancel, turn, calls, events, erased, skipped>>

Dispatch(n) ==
  /\ inbox[n] = "new" /\ At("dispatch", "idle")
  /\ inbox' = [inbox EXCEPT ![n] = "taken"]
  /\ Go("dispatch", NewTurn("notice", n))
  /\ UNCHANGED <<rows, lastId, busy, cancel, calls, events, erased, skipped>>

MarkIdle == busy' = FALSE /\ cancel' = FALSE

RequestCancel ==
  /\ busy /\ events < MaxEvents
  /\ cancel' = TRUE /\ events' = events + 1
  /\ turn' = [turn EXCEPT !["inbound"].stopped = TRUE]
  /\ UNCHANGED <<rows, lastId, busy, inbox, calls, erased, skipped>>

\* The end of a turn, with its answer or with the exception of a provider.
EndTurn(t) == /\ Go(t, NoTurn)
              /\ IF t = "inbound" THEN MarkIdle ELSE UNCHANGED <<busy, cancel>>

(***************************************************************************)
(* _execute_turn, up to the tool loop.                                     *)
(***************************************************************************)
\* A photo is recorded by its handler, once it holds the slot.
RecordPhoto(t) ==
  /\ At(t, "begin") /\ turn[t].kind = "photo"
  /\ AppendRow(turn[t].own, User(turn[t].own))
  /\ Go(t, [turn[t] EXCEPT !.pc = "ready"])
  /\ UNCHANGED <<busy, cancel, inbox, calls, events, erased, skipped>>

\* A photo is in the history already; other messages join it for this turn.
Assembled(t, history) ==
  IF turn[t].kind = "photo" THEN history ELSE Append(history, User(turn[t].own))

LoadHistory(t) ==
  /\ IF turn[t].kind = "photo" THEN At(t, "ready") ELSE At(t, "begin")
  /\ LET ctx == Loaded
     IN IF turn[t].kind = "photo" /\ TrailingUserBatch(ctx) = {}
        THEN EndTurn(t)
        ELSE /\ Go(t, [turn[t] EXCEPT
                         !.pc = "loaded", !.from = lastId,
                         !.ctx = Assembled(t, ctx)])
             /\ UNCHANGED <<busy, cancel>>
  /\ UNCHANGED <<rows, lastId, inbox, calls, events, erased, skipped>>

\* The message is persisted before the LLM is called and its row is the
\* cursor; a turn that persists none takes the last row of the scope.
Baseline(t) ==
  /\ At(t, "loaded")
  /\ IF turn[t].kind \in {"message", "notice"}
     THEN /\ AppendRow(turn[t].own, User(turn[t].own))
          /\ Go(t, [turn[t] EXCEPT !.pc = "top", !.cursor = lastId + 1,
                                   !.base = lastId + 1])
     ELSE /\ NoRow
          /\ Go(t, [turn[t] EXCEPT !.pc = "top", !.cursor = LastRowId,
                                   !.base = LastRowId])
  /\ UNCHANGED <<busy, cancel, inbox, calls, events, erased, skipped>>

(***************************************************************************)
(* run_tool_loop.                                                          *)
(***************************************************************************)
\* The drain of a checkpoint and its accounting: the messages of users that
\* came after the cursor join the context, and renew the iterations while
\* there are renewals left.
DrainStale(s) == [s EXCEPT !.ctx = @ \o Since(s.cursor)]
Drain(s) == [s EXCEPT !.ctx = @ \o Since(s.cursor), !.cursor = NewCursor(@)]
HasDrained(s) == Since(s.cursor) # <<>>
Renews(s) == HasDrained(s) /\ s.resets < MaxResets
AccountUncapped(s) == IF HasDrained(s) THEN [s EXCEPT !.iter = 0, !.resets = @ + 1] ELSE s
Account(s) == IF Renews(s) THEN [s EXCEPT !.iter = 0, !.resets = @ + 1] ELSE s
AdvanceIdle(s) == IF HasDrained(s) THEN Drain(Account(s))
                  ELSE [s EXCEPT !.iter = @ + 1]
Advance(s) == IF Renews(s) THEN Drain(Account(s))
              ELSE [Drain(s) EXCEPT !.iter = @ + 1]

\* The end of an iteration.  With none left, the last text is the answer;
\* without a text, another call is made to get it.
Iterate(s) == LET n == Advance(s) IN
  [n EXCEPT !.pc = IF n.iter < MaxIter THEN "top"
                   ELSE IF n.said THEN "persist" ELSE "wrapup"]

\* Checkpoint A and the kill switch.
CheckpointA(t) ==
  /\ At(t, "top")
  /\ LET s == Drain(Account(turn[t]))
     IN Go(t, IF cancel THEN [s EXCEPT !.pc = "wrapup", !.cancelled = TRUE]
              ELSE [s EXCEPT !.pc = "llm", !.rounds = @ + 1])
  /\ UNCHANGED <<rows, lastId, busy, cancel, inbox, calls, events, erased, skipped>>

\* An answer without tool calls, and checkpoint C: if somebody wrote
\* meanwhile it is only a draft.
Answer(t) ==
  /\ At(t, "llm")
  /\ \E skip \in {FALSE, SkipCapable(t)} :
       Go(t, IF HasDrained(turn[t])
             THEN Iterate([turn[t] EXCEPT !.said = TRUE,
                                          !.ctx = Append(@, Text)])
             ELSE [turn[t] EXCEPT !.pc = "persist", !.skip = skip])
  /\ UNCHANGED <<rows, lastId, busy, cancel, inbox, calls, events, erased, skipped>>

\* A message of the protocol: persisted as it comes, or at the end.
Keep(t, m, s) ==
  IF Incremental(t)
  THEN AppendRow(turn[t].own, m) /\ Go(t, [s EXCEPT !.ctx = Append(@, m)])
  ELSE NoRow /\ Go(t, [s EXCEPT !.ctx = Append(@, m), !.trace = Append(@, m)])

AskTools(t) ==
  /\ At(t, "llm")
  /\ \E n \in Batches, said \in BOOLEAN :
       /\ calls + n <= MaxCalls
       /\ calls' = calls + n
       /\ Keep(t, Asks(calls + 1 .. calls + n),
               [turn[t] EXCEPT !.pc = "tools", !.said = said,
                               !.todo = [i \in 1 .. n |-> calls + i]])
  /\ UNCHANGED <<busy, cancel, inbox, events, erased, skipped>>

NextCall(s) == [s EXCEPT !.pc = "tools", !.todo = Tail(@)]

\* The check before each call of the batch.  Neither a stopped batch nor an
\* open circuit executes it: its result is synthetic.
Refused(t) == turn[t].cancelled \/ cancel \/ turn[t].open

RefuseBatch(t) ==
  /\ At(t, "tools") /\ turn[t].todo # <<>> /\ Refused(t)
  /\ Go(t, [turn[t] EXCEPT !.todo = <<>>, !.cancelled = @ \/ cancel])
  /\ UNCHANGED <<rows, lastId, busy, cancel, inbox, calls, events, erased, skipped>>

RefuseCall(t) ==
  /\ At(t, "tools") /\ turn[t].todo # <<>> /\ Refused(t)
  /\ Keep(t, Result(Head(turn[t].todo)),
          NextCall([turn[t] EXCEPT !.cancelled = @ \/ cancel]))
  /\ UNCHANGED <<busy, cancel, inbox, calls, events, erased, skipped>>

\* A failure that is not retryable (the rejection of a tool reserved to the
\* operator is one) counts against the circuit of the tool.
Count(s, outcome) ==
  CASE outcome = "ok" -> [s EXCEPT !.fails = 0]
    [] outcome = "failed" -> [s EXCEPT !.fails = @ + 1,
                                       !.open = @ \/ s.fails + 1 >= Threshold]
    [] OTHER -> s

ExecuteCall(t) ==
  /\ At(t, "tools") /\ turn[t].todo # <<>> /\ ~Refused(t)
  /\ \E outcome \in {"ok", "failed", "retryable"} :
       Keep(t, Result(Head(turn[t].todo)), NextCall(Count(turn[t], outcome)))
  /\ UNCHANGED <<busy, cancel, inbox, calls, events, erased, skipped>>

\* A tool that sends to this same chat persists what it sent, in the middle
\* of the group.
ToolSends(t) ==
  /\ At(t, "tools") /\ turn[t].todo # <<>> /\ ~Refused(t)
  /\ events < MaxEvents /\ events' = events + 1
  /\ AppendRow(NoMsg, Text)
  /\ UNCHANGED <<busy, cancel, inbox, turn, calls, erased, skipped>>

\* The batch is complete: to the wrap-up if it was stopped, else
\* checkpoint B.
EndBatch(t) ==
  /\ At(t, "tools") /\ turn[t].todo = <<>>
  /\ Go(t, IF turn[t].cancelled THEN [turn[t] EXCEPT !.pc = "wrapup"]
           ELSE Iterate(turn[t]))
  /\ UNCHANGED <<rows, lastId, busy, cancel, inbox, calls, events, erased, skipped>>

\* The last call, without tools.  One that fails changes nothing here: there
\* is a fixed text.
WrapUp(t) ==
  /\ At(t, "wrapup")
  /\ \E skip \in {FALSE, SkipCapable(t)} :
       Go(t, [turn[t] EXCEPT !.pc = "persist", !.skip = skip])
  /\ UNCHANGED <<rows, lastId, busy, cancel, inbox, calls, events, erased, skipped>>

LlmFailsBusy(t) ==
  /\ At(t, "llm") /\ events < MaxEvents
  /\ events' = events + 1
  /\ Go(t, NoTurn)
  /\ UNCHANGED <<rows, lastId, busy, cancel, inbox, calls, erased, skipped>>

\* The provider fails: the exception leaves the turn where it was.
LlmFails(t) ==
  /\ At(t, "llm") /\ events < MaxEvents
  /\ events' = events + 1
  /\ EndTurn(t)
  /\ UNCHANGED <<rows, lastId, inbox, calls, erased, skipped>>

\* After the loop: what was not persisted as it came, then the answer; of a
\* turn that skips, and of an ephemeral one, nothing.
Persist(t) ==
  /\ At(t, "persist")
  /\ LET s == turn[t] IN
     CASE Ephemeral(t) \/ s.skip ->
            /\ NoRow /\ EndTurn(t)
            /\ skipped' = IF s.skip THEN skipped \cup {s.own} ELSE skipped
       [] ~Ephemeral(t) /\ ~s.skip /\ s.trace # <<>> ->
            /\ AppendRow(s.own, Head(s.trace))
            /\ Go(t, [s EXCEPT !.trace = Tail(@)])
            /\ UNCHANGED <<busy, cancel, skipped>>
       [] OTHER -> AppendRow(s.own, Text) /\ EndTurn(t) /\ UNCHANGED skipped
  /\ UNCHANGED <<inbox, calls, events, erased>>

(***************************************************************************)
(* What others do to the conversation.                                     *)
(***************************************************************************)
Erase(kept) ==
  /\ rows' = kept
  /\ erased' = erased \cup (Recorded \ MsgsOf(Plain(kept)))
  /\ events' = events + 1
  /\ UNCHANGED <<lastId, busy, cancel, inbox, turn, calls, skipped>>

ClearHistory == events < MaxEvents /\ rows # <<>> /\ Erase(<<>>)
Trim == events < MaxEvents /\ From(Cut(KeepLast)) # rows /\ Erase(From(Cut(KeepLast)))

\* The process dies.  What waited to be recorded had not been acknowledged.
Crash ==
  /\ events < MaxEvents /\ \E t \in Turns : ~At(t, "idle")
  /\ events' = events + 1
  /\ busy' = FALSE /\ cancel' = FALSE
  /\ turn' = [t \in Turns |-> NoTurn]
  /\ inbox' = [m \in Everyone |-> IF inbox[m] = "racing" THEN "lost" ELSE inbox[m]]
  /\ UNCHANGED <<rows, lastId, calls, erased, skipped>>

Step(t) ==
  \/ RecordPhoto(t) \/ LoadHistory(t) \/ Baseline(t)
  \/ CheckpointA(t) \/ Answer(t) \/ AskTools(t)
  \/ RefuseCall(t) \/ ExecuteCall(t) \/ ToolSends(t) \/ EndBatch(t)
  \/ WrapUp(t) \/ LlmFails(t) \/ Persist(t)

Next ==
  \/ \E m \in Msgs : Receive(m) \/ RecordInFlight(m)
  \/ \E n \in Notices : Dispatch(n)
  \/ \E t \in Turns : Step(t)
  \/ RequestCancel \/ ClearHistory \/ Trim \/ Crash

Spec == Init /\ [][Next]_vars

(***************************************************************************)
(* Properties.                                                             *)
(***************************************************************************)
Message == [role : {"user", "assistant", "tool"}, msg : Everyone \cup {NoMsg},
            calls : SUBSET (1 .. MaxCalls), call : 0 .. MaxCalls]

\* Every variable holds values of its kind.
TypeOK ==
  /\ \A i \in DOMAIN rows : /\ rows[i].id \in 1 .. lastId /\ rows[i].m \in Message
                            /\ rows[i].by \in Everyone \cup {NoMsg}
  /\ busy \in BOOLEAN /\ cancel \in BOOLEAN
  /\ inbox \in [Everyone -> {"new", "racing", "acked", "taken", "lost"}]
  /\ \A t \in Turns :
       /\ turn[t].pc \in Stages
       /\ turn[t].kind \in {"none", "notice", "message", "photo", "task"}
       /\ turn[t].resets \in 0 .. MaxResets /\ turn[t].iter \in 0 .. MaxIter
       /\ \A i \in DOMAIN turn[t].ctx : turn[t].ctx[i] \in Message
  /\ calls \in 0 .. MaxCalls /\ events \in 0 .. MaxEvents

AsksTheLlm(t) == turn[t].pc \in {"llm", "wrapup"}

\* What a provider accepts: the results of an assistant with tool calls come
\* right after it, all of them and only once, and no result comes elsewhere.
Answered(ms, i) ==
  LET n == Cardinality(ms[i].calls)
  IN /\ i + n <= Len(ms)
     /\ {ms[j].call : j \in i + 1 .. i + n} = ms[i].calls
Asked(ms, j) == \E i \in 1 .. j - 1 : /\ ms[j].call \in ms[i].calls
                                      /\ \A k \in i + 1 .. j : ms[k].role = "tool"
WellFormed(ms) ==
  \A i \in DOMAIN ms : /\ ms[i].calls # {} => Answered(ms, i)
                       /\ ms[i].role = "tool" => Asked(ms, i)

\* The provider is never sent a broken group of tool calls: not after a
\* crash in the middle of a batch, nor when two turns or a tool interleave
\* their rows with it, nor when the window, a trim or a stop cuts it.
ProtocolIntact == \A t \in Turns : AsksTheLlm(t) => WellFormed(turn[t].ctx)

\* A turn has in its context every message of a user up to its cursor, but
\* for those that landed between its load and its cursor (and those the
\* window of the store left out): none is dropped with a broken group, nor
\* jumped by a drain.
SeesUpToItsCursor ==
  \A t \in Turns : AsksTheLlm(t) =>
    \A i \in DOMAIN rows :
      LET r == rows[i] IN
      (/\ r.m.role = "user" /\ r.id <= turn[t].cursor
       /\ r.id \notin turn[t].from + 1 .. turn[t].base
       /\ Window = 0 \/ r.id > turn[t].base)
      => r.m.msg \in MsgsOf(turn[t].ctx)

\* No message reaches the LLM twice in one context: what the load brought
\* is not drained again.
SeenOnce ==
  \A t \in Turns : \A i, j \in DOMAIN turn[t].ctx :
    (i # j /\ turn[t].ctx[i].msg = turn[t].ctx[j].msg)
    => turn[t].ctx[i].msg = NoMsg

\* What the LLM is shown of the history: all of it up to the cursor, and once.
HistoryIsSeen == SeesUpToItsCursor /\ SeenOnce

\* However many messages arrive while it works, a turn makes a bounded number
\* of calls to the LLM: they renew its iterations MaxResets times at most.
BoundedRounds == \A t \in Turns : turn[t].rounds <= MaxIter * (MaxResets + 1)

\* What was acknowledged, and what the LLM was asked, is in the history until
\* somebody erases it: it survives a failed provider, a crash and a turn that
\* ended before it was recorded.
NothingForgotten ==
  /\ \A m \in Msgs : inbox[m] = "acked" => m \in Recorded \cup erased
  /\ \A t \in Turns : AsksTheLlm(t) /\ ~Ephemeral(t) =>
       turn[t].own \in Recorded \cup erased

\* A turn that ends in a skip leaves nothing in the history but what it was
\* asked: neither its narration, nor its tool calls, nor its answer.
SkipLeavesNoTrace ==
  \A i \in DOMAIN rows : rows[i].by \in skipped => rows[i].m.role = "user"

\* The history keeps what was said, and nothing of a turn that skipped.
HistoryIsKept == NothingForgotten /\ SkipLeavesNoTrace

\* A turn of a channel is cancelled only if a stop was accepted since it took
\* its slot: a stop that comes too late for a turn does not reach the next.
StopReachesItsTurn == turn["inbound"].cancelled \/ cancel => turn["inbound"].stopped

\* The slot of the conversation is held by the turn that took it and given
\* back with it, whatever ends the turn: an answer, a skip, an aborted load
\* or the exception of a provider.
SlotHeldByATurn == busy <=> ~At("inbound", "idle")

\* The slot of a conversation belongs to one turn, and so does its stop.
SlotOfItsTurn == SlotHeldByATurn /\ StopReachesItsTurn

\* LLMDispatcherAdapter: the lock of the scope guarantees that a turn of a
\* user and that of a background task do not interleave in the history.
\* Promised, and not kept by the code: README, section 5.
TurnsNotInterleaved ==
  \A i, j, k \in DOMAIN rows :
    (i < j /\ j < k /\ rows[i].by = rows[k].by /\ rows[i].by # NoMsg)
    => rows[j].by \in {rows[i].by, NoMsg}
=============================================================================
