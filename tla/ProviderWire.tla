---------------------------- MODULE ProviderWire ----------------------------
(***************************************************************************)
(* What a turn sends to its provider (llm/): the messages of the tool loop  *)
(* in the dialect of Anthropic, of /chat/completions or of /responses, and  *)
(* the answers turned back into tool calls.                                *)
(*                                                                         *)
(* Each dialect has a contract of its own for tool calls and results, and  *)
(* Anthropic one more for the reasoning it signs: it must come back with   *)
(* the very prefix it was produced after, while the turn makes its set of  *)
(* tools grow and its last request offers none.  A text is there or blank, *)
(* a tool call is its id, and the set of tools is its size.                *)
(***************************************************************************)
EXTENDS Integers, Sequences, FiniteSets, SequencesExt, Functions, TLC

CONSTANTS
  MaxAnswers,  \* bound: answers of the provider in a turn
  MaxBatch,    \* bound: tool calls of one answer
  MaxTools,    \* bound: tools the turn may come to show
  None

WireAssumption == MaxAnswers \in Nat /\ MaxBatch \in Nat \ {0} /\ MaxTools \in Nat

VARIABLES
  dialect,  \* of the configured provider
  msgs,     \* working_messages
  tools,    \* tool_schemas, by their number
  pc,       \* "loop", "closing" (a last request without tools) or "done"
  answers   \* answers so far

vars == <<dialect, msgs, tools, pc, answers>>
Dialects == {"anthropic", "chat", "responses"}

Message(role, text, calls, id, blob) == [role |-> role, text |-> text, calls |-> calls, id |-> id, blob |-> blob]
User(text) == Message("user", text, <<>>, 0, None)
Said(text) == Message("assistant", text, <<>>, 0, None)
Calling(text, calls, blob) == Message("assistant", text, calls, 0, blob)
Result(id, text) == Message("tool", text, <<>>, id, None)

(***************************************************************************)
(* The request                                                             *)
(***************************************************************************)
Item(role, blocks) == [role |-> role, blocks |-> blocks]
Block(type, id) == [type |-> type, id |-> id]
Text == Block("text", 0)
Texts(m) == IF m.text THEN <<Text>> ELSE <<>>
Uses(m) == [i \in DOMAIN m.calls |-> Block("tool_use", m.calls[i])]
AsText(m) == [i \in DOMAIN m.calls |-> Text]

\* The signed reasoning is sent back as long as system and tools are the same.
Kept(blob, shown) == blob.thought /\ blob.tools = shown

\* Blocks of an assistant message for a request that offers so many tools.
Spoken(m, shown) ==
  IF shown = 0 THEN Texts(m) \o AsText(m)
  ELSE IF m.blob # None /\ Kept(m.blob, shown) THEN <<Block("thinking", 0)>> \o Texts(m) \o Uses(m)
  ELSE Texts(m) \o Uses(m)

\* Mutant: every result is a message.
AppendResultAlone(wire, id) == Append(wire, Item("user", <<Block("tool_result", id)>>))

\* The results of a batch go together in one message of the user.
AppendResult(wire, id) ==
  IF wire # <<>> /\ Last(wire).role = "user" /\ Last(wire).blocks[1].type = "tool_result"
  THEN [wire EXCEPT ![Len(wire)].blocks = Append(@, Block("tool_result", id))]
  ELSE Append(wire, Item("user", <<Block("tool_result", id)>>))

Put(wire, role, blocks) == IF blocks = <<>> THEN wire ELSE Append(wire, Item(role, blocks))

\* A result of nothing says so, and a message of nothing is left out; a window that
\* begins with the assistant gets a first message of the user.
Anthropic(ms, shown) ==
  LET Add(wire, m) ==
        CASE m.role = "tool" /\ shown = 0 -> Append(wire, Item("user", <<Text>>))
          [] m.role = "tool" /\ shown > 0 -> AppendResult(wire, m.id)
          [] m.role = "assistant" -> Put(wire, "assistant", Spoken(m, shown))
          [] m.role = "user" -> Put(wire, "user", Texts(m))
      body == FoldLeft(Add, <<>>, ms)
  IN IF body # <<>> /\ body[1].role # "user" THEN <<Item("user", <<Text>>)>> \o body ELSE body

\* _build_messages: one for one, after the system prompt.
Chat(ms) ==
  <<Item("system", <<Text>>)>> \o
  [i \in DOMAIN ms |-> CASE ms[i].calls # <<>> -> Item("assistant", Texts(ms[i]) \o Uses(ms[i]))
                         [] ms[i].role = "tool" -> Item("tool", <<Block("tool_result", ms[i].id)>>)
                         [] OTHER -> Item(ms[i].role, <<Text>>)]

\* _build_input: text and calls apart, each call an item.
Responses(ms) ==
  FlattenSeq([i \in DOMAIN ms |->
    CASE ms[i].calls # <<>> -> [j \in DOMAIN Texts(ms[i]) |-> Item("assistant", <<Text>>)]
                               \o [j \in DOMAIN ms[i].calls |-> Item("call", <<Uses(ms[i])[j]>>)]
      [] ms[i].role = "tool" -> <<Item("output", <<Block("tool_result", ms[i].id)>>)>>
      [] OTHER -> <<Item(ms[i].role, <<Text>>)>>])

Wire(ms, shown) ==
  CASE dialect = "anthropic" -> Anthropic(ms, shown)
    [] dialect = "chat" -> Chat(ms)
    [] dialect = "responses" -> Responses(ms)

(***************************************************************************)
(* The answer                                                              *)
(***************************************************************************)
Ids == {msgs[i].id : i \in DOMAIN msgs}
Fresh(k) == LET top == CHOOSE n \in Ids : \A j \in Ids : j <= n IN [i \in 1..k |-> top + i]

\* What the model wrote: text, calls of its own kind, or DSML in the text, whole or not.
\* The calls found in DSML are numbered from 0 in each answer.
Raw == {"text", "native", "dsml", "garbled"}
FromDsml(k) == [i \in 1..k |-> -i]

\* DeepSeek parses DSML, asks once more for what it cannot parse, and then takes it out.
Recovered(raw, again, k) ==
  CASE raw = "native" -> Fresh(k)
    [] raw = "dsml" -> FromDsml(k)
    [] raw = "garbled" /\ again = "native" -> Fresh(k)
    [] raw = "garbled" /\ again = "dsml" -> FromDsml(k)
    [] OTHER -> <<>>

\* What the loop gets: only Anthropic hands its reasoning over to be sent back, and only with calls.
Answered(calls, text, thought) ==
  IF dialect = "anthropic"
  THEN Calling(text, calls, [thought |-> thought, tools |-> tools, prefix |-> Wire(msgs, tools)])
  ELSE Calling(text, calls, None)

(***************************************************************************)
(* The turn                                                                *)
(***************************************************************************)
Closed == <<Calling(FALSE, <<1, 2>>, None), Result(1, TRUE), Result(2, FALSE)>>
\* Windows of the history: whole groups of calls, and any message first.
Windows == {<<>>, <<Said(TRUE)>>, <<User(TRUE), Said(FALSE)>>, Closed, <<User(TRUE)>> \o Closed \o <<Said(TRUE)>>}

Init ==
  /\ dialect \in Dialects /\ tools \in 0..MaxTools
  /\ \E window \in Windows : msgs = Append(window, User(TRUE))
  /\ pc = "loop" /\ answers = 0

Asks == pc = "loop" /\ answers < MaxAnswers /\ answers' = answers + 1 /\ UNCHANGED dialect
Grows == tools' \in tools..MaxTools
WrapUp == <<User(TRUE)>>

\* A whole batch: every call gets a result, a refusal or the one of a batch that was cut.
CallTools ==
  /\ Asks /\ Grows
  /\ \E k \in 1..MaxBatch, raw \in Raw, again \in Raw, text, thought, stopped \in BOOLEAN :
       LET calls == Recovered(raw, again, k) IN
       /\ dialect # "chat" => raw = "native"
       /\ calls # <<>>
       /\ msgs' = msgs \o <<Answered(calls, text, thought)>> \o [i \in 1..k |-> Result(calls[i], TRUE)]
                       \o (IF stopped THEN WrapUp ELSE <<>>)
       /\ pc' = IF stopped THEN "closing" ELSE "loop"

\* Messages that arrived meanwhile; they may select more tools.
Drain ==
  /\ pc = "loop" /\ Last(msgs).role # "user" /\ Grows
  /\ msgs' = Append(msgs, User(TRUE)) /\ UNCHANGED <<dialect, pc, answers>>

\* An answer that is final unless something arrived: then it is a draft.
Draft ==
  /\ Asks /\ Grows /\ pc' = "loop"
  /\ \E text \in BOOLEAN : msgs' = msgs \o (IF text THEN <<Said(TRUE)>> ELSE <<>>) \o <<User(TRUE)>>
Final == Asks /\ pc' = "done" /\ UNCHANGED <<msgs, tools>>

\* /stop before a request; and the end of the iterations after an answer without text.
Stop == pc = "loop" /\ pc' = "closing" /\ msgs' = msgs \o WrapUp /\ UNCHANGED <<dialect, tools, answers>>
OutOfIterations == pc = "loop" /\ answers > 0 /\ pc' = "closing" /\ UNCHANGED <<dialect, msgs, tools, answers>>
Close == pc = "closing" /\ pc' = "done" /\ UNCHANGED <<dialect, msgs, tools, answers>>

\* A refusal, an answer cut inside a call, an error of the network.
LlmFails == pc \in {"loop", "closing"} /\ pc' = "done" /\ UNCHANGED <<dialect, msgs, tools, answers>>

Next == CallTools \/ Drain \/ Draft \/ Final \/ Stop \/ OutOfIterations \/ Close \/ LlmFails

Spec == Init /\ [][Next]_vars

(***************************************************************************)
(* What the providers ask for                                              *)
(***************************************************************************)
Shown == IF pc = "loop" THEN tools ELSE 0
Of(item, type) == SelectSeq(item.blocks, LAMBDA b : b.type = type)
SameIds(s, t) == Len(s) = Len(t) /\ {s[i].id : i \in DOMAIN s} = {t[i].id : i \in DOMAIN t}
Holds(item, type) == Of(item, type) # <<>>

\* Anthropic: a message of calls is followed by one with their results and nothing else
\* has results; without tools there are neither; the user speaks first and nobody says nothing.
AnthropicContract(w) ==
  /\ w # <<>> /\ w[1].role = "user"
  /\ \A i \in DOMAIN w :
       /\ w[i].blocks # <<>>
       /\ Holds(w[i], "tool_use") =>
            i < Len(w) /\ w[i + 1].role = "user" /\ SameIds(Of(w[i], "tool_use"), Of(w[i + 1], "tool_result"))
       /\ Holds(w[i], "tool_result") => i > 1 /\ Holds(w[i - 1], "tool_use")
       /\ Shown = 0 => ~Holds(w[i], "tool_use") /\ ~Holds(w[i], "tool_result")

\* /chat/completions: the messages right after one with calls are their results.
ChatContract(w) ==
  \A i \in DOMAIN w :
    LET n == Len(Of(w[i], "tool_use")) IN
    /\ n > 0 => /\ i + n <= Len(w)
                /\ \A j \in 1..n : w[i + j].role = "tool"
                /\ SameIds(Of(w[i], "tool_use"), [j \in 1..n |-> w[i + j].blocks[1]])
    /\ w[i].role = "tool" => \E j \in 1..(i - 1) : i <= j + Len(Of(w[j], "tool_use"))

\* /responses: a call has its output later, once, and no output comes without its call.
ResponsesContract(w) ==
  \A i \in DOMAIN w :
    LET pair(type) == {j \in DOMAIN w : w[j].blocks[1] = Block(type, w[i].blocks[1].id)} IN
    /\ w[i].role = "call" => pair("tool_use") = {i} /\ \E j \in DOMAIN w : j > i /\ pair("tool_result") = {j}
    /\ w[i].role = "output" => \E j \in 1..(i - 1) : pair("tool_use") = {j}

\* Whatever the history window, the batch, the drain and the way the turn ends, the request
\* keeps the contract of its dialect: every call is answered where it has to be.
EveryCallIsAnswered ==
  pc # "done" =>
    CASE dialect = "anthropic" -> AnthropicContract(Wire(msgs, Shown))
      [] dialect = "chat" -> ChatContract(Wire(msgs, Shown))
      [] dialect = "responses" -> ResponsesContract(Wire(msgs, Shown))

\* Signed reasoning goes back only after the very tools and messages it was produced after.
ThinkingIsUntouched ==
  pc # "done" /\ dialect = "anthropic" =>
    \A i \in DOMAIN msgs :
      LET before == Anthropic(SubSeq(msgs, 1, i - 1), Shown)
          sent == Anthropic(SubSeq(msgs, 1, i), Shown)
      IN msgs[i].blob # None /\ Holds(Last(sent), "thinking") =>
           msgs[i].blob.tools = Shown /\ msgs[i].blob.prefix = before
===============================================================================
