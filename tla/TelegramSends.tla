---------------------------- MODULE TelegramSends ----------------------------
(***************************************************************************)
(* What leaves for Telegram: the answer of a turn, the two tools that      *)
(* send, and whatever the ChannelRouter routes (scheduler, notices of the  *)
(* delegations).  A text is split in parts, each part is sent as HTML and, *)
(* if Telegram cannot parse it, as it is; a part is sent again only when   *)
(* it surely did not arrive.  A file goes in one request with its caption. *)
(* The requests of several senders interleave, and every request may end   *)
(* in any way python-telegram-bot reports.  A request is one step: it is   *)
(* Telegram who orders the messages of a chat.                             *)
(***************************************************************************)
EXTENDS Integers, Sequences, FiniteSets

CONSTANTS
  Senders,      \* the sends under way
  Groups,       \* the chats that are groups
  Privates,     \* the ones that are not
  MaxParts,     \* bound: parts of a text
  MaxRounds,    \* bound: times a caller asks again for what failed
  Attempts,     \* _SEND_RETRY_ATTEMPTS
  None

AllChats == Groups \cup Privates
Kinds == {"text", "photo", "album"}
Sinks == {"telegram", "file", "null"}
Sent ==
  [from : {"reply", "text_tool", "file_tool", "router"}, kind : Kinds, chat : AllChats, sink : Sinks,
   parts : Nat \ {0}, at : Nat \ {0}, html : BOOLEAN, tries : Nat, rewound : BOOLEAN,
   record : BOOLEAN, round : Nat \ {0},
   pc : {"send", "delivered", "ok", "unreachable", "refused", "told"}]
SendsAssumption == None \notin Sinks /\ None \notin Sent /\ MaxParts \in Nat

VARIABLES
  sends,     \* sender -> its send, or None
  chat,      \* what Telegram shows of every chat, in order
  rows,      \* rows the outbound adapter appended to the history
  lan,       \* texts emitted to the other agents of a group
  files,     \* what the file outbound wrote
  conf       \* fallback of the router and whether the tool loop persists its calls

vars == <<sends, chat, rows, lan, files, conf>>

Entry(id, content) ==
  [id |-> id, round |-> sends[id].round, part |-> sends[id].at, content |-> content]
\* What a send has in its chat since its caller last asked.
Of(id) == {i \in DOMAIN chat[sends[id].chat] :
             /\ chat[sends[id].chat][i].id = id
             /\ chat[sends[id].chat][i].round = sends[id].round}

(***************************************************************************)
(* The router.  A target is a channel; outbounds of the kernel first, then *)
(* those of the agent, then the override of the channel, the default and   *)
(* the hardcoded file.  An agent that is not known has no outbounds.       *)
(***************************************************************************)
Lookup(target, agent) ==
  IF target \in {"file", "null"} \/ (target = "telegram" /\ agent) THEN target ELSE None
Resolved(target, agent) ==
  LET options == <<target, conf.override[target], conf.default, "file">>
      usable == {i \in DOMAIN options : options[i] # None /\ Lookup(options[i], agent) # None}
  IN options[CHOOSE i \in usable : \A j \in usable : i <= j]

Recorded(from, agent, asked) ==
  CASE from = "reply" -> FALSE
    [] from = "file_tool" -> ~conf.persisted
    [] from = "text_tool" -> TRUE
    [] OTHER -> asked /\ agent

New(from, kind, c, sink, parts, html, record) ==
  [from |-> from, kind |-> kind, chat |-> c, sink |-> sink, parts |-> parts, at |-> 1,
   html |-> html, tries |-> 1, rewound |-> TRUE, record |-> record, round |-> 1, pc |-> "send"]

\* The answer of a turn and send_telegram_message: text, to a chat of Telegram.
SendText(id, from, c, parts) ==
  /\ sends[id] = None
  /\ sends' = [sends EXCEPT ![id] =
                 New(from, "text", c, "telegram", parts, TRUE, Recorded(from, TRUE, TRUE))]
  /\ UNCHANGED <<chat, rows, lan, files, conf>>

\* send_to_telegram: one file or an album, in one request, with the caption as HTML if there is
\* one and it fits.
SendFile(id, kind, c, html) ==
  /\ sends[id] = None
  /\ sends' = [sends EXCEPT ![id] =
                 New("file_tool", kind, c, "telegram", 1, html, Recorded("file_tool", TRUE, TRUE))]
  /\ UNCHANGED <<chat, rows, lan, files, conf>>

\* ChannelRouter.send_message: what does not resolve falls to the first sink that does.
Route(id, target, agent, c, parts, asked) ==
  /\ sends[id] = None
  /\ sends' = [sends EXCEPT ![id] =
                 New("router", "text", c, Resolved(target, agent), parts, TRUE,
                     Recorded("router", agent, asked))]
  /\ UNCHANGED <<chat, rows, lan, files, conf>>

Sending(id) == sends[id] # None /\ sends[id].pc = "send" /\ sends[id].sink = "telegram"
Ended(id, pc) == [sends EXCEPT ![id].pc = pc]

\* The request arrived: the next part, or the end of the send.  A file that was read by an
\* earlier request and not rewound would go empty.
Arrives(id) == [chat EXCEPT ![sends[id].chat] =
                  Append(@, Entry(id, IF sends[id].rewound THEN "whole" ELSE "empty"))]
Deliver(id) ==
  /\ Sending(id)
  /\ chat' = Arrives(id)
  /\ sends' = IF sends[id].at < sends[id].parts
              THEN [sends EXCEPT ![id].at = @ + 1, ![id].html = TRUE, ![id].tries = 1]
              ELSE Ended(id, "delivered")
  /\ UNCHANGED <<rows, lan, files, conf>>

\* BadRequest for the HTML: again as it is, from the start of the file.
Unparsed(id) ==
  /\ Sending(id) /\ sends[id].html
  /\ sends' = [sends EXCEPT ![id] = [@ EXCEPT !.html = FALSE, !.tries = 1, !.rewound = TRUE]]
  /\ UNCHANGED <<chat, rows, lan, files, conf>>

\* The connection was not made, or the request never left the pool: a part of a text is tried
\* again, a file is not.
NotSent(id) ==
  /\ Sending(id)
  /\ sends' = IF sends[id].kind = "text" /\ sends[id].tries < Attempts
              THEN [sends EXCEPT ![id].tries = @ + 1]
              ELSE Ended(id, "unreachable")
  /\ UNCHANGED <<chat, rows, lan, files, conf>>

\* Mutant: every network error of a part is tried again.
TimedOutRetried(id) ==
  /\ Sending(id)
  /\ chat' \in {chat, Arrives(id)}
  /\ sends' = IF sends[id].kind = "text" /\ sends[id].tries < Attempts
              THEN [sends EXCEPT ![id].tries = @ + 1]
              ELSE Ended(id, "unreachable")
  /\ UNCHANGED <<rows, lan, files, conf>>

\* The answer of Telegram did not come: the message may be there or not.
TimedOut(id) ==
  /\ Sending(id)
  /\ chat' \in {chat, Arrives(id)}
  /\ sends' = Ended(id, "unreachable")
  /\ UNCHANGED <<rows, lan, files, conf>>

\* Any other BadRequest: the chat is gone, the caption is too long as it is.
Refused(id) ==
  /\ Sending(id)
  /\ sends' = Ended(id, "refused")
  /\ UNCHANGED <<chat, rows, lan, files, conf>>

\* The bot is not registered, or the file disappeared since the tool resolved it: nothing left.
\* A file that is not there is not worth another attempt.
Unavailable(id) ==
  /\ Sending(id) /\ sends[id].at = 1 /\ sends[id].from # "reply" /\ sends[id].tries = 1
  /\ sends' = Ended(id, IF sends[id].kind = "text" THEN "unreachable" ELSE "told")
  /\ UNCHANGED <<chat, rows, lan, files, conf>>

\* FileOutbound appends a line and may fail; NullOutbound discards.
Store(id) ==
  /\ sends[id] # None /\ sends[id].pc = "send" /\ sends[id].sink # "telegram"
  /\ \/ /\ files' = IF sends[id].sink = "file" THEN files \cup {<<id, sends[id].round>>} ELSE files
        /\ sends' = Ended(id, "ok")
     \/ /\ sends[id].sink = "file"
        /\ sends' = Ended(id, "unreachable")
        /\ UNCHANGED files
  /\ UNCHANGED <<chat, rows, lan, conf>>

\* The tail of a send that arrived whole: a text to a group is emitted to the LAN, and then the
\* row, if the trail of this send is not of another.  A row that cannot be written fails the
\* send although it arrived.
Record(id) ==
  LET s == sends[id] IN
  /\ s # None /\ s.pc = "delivered"
  /\ lan' = IF s.kind = "text" /\ s.chat \in Groups THEN lan \cup {<<id, s.round>>} ELSE lan
  /\ \/ /\ rows' = IF s.record THEN rows \cup {<<id, s.round>>} ELSE rows
        /\ sends' = Ended(id, "ok")
     \/ /\ s.record
        /\ sends' = Ended(id, "unreachable")
        /\ UNCHANGED rows
  /\ UNCHANGED <<chat, files, conf>>

\* An answer that was refused is followed by its error; one lost in the network is not.
ReplyError(id) ==
  /\ sends[id] # None /\ sends[id].from = "reply" /\ sends[id].pc = "refused"
  /\ chat' \in {chat, [chat EXCEPT ![sends[id].chat] =
                         Append(@, [Entry(id, "error") EXCEPT !.part = 0])]}
  /\ sends' = Ended(id, "told")
  /\ UNCHANGED <<rows, lan, files, conf>>

\* The caller is told the failure may be retried, and asks again: the loop for its tool call,
\* the scheduler for its dispatch.
Again(id, html) ==
  LET s == sends[id] IN
  /\ s # None /\ s.from # "reply" /\ s.round < MaxRounds
  /\ s.pc \in {"unreachable", "refused"}
  /\ s.kind = "text" => html
  /\ sends' = [sends EXCEPT ![id] =
                 [New(s.from, s.kind, s.chat, s.sink, s.parts, html, s.record)
                    EXCEPT !.round = s.round + 1]]
  /\ UNCHANGED <<chat, rows, lan, files, conf>>

Init ==
  /\ sends = [id \in Senders |-> None]
  /\ chat = [c \in AllChats |-> <<>>]
  /\ rows = {} /\ lan = {} /\ files = {}
  /\ conf \in [persisted : BOOLEAN, default : {None, "null", "cli"},
               override : [{"cli", "telegram", "file", "null"} -> {None}]
                            \cup {[t \in {"cli", "telegram", "file", "null"} |->
                                     IF t = "cli" THEN "telegram" ELSE None]}]

Step(id) ==
  \/ \E c \in AllChats, n \in 1 .. MaxParts, from \in {"reply", "text_tool"} :
       SendText(id, from, c, n)
  \/ \E c \in AllChats, kind \in Kinds \ {"text"}, html \in BOOLEAN : SendFile(id, kind, c, html)
  \/ \E t \in {"cli", "telegram", "null"}, agent \in BOOLEAN, c \in AllChats, asked \in BOOLEAN :
       Route(id, t, agent, c, 1, asked)
  \/ Deliver(id) \/ Unparsed(id) \/ NotSent(id) \/ TimedOut(id) \/ Refused(id)
  \/ Unavailable(id) \/ Store(id) \/ Record(id) \/ ReplyError(id)
  \/ \E html \in BOOLEAN : Again(id, html)

Next == \E id \in Senders : Step(id)
Spec == Init /\ [][Next]_vars

-----------------------------------------------------------------------------
\* However the requests end and the senders interleave, one call shows each part of its text at
\* most once, in order, and a file is never shown empty (message_mapper.send_html_or_plain,
\* _send_con_reintento, rebobinar).
OnceInOrder ==
  \A c \in AllChats : \A i, j \in DOMAIN chat[c] :
    LET a == chat[c][i]
        b == chat[c][j]
    IN /\ a.content # "empty"
       /\ i < j /\ a.id = b.id /\ a.round = b.round /\ b.content = "whole" => a.part < b.part

\* What a row of the history, an event on the LAN or a sender says was sent is whole in the
\* chat, also when the row of an earlier attempt failed (outbound.send).
SaidIsThere ==
  \A id \in Senders :
    LET s == sends[id]
        told == s # None /\ s.sink = "telegram" /\ s.pc = "ok"
    IN told \/ <<id, IF s = None THEN 0 ELSE s.round>> \in rows \cup lan
       => Cardinality(Of(id)) = s.parts

\* A message is shown once, even if the caller had to ask again.
\* Promised, and not kept by the code: README, section 5.
ShownOnce ==
  \A c \in AllChats : \A i, j \in DOMAIN chat[c] :
    LET a == chat[c][i]
        b == chat[c][j]
    IN a.id = b.id /\ a.part = b.part => i = j
=============================================================================
