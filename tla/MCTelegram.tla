------------------------------ MODULE MCTelegram ------------------------------
(***************************************************************************)
(* The parts of the Telegram channel for TLC, one subject at a time: the   *)
(* subject of a behavior moves and the variables of the others stay Off.   *)
(* rows and conf belong to two of them.                                    *)
(*                                                                         *)
(* Groups: in g two humans speak to the bot, one of them to somebody else  *)
(* too, and another bot speaks; in h a human speaks at the other end of    *)
(* the LAN.  Media: two albums, of two files and of one, a photo, a text   *)
(* and an audio.  Sends: a text of up to three parts or a file, asked      *)
(* again once, to a group or a private chat.  Life: three updates of any   *)
(* kind, one more than the announcement drains, over two iterations.       *)
(***************************************************************************)
EXTENDS Integers, FiniteSets

CONSTANTS
  MaxSaid, MaxItems,  \* bounds: messages of the groups, files and messages of the chat, of a behavior
  MaxAccidents,       \* bound: crashes and broadcasts from the LAN
  None, Off,
  Chats, Msgs, ChatOf, Author, Mentions, ReplyTo, Me, Bots, Lan, UserInputs,  \* of the groups
  Behaviors, MaxCounts, Default, Window, MaxClock, MaxEvents,
  Albums, Members, AlbumOf, Photos, Others, Kind, DedupMax, MaxFaults,        \* of the media
  Senders, Groups, Privates, MaxParts, MaxRounds, Attempts,                   \* of the sends
  NumUpdates, Batch, MaxLives, MaxCrashes, MaxLan                             \* of the life

VARIABLES
  subject,
  behavior, clock, maxCount, estados, hist, stage, lastSender, consultas, extra, flush,
  seen, late, asked, said, events,
  private, vision, repo, buffers, flushed, flushing, step, held, busy, turns, rows, shown, faults,
  sends, chat, lan, files, conf,
  kind, tg, life, started, fetched, backlog, toTell, tasks, outcome, ports, open, left

\* Where, by whom and for whom the messages of telegram.cfg are said, and what its files are.
Said == {"m1", "m2", "m3", "b1", "b2"}
SaidIn == [m \in Said |-> IF m = "b2" THEN "h" ELSE "g"]
SaidBy ==
  [m \in Said |-> CASE m = "m2" -> "leo" [] m \in {"b1", "b2"} -> "robot" [] OTHER -> "ana"]
SaidTo == [m \in Said |-> CASE m = "m1" -> {"inaki"} [] m = "m3" -> {"robot"} [] OTHER -> {}]
InReplyTo == [m \in Said |-> IF m = "m2" THEN "inaki" ELSE None]
FileOf == [f \in {"x1", "x2", "y1"} |-> IF f = "y1" THEN "y" ELSE "x"]
TextAndAudio == [f \in {"t", "v"} |-> IF f = "t" THEN "text" ELSE "voice"]

G == INSTANCE GroupChat
M == INSTANCE MediaChat WITH stage <- step, seen <- shown
S == INSTANCE TelegramSends
L == INSTANCE ChannelLife

ASSUME TelegramAssumption == G!GroupAssumption /\ M!MediaAssumption /\ S!SendsAssumption
-----------------------------------------------------------------------------
\* The variables that only one subject has.
OfGroups == <<behavior, clock, maxCount, estados, hist, stage, lastSender, consultas, extra, flush,
              seen, late, asked, said, events>>
OfMedia == <<private, vision, repo, buffers, flushed, flushing, step, held, busy, turns, shown,
             faults>>
OfSends == <<sends, chat, lan, files>>
OfLife == <<kind, tg, life, started, fetched, backlog, toTell, tasks, outcome, ports, open, left>>
vars == <<subject, OfGroups, OfMedia, OfSends, OfLife, rows, conf>>

NoGroups ==
  /\ behavior = Off /\ clock = Off /\ maxCount = Off /\ estados = Off /\ hist = Off
  /\ stage = Off /\ seen = Off
  /\ lastSender = Off /\ consultas = Off /\ extra = Off /\ flush = Off /\ late = Off
  /\ asked = Off /\ said = Off /\ events = Off
NoMedia ==
  /\ private = Off /\ vision = Off /\ repo = Off /\ buffers = Off /\ flushed = Off
  /\ flushing = Off /\ held = Off /\ busy = Off /\ turns = Off
  /\ step = Off /\ shown = Off /\ faults = Off
NoSends == sends = Off /\ chat = Off /\ lan = Off /\ files = Off
NoLife ==
  /\ kind = Off /\ tg = Off /\ life = Off /\ started = Off /\ fetched = Off /\ backlog = Off
  /\ toTell = Off /\ tasks = Off /\ outcome = Off /\ ports = Off /\ open = Off /\ left = Off

Init ==
  \/ /\ subject = "groups" /\ G!Init /\ NoMedia /\ NoSends /\ NoLife
     /\ rows = Off /\ conf = Off
  \/ /\ subject = "media" /\ M!Init /\ NoGroups /\ NoSends /\ NoLife /\ conf = Off
  \/ /\ subject = "sends" /\ S!Init /\ NoGroups /\ NoMedia /\ NoLife
  \/ /\ subject = "life" /\ L!Init /\ NoGroups /\ NoMedia /\ NoSends
     /\ rows = Off

\* The bounds: which of the messages and files are left out is any choice.
AtMost(n, stages) == Cardinality({i \in DOMAIN stages : stages[i] # "new"}) <= n

Next ==
  /\ UNCHANGED subject
  /\ \/ /\ subject = "groups" /\ G!Next /\ AtMost(MaxSaid, stage')
        /\ UNCHANGED <<OfMedia, OfSends, OfLife, rows, conf>>
     \/ /\ subject = "media" /\ M!Next /\ AtMost(MaxItems, step')
        /\ UNCHANGED <<OfGroups, OfSends, OfLife, conf>>
     \/ /\ subject = "sends" /\ S!Next
        /\ UNCHANGED <<OfGroups, OfMedia, OfLife>>
     \/ /\ subject = "life" /\ L!Next /\ left'.crashes + left'.lan <= MaxAccidents
        /\ UNCHANGED <<OfGroups, OfMedia, OfSends, rows>>

Spec == Init /\ [][Next]_vars
-----------------------------------------------------------------------------
\* The turn of a group is given its own query, sections and sender; the limiter cuts a loop of
\* bots, and the bot is silent while its cooldown lasts; what was let through is shown to the LLM
\* unless it came after the last call (group_flow.py, rate_limit.py).
GroupsHold ==
  /\ [](subject = "groups" =>
          G!TypeOK /\ G!TurnIsItsOwn /\ G!NoBotStorm /\ G!OnlyTheLateWait)
  /\ [][subject = "groups" => G!NoAnswerWhileCooling]_vars

\* However the files of an album, photos and texts race for it, the slot of a chat has one holder
\* and is never left taken, and whatever arrived is in the history (media.py).
MediaHolds == subject = "media" => M!TypeOK /\ M!OneHolder /\ M!LeavesATrace

\* However the requests end, one call shows each part once and in order, and what the history, the
\* LAN or the sender says was sent is whole in the chat (message_mapper.py, outbound.py).
SendsHold == subject = "sends" => S!OnceInOrder /\ S!SaidIsThere

\* Nothing of an iteration is still handled once its container is down, and a private message that
\* Telegram will not give again is read, or its chat told (channel.py, bot.py, runner.py).
LifeHolds == subject = "life" => L!HandlersAreDrained /\ L!ReadOrTold
=============================================================================
