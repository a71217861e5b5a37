------------------------------ MODULE GroupChat ------------------------------
(***************************************************************************)
(* The groups a Telegram bot lives in: what it keeps of what is said       *)
(* (channels/telegram/group_flow.py), what starts a turn, the flush that   *)
(* answers several messages at once (turn.py), the limit on the answers    *)
(* given in a row to other bots (rate_limit.py) and the messages that come *)
(* from the other bots of the group through the LAN                        *)
(* (broadcast/ingress.py).                                                 *)
(*                                                                         *)
(* Each message has a handler of its own and each group at most one flush  *)
(* at a time; they interleave at their awaits.                             *)
(***************************************************************************)
EXTENDS Integers, FiniteSets, SequencesExt

CONSTANTS
  Chats,
  Msgs,        \* what is said, once each
  ChatOf,      \* the group of each message
  Author,      \* and who says it
  Mentions,    \* whom it mentions
  ReplyTo,     \* and whom it replies to, or None
  Me,          \* bot_username
  Bots,        \* the authors that are bots, this one too
  Lan,         \* the messages that come through the LAN ...
  UserInputs,  \* ... and, of them, what a human said at the other end
  Behaviors,   \* subset of "listen", "mention", "autonomous"
  MaxCounts,   \* values of max_count, the configured one and the /ratelimit ones
  Default,     \* the configured max_count
  Window,      \* window_seconds, in ticks of the clock
  None,
  MaxClock,    \* bound: ticks of the clock
  MaxEvents    \* bound: failures and /ratelimit commands

GroupAssumption ==
  /\ ChatOf \in [Msgs -> Chats] /\ Me \in Bots
  /\ Lan \subseteq Msgs /\ UserInputs \subseteq Lan
  /\ Behaviors \subseteq {"listen", "mention", "autonomous"}
  /\ Default \in MaxCounts /\ MaxCounts \subseteq Nat \ {0} /\ Window \in Nat \ {0}
  /\ None \notin Chats \cup Msgs \cup {Author[m] : m \in Msgs}
  /\ MaxClock \in Nat /\ MaxEvents \in Nat

VARIABLES
  behavior, clock, maxCount,
  estados,              \* _estados of the limiter
  hist,                 \* the rows of each group: messages, and None for an answer
  stage,                \* how far the handler of each message is
  lastSender, consultas,
  extra,                \* the extra sections: one slot for all the groups
  flush,                \* the flush task of each group
  seen, late,           \* history: sent to the LLM; too late for the last call
  asked, said, events   \* history: consumed queries; times of the answers in a row; bound

vars == <<behavior, clock, maxCount, estados, hist, stage, lastSender, consultas,
          extra, flush, seen, late, asked, said, events>>
limiter == <<maxCount, estados>>
talk == <<lastSender, consultas, asked>>

Human(m) == Author[m] \notin Bots
In(c) == {m \in Msgs : ChatOf[m] = c}
Stages == {"new", "dropped", "kept", "recorded", "reacting", "held", "passed"}
Phases == {"none", "asleep", "woken", "looked", "sending"}

(***************************************************************************)
(* GroupRateLimit                                                          *)
(***************************************************************************)
NoState == [n |-> 0, until |-> 0]
Reset(c) == [estados EXCEPT ![c] = NoState]
\* cooldown: what it answers, and the entry it drops when the time has passed.
Cooling(es, c) == es[c].until > clock
Rearmed(es, c) == IF es[c].until # 0 /\ ~Cooling(es, c)
                  THEN [es EXCEPT ![c] = NoState] ELSE es
Reaches(n) == n >= maxCount
RecordResponse(c) ==
  LET n == estados[c].n + 1
  IN [estados EXCEPT ![c] = [n |-> n, until |-> IF Reaches(n) THEN clock + Window
                                                ELSE @.until]]

(***************************************************************************)
(* The handler of a message                                                *)
(***************************************************************************)
DetectMention(m) == Me \in Mentions[m]
EsReplyA(m) == ReplyTo[m] = Me
HayMenciones(m) == Mentions[m] # {}
EsReplyABot(m) == ReplyTo[m] \in Bots
DirigidoA(m) == DetectMention(m) \/ EsReplyA(m)
HayDestinatarioExplicito(m) == HayMenciones(m) \/ EsReplyABot(m)

EsParaOtro(m) == HayDestinatarioExplicito(m) /\ ~DirigidoA(m)
DisparaTurno(m) == \/ behavior = "autonomous"
                   \/ behavior = "mention" /\ DirigidoA(m)

\* handle_message up to record_user_message.  Those of the LAN come only to an
\* autonomous bot, and always go on.
Step(m, from, to) == stage[m] = from /\ stage' = [stage EXCEPT ![m] = to]
Kept(m) == IF m \in Lan \/ DisparaTurno(m) THEN "recorded" ELSE "kept"
Record(m) ==
  LET c == ChatOf[m]
  IN /\ m \in Lan => behavior = "autonomous"
     /\ \/ /\ m \notin Lan /\ EsParaOtro(m)
           /\ Step(m, "new", "dropped")
           /\ UNCHANGED <<hist, late>>
        \/ /\ m \in Lan \/ ~EsParaOtro(m)
           /\ Step(m, "new", Kept(m))
           /\ hist' = [hist EXCEPT ![c] = Append(@, m)]
           /\ late' = IF flush[c].pc = "sending" THEN late \cup {m} ELSE late
     /\ UNCHANGED <<behavior, clock, limiter, talk, extra, flush, seen, said, events>>

\* disparar up to the reaction.
Sender(m) == IF Human(m) THEN [lastSender EXCEPT ![ChatOf[m]] = Author[m]]
             ELSE lastSender
Disparar(m) ==
  /\ m \notin Lan
  /\ Step(m, "recorded", "reacting")
  /\ lastSender' = Sender(m)
  /\ consultas' = IF behavior = "mention"
                  THEN [consultas EXCEPT ![ChatOf[m]] = Append(@, m)] ELSE consultas
  /\ UNCHANGED <<behavior, clock, limiter, hist, extra, flush, seen, late, asked,
                 said, events>>

\* schedule_flush
Idle == [pc |-> "none", query |-> <<>>, sender |-> None, sections |-> None, upto |-> 0]
ScheduleFlush(c) ==
  flush' = IF flush[c].pc = "none" THEN [flush EXCEPT ![c] = [Idle EXCEPT !.pc = "asleep"]]
           ELSE flush

\* The rest of disparar, and of on_received: the limiter decides on the flush.
Rearms(m) == IF m \in Lan THEN m \in UserInputs ELSE Human(m)
Holds(es, c) == Cooling(es, c)
Gate(m) ==
  LET c == ChatOf[m]
      es == IF Rearms(m) THEN Reset(c) ELSE estados
  IN /\ stage[m] = (IF m \in Lan THEN "recorded" ELSE "reacting")
     /\ \/ /\ behavior # "autonomous"
           /\ stage' = [stage EXCEPT ![m] = "passed"]
           /\ ScheduleFlush(c)
           /\ UNCHANGED <<estados, said>>
        \/ /\ behavior = "autonomous"
           /\ estados' = Rearmed(es, c)
           /\ said' = IF Rearms(m) THEN [said EXCEPT ![c] = <<>>] ELSE said
           /\ \/ /\ Holds(es, c)
                 /\ stage' = [stage EXCEPT ![m] = "held"]
                 /\ UNCHANGED flush
              \/ /\ ~Holds(es, c)
                 /\ stage' = [stage EXCEPT ![m] = "passed"]
                 /\ ScheduleFlush(c)
     /\ UNCHANGED <<behavior, clock, maxCount, hist, talk, extra, seen, late, events>>

(***************************************************************************)
(* flush_buffer and run_group                                              *)
(***************************************************************************)
At(c, pc) == flush[c].pc = pc
Done(c) == flush' = [flush EXCEPT ![c] = Idle] /\ extra' = None

\* From the end of the delay to the first await of the turn.
Pop(c) == [consultas EXCEPT ![c] = <<>>]
Wake(c) ==
  /\ At(c, "asleep")
  /\ consultas' = Pop(c)
  /\ asked' = [asked EXCEPT ![c] = @ \o consultas[c]]
  /\ extra' = c
  /\ flush' = [flush EXCEPT ![c] = [pc |-> "woken", query |-> consultas[c],
                                    sender |-> lastSender[c], sections |-> c,
                                    upto |-> 0]]
  /\ UNCHANGED <<behavior, clock, limiter, hist, stage, lastSender, seen, late, said,
                 events>>

\* The turn loads the group; without a message after the last answer it ends.
TrailingBatch(c) == hist[c] # <<>> /\ Last(hist[c]) # None
\* What came since the turn last read the group.
Since(c) == {hist[c][i] : i \in flush[c].upto + 1 .. Len(hist[c])} \ {None}
NothingToAnswer(c) ==
  /\ At(c, "woken") /\ ~TrailingBatch(c)
  /\ Done(c)
  /\ UNCHANGED <<behavior, clock, limiter, hist, stage, talk, seen, late, said, events>>

\* What a call to the LLM carries: the history, and the sections of the turn.
SectionsShared(c) == extra
Sections(c) == flush[c].sections
LookAt(c) == ToSet(hist[c]) \ {None}
Look(c) ==
  /\ \/ At(c, "woken") /\ TrailingBatch(c)
     \/ At(c, "looked") /\ Since(c) # {}
  /\ seen' = seen \cup LookAt(c)
  /\ flush' = [flush EXCEPT ![c].pc = "looked", ![c].sections = Sections(c),
                           ![c].upto = Len(hist[c])]
  /\ UNCHANGED <<behavior, clock, limiter, hist, stage, talk, extra, late, said, events>>

\* The answer is persisted, then sent.  __SKIP__ leaves no row and sends nothing.
Answer(c) ==
  /\ At(c, "looked")
  /\ hist' = [hist EXCEPT ![c] = Append(@, None)]
  /\ flush' = [flush EXCEPT ![c] = [Idle EXCEPT !.pc = "sending"]]
  /\ late' = late \cup Since(c)
  /\ UNCHANGED <<behavior, clock, limiter, stage, talk, extra, seen, said, events>>
Skip(c) ==
  /\ behavior = "autonomous" /\ At(c, "looked")
  /\ Done(c)
  /\ late' = late \cup Since(c)
  /\ UNCHANGED <<behavior, clock, limiter, hist, stage, talk, seen, said, events>>
Send(c) ==
  /\ At(c, "sending")
  /\ Done(c)
  /\ estados' = IF behavior = "autonomous" THEN RecordResponse(c) ELSE estados
  /\ said' = [said EXCEPT ![c] = Append(@, clock)]
  /\ UNCHANGED <<behavior, clock, maxCount, hist, stage, talk, seen, late, events>>

Event == events < MaxEvents /\ events' = events + 1
\* The provider, or Telegram, fails: nothing is sent and nothing is counted.
Fail(c) ==
  /\ Event /\ flush[c].pc \in {"woken", "looked", "sending"}
  /\ Done(c)
  /\ late' = late \cup Since(c)
  /\ UNCHANGED <<behavior, clock, limiter, hist, stage, talk, seen, said>>

\* /ratelimit <count> and /ratelimit reset
SetMax(n) ==
  /\ behavior = "autonomous"
  /\ Event /\ maxCount' = n /\ n # maxCount
  /\ said' = [c \in Chats |-> <<>>]
  /\ UNCHANGED <<behavior, clock, estados, hist, stage, talk, extra, flush, seen, late>>
Tick ==
  /\ clock < MaxClock /\ clock' = clock + 1
  /\ UNCHANGED <<behavior, limiter, hist, stage, talk, extra, flush, seen, late,
                 said, events>>

Init ==
  /\ behavior \in Behaviors /\ clock = 0 /\ maxCount = Default
  /\ estados = [c \in Chats |-> NoState]
  /\ hist = [c \in Chats |-> <<>>] /\ stage = [m \in Msgs |-> "new"]
  /\ lastSender = [c \in Chats |-> None] /\ consultas = [c \in Chats |-> <<>>]
  /\ extra = None /\ flush = [c \in Chats |-> Idle]
  /\ seen = {} /\ late = {} /\ asked = [c \in Chats |-> <<>>]
  /\ said = [c \in Chats |-> <<>>] /\ events = 0

Handler(m) == Disparar(m) \/ Gate(m)
Flush(c) == Wake(c) \/ NothingToAnswer(c) \/ Look(c) \/ Answer(c) \/ Skip(c) \/ Send(c)
Next == \/ \E m \in Msgs : Record(m) \/ Handler(m)
        \/ \E c \in Chats : Flush(c) \/ Fail(c)
        \/ \E n \in MaxCounts : SetMax(n)
        \/ Tick

Spec == Init /\ [][Next]_vars

(***************************************************************************)
(* Properties                                                              *)
(***************************************************************************)
\* The variables have their types, and a group with a flush in its turn is the
\* only one whose sections may be in the shared slot.
TypeOK ==
  /\ behavior \in Behaviors /\ clock \in 0 .. MaxClock /\ maxCount \in MaxCounts
  /\ estados \in [Chats -> [n : Nat, until : 0 .. MaxClock + Window]]
  /\ \A c \in Chats : ToSet(hist[c]) \subseteq In(c) \cup {None}
  /\ stage \in [Msgs -> Stages]
  /\ extra \in Chats \cup {None} /\ (extra # None => flush[extra].pc \notin {"none", "asleep"})
  /\ \A c \in Chats : flush[c].pc \in Phases /\ ToSet(consultas[c]) \subseteq In(c)
  /\ seen \subseteq Msgs /\ late \subseteq Msgs /\ events \in 0 .. MaxEvents

\* However the other bots insist, since a human spoke (or changed the limit) any
\* maxCount + 1 answers in a row span a whole window: the limiter cuts a loop of
\* bots.
NoBotStorm ==
  behavior = "autonomous" =>
    \A c \in Chats : \A i \in DOMAIN said[c] :
      i + maxCount \in DOMAIN said[c] => said[c][i + maxCount] - said[c][i] >= Window

\* A step: the bot never speaks in a group while its cooldown lasts: what was decided
\* before the delay of the flush still holds after the turn.
NoAnswerWhileCooling ==
  \A c \in Chats : said'[c] # <<>> /\ said'[c] # said[c] => ~Cooling(estados, c)

\* The extra sections of a turn are those of its own group, whichever other group
\* set or cleared the shared slot while it waited (run_agent.py takes them before
\* its first await).
OwnSections == \A c \in Chats : At(c, "looked") => flush[c].sections = c

\* What was addressed to the bot enters the query of one turn and no more: it waits
\* in consultas or one flush took it.
ConsultaOnce ==
  \A c \in Chats :
    LET used == asked[c] \o consultas[c]
    IN /\ IsInjective(used)
       /\ behavior = "mention" =>
            ToSet(used) = {m \in In(c) \ Lan : stage[m] \in {"reacting", "passed"}}

\* The sender the turn is told of is the last human whose message is in its query,
\* not the last one who spoke in the group.
IsLastHuman(q, i) == Human(q[i]) /\ \A j \in DOMAIN q : Human(q[j]) => j <= i
SenderAskedTheQuery ==
  \A c \in Chats : \A i \in DOMAIN flush[c].query :
    IsLastHuman(flush[c].query, i) => flush[c].sender = Author[flush[c].query[i]]

\* With several groups and messages on their way, the turn of a group is given its
\* own sections, its own query once, and the sender who asked it.
TurnIsItsOwn == OwnSections /\ ConsultaOnce /\ SenderAskedTheQuery

\* A message that passed the gate and has no flush to wait for was shown to the
\* LLM, unless it came after the last call of the turn then in progress.
OnlyTheLateWait ==
  \A m \in Msgs : stage[m] = "passed" /\ At(ChatOf[m], "none") => m \in seen \cup late

\* schedule_flush (group_flow.py:220): "Si ya hay uno corriendo, el mensaje recién
\* persistido será visto por ese task cuando despierte".
\* Promised, and not kept by the code: README, section 5.
JoinedIsSeen == \A m \in Msgs : stage[m] = "passed" /\ At(ChatOf[m], "none") => m \in seen
=============================================================================
