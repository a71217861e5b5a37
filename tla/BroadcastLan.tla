----------------------------- MODULE BroadcastLan -----------------------------
(***************************************************************************)
(* The LAN of the bots of a group (channels/telegram/broadcast/tcp.py): a  *)
(* server that relays every line it reads to its other clients, and        *)
(* clients that connect again whenever their connection ends.              *)
(*                                                                         *)
(* A connection is a pipe of lines each way, cut at any time by either     *)
(* end or by the network, which loses a suffix of each.  Every write waits *)
(* for the pipe to drain, so the relays of several handlers interleave.    *)
(* A line that comes too late (_FRESHNESS_WINDOW) is dropped by whoever    *)
(* reads it.  What a bot does with what it receives is in GroupChat.       *)
(***************************************************************************)
EXTENDS Integers, FiniteSets, SequencesExt

CONSTANTS
  Server, Clients,
  MaxSize,                        \* of the buffer of a chat
  MaxMessages, MaxConns, MaxDrops, \* bounds: messages, connections of a client, late lines,
  MaxBreaks                       \* connections the network breaks

LanAssumption ==
  /\ Server \notin Clients /\ MaxSize \in Nat \ {0}
  /\ \A n \in {MaxMessages, MaxConns, MaxDrops, MaxBreaks} : n \in Nat

VARIABLES
  phase,          \* of the server's adapter
  closing,        \* writers that stop has yet to close
  client,         \* what the task of each client does
  conns,          \* connections each client has opened
  clientes,       \* the writers the server knows
  handlers,       \* connections whose handler is reading
  cut,            \* connections that ended
  up, down,       \* the lines of each connection, each way
  relay,          \* the write loop of each handler, and that of emit
  author,         \* who emitted each message
  buffer,         \* what each bot keeps of a chat
  got, due, drops \* history: what each received, who has to receive each message

vars == <<phase, closing, client, conns, clientes, handlers, cut, up, down, relay, author,
          buffer, got, due, drops>>
pipes == <<up, down>>
received == <<buffer, got>>

Agents == Clients \cup {Server}
Conns == Clients \X (1..MaxConns)
Owner(k) == k[1]
Open == {k \in Conns : k[2] <= conns[k[1]]} \ cut
Current(c) == <<c, conns[c]>>

(***************************************************************************)
(* Receiving: the lines of one's own are ignored.                          *)
(***************************************************************************)
Mine(a, m) == author[m] = a
Kept(s) == IF Len(s) > MaxSize THEN Tail(s) ELSE s
Receive(a, m) ==
  IF Mine(a, m) THEN UNCHANGED received
  ELSE /\ got' = [got EXCEPT ![a] = Append(@, m)]
       /\ buffer' = [buffer EXCEPT ![a] = Kept(Append(@, m))]
TooLate == drops < MaxDrops /\ drops' = drops + 1

\* A cut connection keeps a prefix of what was on its way; nobody waits for what may
\* have been on it.
CutOff(K) ==
  /\ cut' = cut \cup K
  /\ due' = [m \in 1..Len(author) |->
               IF \E k \in K : Owner(k) = author[m] THEN {}
               ELSE due[m] \ {Owner(k) : k \in K}]
Truncated(k) == \E i \in 0..Len(up[k]), n \in 0..Len(down[k]) :
                  /\ up' = [up EXCEPT ![k] = SubSeq(@, 1, i)]
                  /\ down' = [down EXCEPT ![k] = SubSeq(@, 1, n)]

(***************************************************************************)
(* The server                                                              *)
(***************************************************************************)
NoRelay == [line |-> 0, todo |-> {}, failed |-> {}]
RelayTo(x, r) == relay' = [relay EXCEPT ![x] = r]

\* A handler reads a valid line: it starts to write it to the others.
Others(k) == clientes \ {k}
ServerReads(k) ==
  /\ k \in handlers /\ relay[k] = NoRelay /\ up[k] # <<>>
  /\ up' = [up EXCEPT ![k] = Tail(@)]
  /\ \/ /\ RelayTo(k, [line |-> Head(up[k]), todo |-> Others(k), failed |-> {}])
        /\ UNCHANGED <<drops, due>>
     \/ /\ TooLate /\ UNCHANGED relay
        /\ due' = [due EXCEPT ![Head(up[k])] = {}]
  /\ UNCHANGED <<phase, closing, client, conns, clientes, handlers, cut, down, author, received>>

\* emit, in the server.
ServerEmits ==
  /\ phase = "up" /\ relay[Server] = NoRelay /\ Len(author) < MaxMessages
  /\ author' = Append(author, Server)
  /\ RelayTo(Server, [line |-> Len(author'), todo |-> clientes, failed |-> {}])
  /\ due' = Append(due, {Owner(k) : k \in clientes \cap Open})
  /\ UNCHANGED <<phase, closing, client, conns, clientes, handlers, cut, pipes, received, drops>>

\* _escribir_a_todos: one write after another, over a copy of the set.
GivesUp(x, k) == [relay[x] EXCEPT !.todo = {}, !.failed = @ \cup {k}]
Failed(x, k) == [relay[x] EXCEPT !.todo = @ \ {k}, !.failed = @ \cup {k}]
Write(x, k) ==
  /\ k \in relay[x].todo
  /\ \/ /\ k \notin cut /\ down' = [down EXCEPT ![k] = Append(@, relay[x].line)]
        /\ RelayTo(x, [relay[x] EXCEPT !.todo = @ \ {k}])
     \/ /\ k \in cut /\ RelayTo(x, Failed(x, k)) /\ UNCHANGED down
  /\ UNCHANGED <<phase, closing, client, conns, clientes, handlers, cut, up, author,
                 received, due, drops>>
\* The failed writers are dropped and closed, then the line is the server's.
EndRelay(x) ==
  /\ relay[x] # NoRelay /\ relay[x].todo = {}
  /\ clientes' = clientes \ relay[x].failed
  /\ Receive(Server, relay[x].line) /\ RelayTo(x, NoRelay)
  /\ UNCHANGED <<phase, closing, client, conns, handlers, cut, pipes, author, due, drops>>

\* EOF: the handler ends.
HandlerEnds(k) ==
  /\ k \in handlers /\ k \in cut /\ up[k] = <<>> /\ relay[k] = NoRelay
  /\ handlers' = handlers \ {k} /\ clientes' = clientes \ {k}
  /\ UNCHANGED <<phase, closing, client, conns, cut, pipes, relay, author, received, due, drops>>

\* start: binds, or fails and may be tried again.
Start ==
  /\ phase = "down" /\ phase' = "up"
  /\ UNCHANGED <<closing, client, conns, clientes, handlers, cut, pipes, relay, author,
                 received, due, drops>>
\* stop: closes the writers it finds one by one, forgets them all, stops listening and
\* waits for the handlers.
Stop ==
  /\ phase = "up" /\ closing' = clientes
  /\ phase' = IF clientes = {} THEN "waiting" ELSE "closing"
  /\ UNCHANGED <<client, conns, clientes, handlers, cut, pipes, relay, author, received, due, drops>>
CloseWriter(k) ==
  /\ k \in closing /\ closing' = closing \ {k}
  /\ CutOff({k})
  /\ UNCHANGED <<phase, client, conns, clientes, handlers, pipes, relay, author, received, drops>>
StopListening ==
  /\ phase = "closing" /\ closing = {} /\ phase' = "waiting" /\ clientes' = {}
  /\ due' = [m \in DOMAIN due |-> due[m] \ Clients]
  /\ UNCHANGED <<closing, client, conns, handlers, cut, pipes, relay, author, received, drops>>
Stopped ==
  /\ phase = "waiting" /\ handlers = {} /\ relay[Server] = NoRelay /\ phase' = "down"
  /\ UNCHANGED <<closing, client, conns, clientes, handlers, cut, pipes, relay, author,
                 received, due, drops>>

(***************************************************************************)
(* The clients                                                             *)
(***************************************************************************)
Listening == phase \in {"up", "closing"}
\* open_connection; refused, it waits and tries again.
Connect(c) ==
  LET k == <<c, conns[c] + 1>>
  IN /\ client[c] = "connecting" /\ Listening /\ conns[c] < MaxConns
     /\ conns' = [conns EXCEPT ![c] = @ + 1] /\ client' = [client EXCEPT ![c] = "reading"]
     /\ handlers' = handlers \cup {k} /\ clientes' = clientes \cup {k}
     /\ UNCHANGED <<phase, closing, cut, pipes, relay, author, received, due, drops>>

ClientEmits(c) ==
  /\ client[c] = "reading" /\ Len(author) < MaxMessages
  /\ Current(c) \notin cut
  /\ author' = Append(author, c)
  /\ up' = [up EXCEPT ![Current(c)] = Append(@, Len(author'))]
  /\ due' = Append(due, {Server} \cup {Owner(k) : k \in (clientes \cap Open) \ {Current(c)}})
  /\ UNCHANGED <<phase, closing, client, conns, clientes, handlers, cut, down, relay, received, drops>>

ClientReads(c) ==
  LET k == Current(c)
  IN /\ client[c] = "reading" /\ down[k] # <<>>
     /\ down' = [down EXCEPT ![k] = Tail(@)]
     /\ \/ Receive(c, Head(down[k])) /\ UNCHANGED <<drops, due>>
        \/ TooLate /\ due' = [due EXCEPT ![Head(down[k])] = @ \ {c}] /\ UNCHANGED received
     /\ UNCHANGED <<phase, closing, client, conns, clientes, handlers, cut, up, relay, author>>

\* EOF or an error: the writer is forgotten and closed, and the loop starts over.
ClientLoses(c) ==
  /\ client[c] = "reading" /\ Current(c) \in cut /\ down[Current(c)] = <<>>
  /\ client' = [client EXCEPT ![c] = "connecting"]
  /\ UNCHANGED <<phase, closing, conns, clientes, handlers, cut, pipes, relay, author,
                 received, due, drops>>

\* The network, or the process of a client.
Break(k) ==
  /\ k \in Open /\ Cardinality(cut) < MaxBreaks /\ CutOff({k}) /\ Truncated(k)
  /\ UNCHANGED <<phase, closing, client, conns, clientes, handlers, relay, author, received, drops>>

Init ==
  /\ phase = "down" /\ closing = {} /\ client = [c \in Clients |-> "connecting"]
  /\ conns = [c \in Clients |-> 0] /\ clientes = {} /\ handlers = {} /\ cut = {}
  /\ up = [k \in Conns |-> <<>>] /\ down = [k \in Conns |-> <<>>]
  /\ relay = [x \in Conns \cup {Server} |-> NoRelay] /\ author = <<>>
  /\ buffer = [a \in Agents |-> <<>>] /\ got = [a \in Agents |-> <<>>] /\ due = <<>>
  /\ drops = 0

RelayStep(x) == EndRelay(x) \/ \E k \in relay[x].todo : Write(x, k)
ConnStep(k) == ServerReads(k) \/ HandlerEnds(k) \/ Break(k) \/ CloseWriter(k)
ClientStep(c) == Connect(c) \/ ClientEmits(c) \/ ClientReads(c) \/ ClientLoses(c)
Next == \/ Start \/ Stop \/ StopListening \/ Stopped \/ ServerEmits
        \/ \E x \in Conns \cup {Server} : RelayStep(x)
        \/ \E k \in Conns : ConnStep(k)
        \/ \E c \in Clients : ClientStep(c)
Spec == Init /\ [][Next]_vars

(***************************************************************************)
(* Properties                                                              *)
(***************************************************************************)
TypeOK ==
  /\ phase \in {"down", "up", "closing", "waiting"}
  /\ clientes \subseteq handlers \cup cut /\ handlers \cup cut \subseteq Conns
  /\ \A a \in Agents : Len(buffer[a]) <= MaxSize /\ IsSuffix(buffer[a], got[a])

\* A bot receives each event at most once and never one of its own, connections that
\* end and start over meanwhile: it never answers twice, nor to itself.
AtMostOnce ==
  /\ TypeOK
  /\ \A a \in Agents : IsInjective(got[a]) /\ \A m \in ToSet(got[a]) : author[m] # a

\* Whoever was connected when an event was emitted receives it, unless its own
\* connection or that of the author ended, or it came too late: the loss of one client
\* takes nothing from the others.
Quiet == /\ \A k \in Conns : up[k] = <<>> /\ down[k] = <<>>
         /\ \A x \in DOMAIN relay : relay[x] = NoRelay
NobodyLeftOut ==
  Quiet => \A m \in 1..Len(author) : \A a \in due[m] : m \in ToSet(got[a])

\* tcp.py:323 "Cerrar los writers aquí causa que reader.readline() retorne EOF en
\* _bucle_lectura, desbloqueando esos handlers de inmediato".
\* Promised, and not kept by the code: README, section 5.
StopUnblocksHandlers == phase = "waiting" => handlers \subseteq cut
=============================================================================
