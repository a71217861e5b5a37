----------------------------- MODULE ChannelLife -----------------------------
(***************************************************************************)
(* The life of a Telegram channel inside the daemon: what it builds, how   *)
(* start() drains the backlog and begins to poll, what a handler leaves    *)
(* running, what stop() waits for, and what the next iteration of the      *)
(* runner finds after a reload, a start that failed half way or a crash.   *)
(* Telegram keeps an update until an offset above it is asked for; an      *)
(* update that was fetched and not confirmed is given again to the next    *)
(* life.  The loop outlives a reload, so tasks nobody waits for go on.     *)
(***************************************************************************)
EXTENDS Integers, FiniteSets

CONSTANTS
  NumUpdates,   \* bound: updates that arrive
  Batch,        \* get_updates(limit=...) of the announcement
  MaxLives,     \* bound: iterations of the runner
  MaxCrashes,   \* bound: crashes of the process
  MaxLan        \* bound: broadcasts from the LAN

Updates == 1 .. NumUpdates
Lives == 1 .. MaxLives

VARIABLES
  conf,      \* the channel's settings
  kind,      \* update -> "private", "group" or "stranger" (not authorised)
  tg,        \* update -> "unsent", "pending" (kept by Telegram) or "confirmed"
  life,      \* number of the iteration and where its channel is
  started,   \* the channel is in `arrancados`
  fetched,   \* updates the updater fetched and has not confirmed
  backlog,   \* updates drained by the announcement, while it goes on
  toTell,    \* updates whose chat is still to be told
  tasks,     \* handlers, group flushes and turns of a broadcast in flight
  outcome,   \* update -> what became of it: "run", "told" (back online), "lost" or "none"
  ports,     \* lives whose LAN server holds the port
  open,      \* lives whose bot can send
  left       \* [crashes, lan] used

vars == <<conf, kind, tg, life, started, fetched, backlog, toTell, tasks, outcome, ports, open, left>>

(***************************************************************************)
(* What the wiring makes of the settings.                                  *)
(***************************************************************************)
Confs ==
  [token : BOOLEAN, broadcast : {"none", "disabled", "server", "client"},
   behavior : {"mention", "autonomous"}]
\* A channel without a token is not built; the agent goes on without it.
Built == conf.token
Listens == conf.broadcast = "server"
Triggers == conf.broadcast \in {"server", "client"} /\ conf.behavior = "autonomous"

\* Which handler an update gets, and so what it leaves behind: a private message its turn, a
\* group message a flush that sleeps, an unauthorised one nothing.
Authorised(u) == kind[u] # "stranger"
Private(u) == kind[u] = "private"

Handlers(l) == {t \in tasks : t.life = l /\ t.what = "handler"}
Pending == {u \in Updates : tg[u] = "pending"}
At(pc) == life.pc = pc
Go(pc) == life' = [life EXCEPT !.pc = pc]

Arrive(u) ==
  /\ tg[u] = "unsent" /\ \A v \in 1 .. u - 1 : tg[v] # "unsent"
  /\ tg' = [tg EXCEPT ![u] = "pending"]
  /\ UNCHANGED <<conf, kind, life, started, fetched, backlog, toTell, tasks, outcome, ports, open, left>>

\* broadcast.start(): a port that cannot be bound is logged and the bot starts all the same.
StartLan ==
  /\ At("start")
  /\ IF Built THEN Go("lan") ELSE Go("serving")
  /\ ports' = IF Built /\ Listens /\ ports = {} THEN {life.n} ELSE ports
  /\ UNCHANGED <<conf, kind, tg, started, fetched, backlog, toTell, tasks, outcome, open, left>>

StartApp ==
  /\ At("lan")
  /\ Go("app")
  /\ open' = open \cup {life.n}
  /\ UNCHANGED <<conf, kind, tg, started, fetched, backlog, toTell, tasks, outcome, ports, left>>

\* initialize, start or the confirmation of the backlog raised: the runner logs it and goes on
\* without the channel, which will not be asked to stop.
StartFails ==
  /\ life.pc \in {"lan", "confirm"}
  /\ Go("serving")
  /\ backlog' = {}
  /\ UNCHANGED <<conf, kind, tg, started, fetched, toTell, tasks, outcome, ports, open, left>>

\* The announcement reads what is pending; a failure leaves it for the polling.
Drain ==
  /\ At("app")
  /\ \/ Go("poll") /\ UNCHANGED backlog
     \/ /\ Pending # {} /\ Go("confirm")
        /\ backlog' = {u \in Pending : Cardinality({v \in Pending : v <= u}) <= Batch}
  /\ UNCHANGED <<conf, kind, tg, started, fetched, toTell, tasks, outcome, ports, open, left>>

\* The offset after the last one drained confirms those, and no update that came meanwhile.
Settled(U) == [u \in Updates |-> IF u \in U THEN "confirmed" ELSE tg[u]]

\* Mutant: the offset skips whatever is pending by now.
ConfirmAll ==
  /\ At("confirm")
  /\ tg' = Settled(Pending)
  /\ toTell' = {u \in backlog : Private(u) /\ Authorised(u)}
  /\ Go("notices")
  /\ UNCHANGED <<conf, kind, started, fetched, backlog, tasks, outcome, ports, open, left>>

Confirm ==
  /\ At("confirm")
  /\ tg' = Settled(backlog)
  /\ toTell' = {u \in backlog : Private(u) /\ Authorised(u)}
  /\ Go("notices")
  /\ UNCHANGED <<conf, kind, started, fetched, backlog, tasks, outcome, ports, open, left>>

\* BACK_ONLINE_NOTICE to one chat; a chat that blocked the bot does not stop the rest.
Tell(u) ==
  /\ At("notices") /\ u \in toTell
  /\ toTell' = toTell \ {u}
  /\ outcome' = [outcome EXCEPT ![u] = "told"]
  /\ UNCHANGED <<conf, kind, tg, life, started, fetched, backlog, tasks, ports, open, left>>

Told ==
  /\ At("notices") /\ toTell = {}
  /\ backlog' = {}
  /\ Go("poll")
  /\ UNCHANGED <<conf, kind, tg, started, fetched, toTell, tasks, outcome, ports, open, left>>

StartPolling ==
  /\ At("poll")
  /\ started' = TRUE
  /\ Go("serving")
  /\ UNCHANGED <<conf, kind, tg, fetched, backlog, toTell, tasks, outcome, ports, open, left>>

\* The updater asks for the next update, and with it confirms the ones it had; every update is a
\* task of its own.
Poll(u) ==
  /\ At("serving") /\ started
  /\ u \in Pending \ fetched /\ \A v \in Pending \ fetched : u <= v
  /\ tg' = Settled(fetched)
  /\ fetched' = {u}
  /\ tasks' = tasks \cup {[u |-> u, life |-> life.n, what |-> "handler"]}
  /\ UNCHANGED <<conf, kind, life, started, backlog, toTell, outcome, ports, open, left>>

\* A handler ends: the turn of a private message and its answer; for a group, the message is in the
\* history and a flush sleeps, unless one does already.
HandlerEnds(t) ==
  /\ t \in tasks /\ t.what = "handler"
  /\ outcome' = IF Private(t.u) /\ Authorised(t.u) THEN [outcome EXCEPT ![t.u] = "run"] ELSE outcome
  /\ tasks' = (tasks \ {t}) \cup
              (IF kind[t.u] = "group" /\ ~\E f \in tasks : f.what = "flush" /\ f.life = t.life
               THEN {[u |-> t.u, life |-> t.life, what |-> "flush"]} ELSE {})
  /\ UNCHANGED <<conf, kind, tg, life, started, fetched, backlog, toTell, ports, open, left>>

\* The flush wakes up, runs the turn of its group and sends, if its bot still can.
FlushEnds(t) ==
  /\ t \in tasks /\ t.what = "flush"
  /\ tasks' = tasks \ {t}
  /\ outcome' = [u \in Updates |-> IF kind[u] = "group" /\ outcome[u] = "none" /\ tg[u] # "unsent"
                                      /\ (u \in fetched \/ tg[u] = "confirmed")
                                      /\ ~\E h \in tasks : h.what = "handler" /\ h.u = u
                                   THEN IF t.life \in open THEN "run" ELSE "lost"
                                   ELSE outcome[u]]
  /\ UNCHANGED <<conf, kind, tg, life, started, fetched, backlog, toTell, ports, open, left>>

\* A broadcast reaches whoever holds the port, or the client that is connected; in an autonomous
\* group it asks for a flush.
Broadcast(l) ==
  /\ left.lan < MaxLan
  /\ Triggers /\ l \in open /\ (Listens => l \in ports)
  /\ tasks' = IF \E f \in tasks : f.what = "flush" /\ f.life = l THEN tasks
              ELSE tasks \cup {[u |-> 0, life |-> l, what |-> "flush"]}
  /\ left' = [left EXCEPT !.lan = @ + 1]
  /\ UNCHANGED <<conf, kind, tg, life, started, fetched, backlog, toTell, outcome, ports, open>>

\* A signal, a config set or /reload, asked for by a handler that is still to answer, ends the
\* iteration.
Close ==
  /\ At("serving")
  /\ Go("closing")
  /\ UNCHANGED <<conf, kind, tg, started, fetched, backlog, toTell, tasks, outcome, ports, open, left>>

\* updater.stop(): no more updates are fetched, and the last ones are confirmed.
StopUpdater ==
  /\ At("closing")
  /\ tg' = Settled(fetched)
  /\ fetched' = {}
  /\ IF started THEN Go("draining") ELSE Go("closed")
  /\ UNCHANGED <<conf, kind, started, backlog, toTell, tasks, outcome, ports, open, left>>

\* app.stop() waits for the handlers, app.shutdown() closes the bot, and the LAN is stopped.
StopApp ==
  /\ At("draining")
  /\ Handlers(life.n) = {}
  /\ open' = open \ {life.n}
  /\ ports' = ports \ {life.n}
  /\ started' = FALSE
  /\ Go("closed")
  /\ UNCHANGED <<conf, kind, tg, fetched, backlog, toTell, tasks, outcome, left>>

\* The container was shut down: the next iteration of the same process.
Reload ==
  /\ At("closed") /\ life.n < MaxLives
  /\ life' = [n |-> life.n + 1, pc |-> "start"]
  /\ UNCHANGED <<conf, kind, tg, started, fetched, backlog, toTell, tasks, outcome, ports, open, left>>

\* The process dies: what it was doing is cut, the system frees the port.
Crash ==
  /\ left.crashes < MaxCrashes /\ life.n < MaxLives
  /\ life' = [n |-> life.n + 1, pc |-> "start"]
  /\ left' = [left EXCEPT !.crashes = @ + 1]
  /\ outcome' = [u \in Updates |->
       IF outcome[u] = "none" /\ (u \in toTell \/ \E t \in tasks : t.u = u /\ tg[u] = "confirmed")
       THEN "lost" ELSE outcome[u]]
  /\ started' = FALSE /\ fetched' = {} /\ backlog' = {} /\ toTell' = {} /\ tasks' = {}
  /\ ports' = {} /\ open' = {}
  /\ UNCHANGED <<conf, kind, tg>>

Init ==
  /\ conf \in Confs
  /\ kind \in [Updates -> {"private", "group", "stranger"}]
  /\ tg = [u \in Updates |-> "unsent"]
  /\ life = [n |-> 1, pc |-> "start"]
  /\ started = FALSE /\ fetched = {} /\ backlog = {} /\ toTell = {} /\ tasks = {}
  /\ outcome = [u \in Updates |-> "none"]
  /\ ports = {} /\ open = {}
  /\ left = [crashes |-> 0, lan |-> 0]

Next ==
  \/ \E u \in Updates : Arrive(u) \/ Tell(u) \/ Poll(u)
  \/ StartLan \/ StartApp \/ StartFails \/ Drain \/ Confirm \/ Told \/ StartPolling
  \/ \E t \in tasks : HandlerEnds(t) \/ FlushEnds(t)
  \/ \E l \in Lives : Broadcast(l)
  \/ Close \/ StopUpdater \/ StopApp \/ Reload \/ Crash

Spec == Init /\ [][Next]_vars

-----------------------------------------------------------------------------
\* Once the container of an iteration is down, no handler of its updates is running
\* (IChannel.stop, TelegramChannel.stop, runner._shutdown_iteration).
HandlersAreDrained ==
  (At("closed") \/ At("start")) => \A t \in tasks : t.what # "handler"

\* A private message Telegram will not give again is being read, was answered, or its chat is or
\* will be told to write again; only a crash may lose it (bot._announce_back_online).
ReadOrTold ==
  \A u \in Updates :
    tg[u] = "confirmed" /\ Private(u) =>
      outcome[u] # "none" \/ u \in toTell \/ \E t \in tasks : t.u = u

\* When a channel that was asked to stop has stopped, every turn in flight was delivered.
\* Promised, and not kept by the code: README, section 5.
TurnsAreDrained ==
  At("closed") => \A t \in tasks : t.life = life.n => life.n \in open
=============================================================================
