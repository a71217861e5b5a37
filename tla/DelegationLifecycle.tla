------------------------- MODULE DelegationLifecycle -------------------------
(***************************************************************************)
(* What the background queue promises of each delegation, as its row shows *)
(* it: the nine statuses of kernel/domain/background_task.py, the moves    *)
(* between them, and the one time the parent hears the result.             *)
(***************************************************************************)
EXTENDS Naturals

CONSTANT Tasks

VARIABLES
  status,   \* the persisted status of each delegation, or "absent"
  told      \* how often the parent heard its result

vars == <<status, told>>

Final == {"delivered", "cancelled", "dismissed"}
Cut == {"queued", "running"}
Pending == {"awaiting_input", "delivery_failed", "interrupted"}
Statuses == Final \cup Cut \cup Pending \cup {"delivering", "absent"}

Move(t, from, to) ==
  /\ status[t] \in from
  /\ status' = [status EXCEPT ![t] = to]
  /\ UNCHANGED told

Register(t) == Move(t, {"absent"}, "queued")
Run(t) == Move(t, {"queued"}, "running")
Ask(t) == Move(t, {"running"}, "awaiting_input")
Answer(t) == Move(t, {"awaiting_input"}, "queued")
Finish(t) == Move(t, {"running"}, "delivering")
Cancel(t) == Move(t, Cut, "cancelled")
Dismiss(t) == Move(t, Pending, "dismissed")
Undelivered(t) == Move(t, {"delivering"}, "delivery_failed")

\* The parent's turn with the result, over a result that is on disk.
Tell(t) ==
  /\ status[t] = "delivering" /\ told[t] = 0
  /\ told' = [told EXCEPT ![t] = 1]
  /\ UNCHANGED status

Deliver(t) == told[t] = 1 /\ Move(t, {"delivering"}, "delivered")

\* A stop or a start closes what it finds cut, and a start may forget rows
\* by age.
Restart ==
  /\ status' \in {s \in [Tasks -> Statuses] : \A t \in Tasks :
       \/ s[t] = status[t]
       \/ status[t] \in Cut /\ s[t] \in {"interrupted", "absent"}
       \/ status[t] = "delivering" /\ s[t] = "delivery_failed"
       \/ status[t] \in Final \cup {"interrupted", "awaiting_input"}
            /\ s[t] = "absent"}
  /\ UNCHANGED told

Init == status = [t \in Tasks |-> "absent"] /\ told = [t \in Tasks |-> 0]

Next ==
  \/ \E t \in Tasks :
       \/ Register(t) \/ Run(t) \/ Ask(t) \/ Answer(t) \/ Finish(t)
       \/ Cancel(t) \/ Dismiss(t) \/ Undelivered(t) \/ Tell(t) \/ Deliver(t)
  \/ Restart

Safety == Init /\ [][Next]_vars
=============================================================================
