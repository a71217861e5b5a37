----------------------------- MODULE ToolRouting -----------------------------
(***************************************************************************)
(* Which tools a turn shows to the LLM (kernel/_turn_pipeline.py, the tool  *)
(* registry and the tool loop).                                            *)
(*                                                                         *)
(* With many tools registered a turn shows those its query selects, those  *)
(* of the last turns of the conversation (each with turns to live, kept in *)
(* agent_state) and the pinned ones.  During the turn the set grows: with  *)
(* what the messages in flight select, and with a tool the LLM calls by a  *)
(* name it does not see.  A tool that keeps failing is closed for the rest *)
(* of the turn.                                                            *)
(*                                                                         *)
(* The turns of people hold the slot of their conversation and those of    *)
(* tasks and notices the lock of the dispatcher: one of each may run at    *)
(* the same time, and each writes the state it read.  /clear comes when it *)
(* likes.  A query is the set of tools that is near it; skills follow the  *)
(* same rules without pins and additions.                                  *)
(***************************************************************************)
EXTENDS Integers, FiniteSets, FiniteSetsExt

CONSTANTS
  Tools,      \* registered tools
  Pinned,     \* tools.pinned
  Operator,   \* those that declare requires_operator
  TopK,       \* tools_top_k, also what the messages in flight may add in a turn
  Ttl,        \* tools_sticky_ttl
  Threshold,  \* circuit_breaker_threshold
  MaxTurns, MaxSteps  \* bounds: turns, and steps of the loop of a turn of each kind

RoutingAssumption ==
  /\ IsFiniteSet(Tools) /\ Pinned \subseteq Tools /\ Operator \subseteq Tools /\ Ttl \in Nat
  /\ TopK \in Nat \ {0} /\ Threshold \in Nat \ {0} /\ MaxTurns \in Nat
  /\ MaxSteps \in [{"inbound", "dispatch"} -> Nat]

VARIABLES
  many,    \* there are more tools than tools_min_tools
  sticky,  \* agent_state of the conversation: tool -> turns it has left, 0 for none
  turn,    \* the turn that runs for a person, and the one the dispatcher runs
  turns,   \* turns so far
  since    \* history: observed turns since the query of one selected the tool

vars == <<many, sticky, turn, turns, since>>

Turns == {"inbound", "dispatch"}
Nothing == [t \in Tools |-> 0]
Alive(s) == {t \in Tools : s[t] > 0}
Near == {R \in SUBSET Tools : Cardinality(R) <= TopK}
\* The overrides a task is saved with.
Overrides == {{}, Tools \ Pinned}

(***************************************************************************)
(* Routing                                                                 *)
(***************************************************************************)
\* Mutant: the counter is compared before it is decremented.
ApplyStickyLate(R, s) ==
  IF Ttl = 0 THEN Nothing
  ELSE [t \in Tools |-> IF t \in R THEN Ttl ELSE IF s[t] > 1 THEN s[t] - 1 ELSE s[t]]

ApplySticky(R, s) ==
  IF Ttl = 0 THEN Nothing
  ELSE [t \in Tools |-> IF t \in R THEN Ttl ELSE IF s[t] > 1 THEN s[t] - 1 ELSE 0]

\* A short message inherits; without anything to inherit it is routed like any other.
Bypassed(kind, inherits) == kind = "notice" \/ (kind = "short" /\ inherits)

\* What the turn shows and what it will save.  A notice that inherits nothing
\* shows the pinned tools only.
Outcome(kind, R, s) ==
  IF ~many THEN [show |-> Tools, next |-> s, dirty |-> FALSE]
  ELSE IF Bypassed(kind, Alive(s) # {}) THEN [show |-> Alive(s) \cup Pinned, next |-> s, dirty |-> FALSE]
  ELSE [show |-> R \cup Alive(ApplySticky(R, s)) \cup Pinned, next |-> ApplySticky(R, s), dirty |-> TRUE]

\* inspect runs its own copy of these rules.
Inspected(kind, R, s) ==
  IF ~many THEN Tools
  ELSE IF Bypassed(kind, Alive(s) # {}) THEN Alive(s)
  ELSE R

(***************************************************************************)
(* A turn                                                                  *)
(***************************************************************************)
NoTurn == [pc |-> "idle", kind |-> "none", given |-> FALSE, override |-> {}, operator |-> FALSE,
           skips |-> FALSE, ephemeral |-> FALSE, prev |-> Nothing, saw |-> Nothing, inherits |-> FALSE,
           saves |-> FALSE, next |-> Nothing, seen |-> Nothing, visible |-> {}, extra |-> {}, paged |-> {},
           used |-> 0, fails |-> Nothing, tripped |-> {}, bad |-> Nothing, steps |-> 0]

Init ==
  /\ many \in BOOLEAN
  /\ sticky = Nothing /\ turn = [w \in Turns |-> NoTurn] /\ turns = 0
  /\ since = [t \in Tools |-> Ttl]

Becomes(w, s) == turn' = [turn EXCEPT ![w] = s]
Turn(kind, operator, skips, ephemeral, given, override) ==
  [NoTurn EXCEPT !.pc = "routing", !.kind = kind, !.operator = operator, !.skips = skips,
                 !.ephemeral = ephemeral, !.given = given, !.override = override,
                 !.prev = sticky, !.saw = since]

Begins(w) == turn[w] = NoTurn /\ turns < MaxTurns /\ turns' = turns + 1 /\ UNCHANGED <<many, sticky, since>>

\* A message of a private chat or of a group, and one of the admin API that is not kept.
BeginInbound ==
  /\ Begins("inbound")
  /\ \E kind \in {"long", "short"} :
       \/ \E operator \in BOOLEAN, autonomous \in BOOLEAN :
            Becomes("inbound", Turn(kind, operator, autonomous, FALSE, FALSE, {}))
       \/ Becomes("inbound", Turn(kind, TRUE, FALSE, TRUE, FALSE, {}))

\* The notice of a child; a task, on its own or run by hand, with its override or none.
BeginDispatch ==
  /\ Begins("dispatch")
  /\ \/ Becomes("dispatch", Turn("notice", FALSE, TRUE, FALSE, FALSE, {}))
     \/ \E byHand \in BOOLEAN :
          \/ Becomes("dispatch", Turn("long", FALSE, TRUE, byHand, FALSE, {}))
          \/ \E override \in Overrides : Becomes("dispatch", Turn("long", FALSE, TRUE, byHand, TRUE, override))

Observed(R, saw) == [t \in Tools |-> IF t \in R THEN 0 ELSE Min({Ttl, saw[t] + 1})]
Showing(s, tools) ==
  [s EXCEPT !.pc = "loop", !.kind = "none", !.visible = tools, !.inherits = (Alive(s.prev) # {}),
            !.prev = Nothing, !.saw = Nothing]

\* The embedding of the query is awaited here.
Route(w) ==
  /\ turn[w].pc = "routing"
  /\ \E R \in Near :
       LET s == turn[w]
           o == IF s.given THEN [show |-> s.override, next |-> s.prev, dirty |-> FALSE]
                ELSE Outcome(s.kind, R, s.prev)
           saves == o.dirty /\ ~s.ephemeral
       IN Becomes(w, [Showing(s, o.show) EXCEPT !.saves = saves, !.next = IF saves THEN o.next ELSE Nothing,
                        !.seen = IF saves THEN Observed(R, s.saw) ELSE Nothing])
  /\ UNCHANGED <<many, sticky, turns, since>>

\* The provider of embeddings, or the LLM, fails: the turn is over.
TurnFails(w) ==
  /\ turn[w].pc \in {"routing", "loop"} /\ Becomes(w, NoTurn)
  /\ UNCHANGED <<many, sticky, turns, since>>

InLoop(w) == turn[w].pc = "loop" /\ turn[w].steps < MaxSteps[w]
Looped(w, s) == Becomes(w, [s EXCEPT !.steps = @ + 1]) /\ UNCHANGED <<many, sticky, turns, since>>

(***************************************************************************)
(* The set grows                                                           *)
(***************************************************************************)
Budget(s) == TopK - s.used

\* _reroute_tools_for_drain: none with an override, with few tools or after a
\* short message that has something to inherit; an embedding that fails adds none.
Rerouted(s, kind, R) == IF s.given \/ ~many \/ Bypassed(kind, s.inherits) THEN {} ELSE R

\* Messages in flight add what they select, in its order, until the budget is spent.
DrainInFlight(w) ==
  /\ InLoop(w)
  /\ \E kind \in {"long", "short"}, R \in Near :
       LET s == turn[w]
           fresh == Rerouted(s, kind, R) \ s.visible
           n == Min({Budget(s), Cardinality(fresh)})
       IN \E added \in {A \in SUBSET fresh : Cardinality(A) = n} :
            Looped(w, [s EXCEPT !.visible = @ \cup added, !.extra = @ \cup added, !.used = @ + n])

\* A tool that is called without being shown is shown from then on, except with
\* an override.
PageIn(s, t) == IF s.given THEN s.visible ELSE s.visible \cup {t}

(***************************************************************************)
(* Calls                                                                   *)
(***************************************************************************)
Count(fails, t, outcome) ==
  [fails EXCEPT ![t] = CASE outcome = "done" -> 0 [] outcome = "fails" -> @ + 1 [] OTHER -> @]

\* What came of a call: without the operator the call is refused before it runs, and
\* the refusal is a failure like any other; arguments that are missing may be retried.
Outcomes(s, t) == IF t \in Operator /\ ~s.operator THEN {"fails"} ELSE {"done", "fails", "retry"}

CallTool(w) ==
  /\ InLoop(w)
  /\ \E t \in Tools \ turn[w].tripped : \E outcome \in Outcomes(turn[w], t) :
       LET s == turn[w]  fails == Count(s.fails, t, outcome) IN
       Looped(w, [s EXCEPT !.visible = PageIn(s, t), !.paged = @ \cup {t}, !.fails = fails,
                    !.tripped = IF outcome = "fails" /\ fails[t] >= Threshold THEN @ \cup {t} ELSE @,
                    !.bad[t] = CASE outcome = "done" -> 0 [] outcome = "fails" -> @ + 1 [] OTHER -> @])

\* A call of a closed tool is answered without running it.
CallRefused(w) == InLoop(w) /\ turn[w].tripped # {} /\ Looped(w, turn[w])

\* The whole state of the conversation, over whatever was saved since it was read.
SaveState(s) == sticky' = s.next /\ since' = s.seen

(***************************************************************************)
(* The end of a turn                                                       *)
(***************************************************************************)
\* A turn that is not kept and an answer that is __SKIP__ save nothing.
End(w) ==
  /\ turn[w].pc = "loop" /\ Becomes(w, NoTurn)
  /\ \E skipped \in BOOLEAN :
       /\ skipped => turn[w].skips
       /\ IF turn[w].saves /\ ~skipped
          THEN SaveState(turn[w])
          ELSE UNCHANGED <<sticky, since>>
  /\ UNCHANGED <<many, turns>>

\* /clear deletes the state of the conversation, whatever runs.
ClearState ==
  /\ Alive(sticky) # {} /\ sticky' = Nothing /\ since' = [t \in Tools |-> Ttl]
  /\ UNCHANGED <<many, turn, turns>>

Next ==
  \/ BeginInbound \/ BeginDispatch \/ ClearState
  \/ \E w \in Turns : Route(w) \/ TurnFails(w) \/ DrainInFlight(w) \/ CallTool(w) \/ CallRefused(w) \/ End(w)

Spec == Init /\ [][Next]_vars

(***************************************************************************)
(* What is promised                                                        *)
(***************************************************************************)
\* What a query selects stays for Ttl turns with a query of their own, the one
\* that selected it included, and not one more.  Turns that inherit, skip, fail or
\* are run by hand do not count.  (A turn that /clear came into writes
\* what it read before: its copy goes on as if nothing had been cleared.)
StickyLastsTtl == \A t \in Tools : sticky[t] = Ttl - since[t]

\* The tools of a turn: an override is never added to, the pinned tools are always
\* there, messages in flight add no more than TopK in the whole turn, and a tool
\* that failed for good Threshold times since it last worked does not run again.
ToolsOfATurn ==
  \A w \in Turns :
    LET s == turn[w] IN
    s.pc = "loop" =>
      /\ s.given => s.visible = s.override
      /\ ~s.given => Pinned \subseteq s.visible /\ s.paged \subseteq s.visible
      /\ Cardinality(s.extra) <= TopK
      /\ \A t \in Tools : s.bad[t] <= Threshold

\* Turns of two kinds at a time, clears and messages in flight: what a query selected stays for
\* its turns, and a turn has the tools it must have and no more.
RoutingHolds == StickyLastsTtl /\ ToolsOfATurn

\* inspect shows the tools the next turn with that query would begin with, even
\* leaving the pinned ones aside.
\* Promised, and not kept by the code: README, section 5.
InspectShowsTheTurn ==
    \A kind \in {"long", "short"}, R \in Near :
        Inspected(kind, R, sticky) \ Pinned = Outcome(kind, R, sticky).show \ Pinned
===============================================================================
