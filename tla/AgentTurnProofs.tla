--------------------------- MODULE AgentTurnProofs ---------------------------
(***************************************************************************)
(* Proofs about AgentTurn, for any messages and notices, any limits of the *)
(* tool loop and of the store, however many tools are called and however   *)
(* often somebody stops a turn, clears, trims or the process dies:         *)
(*                                                                         *)
(*   - the slot of the conversation and its stop belong to one turn        *)
(*     (SlotOfItsTurn);                                                    *)
(*   - a turn makes a bounded number of calls to the LLM (BoundedRounds);  *)
(*   - the history keeps what was said and nothing of a turn that skipped  *)
(*     (HistoryIsKept);                                                    *)
(*   - the provider is never sent a broken group of tool calls             *)
(*     (ProtocolIntact);                                                   *)
(*   - the LLM is shown every message of the history up to the cursor of   *)
(*     its turn, and once (HistoryIsSeen).                                 *)
(*                                                                         *)
(* The first three rest on Inv, which looks into no context.  The others   *)
(* add Contexts, and need to know what the two recursive functions of the  *)
(* module compute: the scan that drops the orphans and the messages since  *)
(* a cursor.  The induction over the length of the history is by its least *)
(* counterexample: see LeastOne.                                           *)
(***************************************************************************)
EXTENDS AgentTurn, FiniteSetTheorems, SequenceTheorems, WellFoundedInduction, TLAPS

(***************************************************************************)
(* The inductive invariant                                                 *)
(***************************************************************************)
Kinds == {"none", "notice", "message", "photo", "task"}
Places == {"new", "racing", "acked", "taken", "lost"}
Messages == [role : {"user", "assistant", "tool"}, msg : Everyone \cup {NoMsg},
             calls : SUBSET Nat, call : Nat]
Rows == [id : Nat, by : Everyone \cup {NoMsg}, m : Messages]

\* The fields of a turn; of those this invariant does not look into, only that they are there.
Shape(s) ==
  s \in [pc : Stages, kind : Kinds, own : Everyone \cup {NoMsg}, ctx : {s.ctx},
         cursor : {s.cursor}, from : {s.from}, base : {s.base},
         iter : 0 .. MaxIter, resets : 0 .. MaxResets, todo : Seq(Nat),
         cancelled : BOOLEAN, said : BOOLEAN, fails : {s.fails}, open : {s.open},
         trace : Seq(Messages), skip : BOOLEAN, rounds : Nat, stopped : BOOLEAN]

Typed ==
  /\ rows \in Seq(Rows) /\ lastId \in Nat /\ calls \in Nat
  /\ busy \in BOOLEAN /\ cancel \in BOOLEAN /\ (cancel => busy)
  /\ inbox \in [Everyone -> Places]
  /\ turn = [t \in Turns |-> turn[t]] /\ \A t \in Turns : Shape(turn[t])
  /\ skipped \subseteq Notices

\* Whose each turn is; a notice or a message is somebody's once.
Owned(t) ==
  /\ At(t, "idle") => turn[t] = NoTurn
  /\ ~At(t, "idle") =>
       /\ turn[t].own \in (IF t = "inbound" THEN Msgs ELSE Notices)
       /\ turn[t].kind \in (IF t = "inbound" THEN {"message", "photo", "task"} ELSE {"notice"})
       /\ inbox[turn[t].own] = "taken" /\ turn[t].own \notin skipped
  /\ turn[t].skip => At(t, "persist") /\ turn[t].kind = "notice"
Owners == \A t \in Turns : Owned(t)

\* The calls to the LLM a turn has made, by what is left to it.
Budget(s) ==
  /\ s.pc \in {"idle", "begin", "ready", "loaded"} => s.iter = 0 /\ s.resets = 0 /\ s.rounds = 0
  /\ s.pc = "top" => s.iter < MaxIter /\ s.rounds <= s.resets * MaxIter + s.iter
  /\ s.pc \in {"llm", "tools"} => s.iter < MaxIter /\ s.rounds <= s.resets * MaxIter + s.iter + 1
  /\ s.pc \in {"wrapup", "persist"} => s.rounds <= s.resets * MaxIter + MaxIter
Budgets == \A t \in Turns : Budget(turn[t])

RowSet == {rows[i] : i \in DOMAIN rows}
Kept == Recorded \cup erased

\* What a turn was asked is in the history from its baseline on; of a photo, before.
IsRecorded(s) ==
  \/ s.pc \in {"top", "llm", "tools", "wrapup", "persist"} /\ s.kind # "task"
  \/ s.pc \in {"ready", "loaded"} /\ s.kind = "photo"
Recordings ==
  /\ \A m \in Msgs : inbox[m] = "acked" => m \in Kept
  /\ \A t \in Turns : IsRecorded(turn[t]) => turn[t].own \in Kept

\* Until it answers, the turn of a notice leaves in the history what it was asked, no more.
Narrates(s) == s.pc = "persist" /\ ~s.skip
Traces ==
  \A r \in RowSet :
    /\ r.by # NoMsg => inbox[r.by] = "taken"
    /\ r.by \in skipped => r.m.role = "user"
    /\ r.by = turn["dispatch"].own /\ r.by # NoMsg /\ ~Narrates(turn["dispatch"])
         => r.m.role = "user"
Skipped == \A n \in skipped : inbox[n] = "taken"

Inv == Typed /\ SlotOfItsTurn /\ Owners /\ Budgets /\ Recordings /\ Traces /\ Skipped
-----------------------------------------------------------------------------
(***************************************************************************)
(* The history                                                             *)
(***************************************************************************)
LEMMA RecordedIs ==
  ASSUME rows \in Seq(Rows)
  PROVE  Recorded = {r.m.msg : r \in RowSet} \ {NoMsg}
BY DEF Recorded, MsgsOf, Plain, RowSet

LEMMA RecordedIsNext ==
  ASSUME rows' \in Seq(Rows)
  PROVE  Recorded' = {r.m.msg : r \in RowSet'} \ {NoMsg}
BY DEF Recorded, MsgsOf, Plain, RowSet

LEMMA RowIs == ASSUME rows \in Seq(Rows), NEW r \in RowSet PROVE r \in Rows
<1>1. PICK i \in DOMAIN rows : r = rows[i]
  BY DEF RowSet
<1> QED BY <1>1, LenProperties, ElementOfSeq

\* A row that is appended joins those that were there.
LEMMA AppendIsMore ==
  ASSUME Typed, NEW by \in Everyone \cup {NoMsg}, NEW m \in Messages, AppendRow(by, m)
  PROVE  /\ rows' \in Seq(Rows) /\ lastId' \in Nat
         /\ RowSet' = RowSet \cup {RowOf(lastId + 1, by, m)}
         /\ Recorded' = Recorded \cup ({m.msg} \ {NoMsg})
<1> DEFINE r == RowOf(lastId + 1, by, m)
<1>1. r \in Rows /\ r.by = by /\ r.m = m
  BY DEF RowOf, Rows, Typed
<1>2. rows \in Seq(Rows) /\ rows' = Append(rows, r) /\ lastId' = lastId + 1
  BY DEF AppendRow, Typed
<1> HIDE DEF r
<1>3. /\ rows' \in Seq(Rows) /\ Len(rows') = Len(rows) + 1
      /\ \A i \in 1 .. Len(rows) : rows'[i] = rows[i]
      /\ rows'[Len(rows) + 1] = r
  BY <1>1, <1>2, AppendProperties
<1>4. DOMAIN rows = 1 .. Len(rows) /\ DOMAIN rows' = 1 .. Len(rows) + 1 /\ Len(rows) \in Nat
  BY <1>2, <1>3, LenProperties
<1>5. RowSet' = RowSet \cup {r}
  <2>1. RowSet' \subseteq RowSet \cup {r}
    BY <1>3, <1>4 DEF RowSet
  <2>2. RowSet \subseteq RowSet'
    BY <1>3, <1>4 DEF RowSet
  <2>3. r \in RowSet'
    BY <1>3, <1>4 DEF RowSet
  <2> QED BY <2>1, <2>2, <2>3
<1>6. Recorded' = Recorded \cup ({m.msg} \ {NoMsg})
  BY <1>1, <1>2, <1>3, <1>5, RecordedIs, RecordedIsNext
<1> QED BY <1>2, <1>3, <1>5, <1>6 DEF r, Typed

\* The end of the history is made of rows of it.
LEMMA FromIsPart ==
  ASSUME rows \in Seq(Rows), NEW id
  PROVE  From(id) \in Seq(Rows) /\ \A i \in DOMAIN From(id) : From(id)[i] \in RowSet
<1> DEFINE before == {i \in DOMAIN rows : rows[i].id < id}
           k == Cardinality(before) + 1
<1>1. DOMAIN rows = 1 .. Len(rows) /\ Len(rows) \in Nat
  BY LenProperties
<1>2. IsFiniteSet(before) /\ Cardinality(before) \in Nat
  <2>1. IsFiniteSet(1 .. Len(rows)) /\ before \in SUBSET (1 .. Len(rows))
    BY <1>1, FS_Interval
  <2> QED BY <2>1, FS_Subset, FS_CardinalityType
<1>3. k \in Nat /\ k >= 1
  BY <1>2
<1>4. From(id) = SubSeq(rows, k, Len(rows))
  BY DEF From
<1> HIDE DEF k
<1>5. \A i \in k .. Len(rows) : rows[i] \in Rows /\ rows[i] \in RowSet
  BY <1>1, <1>3, ElementOfSeq DEF RowSet
<1>6. From(id) \in Seq(RowSet)
  BY <1>1, <1>3, <1>4, <1>5, SubSeqProperties
<1>7. From(id) \in Seq(Rows)
  BY <1>1, <1>3, <1>4, <1>5, SubSeqProperties
<1>8. \A i \in DOMAIN From(id) : From(id)[i] \in RowSet
  BY <1>6, LenProperties, ElementOfSeq
<1> QED BY <1>7, <1>8

\* What is erased was recorded, and stays known.
LEMMA EraseKeeps ==
  ASSUME Typed, NEW kept \in Seq(Rows), \A i \in DOMAIN kept : kept[i] \in RowSet, Erase(kept)
  PROVE  rows' \in Seq(Rows) /\ RowSet' \subseteq RowSet /\ Kept \subseteq Kept'
<1>1. rows' = kept /\ erased' = erased \cup (Recorded \ MsgsOf(Plain(kept)))
  BY DEF Erase
<1>2. Recorded' = MsgsOf(Plain(kept))
  BY <1>1 DEF Recorded
<1> QED BY <1>1, <1>2 DEF RowSet, Kept
-----------------------------------------------------------------------------
(***************************************************************************)
(* Every step keeps the invariant                                          *)
(***************************************************************************)
LEMMA NoTurnShape == ASSUME TurnAssumption PROVE Shape(NoTurn)
BY DEF Shape, NoTurn, TurnAssumption, Stages, Kinds

\* The budget of a turn that is renewed grows by one round of iterations, up to the bound.
LEMMA BudgetArithmetic ==
  ASSUME TurnAssumption
  PROVE  /\ \A n \in Nat : n * MaxIter \in Nat /\ (n + 1) * MaxIter = n * MaxIter + MaxIter
         /\ \A n \in 0 .. MaxResets : n * MaxIter + MaxIter <= MaxIter * (MaxResets + 1)
<1>1. MaxIter \in Nat /\ MaxIter >= 1 /\ MaxResets \in Nat
  BY DEF TurnAssumption
<1>2. \A n \in Nat : n * MaxIter \in Nat /\ (n + 1) * MaxIter = n * MaxIter + MaxIter
  BY <1>1
<1>3. ASSUME NEW n \in 0 .. MaxResets PROVE n * MaxIter + MaxIter <= MaxIter * (MaxResets + 1)
  <2>1. MaxIter * (MaxResets + 1) = n * MaxIter + MaxIter + (MaxResets - n) * MaxIter
    BY <1>1
  <2>2. (MaxResets - n) * MaxIter >= 0
    BY <1>1
  <2> QED BY <1>1, <2>1, <2>2
<1> QED BY <1>2, <1>3

\* A step of a turn, by what it does to it, to its slot and to the history.
Goes(t, new) ==
  /\ Shape(new) /\ Budget(new) /\ Go(t, new)
  /\ \/ new = NoTurn
     \/ /\ new.pc # "idle" /\ new.own = turn[t].own /\ new.kind = turn[t].kind
        /\ new.stopped = turn[t].stopped /\ (new.cancelled => turn[t].cancelled \/ cancel)
        /\ new.skip => new.pc = "persist" /\ new.kind = "notice"
  /\ IF new = NoTurn /\ t = "inbound" THEN MarkIdle ELSE UNCHANGED <<busy, cancel>>
Writes(t, new) ==
  /\ rows' \in Seq(Rows) /\ lastId' \in Nat /\ calls' \in Nat
  /\ Kept \subseteq Kept'
  /\ IsRecorded(new) => IsRecorded(turn[t]) \/ new.own \in Kept'
  /\ Narrates(turn[t]) => new = NoTurn \/ Narrates(new)
  /\ \A r \in RowSet' : \/ r \in RowSet \/ r.by = NoMsg
                        \/ /\ r.by = turn[t].own
                           /\ t = "inbound" \/ r.m.role = "user" \/ Narrates(turn[t])
  /\ \/ skipped' = skipped
     \/ /\ skipped' = skipped \cup {turn[t].own}
        /\ new = NoTurn /\ t = "dispatch" /\ turn[t].skip

LEMMA NoTurnIs ==
  ASSUME TurnAssumption
  PROVE  /\ NoTurn.pc = "idle" /\ NoTurn.own = NoMsg /\ NoTurn.kind = "none" /\ ~NoTurn.skip
         /\ ~NoTurn.stopped /\ ~NoTurn.cancelled /\ ~IsRecorded(NoTurn) /\ Budget(NoTurn)
         /\ Shape(NoTurn)
BY NoTurnShape DEF NoTurn, IsRecorded, Budget

LEMMA TurnStepKeeps ==
  ASSUME TurnAssumption, Inv, NEW t \in Turns, ~At(t, "idle"), NEW new, Goes(t, new),
         Writes(t, new), inbox' = inbox
  PROVE  Inv'
<1>1. turn'[t] = new /\ turn' = [u \in Turns |-> turn'[u]] /\ \A u \in Turns \ {t} : turn'[u] = turn[u]
  BY DEF Goes, Go, Inv, Typed
<1>2. /\ Owned(t) /\ turn[t].own \in (IF t = "inbound" THEN Msgs ELSE Notices)
      /\ turn[t].own # NoMsg /\ inbox[turn[t].own] = "taken" /\ turn[t].own \notin skipped
      /\ turn[t].own \in Everyone
  BY DEF Inv, Owners, Owned, TurnAssumption, Everyone
<1>3. "inbound" \in Turns /\ "dispatch" \in Turns /\ \A u \in Turns : u = "inbound" \/ u = "dispatch"
  BY DEF Turns
<1>4. Typed'
  <2>1. \A u \in Turns : Shape(turn'[u])
    BY <1>1 DEF Goes, Inv, Typed
  <2>2. skipped' \subseteq Notices
    BY <1>2 DEF Writes, Inv, Typed
  <2>3. busy' \in BOOLEAN /\ cancel' \in BOOLEAN /\ (cancel' => busy')
    BY DEF Goes, MarkIdle, Inv, Typed
  <2> QED BY <1>1, <2>1, <2>2, <2>3 DEF Writes, Inv, Typed
<1>5. SlotOfItsTurn'
  <2>1. CASE t = "inbound" /\ new = NoTurn
    BY <1>1, <1>3, <2>1, NoTurnIs DEF Goes, MarkIdle, SlotOfItsTurn, SlotHeldByATurn, StopReachesItsTurn, At
  <2>2. CASE t = "inbound" /\ new # NoTurn
    BY <1>1, <1>3, <2>2 DEF Goes, Inv, SlotOfItsTurn, SlotHeldByATurn, StopReachesItsTurn, At
  <2>3. CASE t = "dispatch"
    BY <1>1, <1>3, <2>3 DEF Goes, Inv, SlotOfItsTurn, SlotHeldByATurn, StopReachesItsTurn, At
  <2> QED BY <1>3, <2>1, <2>2, <2>3
<1>6. Owners'
  <2>1. ASSUME NEW u \in Turns, u # t PROVE Owned(u)'
    <3>1. turn'[u] = turn[u] /\ Owned(u)
      BY <1>1, <2>1 DEF Inv, Owners
    <3>2. turn[u].own \in (IF u = "inbound" THEN Msgs ELSE Notices) => turn[u].own # turn[t].own
      BY <1>2, <1>3, <2>1 DEF TurnAssumption
    <3> QED BY <3>1, <3>2 DEF Owned, At, Writes
  <2>2. CASE new = NoTurn
    BY <1>1, <2>1, <2>2, NoTurnIs DEF Owners, Owned, At
  <2>3. CASE new # NoTurn
    BY <1>1, <1>2, <2>1, <2>3 DEF Owners, Owned, At, Goes, Writes
  <2> QED BY <2>2, <2>3
<1>7. Budgets'
  BY <1>1 DEF Budgets, Goes, Inv
<1>8. Recordings'
  <2>1. IsRecorded(new) => new.own \in Kept'
    BY NoTurnIs DEF Writes, Goes, Inv, Recordings
  <2> QED BY <1>1, <2>1 DEF Inv, Recordings, Writes
<1>9. Traces'
  <2> SUFFICES ASSUME NEW r \in RowSet'
               PROVE  /\ r.by # NoMsg => inbox'[r.by] = "taken"
                      /\ r.by \in skipped' => r.m.role = "user"
                      /\ r.by = turn'["dispatch"].own /\ r.by # NoMsg /\ ~Narrates(turn'["dispatch"])
                           => r.m.role = "user"
    BY DEF Traces
  <2>1. NoMsg \notin skipped /\ NoMsg \notin skipped'
    BY <1>2 DEF Writes, Inv, Typed, TurnAssumption
  <2>2. turn["dispatch"].own \in Notices \cup {NoMsg} /\ turn'["dispatch"].own \in Notices \cup {NoMsg}
    BY <1>1, <1>2, <1>3, <1>6, NoTurnIs DEF Owners, Owned, At, Inv
  <2>3. t = "dispatch" /\ turn[t].skip => ~Narrates(turn[t])
    BY DEF Narrates
  <2>4. t = "dispatch" => (turn'["dispatch"].own \in {NoMsg, turn[t].own}
                            /\ (turn'["dispatch"].own # NoMsg /\ Narrates(turn[t]) => Narrates(turn'["dispatch"])))
    BY <1>1, NoTurnIs DEF Goes, Writes
  <2>5. CASE r.by = NoMsg
    BY <2>1, <2>5
  <2>6. CASE r \in RowSet
    <3>1. /\ r.by # NoMsg => inbox[r.by] = "taken"
          /\ r.by \in skipped => r.m.role = "user"
          /\ r.by = turn["dispatch"].own /\ r.by # NoMsg /\ ~Narrates(turn["dispatch"])
               => r.m.role = "user"
      BY <2>6 DEF Inv, Traces
    <3>2. CASE t = "dispatch"
      BY <2>1, <2>3, <2>4, <3>1, <3>2 DEF Writes
    <3>3. CASE t = "inbound"
      BY <1>1, <1>3, <3>1, <3>3 DEF Writes
    <3> QED BY <1>3, <3>2, <3>3
  <2>7. CASE r.by = turn[t].own /\ (t = "inbound" \/ r.m.role = "user" \/ Narrates(turn[t]))
    <3>1. inbox'[r.by] = "taken"
      BY <1>2, <2>7
    <3>2. CASE t = "inbound"
      <4>1. r.by \notin Notices /\ r.by # NoMsg
        BY <1>2, <2>7, <3>2 DEF TurnAssumption
      <4> QED BY <2>2, <3>1, <3>2, <4>1 DEF Writes, Inv, Typed
    <3>3. CASE t = "dispatch" /\ Narrates(turn[t])
      BY <1>2, <2>3, <2>4, <2>7, <3>1, <3>3 DEF Writes
    <3> QED BY <1>3, <2>7, <3>1, <3>2, <3>3
  <2> QED BY <2>5, <2>6, <2>7 DEF Writes
<1>10. Skipped'
  BY <1>2 DEF Skipped, Writes, Inv
<1> QED BY <1>4, <1>5, <1>6, <1>7, <1>8, <1>9, <1>10 DEF Inv

\* A step that leaves the history and what was skipped alone.
LEMMA NoRowWrites ==
  ASSUME Inv, NEW t \in Turns, NEW new, NoRow, calls' \in Nat, UNCHANGED <<erased, skipped>>,
         IsRecorded(new) => IsRecorded(turn[t]) \/ new.own \in Kept,
         Narrates(turn[t]) => new = NoTurn \/ Narrates(new)
  PROVE  Writes(t, new)
<1>1. rows' = rows /\ lastId' = lastId
  BY DEF NoRow
<1>2. RowSet' = RowSet /\ Kept' = Kept
  BY <1>1 DEF RowSet, Kept, Recorded
<1> QED BY <1>1, <1>2 DEF Writes, Inv, Typed

\* A step that appends a row of the turn, or of a tool it runs.
LEMMA RowWrites ==
  ASSUME TurnAssumption, Inv, NEW t \in Turns, NEW new, NEW by \in {NoMsg, turn[t].own},
         NEW m \in Messages, AppendRow(by, m), ~At(t, "idle"), calls' \in Nat,
         UNCHANGED <<erased, skipped>>,
         by = NoMsg \/ t = "inbound" \/ m.role = "user" \/ Narrates(turn[t]),
         IsRecorded(new) => IsRecorded(turn[t]) \/ new.own \in Kept \cup {m.msg},
         IsRecorded(new) => new.own # NoMsg,
         Narrates(turn[t]) => new = NoTurn \/ Narrates(new)
  PROVE  Writes(t, new)
<1>1. by \in Everyone \cup {NoMsg}
  BY DEF Inv, Typed, Shape
<1>2. /\ rows' \in Seq(Rows) /\ lastId' \in Nat
      /\ RowSet' = RowSet \cup {RowOf(lastId + 1, by, m)}
      /\ Recorded' = Recorded \cup ({m.msg} \ {NoMsg})
  BY <1>1, AppendIsMore DEF Inv
<1>3. Kept' = Kept \cup ({m.msg} \ {NoMsg})
  BY <1>2 DEF Kept
<1>4. RowOf(lastId + 1, by, m).by = by /\ RowOf(lastId + 1, by, m).m = m
  BY DEF RowOf
<1> QED BY <1>2, <1>3, <1>4 DEF Writes
-----------------------------------------------------------------------------
(***************************************************************************)
(* The accounting of the tool loop                                         *)
(***************************************************************************)
LEMMA DrainIs ==
  ASSUME NEW s, Shape(s)
  PROVE  /\ Shape(Drain(s))
         /\ \A f \in {"pc", "kind", "own", "iter", "resets", "cancelled", "said", "skip", "rounds",
                      "stopped"} : Drain(s)[f] = s[f]
BY DEF Drain, Shape

LEMMA AccountIs ==
  ASSUME TurnAssumption, NEW s, Shape(s)
  PROVE  /\ Shape(Account(s))
         /\ \A f \in {"pc", "kind", "own", "cancelled", "said", "skip", "rounds", "stopped"} :
              Account(s)[f] = s[f]
         /\ \/ Account(s) = s
            \/ /\ Renews(s)
               /\ Account(s).iter = 0 /\ Account(s).resets = s.resets + 1
<1>1. CASE Renews(s)
  <2>1. Account(s) = [s EXCEPT !.iter = 0, !.resets = @ + 1]
    BY <1>1 DEF Account
  <2>2. s.resets + 1 \in 0 .. MaxResets /\ 0 \in 0 .. MaxIter
    BY <1>1 DEF Renews, Shape, TurnAssumption
  <2> QED BY <1>1, <2>1, <2>2 DEF Shape
<1>2. CASE ~Renews(s)
  BY <1>2 DEF Account
<1> QED BY <1>1, <1>2

\* The end of an iteration that was still within its budget.
LEMMA IterateIs ==
  ASSUME TurnAssumption, NEW s, Shape(s), s.iter < MaxIter,
         s.rounds <= s.resets * MaxIter + s.iter + 1
  PROVE  /\ Shape(Iterate(s)) /\ Budget(Iterate(s))
         /\ Iterate(s).pc \in {"top", "persist", "wrapup"}
         /\ \A f \in {"kind", "own", "cancelled", "skip", "stopped"} : Iterate(s)[f] = s[f]
<1> DEFINE n == Advance(s)
<1>1. /\ Shape(n)
      /\ \A f \in {"pc", "kind", "own", "cancelled", "said", "skip", "rounds", "stopped"} : n[f] = s[f]
      /\ \/ n.iter = 0 /\ n.resets = s.resets + 1
         \/ n.iter = s.iter + 1 /\ n.resets = s.resets
  <2>1. CASE Renews(s)
    <3>1. n = Drain(Account(s))
      BY <2>1 DEF Advance
    <3>2. Account(s).iter = 0 /\ Account(s).resets = s.resets + 1
      BY <2>1 DEF Account, Shape
    <3> QED BY <3>1, <3>2, AccountIs, DrainIs
  <2>2. CASE ~Renews(s)
    <3>1. n = [Drain(s) EXCEPT !.iter = @ + 1]
      BY <2>2 DEF Advance
    <3>2. s.iter + 1 \in 0 .. MaxIter
      BY SMTT(30) DEF Shape, TurnAssumption
    <3> DEFINE d == Drain(s)
    <3>3. Shape(d) /\ \A f \in {"pc", "kind", "own", "iter", "resets", "cancelled", "said",
                               "skip", "rounds", "stopped"} : d[f] = s[f]
      BY DrainIs
    <3>4. n = [d EXCEPT !.iter = d.iter + 1] /\ d.iter = s.iter
      BY <3>1, <3>3
    <3> HIDE DEF d, n
    <3> QED BY <3>2, <3>3, <3>4 DEF Shape
  <2> QED BY <2>1, <2>2
<1> HIDE DEF n
<1>2. n.rounds <= n.resets * MaxIter + n.iter /\ n.iter <= MaxIter
  <2>1. s.resets \in Nat /\ s.iter \in Nat /\ s.rounds \in Nat /\ MaxIter \in Nat
    BY DEF Shape, TurnAssumption
  <2>2. s.resets * MaxIter \in Nat /\ (s.resets + 1) * MaxIter = s.resets * MaxIter + MaxIter
    BY <2>1, BudgetArithmetic
  <2> QED BY <1>1, <2>1, <2>2
<1>3. Iterate(s) = [n EXCEPT !.pc = IF n.iter < MaxIter THEN "top"
                                    ELSE IF n.said THEN "persist" ELSE "wrapup"]
  BY DEF Iterate, n
<1>4. n.iter \in Nat /\ n.resets \in Nat /\ MaxIter \in Nat
  BY <1>1 DEF Shape, TurnAssumption
<1>5. n.resets * MaxIter \in Nat
  BY <1>4, BudgetArithmetic
<1>6. Shape(Iterate(s))
  BY <1>1, <1>3 DEF Shape, Stages
<1>7. /\ Iterate(s).pc \in {"top", "persist", "wrapup"}
      /\ \A f \in {"kind", "own", "cancelled", "skip", "stopped"} : Iterate(s)[f] = s[f]
      /\ Iterate(s).iter = n.iter /\ Iterate(s).resets = n.resets /\ Iterate(s).rounds = n.rounds
      /\ Iterate(s).pc = "top" <=> n.iter < MaxIter
  BY <1>1, <1>3 DEF Shape
<1>8. n.rounds \in Nat
  BY <1>1 DEF Shape
<1>9. Budget(Iterate(s))
  BY <1>2, <1>4, <1>5, <1>7, <1>8 DEF Budget
<1> QED BY <1>6, <1>7, <1>9
-----------------------------------------------------------------------------
(***************************************************************************)
(* The steps of a turn, one by one                                         *)
(***************************************************************************)
LEMMA MessageKinds ==
  ASSUME TurnAssumption
  PROVE  /\ \A m \in Everyone : User(m) \in Messages /\ User(m).role = "user" /\ User(m).msg = m
         /\ Text \in Messages
         /\ \A S \in SUBSET Nat : Asks(S) \in Messages
         /\ \A c \in Nat : Result(c) \in Messages
BY DEF Messages, User, Text, Asks, Result

LEMMA Running ==
  ASSUME TurnAssumption, Inv, NEW t \in Turns, ~At(t, "idle")
  PROVE  /\ Shape(turn[t]) /\ Budget(turn[t])
         /\ turn[t].own \in Everyone /\ turn[t].own # NoMsg
         /\ turn[t].kind \in {"message", "photo", "task", "notice"}
         /\ turn[t].kind = "notice" <=> t = "dispatch"
         /\ turn[t].skip => At(t, "persist") /\ turn[t].kind = "notice"
         /\ t = "inbound" \/ t = "dispatch"
BY DEF Inv, Typed, Owners, Owned, Budgets, Everyone, TurnAssumption, Turns

LEMMA RecordPhotoKeeps ==
  ASSUME TurnAssumption, Inv, NEW t \in Turns, RecordPhoto(t)
  PROVE  Inv'
<1> DEFINE s == turn[t]
           new == [s EXCEPT !.pc = "ready"]
<1>1. /\ At(t, "begin") /\ s.kind = "photo" /\ AppendRow(s.own, User(s.own)) /\ Go(t, new)
      /\ UNCHANGED <<busy, cancel, inbox, calls, erased, skipped>>
  BY DEF RecordPhoto
<1>2. ~At(t, "idle")
  BY <1>1 DEF At
<1>3. /\ Shape(s) /\ Budget(s) /\ s.own \in Everyone /\ s.own # NoMsg /\ t = "inbound"
      /\ s.skip => s.pc = "persist"
  BY <1>1, <1>2, Running DEF At
<1>4. /\ Shape(new) /\ new.pc = "ready"
      /\ \A f \in {"kind", "own", "iter", "resets", "cancelled", "skip", "rounds", "stopped"} :
           new[f] = s[f]
  BY <1>3, ZenonT(60) DEF Shape, Stages
<1> HIDE DEF new
<1>5. Goes(t, new)
  BY <1>1, <1>3, <1>4, NoTurnIs DEF Goes, Budget, At
<1>6. User(s.own) \in Messages /\ User(s.own).msg = s.own
  BY <1>3, MessageKinds
<1>7. ~Narrates(s)
  BY <1>1 DEF Narrates, At
<1>8. Writes(t, new)
  BY <1>1, <1>2, <1>3, <1>4, <1>6, <1>7, RowWrites DEF Inv, Typed
<1> QED BY <1>1, <1>2, <1>5, <1>8, TurnStepKeeps

LEMMA LoadHistoryKeeps ==
  ASSUME TurnAssumption, Inv, NEW t \in Turns, LoadHistory(t)
  PROVE  Inv'
<1> DEFINE s == turn[t]
           ctx == Loaded
           new == [s EXCEPT !.pc = "loaded", !.from = lastId, !.ctx = Assembled(t, ctx)]
<1>1. /\ IF s.kind = "photo" THEN At(t, "ready") ELSE At(t, "begin")
      /\ UNCHANGED <<rows, lastId, inbox, calls, erased, skipped>>
      /\ EndTurn(t) \/ (Go(t, new) /\ UNCHANGED <<busy, cancel>>)
  BY DEF LoadHistory
<1>2. ~At(t, "idle")
  BY <1>1 DEF At
<1>3. Shape(s) /\ Budget(s) /\ s.own # NoMsg /\ (s.skip => s.pc = "persist")
  BY <1>2, Running DEF At
<1>4. /\ Shape(new) /\ new.pc = "loaded"
      /\ \A f \in {"kind", "own", "iter", "resets", "cancelled", "skip", "rounds", "stopped"} :
           new[f] = s[f]
  BY <1>3 DEF Shape, Stages
<1> HIDE DEF new
<1>5. ~Narrates(s) /\ NoRow /\ calls' \in Nat
  BY <1>1 DEF Narrates, At, NoRow, Inv, Typed
<1>6. CASE EndTurn(t)
  <2>1. Goes(t, NoTurn)
    BY <1>6, NoTurnIs DEF Goes, EndTurn
  <2>2. Writes(t, NoTurn)
    BY <1>1, <1>5, NoTurnIs, NoRowWrites
  <2> QED BY <1>1, <1>2, <2>1, <2>2, TurnStepKeeps
<1>7. CASE Go(t, new) /\ UNCHANGED <<busy, cancel>>
  <2>1. Goes(t, new)
    BY <1>1, <1>3, <1>4, <1>7, NoTurnIs DEF Goes, Budget, At
  <2>2. IsRecorded(new) => IsRecorded(s)
    BY <1>1, <1>4 DEF IsRecorded, At
  <2>3. Writes(t, new)
    BY <1>1, <1>5, <2>2, NoRowWrites
  <2> QED BY <1>1, <1>2, <2>1, <2>3, TurnStepKeeps
<1> QED BY <1>1, <1>6, <1>7

LEMMA BaselineKeeps ==
  ASSUME TurnAssumption, Inv, NEW t \in Turns, Baseline(t)
  PROVE  Inv'
<1> DEFINE s == turn[t]
           written == [s EXCEPT !.pc = "top", !.cursor = lastId + 1, !.base = lastId + 1]
           read == [s EXCEPT !.pc = "top", !.cursor = LastRowId, !.base = LastRowId]
<1>1. /\ At(t, "loaded")
      /\ UNCHANGED <<busy, cancel, inbox, calls, erased, skipped>>
      /\ \/ AppendRow(s.own, User(s.own)) /\ Go(t, written)
         \/ s.kind \notin {"message", "notice"} /\ NoRow /\ Go(t, read)
  BY DEF Baseline
<1>2. ~At(t, "idle") /\ ~Narrates(s) /\ calls' \in Nat
  BY <1>1 DEF At, Narrates, Inv, Typed
<1>3. /\ Shape(s) /\ Budget(s) /\ s.own \in Everyone /\ s.own # NoMsg
      /\ s.kind \in {"message", "photo", "task", "notice"}
      /\ s.skip => s.pc = "persist"
  BY <1>1, <1>2, Running DEF At
<1>4. \A new \in {written, read} :
        /\ Shape(new) /\ new.pc = "top"
        /\ \A f \in {"kind", "own", "iter", "resets", "cancelled", "skip", "rounds", "stopped"} :
             new[f] = s[f]
  <2>1. /\ Shape(written) /\ written.pc = "top"
        /\ \A f \in {"kind", "own", "iter", "resets", "cancelled", "skip", "rounds", "stopped"} :
             written[f] = s[f]
    BY <1>3 DEF Shape, Stages
  <2>2. /\ Shape(read) /\ read.pc = "top"
        /\ \A f \in {"kind", "own", "iter", "resets", "cancelled", "skip", "rounds", "stopped"} :
             read[f] = s[f]
    BY <1>3 DEF Shape, Stages
  <2> QED BY <2>1, <2>2
<1> HIDE DEF written, read
<1>5. MaxIter \in Nat \ {0} /\ 0 * MaxIter = 0
  BY DEF TurnAssumption
<1>6. \A new \in {written, read} : Budget(new)
  BY <1>1, <1>3, <1>4, <1>5 DEF Budget, At
<1>7. \A new \in {written, read} : Go(t, new) => Goes(t, new)
  BY <1>1, <1>3, <1>4, <1>6, NoTurnIs DEF Goes, At
<1>8. CASE AppendRow(s.own, User(s.own)) /\ Go(t, written)
  <2>1. User(s.own) \in Messages /\ User(s.own).role = "user" /\ User(s.own).msg = s.own
    BY <1>3, MessageKinds
  <2>2. Writes(t, written)
    BY <1>1, <1>2, <1>3, <1>4, <1>8, <2>1, RowWrites
  <2> QED BY <1>1, <1>2, <1>7, <1>8, <2>2, TurnStepKeeps
<1>9. CASE s.kind \notin {"message", "notice"} /\ NoRow /\ Go(t, read)
  <2>1. IsRecorded(read) => IsRecorded(s)
    BY <1>1, <1>3, <1>4, <1>9 DEF IsRecorded, At
  <2>2. Writes(t, read)
    BY <1>1, <1>2, <1>9, <2>1, NoRowWrites
  <2> QED BY <1>1, <1>2, <1>7, <1>9, <2>2, TurnStepKeeps
<1> QED BY <1>1, <1>8, <1>9

LEMMA CheckpointAKeeps ==
  ASSUME TurnAssumption, Inv, NEW t \in Turns, CheckpointA(t)
  PROVE  Inv'
<1> DEFINE s == turn[t]
           d == Drain(Account(s))
           stop == [d EXCEPT !.pc = "wrapup", !.cancelled = TRUE]
           call == [d EXCEPT !.pc = "llm", !.rounds = @ + 1]
<1>1. /\ At(t, "top") /\ NoRow
      /\ UNCHANGED <<busy, cancel, inbox, calls, erased, skipped>>
      /\ (cancel /\ Go(t, stop)) \/ Go(t, call)
  BY DEF CheckpointA, NoRow
<1>2. ~At(t, "idle") /\ ~Narrates(s) /\ calls' \in Nat
  BY <1>1 DEF At, Narrates, Inv, Typed
<1>3. Shape(s) /\ Budget(s) /\ (s.skip => s.pc = "persist")
  BY <1>1, <1>2, Running DEF At
<1>4. /\ Shape(d)
      /\ \A f \in {"pc", "kind", "own", "cancelled", "said", "skip", "rounds", "stopped"} :
           d[f] = s[f]
      /\ \/ d.iter = s.iter /\ d.resets = s.resets
         \/ d.iter = 0 /\ d.resets = s.resets + 1
  BY <1>3, AccountIs, DrainIs
<1> HIDE DEF d
<1>5. /\ s.iter \in Nat /\ s.resets \in Nat /\ s.rounds \in Nat /\ s.iter < MaxIter
      /\ s.rounds <= s.resets * MaxIter + s.iter /\ MaxIter \in Nat \ {0}
  BY <1>1, <1>3 DEF Shape, Budget, At, TurnAssumption
<1>6. /\ s.resets * MaxIter \in Nat /\ (s.resets + 1) * MaxIter = s.resets * MaxIter + MaxIter
  BY <1>5, BudgetArithmetic
<1>7. d.iter < MaxIter /\ d.rounds \in Nat /\ d.rounds <= d.resets * MaxIter + d.iter
  BY <1>4, <1>5, <1>6
<1>8. d.resets * MaxIter \in Nat /\ d.iter \in Nat
  BY <1>4, BudgetArithmetic DEF Shape
<1>9. /\ Shape(stop) /\ stop.pc = "wrapup" /\ stop.rounds = d.rounds
      /\ \A f \in {"kind", "own", "iter", "resets", "skip", "stopped"} : stop[f] = d[f]
  BY <1>4 DEF Shape, Stages
<1>10. /\ Shape(call) /\ call.pc = "llm" /\ call.rounds = d.rounds + 1
       /\ \A f \in {"kind", "own", "iter", "resets", "cancelled", "skip", "stopped"} : call[f] = d[f]
  <2>1. call = [d EXCEPT !.pc = "llm", !.rounds = d.rounds + 1] /\ d.rounds + 1 \in Nat
    BY <1>7
  <2> HIDE DEF call
  <2> QED BY <1>4, <2>1 DEF Shape, Stages
<1> HIDE DEF stop, call
<1>11. Budget(stop) /\ Budget(call)
  BY <1>7, <1>8, <1>9, <1>10 DEF Budget
<1>12. \A new \in {stop, call} : Writes(t, new)
  <2> TAKE new \in {stop, call}
  <2>1. IsRecorded(new) => IsRecorded(s)
    BY <1>1, <1>4, <1>9, <1>10 DEF IsRecorded, At
  <2> QED BY <1>1, <1>2, <2>1, NoRowWrites
<1>13. CASE cancel /\ Go(t, stop)
  <2>1. Goes(t, stop)
    BY <1>1, <1>3, <1>4, <1>9, <1>11, <1>13, NoTurnIs DEF Goes, At
  <2> QED BY <1>1, <1>2, <1>12, <2>1, TurnStepKeeps
<1>14. CASE Go(t, call)
  <2>1. Goes(t, call)
    BY <1>1, <1>3, <1>4, <1>10, <1>11, <1>14, NoTurnIs DEF Goes, At
  <2> QED BY <1>1, <1>2, <1>12, <2>1, TurnStepKeeps
<1> QED BY <1>1, <1>13, <1>14

\* An iteration that ends, from a turn that carries on in s.
LEMMA IteratingKeeps ==
  ASSUME TurnAssumption, Inv, NEW t \in Turns, turn[t].pc \in {"llm", "tools"},
         NEW s, Shape(s), Go(t, Iterate(s)),
         \A f \in {"kind", "own", "iter", "resets", "cancelled", "skip", "rounds", "stopped"} :
           s[f] = turn[t][f],
         UNCHANGED <<rows, lastId, busy, cancel, inbox, calls, erased, skipped>>
  PROVE  Inv'
<1> DEFINE new == Iterate(s)
<1>1. ~At(t, "idle") /\ ~Narrates(turn[t]) /\ calls' \in Nat /\ NoRow
  BY DEF At, Narrates, Inv, Typed, NoRow
<1>2. Shape(turn[t]) /\ Budget(turn[t]) /\ ~turn[t].skip
  BY <1>1, Running DEF At
<1>3. s.iter < MaxIter /\ s.rounds <= s.resets * MaxIter + s.iter + 1
  BY <1>2 DEF Budget
<1>4. /\ Shape(new) /\ Budget(new) /\ new.pc \in {"top", "persist", "wrapup"}
      /\ \A f \in {"kind", "own", "cancelled", "skip", "stopped"} : new[f] = s[f]
  BY <1>3, IterateIs
<1> HIDE DEF new
<1>5. Goes(t, new)
  <2>1. Go(t, new)
    BY DEF new
  <2> QED BY <1>2, <1>4, <2>1, NoTurnIs DEF Goes
<1>6. IsRecorded(new) => IsRecorded(turn[t])
  BY <1>4 DEF IsRecorded
<1>7. Writes(t, new)
  BY <1>1, <1>6, NoRowWrites
<1> QED BY <1>1, <1>5, <1>7, TurnStepKeeps

LEMMA AnswerKeeps ==
  ASSUME TurnAssumption, Inv, NEW t \in Turns, Answer(t)
  PROVE  Inv'
<1> DEFINE s == turn[t]
           draft == [s EXCEPT !.said = TRUE, !.ctx = Append(@, Text)]
<1>1. /\ At(t, "llm")
      /\ UNCHANGED <<rows, lastId, busy, cancel, inbox, calls, erased, skipped>>
  BY DEF Answer
<1>2. ~At(t, "idle") /\ ~Narrates(s) /\ calls' \in Nat /\ NoRow
  BY <1>1 DEF At, Narrates, Inv, Typed, NoRow
<1>3. Shape(s) /\ Budget(s) /\ (SkipCapable(t) => s.kind = "notice")
  BY <1>2, Running DEF SkipCapable
<1>4. CASE Go(t, Iterate(draft))
  <2>1. /\ Shape(draft)
        /\ \A f \in {"kind", "own", "iter", "resets", "cancelled", "skip", "rounds", "stopped"} :
             draft[f] = s[f]
    BY <1>3 DEF Shape
  <2> HIDE DEF draft
  <2> QED BY <1>1, <1>4, <2>1, IteratingKeeps DEF At
<1>5. ASSUME NEW skip \in {FALSE, SkipCapable(t)}, Go(t, [s EXCEPT !.pc = "persist", !.skip = skip])
      PROVE  Inv'
  <2> DEFINE new == [s EXCEPT !.pc = "persist", !.skip = skip]
  <2>1. skip \in BOOLEAN
    BY DEF SkipCapable
  <2>2. /\ Shape(new) /\ new.pc = "persist" /\ new.skip = skip
        /\ \A f \in {"kind", "own", "iter", "resets", "cancelled", "rounds", "stopped"} : new[f] = s[f]
    BY <1>3, <2>1 DEF Shape, Stages
  <2> HIDE DEF new
  <2>3. s.resets * MaxIter \in Nat /\ s.iter \in Nat /\ s.rounds \in Nat /\ MaxIter \in Nat
    BY <1>3, BudgetArithmetic DEF Shape, TurnAssumption
  <2>4. s.iter < MaxIter /\ s.rounds <= s.resets * MaxIter + s.iter + 1
    BY <1>1, <1>3 DEF Budget, At
  <2>5. new.rounds <= new.resets * MaxIter + MaxIter
    BY <2>2, <2>3, <2>4
  <2>6. Budget(new)
    BY <2>2, <2>5 DEF Budget
  <2>7. Go(t, new)
    BY <1>5 DEF new
  <2>8. Goes(t, new)
    BY <1>1, <1>3, <2>2, <2>6, <2>7, NoTurnIs DEF Goes
  <2>9. IsRecorded(new) => IsRecorded(s)
    BY <1>1, <2>2 DEF IsRecorded, At
  <2>10. Writes(t, new)
    BY <1>1, <1>2, <2>9, NoRowWrites
  <2> QED BY <1>1, <1>2, <2>8, <2>10, TurnStepKeeps
<1>6. \E skip \in {FALSE, SkipCapable(t)} :
        Go(t, Iterate(draft)) \/ Go(t, [s EXCEPT !.pc = "persist", !.skip = skip])
  BY DEF Answer
<1> QED BY <1>4, <1>5, <1>6

\* A message of the protocol, wherever it is kept.
LEMMA KeepKeeps ==
  ASSUME TurnAssumption, Inv, NEW t \in Turns, turn[t].pc \in {"llm", "tools"},
         NEW m \in Messages, NEW s, Shape(s), s.pc = "tools", Keep(t, m, s),
         \A f \in {"kind", "own", "iter", "resets", "skip", "rounds", "stopped"} :
           s[f] = turn[t][f],
         s.cancelled => turn[t].cancelled \/ cancel,
         calls' \in Nat, UNCHANGED <<busy, cancel, inbox, erased, skipped>>
  PROVE  Inv'
<1>1. ~At(t, "idle") /\ ~Narrates(turn[t])
  BY DEF At, Narrates
<1>2. /\ Shape(turn[t]) /\ Budget(turn[t]) /\ ~turn[t].skip /\ turn[t].own # NoMsg
      /\ turn[t].kind = "notice" <=> t = "dispatch" /\ t \in {"inbound", "dispatch"}
      /\ turn[t].kind = "notice" \/ t = "inbound"
  BY <1>1, Running DEF At
<1>3. ASSUME NEW new, Shape(new), Go(t, new),
             \A f \in {"pc", "kind", "own", "iter", "resets", "cancelled", "skip", "rounds",
                       "stopped"} : new[f] = s[f]
      PROVE  Goes(t, new) /\ (IsRecorded(new) => IsRecorded(turn[t]))
  <2>1. Budget(new)
    BY <1>2, <1>3 DEF Budget
  <2> QED BY <1>2, <1>3, <2>1, NoTurnIs DEF Goes, IsRecorded
<1>4. CASE Incremental(t)
  <2> DEFINE new == [s EXCEPT !.ctx = Append(@, m)]
  <2>1. AppendRow(turn[t].own, m) /\ Go(t, new)
    BY <1>4 DEF Keep
  <2>2. /\ Shape(new)
        /\ \A f \in {"pc", "kind", "own", "iter", "resets", "cancelled", "skip", "rounds",
                     "stopped"} : new[f] = s[f]
    BY DEF Shape
  <2> HIDE DEF new
  <2>3. Goes(t, new) /\ (IsRecorded(new) => IsRecorded(turn[t]))
    BY <1>3, <2>1, <2>2
  <2>4. t = "inbound"
    BY <1>2, <1>4 DEF Incremental, SkipCapable
  <2>5. Writes(t, new)
    BY <1>1, <1>2, <2>1, <2>2, <2>3, <2>4, RowWrites
  <2> QED BY <1>1, <2>3, <2>5, TurnStepKeeps
<1>5. CASE ~Incremental(t)
  <2> DEFINE new == [s EXCEPT !.ctx = Append(@, m), !.trace = Append(@, m)]
  <2>1. NoRow /\ Go(t, new)
    BY <1>5 DEF Keep
  <2>2. /\ Shape(new)
        /\ \A f \in {"pc", "kind", "own", "iter", "resets", "cancelled", "skip", "rounds",
                     "stopped"} : new[f] = s[f]
    <3>1. Append(s.trace, m) \in Seq(Messages)
      BY AppendProperties DEF Shape
    <3> QED BY <3>1 DEF Shape
  <2> HIDE DEF new
  <2>3. Goes(t, new) /\ (IsRecorded(new) => IsRecorded(turn[t]))
    BY <1>3, <2>1, <2>2
  <2>4. Writes(t, new)
    BY <1>1, <2>1, <2>3, NoRowWrites
  <2> QED BY <1>1, <2>3, <2>4, TurnStepKeeps
<1> QED BY <1>4, <1>5

LEMMA AskToolsKeeps ==
  ASSUME TurnAssumption, Inv, NEW t \in Turns, AskTools(t)
  PROVE  Inv'
<1>1. PICK n \in Batches, said \in BOOLEAN :
        /\ calls' = calls + n
        /\ Keep(t, Asks(calls + 1 .. calls + n),
                [turn[t] EXCEPT !.pc = "tools", !.said = said, !.todo = [i \in 1 .. n |-> calls + i]])
  BY DEF AskTools
<1> DEFINE todo == [i \in 1 .. n |-> calls + i]
           s == [turn[t] EXCEPT !.pc = "tools", !.said = said, !.todo = todo]
<1>2. n \in Nat /\ calls \in Nat
  BY DEF TurnAssumption, Inv, Typed
<1>3. At(t, "llm") /\ UNCHANGED <<busy, cancel, inbox, erased, skipped>>
  BY DEF AskTools
<1>4. todo \in Seq(Nat)
  BY <1>2
<1>5. Asks(calls + 1 .. calls + n) \in Messages
  <2>1. calls + 1 .. calls + n \in SUBSET Nat
    BY <1>2
  <2> QED BY <2>1, MessageKinds
<1> HIDE DEF todo
<1>6. /\ Shape(s) /\ s.pc = "tools"
      /\ \A f \in {"kind", "own", "iter", "resets", "cancelled", "skip", "rounds", "stopped"} :
           s[f] = turn[t][f]
  <2>1. Shape(turn[t])
    BY DEF Inv, Typed
  <2> QED BY <1>4, <2>1 DEF Shape, Stages
<1>7. Keep(t, Asks(calls + 1 .. calls + n), s)
  BY <1>1 DEF todo
<1> HIDE DEF s
<1> QED BY <1>1, <1>2, <1>3, <1>5, <1>6, <1>7, KeepKeeps, SMTT(30) DEF At

\* The next call of a batch is one of those asked for.
LEMMA NextCallIs ==
  ASSUME NEW s, Shape(s), s.todo # <<>>
  PROVE  /\ Head(s.todo) \in Nat /\ Shape(NextCall(s)) /\ NextCall(s).pc = "tools"
         /\ \A f \in {"kind", "own", "iter", "resets", "cancelled", "skip", "rounds", "stopped"} :
              NextCall(s)[f] = s[f]
<1>1. s.todo \in Seq(Nat)
  BY DEF Shape
<1>2. Head(s.todo) \in Nat /\ Tail(s.todo) \in Seq(Nat)
  BY <1>1, HeadTailProperties
<1> QED BY <1>2 DEF Shape, NextCall, Stages

LEMMA RefuseCallKeeps ==
  ASSUME TurnAssumption, Inv, NEW t \in Turns, RefuseCall(t)
  PROVE  Inv'
<1> DEFINE s == [turn[t] EXCEPT !.cancelled = @ \/ cancel]
<1>1. /\ At(t, "tools") /\ turn[t].todo # <<>> /\ Keep(t, Result(Head(turn[t].todo)), NextCall(s))
      /\ UNCHANGED <<busy, cancel, inbox, calls, erased, skipped>>
  BY DEF RefuseCall
<1>2. Shape(turn[t]) /\ cancel \in BOOLEAN /\ calls' \in Nat
  BY <1>1 DEF Inv, Typed
<1>3. /\ Shape(s) /\ s.todo = turn[t].todo /\ (s.cancelled => turn[t].cancelled \/ cancel)
      /\ \A f \in {"kind", "own", "iter", "resets", "skip", "rounds", "stopped"} : s[f] = turn[t][f]
  <2>1. (turn[t].cancelled \/ cancel) \in BOOLEAN
    OBVIOUS
  <2> QED BY <1>2, <2>1 DEF Shape
<1> HIDE DEF s
<1>4. /\ Head(s.todo) \in Nat /\ Shape(NextCall(s)) /\ NextCall(s).pc = "tools"
      /\ \A f \in {"kind", "own", "iter", "resets", "cancelled", "skip", "rounds", "stopped"} :
           NextCall(s)[f] = s[f]
  BY <1>1, <1>3, NextCallIs
<1>5. Result(Head(turn[t].todo)) \in Messages
  BY <1>3, <1>4, MessageKinds
<1>6. turn[t].pc \in {"llm", "tools"}
  BY <1>1 DEF At
<1>7. /\ \A f \in {"kind", "own", "iter", "resets", "skip", "rounds", "stopped"} :
           NextCall(s)[f] = turn[t][f]
      /\ NextCall(s).cancelled => turn[t].cancelled \/ cancel
  BY <1>3, <1>4
<1> QED BY <1>1, <1>2, <1>4, <1>5, <1>6, <1>7, KeepKeeps

LEMMA ExecuteCallKeeps ==
  ASSUME TurnAssumption, Inv, NEW t \in Turns, ExecuteCall(t)
  PROVE  Inv'
<1>1. PICK outcome \in {"ok", "failed", "retryable"} :
        Keep(t, Result(Head(turn[t].todo)), NextCall(Count(turn[t], outcome)))
  BY DEF ExecuteCall
<1> DEFINE s == Count(turn[t], outcome)
<1>2. /\ At(t, "tools") /\ turn[t].todo # <<>>
      /\ UNCHANGED <<busy, cancel, inbox, calls, erased, skipped>>
  BY DEF ExecuteCall
<1>3. Shape(turn[t]) /\ calls' \in Nat
  BY <1>2 DEF Inv, Typed
<1>4. /\ Shape(s) /\ s.todo = turn[t].todo
      /\ \A f \in {"kind", "own", "iter", "resets", "cancelled", "skip", "rounds", "stopped"} :
           s[f] = turn[t][f]
  BY <1>3 DEF Shape, Count
<1> HIDE DEF s
<1>5. /\ Head(s.todo) \in Nat /\ Shape(NextCall(s)) /\ NextCall(s).pc = "tools"
      /\ \A f \in {"kind", "own", "iter", "resets", "cancelled", "skip", "rounds", "stopped"} :
           NextCall(s)[f] = s[f]
  BY <1>2, <1>4, NextCallIs
<1>6. Result(Head(turn[t].todo)) \in Messages
  BY <1>4, <1>5, MessageKinds
<1>7. turn[t].pc \in {"llm", "tools"} /\ Keep(t, Result(Head(turn[t].todo)), NextCall(s))
  BY <1>1, <1>2 DEF At, s
<1>8. /\ \A f \in {"kind", "own", "iter", "resets", "skip", "rounds", "stopped"} :
           NextCall(s)[f] = turn[t][f]
      /\ NextCall(s).cancelled => turn[t].cancelled \/ cancel
  BY <1>4, <1>5
<1> QED BY <1>2, <1>3, <1>5, <1>6, <1>7, <1>8, KeepKeeps

LEMMA ToolSendsKeeps ==
  ASSUME TurnAssumption, Inv, NEW t \in Turns, ToolSends(t)
  PROVE  Inv'
<1>1. /\ At(t, "tools") /\ AppendRow(NoMsg, Text)
      /\ UNCHANGED <<busy, cancel, inbox, turn, calls, erased, skipped>>
  BY DEF ToolSends
<1>2. ~At(t, "idle") /\ ~Narrates(turn[t]) /\ calls' \in Nat
  BY <1>1 DEF At, Narrates, Inv, Typed
<1>3. Shape(turn[t]) /\ Budget(turn[t]) /\ turn[t].own # NoMsg /\ ~turn[t].skip
  BY <1>1, <1>2, Running DEF At
<1>4. Go(t, turn[t])
  BY <1>1 DEF Go, Inv, Typed
<1>5. Goes(t, turn[t])
  BY <1>1, <1>3, <1>4, NoTurnIs DEF Goes, At
<1>6. Writes(t, turn[t])
  BY <1>1, <1>2, <1>3, MessageKinds, RowWrites
<1> QED BY <1>1, <1>2, <1>5, <1>6, TurnStepKeeps

\* A turn whose loop is over, but for the answer.
LEMMA EndingKeeps ==
  ASSUME TurnAssumption, Inv, NEW t \in Turns, turn[t].pc \in {"tools", "wrapup"},
         NEW pc \in {"wrapup", "persist"}, NEW skip \in {FALSE, SkipCapable(t)},
         skip => pc = "persist",
         Go(t, [turn[t] EXCEPT !.pc = pc, !.skip = skip]),
         UNCHANGED <<rows, lastId, busy, cancel, inbox, calls, erased, skipped>>
  PROVE  Inv'
<1> DEFINE s == turn[t]
           new == [s EXCEPT !.pc = pc, !.skip = skip]
<1>1. ~At(t, "idle") /\ ~Narrates(s) /\ calls' \in Nat /\ NoRow
  BY DEF At, Narrates, Inv, Typed, NoRow
<1>2. Shape(s) /\ Budget(s) /\ skip \in BOOLEAN /\ (skip => s.kind = "notice")
  BY <1>1, Running DEF SkipCapable
<1>3. /\ Shape(new) /\ new.pc = pc /\ new.skip = skip
      /\ \A f \in {"kind", "own", "iter", "resets", "cancelled", "rounds", "stopped"} : new[f] = s[f]
  BY <1>2 DEF Shape, Stages
<1>4. Go(t, new)
  OBVIOUS
<1> HIDE DEF new
<1>5. /\ s.resets \in Nat /\ s.iter \in Nat /\ s.rounds \in Nat /\ MaxIter \in Nat
      /\ s.resets * MaxIter \in Nat
  <2>1. s.resets \in Nat /\ s.iter \in Nat /\ s.rounds \in Nat /\ MaxIter \in Nat
    BY <1>2 DEF Shape, TurnAssumption
  <2> QED BY <2>1, BudgetArithmetic
<1>6. s.rounds <= s.resets * MaxIter + MaxIter
  <2>1. CASE s.pc = "tools"
    <3>1. s.iter < MaxIter /\ s.rounds <= s.resets * MaxIter + s.iter + 1
      BY <1>2, <2>1 DEF Budget
    <3> QED BY <1>5, <3>1
  <2>2. CASE s.pc = "wrapup"
    BY <1>2, <2>2 DEF Budget
  <2> QED BY <2>1, <2>2
<1>7. Budget(new)
  BY <1>3, <1>6 DEF Budget
<1>8. Goes(t, new)
  BY <1>2, <1>3, <1>4, <1>7, NoTurnIs DEF Goes
<1>9. IsRecorded(new) => IsRecorded(s)
  BY <1>3 DEF IsRecorded
<1>10. Writes(t, new)
  BY <1>1, <1>9, NoRowWrites
<1> QED BY <1>1, <1>8, <1>10, TurnStepKeeps

LEMMA EndBatchKeeps ==
  ASSUME TurnAssumption, Inv, NEW t \in Turns, EndBatch(t)
  PROVE  Inv'
<1>1. /\ At(t, "tools")
      /\ UNCHANGED <<rows, lastId, busy, cancel, inbox, calls, erased, skipped>>
      /\ Go(t, [turn[t] EXCEPT !.pc = "wrapup"]) \/ Go(t, Iterate(turn[t]))
  BY DEF EndBatch
<1>2. Shape(turn[t]) /\ ~turn[t].skip /\ turn[t].skip \in BOOLEAN
  BY <1>1, Running DEF At, Shape
<1>3. CASE Go(t, [turn[t] EXCEPT !.pc = "wrapup"])
  <2>1. [turn[t] EXCEPT !.pc = "wrapup"] = [turn[t] EXCEPT !.pc = "wrapup", !.skip = FALSE]
    BY <1>2 DEF Shape
  <2>2. Go(t, [turn[t] EXCEPT !.pc = "wrapup", !.skip = FALSE])
    BY <1>3, <2>1
  <2> QED BY <1>1, <2>2, EndingKeeps DEF At
<1>4. CASE Go(t, Iterate(turn[t]))
  BY <1>1, <1>2, <1>4, IteratingKeeps DEF At
<1> QED BY <1>1, <1>3, <1>4

LEMMA WrapUpKeeps ==
  ASSUME TurnAssumption, Inv, NEW t \in Turns, WrapUp(t)
  PROVE  Inv'
<1>1. PICK skip \in {FALSE, SkipCapable(t)} : Go(t, [turn[t] EXCEPT !.pc = "persist", !.skip = skip])
  BY DEF WrapUp
<1>2. At(t, "wrapup") /\ UNCHANGED <<rows, lastId, busy, cancel, inbox, calls, erased, skipped>>
  BY DEF WrapUp
<1> QED BY <1>1, <1>2, EndingKeeps DEF At

LEMMA LlmFailsKeeps ==
  ASSUME TurnAssumption, Inv, NEW t \in Turns, LlmFails(t)
  PROVE  Inv'
<1>1. At(t, "llm") /\ EndTurn(t) /\ UNCHANGED <<rows, lastId, inbox, calls, erased, skipped>>
  BY DEF LlmFails
<1>2. ~At(t, "idle") /\ ~Narrates(turn[t]) /\ calls' \in Nat /\ NoRow
  BY <1>1 DEF At, Narrates, Inv, Typed, NoRow
<1>3. Goes(t, NoTurn)
  BY <1>1, NoTurnIs DEF Goes, EndTurn
<1>4. Writes(t, NoTurn)
  BY <1>1, <1>2, NoTurnIs, NoRowWrites
<1> QED BY <1>1, <1>2, <1>3, <1>4, TurnStepKeeps

LEMMA PersistKeeps ==
  ASSUME TurnAssumption, Inv, NEW t \in Turns, Persist(t)
  PROVE  Inv'
<1> DEFINE s == turn[t]
           skipping == /\ NoRow /\ EndTurn(t)
                       /\ skipped' = IF s.skip THEN skipped \cup {s.own} ELSE skipped
           next == [s EXCEPT !.trace = Tail(@)]
           tracing == /\ ~s.skip /\ s.trace # <<>> /\ UNCHANGED <<busy, cancel, skipped>>
                      /\ AppendRow(s.own, Head(s.trace)) /\ Go(t, next)
           answering == ~s.skip /\ AppendRow(s.own, Text) /\ EndTurn(t) /\ UNCHANGED skipped
<1>1. At(t, "persist") /\ UNCHANGED <<inbox, calls, events, erased>>
  BY DEF Persist
<1>2. ~At(t, "idle") /\ calls' \in Nat /\ (~s.skip => Narrates(s))
  BY <1>1 DEF At, Narrates, Inv, Typed
<1>3. /\ Shape(s) /\ Budget(s) /\ s.own \in Everyone /\ s.own # NoMsg
      /\ s.skip => t = "dispatch"
  BY <1>2, Running
<1>4. skipping \/ tracing \/ answering
  BY DEF Persist
<1>5. EndTurn(t) => Goes(t, NoTurn)
  BY NoTurnIs DEF Goes, EndTurn
<1>6. CASE skipping
  <2>1. rows' = rows /\ lastId' = lastId
    BY <1>6 DEF NoRow
  <2>2. RowSet' = RowSet /\ Kept' = Kept
    BY <1>1, <2>1 DEF RowSet, Kept, Recorded
  <2>3. /\ \/ skipped' = skipped
           \/ skipped' = skipped \cup {s.own} /\ t = "dispatch" /\ s.skip
    BY <1>3, <1>6
  <2>4. Writes(t, NoTurn)
    BY <1>2, <2>1, <2>2, <2>3, NoTurnIs DEF Writes, Inv, Typed
  <2> QED BY <1>1, <1>2, <1>5, <1>6, <2>4, TurnStepKeeps
<1>7. CASE tracing
  <2>1. Head(s.trace) \in Messages /\ Tail(s.trace) \in Seq(Messages)
    BY <1>3, <1>7, HeadTailProperties DEF Shape
  <2>2. /\ Shape(next)
        /\ \A f \in {"pc", "kind", "own", "iter", "resets", "cancelled", "skip", "rounds",
                     "stopped"} : next[f] = s[f]
    BY <1>3, <2>1 DEF Shape
  <2>3. Go(t, next) /\ AppendRow(s.own, Head(s.trace)) /\ UNCHANGED <<busy, cancel, skipped>> /\ ~s.skip
    BY <1>7
  <2> HIDE DEF next
  <2>4. Budget(next)
    BY <1>3, <2>2 DEF Budget
  <2>5. Goes(t, next)
    BY <1>1, <2>2, <2>3, <2>4, NoTurnIs DEF Goes, At
  <2>6. Narrates(next) /\ (IsRecorded(next) => IsRecorded(s))
    BY <1>1, <2>2, <2>3 DEF Narrates, IsRecorded, At
  <2>7. Writes(t, next)
    BY <1>1, <1>2, <1>3, <2>1, <2>2, <2>3, <2>6, RowWrites
  <2> QED BY <1>1, <1>2, <2>5, <2>7, TurnStepKeeps
<1>8. CASE answering
  <2>1. Writes(t, NoTurn)
    BY <1>1, <1>2, <1>3, <1>8, NoTurnIs, MessageKinds, RowWrites
  <2> QED BY <1>1, <1>2, <1>5, <1>8, <2>1, TurnStepKeeps
<1> QED BY <1>4, <1>6, <1>7, <1>8

LEMMA StepKeeps ==
  ASSUME TurnAssumption, Inv, NEW t \in Turns, Step(t)
  PROVE  Inv'
BY RecordPhotoKeeps, LoadHistoryKeeps, BaselineKeeps, CheckpointAKeeps, AnswerKeeps, AskToolsKeeps,
   RefuseCallKeeps, ExecuteCallKeeps, ToolSendsKeeps, EndBatchKeeps, WrapUpKeeps, LlmFailsKeeps,
   PersistKeeps DEF Step
-----------------------------------------------------------------------------
(***************************************************************************)
(* What happens around the turns                                           *)
(***************************************************************************)
LEMMA NewTurnIs ==
  ASSUME TurnAssumption, NEW kind \in {"message", "photo", "task", "notice"},
         NEW m \in Everyone
  PROVE  /\ Shape(NewTurn(kind, m)) /\ Budget(NewTurn(kind, m))
         /\ NewTurn(kind, m).pc = "begin" /\ NewTurn(kind, m).own = m
         /\ NewTurn(kind, m).kind = kind /\ ~NewTurn(kind, m).skip
         /\ ~NewTurn(kind, m).cancelled /\ ~IsRecorded(NewTurn(kind, m))
<1> DEFINE n == NewTurn(kind, m)
<1>1. /\ Shape(n) /\ n.pc = "begin" /\ n.own = m /\ n.kind = kind /\ ~n.skip /\ ~n.cancelled
      /\ n.iter = 0 /\ n.resets = 0 /\ n.rounds = 0
  BY NoTurnShape, ZenonT(60) DEF NewTurn, NoTurn, Shape, Stages, Kinds
<1> HIDE DEF n
<1>2. Budget(n) /\ ~IsRecorded(n)
  BY <1>1 DEF Budget, IsRecorded
<1> QED BY <1>1, <1>2 DEF n

\* A turn that begins, of a message nobody had yet.
LEMMA StartKeeps ==
  ASSUME TurnAssumption, Inv, NEW t \in Turns, At(t, "idle"),
         NEW m \in (IF t = "inbound" THEN Msgs ELSE Notices),
         NEW kind \in (IF t = "inbound" THEN {"message", "photo", "task"} ELSE {"notice"}),
         inbox[m] = "new", inbox' = [inbox EXCEPT ![m] = "taken"], Go(t, NewTurn(kind, m)),
         busy' = (t = "inbound" \/ busy),
         UNCHANGED <<rows, lastId, cancel, calls, erased, skipped>>
  PROVE  Inv'
<1> DEFINE new == NewTurn(kind, m)
<1>1. /\ Shape(new) /\ Budget(new) /\ new.pc = "begin" /\ new.own = m /\ new.kind = kind
      /\ ~new.skip /\ ~new.cancelled /\ ~IsRecorded(new)
  BY NewTurnIs DEF Everyone
<1> HIDE DEF new
<1>2. /\ turn' = [u \in Turns |-> turn'[u]] /\ turn'[t] = new
      /\ \A u \in Turns \ {t} : turn'[u] = turn[u]
  <2>1. Go(t, new)
    BY DEF new
  <2> QED BY <2>1 DEF Go, Inv, Typed
<1>3. /\ inbox' \in [Everyone -> Places] /\ m \in Everyone /\ inbox'[m] = "taken"
      /\ \A x \in Everyone \ {m} : inbox'[x] = inbox[x]
      /\ \A x \in Everyone : inbox[x] = "taken" => inbox'[x] = "taken" /\ x # m
      /\ \A x \in Everyone : inbox'[x] = "acked" => inbox[x] = "acked"
  BY DEF Inv, Typed, Everyone, Places
<1>4. RowSet' = RowSet /\ Kept' = Kept
  BY DEF RowSet, Kept, Recorded
<1>5. /\ "inbound" \in Turns /\ "dispatch" \in Turns
      /\ \A u \in Turns : u = "inbound" \/ u = "dispatch"
  BY DEF Turns
<1>6. Typed'
  <2>1. \A u \in Turns : Shape(turn'[u])
    BY <1>1, <1>2 DEF Inv, Typed
  <2> QED BY <1>2, <1>3, <2>1 DEF Inv, Typed
<1>7. SlotOfItsTurn'
  BY <1>1, <1>2, <1>5 DEF Inv, Typed, SlotOfItsTurn, SlotHeldByATurn, StopReachesItsTurn, At
<1>8. Owners'
  <2>1. ASSUME NEW u \in Turns, u # t PROVE Owned(u)'
    <3>1. turn'[u] = turn[u] /\ Owned(u)
      BY <1>2, <2>1 DEF Inv, Owners
    <3>2. ~At(u, "idle") => turn[u].own \in Everyone
      BY <3>1 DEF Owned, Everyone
    <3> QED BY <1>3, <3>1, <3>2 DEF Owned, At
  <2>2. m \notin skipped
    BY <1>3 DEF Inv, Skipped
  <2>3. Owned(t)'
    BY <1>1, <1>2, <1>3, <2>2 DEF Owned, At
  <2> QED BY <2>1, <2>3 DEF Owners
<1>9. Budgets'
  BY <1>1, <1>2 DEF Budgets, Inv
<1>10. Recordings'
  <2>1. \A x \in Msgs : x \in Everyone
    BY DEF Everyone
  <2> QED BY <1>1, <1>2, <1>3, <1>4, <2>1 DEF Recordings, Inv
<1>11. Traces'
  <2> SUFFICES ASSUME NEW r \in RowSet
               PROVE  /\ r.by # NoMsg => inbox'[r.by] = "taken"
                      /\ r.by \in skipped => r.m.role = "user"
                      /\ r.by = turn'["dispatch"].own /\ r.by # NoMsg /\ ~Narrates(turn'["dispatch"])
                           => r.m.role = "user"
    BY <1>4 DEF Traces
  <2>1. /\ r.by # NoMsg => inbox[r.by] = "taken"
        /\ r.by \in skipped => r.m.role = "user"
        /\ r.by = turn["dispatch"].own /\ r.by # NoMsg /\ ~Narrates(turn["dispatch"])
             => r.m.role = "user"
    BY DEF Inv, Traces
  <2>2. r.by \in Everyone \cup {NoMsg}
    BY RowIs DEF Rows, Inv, Typed
  <2>3. r.by # NoMsg => inbox'[r.by] = "taken" /\ r.by # m
    BY <1>3, <2>1, <2>2
  <2>4. CASE t = "dispatch"
    BY <1>1, <1>2, <2>1, <2>3, <2>4
  <2>5. CASE t = "inbound"
    BY <1>2, <1>5, <2>1, <2>3, <2>5
  <2> QED BY <1>5, <2>4, <2>5
<1>12. Skipped'
  BY <1>3 DEF Skipped, Inv, Typed, Everyone
<1> QED BY <1>6, <1>7, <1>8, <1>9, <1>10, <1>11, <1>12 DEF Inv

\* What moves in the inbox, or is erased, and no turn takes.
LEMMA AroundKeeps ==
  ASSUME TurnAssumption, Inv, turn' = turn, skipped' = skipped, busy' = busy, cancel' = cancel,
         calls' = calls,
         rows' \in Seq(Rows), lastId' \in Nat, inbox' \in [Everyone -> Places],
         Kept \subseteq Kept',
         \A m \in Everyone : inbox[m] = "taken" => inbox'[m] = "taken",
         \A m \in Msgs : inbox'[m] = "acked" => inbox[m] = "acked" \/ m \in Kept',
         \A r \in RowSet' : r \in RowSet \/ r.by = NoMsg
  PROVE  Inv'
<1>1. Typed'
  BY DEF Inv, Typed, Shape
<1>2. SlotOfItsTurn' /\ Budgets'
  BY DEF Inv, SlotOfItsTurn, SlotHeldByATurn, StopReachesItsTurn, At, Budgets, Budget
<1>3. Owners'
  BY DEF Inv, Owners, Owned, At, Everyone
<1>4. Recordings'
  BY DEF Inv, Recordings, IsRecorded
<1>5. Traces'
  <2> SUFFICES ASSUME NEW r \in RowSet'
               PROVE  /\ r.by # NoMsg => inbox'[r.by] = "taken"
                      /\ r.by \in skipped => r.m.role = "user"
                      /\ r.by = turn["dispatch"].own /\ r.by # NoMsg /\ ~Narrates(turn["dispatch"])
                           => r.m.role = "user"
    BY DEF Traces, Narrates
  <2>1. NoMsg \notin skipped
    BY DEF Inv, Typed, TurnAssumption
  <2>2. CASE r \in RowSet
    <3>1. r.by \in Everyone \cup {NoMsg}
      BY <2>2, RowIs DEF Rows, Inv, Typed
    <3> QED BY <2>2, <3>1 DEF Inv, Traces
  <2> QED BY <2>1, <2>2
<1>6. Skipped'
  BY DEF Inv, Typed, Skipped, Everyone
<1> QED BY <1>1, <1>2, <1>3, <1>4, <1>5, <1>6 DEF Inv

LEMMA ReceiveKeeps ==
  ASSUME TurnAssumption, Inv, NEW m \in Msgs, Receive(m)
  PROVE  Inv'
<1>1. inbox[m] = "new" /\ UNCHANGED <<rows, lastId, cancel, calls, erased, skipped>> /\ m \in Everyone
  BY DEF Receive, Everyone
<1>2. CASE busy
  <2>1. inbox' = [inbox EXCEPT ![m] = "racing"] /\ UNCHANGED <<busy, turn>>
    BY <1>2 DEF Receive
  <2>2. /\ inbox' \in [Everyone -> Places]
        /\ \A x \in Everyone : inbox[x] = "taken" => inbox'[x] = "taken"
        /\ \A x \in Everyone : inbox'[x] = "acked" => inbox[x] = "acked"
    BY <1>1, <2>1 DEF Inv, Typed, Places
  <2>3. RowSet' = RowSet /\ Kept' = Kept
    BY <1>1 DEF RowSet, Kept, Recorded
  <2> QED BY <1>1, <2>1, <2>2, <2>3, AroundKeeps DEF Inv, Typed, Everyone
<1>3. CASE ~busy
  <2>1. /\ busy' = TRUE /\ inbox' = [inbox EXCEPT ![m] = "taken"]
        /\ \E kind \in KindsOf(m) : Go("inbound", NewTurn(kind, m))
    BY <1>3 DEF Receive
  <2>2. KindsOf(m) \subseteq {"message", "photo", "task"}
    BY DEF KindsOf
  <2>3. At("inbound", "idle") /\ "inbound" \in Turns
    BY <1>3 DEF Inv, SlotOfItsTurn, SlotHeldByATurn, Turns
  <2>4. busy' = ("inbound" = "inbound" \/ busy)
    BY <2>1
  <2> QED BY <1>1, <2>1, <2>2, <2>3, <2>4, StartKeeps
<1> QED BY <1>2, <1>3

LEMMA RecordInFlightKeeps ==
  ASSUME TurnAssumption, Inv, NEW m \in Msgs, RecordInFlight(m)
  PROVE  Inv'
<1>1. /\ inbox[m] = "racing" /\ AppendRow(NoMsg, User(m)) /\ inbox' = [inbox EXCEPT ![m] = "acked"]
      /\ UNCHANGED <<busy, cancel, turn, calls, events, erased, skipped>> /\ m \in Everyone
  BY DEF RecordInFlight, Everyone
<1>2. User(m) \in Messages /\ User(m).msg = m /\ m # NoMsg
  BY <1>1, MessageKinds DEF TurnAssumption
<1>3. /\ rows' \in Seq(Rows) /\ lastId' \in Nat
      /\ RowSet' = RowSet \cup {RowOf(lastId + 1, NoMsg, User(m))}
      /\ Recorded' = Recorded \cup {m}
  BY <1>1, <1>2, AppendIsMore DEF Inv
<1>4. RowOf(lastId + 1, NoMsg, User(m)).by = NoMsg
  BY DEF RowOf
<1>5. Kept' = Kept \cup {m}
  BY <1>1, <1>3 DEF Kept
<1>6. /\ inbox' \in [Everyone -> Places]
      /\ \A x \in Everyone : inbox[x] = "taken" => inbox'[x] = "taken"
      /\ \A x \in Everyone : inbox'[x] = "acked" => inbox[x] = "acked" \/ x = m
  BY <1>1 DEF Inv, Typed, Places
<1>7. \A x \in Msgs : inbox'[x] = "acked" => inbox[x] = "acked" \/ x \in Kept'
  BY <1>5, <1>6 DEF Everyone
<1> QED BY <1>1, <1>3, <1>4, <1>5, <1>6, <1>7, AroundKeeps

LEMMA DispatchKeeps ==
  ASSUME TurnAssumption, Inv, NEW n \in Notices, Dispatch(n)
  PROVE  Inv'
<1>1. /\ inbox[n] = "new" /\ At("dispatch", "idle") /\ inbox' = [inbox EXCEPT ![n] = "taken"]
      /\ Go("dispatch", NewTurn("notice", n))
      /\ UNCHANGED <<rows, lastId, busy, cancel, calls, erased, skipped>>
  BY DEF Dispatch
<1>2. "dispatch" \in Turns /\ busy' = ("dispatch" = "inbound" \/ busy)
  BY <1>1 DEF Turns, Inv, Typed
<1> QED BY <1>1, <1>2, StartKeeps

LEMMA EraseKeepsInv ==
  ASSUME TurnAssumption, Inv, ClearHistory \/ Trim
  PROVE  Inv'
<1>1. PICK kept \in Seq(Rows) : (\A i \in DOMAIN kept : kept[i] \in RowSet) /\ Erase(kept)
  <2>1. CASE ClearHistory
    <3>1. <<>> \in Seq(Rows) /\ \A i \in DOMAIN <<>> : <<>>[i] \in RowSet
      OBVIOUS
    <3> QED BY <2>1, <3>1 DEF ClearHistory
  <2>2. CASE Trim
    BY <2>2, FromIsPart DEF Trim, Inv, Typed
  <2> QED BY <2>1, <2>2
<1>2. rows' \in Seq(Rows) /\ RowSet' \subseteq RowSet /\ Kept \subseteq Kept'
  BY <1>1, EraseKeeps DEF Inv
<1>3. UNCHANGED <<lastId, busy, cancel, inbox, turn, calls, skipped>>
  BY <1>1 DEF Erase
<1> QED BY <1>2, <1>3, AroundKeeps DEF Inv, Typed, Everyone

LEMMA RequestCancelKeeps ==
  ASSUME TurnAssumption, Inv, RequestCancel
  PROVE  Inv'
<1> DEFINE new == [turn["inbound"] EXCEPT !.stopped = TRUE]
<1>1. /\ busy /\ cancel' = TRUE /\ turn' = [turn EXCEPT !["inbound"] = new]
      /\ UNCHANGED <<rows, lastId, busy, inbox, calls, erased, skipped>>
  BY DEF RequestCancel
<1>2. "inbound" \in Turns /\ "dispatch" \in Turns /\ Shape(turn["inbound"])
  BY DEF Inv, Typed, Turns
<1>3. /\ Shape(new) /\ new.stopped
      /\ \A f \in {"pc", "kind", "own", "iter", "resets", "cancelled", "skip", "rounds"} :
           new[f] = turn["inbound"][f]
  BY <1>2 DEF Shape
<1> HIDE DEF new
<1>4. /\ turn' = [u \in Turns |-> turn'[u]] /\ turn'["inbound"] = new
      /\ \A u \in Turns \ {"inbound"} : turn'[u] = turn[u]
  BY <1>1, <1>2 DEF Inv, Typed
<1>5. \A u \in Turns : \A f \in {"pc", "kind", "own", "iter", "resets", "cancelled", "skip", "rounds"} :
        turn'[u][f] = turn[u][f]
  BY <1>3, <1>4
<1>6. RowSet' = RowSet /\ Kept' = Kept
  BY <1>1 DEF RowSet, Kept, Recorded
<1>7. ~At("inbound", "idle")
  BY <1>1 DEF Inv, SlotOfItsTurn, SlotHeldByATurn
<1>8. Typed'
  <2>1. \A u \in Turns : Shape(turn'[u])
    BY <1>3, <1>4 DEF Inv, Typed
  <2> QED BY <1>1, <1>4, <2>1 DEF Inv, Typed
<1>9. SlotOfItsTurn'
  BY <1>1, <1>3, <1>4, <1>7 DEF SlotOfItsTurn, SlotHeldByATurn, StopReachesItsTurn, At
<1>10. Owners'
  <2> SUFFICES ASSUME NEW u \in Turns PROVE Owned(u)'
    BY DEF Owners
  <2>1. Owned(u)
    BY DEF Inv, Owners
  <2>2. CASE u = "inbound"
    BY <1>1, <1>5, <1>7, <2>1, <2>2 DEF Owned, At
  <2>3. CASE u # "inbound"
    BY <1>1, <1>4, <2>1, <2>3 DEF Owned, At
  <2> QED BY <2>2, <2>3
<1>11. Budgets'
  BY <1>5 DEF Budgets, Budget, Inv
<1>12. Recordings'
  BY <1>1, <1>5, <1>6 DEF Recordings, IsRecorded, Inv
<1>13. Traces'
  <2>1. turn'["dispatch"] = turn["dispatch"]
    BY <1>2, <1>4
  <2> QED BY <1>1, <1>6, <2>1 DEF Traces, Narrates, Inv
<1>14. Skipped'
  BY <1>1 DEF Skipped, Inv
<1> QED BY <1>8, <1>9, <1>10, <1>11, <1>12, <1>13, <1>14 DEF Inv

LEMMA CrashKeeps ==
  ASSUME TurnAssumption, Inv, Crash
  PROVE  Inv'
<1>1. /\ busy' = FALSE /\ cancel' = FALSE /\ turn' = [t \in Turns |-> NoTurn]
      /\ inbox' = [m \in Everyone |-> IF inbox[m] = "racing" THEN "lost" ELSE inbox[m]]
      /\ UNCHANGED <<rows, lastId, calls, erased, skipped>>
  BY DEF Crash
<1>2. /\ inbox' \in [Everyone -> Places]
      /\ \A x \in Everyone : inbox[x] = "taken" => inbox'[x] = "taken"
      /\ \A x \in Everyone : inbox'[x] = "acked" => inbox[x] = "acked"
  BY <1>1 DEF Inv, Typed, Places
<1>3. \A u \in Turns : turn'[u] = NoTurn
  BY <1>1
<1>4. "inbound" \in Turns /\ "dispatch" \in Turns
  BY DEF Turns
<1>5. RowSet' = RowSet /\ Kept' = Kept
  BY <1>1 DEF RowSet, Kept, Recorded
<1>6. Typed'
  <2>1. \A u \in Turns : Shape(turn'[u])
    BY <1>3, NoTurnIs
  <2>2. turn' = [u \in Turns |-> turn'[u]]
    BY <1>1
  <2> QED BY <1>1, <1>2, <2>1, <2>2 DEF Inv, Typed
<1>7. SlotOfItsTurn' /\ Owners' /\ Budgets'
  BY <1>1, <1>3, <1>4, NoTurnIs DEF SlotOfItsTurn, SlotHeldByATurn, StopReachesItsTurn, Owners, Owned,
     Budgets, At
<1>8. Recordings'
  <2>1. \A x \in Msgs : x \in Everyone
    BY DEF Everyone
  <2> QED BY <1>2, <1>3, <1>5, <2>1, NoTurnIs DEF Recordings, Inv
<1>9. Traces'
  <2> SUFFICES ASSUME NEW r \in RowSet
               PROVE  /\ r.by # NoMsg => inbox'[r.by] = "taken"
                      /\ r.by \in skipped => r.m.role = "user"
    BY <1>1, <1>3, <1>4, <1>5, NoTurnIs DEF Traces
  <2>1. r.by \in Everyone \cup {NoMsg}
    BY RowIs DEF Rows, Inv, Typed
  <2> QED BY <1>2, <2>1 DEF Inv, Traces
<1>10. Skipped'
  BY <1>1, <1>2 DEF Skipped, Inv, Typed, Everyone
<1> QED BY <1>6, <1>7, <1>8, <1>9, <1>10 DEF Inv
-----------------------------------------------------------------------------
(***************************************************************************)
(* Theorems                                                                *)
(***************************************************************************)
LEMMA InitHolds == ASSUME TurnAssumption, Init PROVE Inv
<1>1. /\ rows = <<>> /\ lastId = 0 /\ busy = FALSE /\ cancel = FALSE
      /\ inbox = [m \in Everyone |-> "new"] /\ turn = [t \in Turns |-> NoTurn]
      /\ calls = 0 /\ erased = {} /\ skipped = {}
  BY DEF Init
<1>2. "inbound" \in Turns /\ "dispatch" \in Turns /\ \A t \in Turns : turn[t] = NoTurn
  BY <1>1 DEF Turns
<1>3. RowSet = {}
  BY <1>1 DEF RowSet
<1>4. Typed
  <2>1. turn = [t \in Turns |-> turn[t]] /\ inbox \in [Everyone -> Places]
    BY <1>1 DEF Places
  <2>2. rows \in Seq(Rows) /\ lastId \in Nat /\ calls \in Nat
    BY <1>1
  <2>3. \A t \in Turns : Shape(turn[t])
    BY <1>2, NoTurnIs
  <2>4. busy \in BOOLEAN /\ cancel \in BOOLEAN /\ (cancel => busy) /\ skipped \subseteq Notices
    BY <1>1
  <2> QED BY <2>1, <2>2, <2>3, <2>4 DEF Typed
<1>5. SlotOfItsTurn /\ Owners /\ Budgets
  BY <1>1, <1>2, NoTurnIs DEF SlotOfItsTurn, SlotHeldByATurn, StopReachesItsTurn, Owners, Owned,
     Budgets, At
<1>6. Recordings
  BY <1>1, <1>2, NoTurnIs DEF Recordings, Everyone
<1>7. Traces /\ Skipped
  BY <1>1, <1>3 DEF Traces, Skipped
<1> QED BY <1>4, <1>5, <1>6, <1>7 DEF Inv

LEMMA NextKeeps == ASSUME TurnAssumption, Inv, [Next]_vars PROVE Inv'
<1>1. CASE UNCHANGED vars
  <2>1. /\ UNCHANGED <<rows, lastId, busy, cancel, inbox, turn, calls, erased, skipped>>
        /\ RowSet' = RowSet /\ Kept' = Kept
    BY <1>1 DEF vars, RowSet, Kept, Recorded
  <2> QED BY <2>1, AroundKeeps DEF Inv, Typed, Recordings, Everyone
<1>2. CASE Next
  BY <1>2, ReceiveKeeps, RecordInFlightKeeps, DispatchKeeps, StepKeeps, RequestCancelKeeps,
     EraseKeepsInv, CrashKeeps DEF Next
<1> QED BY <1>1, <1>2

\* The inductive invariant holds of the system, whatever its limits are.
THEOREM TurnsAreSound == Spec => []Inv
<1>1. Init => Inv
  BY TurnAssumption, InitHolds
<1>2. Inv /\ [Next]_vars => Inv'
  BY TurnAssumption, NextKeeps
<1> QED BY <1>1, <1>2, PTL DEF Spec

\* The slot of a conversation is held by the turn that took it and given back
\* with it, however it ends; a stop reaches the turn it was accepted for, and
\* no later one.
THEOREM SlotIsOfItsTurn == Spec => []SlotOfItsTurn
BY TurnsAreSound, PTL DEF Inv

\* However many messages arrive and tools are called, a turn asks the LLM at
\* most MaxIter times for each of the MaxResets renewals, and MaxIter more.
THEOREM RoundsAreBounded == Spec => []BoundedRounds
<1>1. Inv => BoundedRounds
  <2> SUFFICES ASSUME Inv, NEW t \in Turns PROVE turn[t].rounds <= MaxIter * (MaxResets + 1)
    BY DEF BoundedRounds
  <2> DEFINE s == turn[t]
  <2>1. Shape(s) /\ Budget(s)
    BY DEF Inv, Typed, Budgets
  <2>2. /\ s.resets \in 0 .. MaxResets /\ s.iter \in 0 .. MaxIter /\ s.rounds \in Nat
        /\ MaxIter \in Nat \ {0} /\ MaxResets \in Nat /\ s.pc \in Stages
    BY <2>1, TurnAssumption DEF Shape, TurnAssumption
  <2>3. /\ s.resets * MaxIter \in Nat
        /\ s.resets * MaxIter + MaxIter <= MaxIter * (MaxResets + 1)
    BY <2>2, TurnAssumption, BudgetArithmetic
  <2> HIDE DEF s
  <2>4. s.rounds <= s.resets * MaxIter + MaxIter
    <3>1. CASE s.pc \in {"idle", "begin", "ready", "loaded"}
      BY <2>1, <2>2, <2>3, <3>1 DEF Budget
    <3>2. CASE s.pc = "top"
      BY <2>1, <2>2, <2>3, <3>2 DEF Budget
    <3>3. CASE s.pc \in {"llm", "tools"}
      BY <2>1, <2>2, <2>3, <3>3 DEF Budget
    <3>4. CASE s.pc \in {"wrapup", "persist"}
      BY <2>1, <3>4 DEF Budget
    <3> QED BY <2>2, <3>1, <3>2, <3>3, <3>4 DEF Stages
  <2>5. MaxIter * (MaxResets + 1) \in Nat
    BY <2>2
  <2>6. s.rounds <= MaxIter * (MaxResets + 1)
    BY <2>2, <2>3, <2>4, <2>5
  <2> QED BY <2>6 DEF s
<1> QED BY <1>1, TurnsAreSound, PTL

\* What was acknowledged to a user and what the LLM was asked stay in the
\* history until somebody erases them, and a turn that skipped left nothing
\* in it but what it was asked: through crashes, failures, stops, trims and
\* the interleaving of two turns.
THEOREM HistoryKeepsWhatWasSaid == Spec => []HistoryIsKept
<1>1. Inv => HistoryIsKept
  <2> SUFFICES ASSUME Inv PROVE HistoryIsKept
    OBVIOUS
  <2>1. ASSUME NEW t \in Turns, AsksTheLlm(t), ~Ephemeral(t)
        PROVE  turn[t].own \in Recorded \cup erased
    BY <2>1 DEF Inv, Recordings, IsRecorded, AsksTheLlm, Ephemeral, Kept
  <2>2. NothingForgotten
    BY <2>1 DEF Inv, Recordings, NothingForgotten, Kept
  <2>3. SkipLeavesNoTrace
    BY DEF Inv, Traces, RowSet, SkipLeavesNoTrace
  <2> QED BY <2>2, <2>3 DEF HistoryIsKept
<1> QED BY <1>1, TurnsAreSound, PTL
-----------------------------------------------------------------------------
(***************************************************************************)
(* Induction.  A set of numbers has a least one, since 0 .. k is a smaller *)
(* subset of 0 .. n for a smaller k, and strict inclusion is well founded  *)
(* on finite sets; so what is kept from each number to the next holds up   *)
(* to any.  This says of a recursive function what it computes.            *)
(***************************************************************************)
LEMMA LeastOne ==
  ASSUME NEW N \in Nat, NEW T, T \subseteq 0 .. N, T # {}
  PROVE  \E n \in T : \A k \in T : n <= k
<1> DEFINE U == {0 .. n : n \in T}
<1>1. IsFiniteSet(0 .. N)
  BY FS_Interval
<1>2. IsWellFoundedOn(StrictSubsetOrdering(0 .. N), FiniteSubsetsOf(0 .. N))
  BY <1>1, FS_StrictSubsetOrderingWellFounded
<1>3. U \subseteq FiniteSubsetsOf(0 .. N) /\ U # {}
  <2>1. ASSUME NEW n \in T PROVE 0 .. n \in FiniteSubsetsOf(0 .. N)
    BY <2>1, FS_Interval DEF FiniteSubsetsOf
  <2> QED BY <2>1
<1>4. PICK x \in U : \A y \in U : ~(<<y, x>> \in StrictSubsetOrdering(0 .. N))
  BY <1>2, <1>3, WFMin
<1>5. PICK n \in T : x = 0 .. n
  OBVIOUS
<1>6. ASSUME NEW k \in T, k < n PROVE FALSE
  <2>1. 0 .. k \in U /\ 0 .. k \subseteq 0 .. n /\ 0 .. k # 0 .. n
    BY <1>6
  <2>2. <<0 .. k, x>> \in StrictSubsetOrdering(0 .. N)
    BY <2>1, <1>5 DEF StrictSubsetOrdering
  <2> QED BY <1>4, <2>1, <2>2
<1> QED BY <1>6

LEMMA UpTo ==
  ASSUME NEW N \in Nat, NEW T, 0 \in T, \A n \in 0 .. N - 1 : n \in T => n + 1 \in T
  PROVE  0 .. N \subseteq T
<1> SUFFICES ASSUME ~(0 .. N \subseteq T) PROVE FALSE
  OBVIOUS
<1> DEFINE B == {n \in 0 .. N : n \notin T}
<1>1. PICK n \in B : \A k \in B : n <= k
  BY LeastOne
<1>2. n # 0 /\ n - 1 \in 0 .. N - 1
  OBVIOUS
<1>3. n - 1 \in T
  BY <1>1, <1>2
<1> QED BY <1>2, <1>3

\* A function whose values are each computed from the one before exists.
Folds(f, m, S, first, step) ==
  /\ f \in [0 .. m -> S] /\ f[0] = first
  /\ \A n \in 1 .. m : f[n] = step[n][f[n - 1]]

LEMMA FoldExists ==
  ASSUME NEW N \in Nat, NEW S, NEW first \in S, NEW step \in [1 .. N -> [S -> S]]
  PROVE  \E f : Folds(f, N, S, first, step)
<1> DEFINE T == {m \in 0 .. N : \E f : Folds(f, m, S, first, step)}
<1>1. 0 \in T
  <2>1. Folds([n \in 0 .. 0 |-> first], 0, S, first, step)
    BY DEF Folds
  <2> QED BY <2>1
<1>2. ASSUME NEW m \in 0 .. N - 1, m \in T PROVE m + 1 \in T
  <2>1. PICK f : Folds(f, m, S, first, step)
    BY <1>2
  <2> DEFINE g == [n \in 0 .. m + 1 |-> IF n <= m THEN f[n] ELSE step[m + 1][f[m]]]
  <2>2. f[m] \in S /\ step[m + 1] \in [S -> S]
    BY <2>1 DEF Folds
  <2>3. step[m + 1][f[m]] \in S
    BY <2>2
  <2>4. g \in [0 .. m + 1 -> S] /\ g[0] = first
    BY <2>1, <2>3 DEF Folds
  <2>5. ASSUME NEW n \in 1 .. m PROVE g[n] = step[n][g[n - 1]]
    <3>1. n \in 0 .. m + 1 /\ n - 1 \in 0 .. m + 1 /\ n <= m /\ n - 1 <= m
      OBVIOUS
    <3>2. g[n] = f[n] /\ g[n - 1] = f[n - 1]
      BY <3>1
    <3> QED BY <2>1, <3>2 DEF Folds
  <2>6. g[m + 1] = step[m + 1][g[m]]
    OBVIOUS
  <2> HIDE DEF g
  <2>7. \A n \in 1 .. m + 1 : g[n] = step[n][g[n - 1]]
    BY <2>5, <2>6
  <2>8. Folds(g, m + 1, S, first, step)
    BY <2>4, <2>7 DEF Folds
  <2> QED BY <2>8
<1> HIDE DEF T
<1>3. 0 .. N \subseteq T
  BY <1>1, <1>2, UpTo
<1> QED BY <1>3 DEF T
-----------------------------------------------------------------------------
(***************************************************************************)
(* Messages, groups of tool calls, and what a provider accepts             *)
(***************************************************************************)
CallSets == (SUBSET (1 .. MaxCalls)) \ {{}}
Protocol == {Asks(S) : S \in CallSets} \cup {Result(c) : c \in 1 .. MaxCalls}
Chat == {User(m) : m \in Everyone} \cup {Text}
Said == Chat \cup Protocol

Once(ms) == \A i, j \in DOMAIN ms :
              (i # j /\ ms[i].msg = ms[j].msg) => ms[i].msg = NoMsg

\* An assistant with tool calls and the results it has, want being those it lacks.
Group(g, want) ==
  /\ g \in Seq(Protocol) /\ g # <<>> /\ g[1].calls # {} /\ want \subseteq g[1].calls
  /\ \A j \in 2 .. Len(g) : g[j].role = "tool"
  /\ {g[j].call : j \in 2 .. Len(g)} = g[1].calls \ want
  /\ Len(g) - 1 + Cardinality(want) = Cardinality(g[1].calls)

LEMMA KindsAre ==
  ASSUME TurnAssumption
  PROVE  /\ \A x \in Everyone : /\ User(x).role = "user" /\ User(x).msg = x /\ x # NoMsg
                                /\ User(x).calls = {} /\ User(x) \in Message
         /\ Text.role = "assistant" /\ Text.msg = NoMsg /\ Text.calls = {} /\ Text \in Message
         /\ \A S \in SUBSET (1 .. MaxCalls) :
              Asks(S).role = "assistant" /\ Asks(S).msg = NoMsg /\ Asks(S).calls = S /\ Asks(S) \in Message
         /\ \A c \in 1 .. MaxCalls : /\ Result(c).role = "tool" /\ Result(c).msg = NoMsg
                                     /\ Result(c).calls = {} /\ Result(c).call = c /\ Result(c) \in Message
<1>1. MaxCalls \in Nat /\ NoMsg \notin Everyone
  BY DEF TurnAssumption, Everyone
<1>2. \A x \in Everyone : /\ User(x).role = "user" /\ User(x).msg = x /\ x # NoMsg
                          /\ User(x).calls = {} /\ User(x) \in Message
  BY <1>1 DEF User, Message
<1>3. Text.role = "assistant" /\ Text.msg = NoMsg /\ Text.calls = {} /\ Text \in Message
  BY <1>1 DEF Text, Message
<1>4. \A S \in SUBSET (1 .. MaxCalls) :
        Asks(S).role = "assistant" /\ Asks(S).msg = NoMsg /\ Asks(S).calls = S /\ Asks(S) \in Message
  BY <1>1 DEF Asks, Text, Message
<1>5. \A c \in 1 .. MaxCalls : /\ Result(c).role = "tool" /\ Result(c).msg = NoMsg
                               /\ Result(c).calls = {} /\ Result(c).call = c /\ Result(c) \in Message
  BY <1>1 DEF Result, Message
<1> QED BY <1>2, <1>3, <1>4, <1>5

LEMMA SaidIs ==
  ASSUME TurnAssumption, NEW m \in Said
  PROVE  /\ m \in Message /\ IsFiniteSet(m.calls) /\ Cardinality(m.calls) \in Nat
         /\ m.calls \subseteq 1 .. MaxCalls
         /\ m.role = "user" <=> m.msg # NoMsg
         /\ m.role = "user" => m = User(m.msg) /\ m.msg \in Everyone
         /\ m.role = "tool" => m.calls = {} /\ m.call \in 1 .. MaxCalls
         /\ m.calls # {} => m.role = "assistant"
         /\ m \in Protocol => m.msg = NoMsg /\ (m.role = "tool" \/ m.calls # {})
         /\ m \in Protocol <=> ~Conversational(m)
         /\ m \in Chat <=> Conversational(m)
<1>1. MaxCalls \in Nat
  BY DEF TurnAssumption
<1>2. m \in Message /\ m.calls \subseteq 1 .. MaxCalls
  <2>1. CASE m \in Chat
    BY <2>1, KindsAre DEF Chat
  <2>2. ASSUME NEW S \in SUBSET (1 .. MaxCalls), m = Asks(S)
        PROVE  m \in Message /\ m.calls \subseteq 1 .. MaxCalls
    <3>1. Asks(S).calls = S /\ Asks(S) \in Message
      BY KindsAre
    <3> QED BY <2>2, <3>1
  <2>3. CASE \E c \in 1 .. MaxCalls : m = Result(c)
    BY <2>3, KindsAre
  <2> QED BY <2>1, <2>2, <2>3 DEF Said, Protocol, CallSets
<1>3. IsFiniteSet(m.calls) /\ Cardinality(m.calls) \in Nat
  <2>1. IsFiniteSet(1 .. MaxCalls)
    BY <1>1, FS_Interval
  <2>2. IsFiniteSet(m.calls)
    BY <1>2, <2>1, FS_Subset
  <2> QED BY <2>2, FS_CardinalityType
<1>4. ASSUME m \in Protocol
      PROVE  /\ m.msg = NoMsg /\ ~Conversational(m) /\ m.role # "user"
             /\ m.role = "tool" => m.calls = {} /\ m.call \in 1 .. MaxCalls
             /\ m.role # "tool" => m.calls # {} /\ m.role = "assistant"
  <2>1. ASSUME NEW S \in CallSets, m = Asks(S)
        PROVE  m.role = "assistant" /\ m.msg = NoMsg /\ m.calls # {}
    <3>1. Asks(S).role = "assistant" /\ Asks(S).msg = NoMsg /\ Asks(S).calls = S
      BY KindsAre DEF CallSets
    <3>2. S # {}
      BY DEF CallSets
    <3> QED BY <2>1, <3>1, <3>2
  <2>2. CASE \E c \in 1 .. MaxCalls : m = Result(c)
    BY <2>2, KindsAre DEF Conversational
  <2>3. CASE \E S \in CallSets : m = Asks(S)
    BY <2>1, <2>3 DEF Conversational
  <2> QED BY <1>4, <2>2, <2>3 DEF Protocol
<1>5. ASSUME m \in Chat
      PROVE  /\ m.calls = {} /\ Conversational(m) /\ m.role # "tool"
             /\ m.role = "user" <=> m.msg # NoMsg
             /\ m.role = "user" => m = User(m.msg) /\ m.msg \in Everyone
  BY <1>5, KindsAre DEF Chat, Conversational
<1> QED BY <1>2, <1>3, <1>4, <1>5 DEF Said

\* The calls answered by the n messages after the i-th.
Answers(ms, i, n) == {ms[j].call : j \in i + 1 .. i + n}

LEMMA WellFormedJoins ==
  ASSUME TurnAssumption, NEW a \in Seq(Said), NEW b \in Seq(Said), WellFormed(a), WellFormed(b)
  PROVE  a \o b \in Seq(Said) /\ WellFormed(a \o b)
<1> DEFINE c == a \o b
           A == Len(a)
           B == Len(b)
<1>1. /\ A \in Nat /\ B \in Nat /\ DOMAIN a = 1 .. A /\ DOMAIN b = 1 .. B
      /\ c \in Seq(Said) /\ Len(c) = A + B /\ DOMAIN c = 1 .. A + B
      /\ \A i \in 1 .. A : c[i] = a[i]
      /\ \A i \in 1 .. B : c[A + i] = b[i]
  BY ConcatProperties, LenProperties
<1> HIDE DEF c, A, B
<1>2. \A i \in 1 .. A : Cardinality(a[i].calls) \in Nat /\ c[i] = a[i]
  BY <1>1, ElementOfSeq, SaidIs
<1>3. \A i \in 1 .. B : Cardinality(b[i].calls) \in Nat /\ c[A + i] = b[i]
  BY <1>1, ElementOfSeq, SaidIs
<1>4. ASSUME NEW i \in 1 .. A, c[i].calls # {} PROVE Answered(c, i)
  <2> DEFINE n == Cardinality(a[i].calls)
  <2>1. Answered(a, i)
    BY <1>1, <1>4 DEF WellFormed
  <2>2. n \in Nat /\ i + n <= A /\ Answers(a, i, n) = a[i].calls
    BY <1>1, <1>2, <2>1 DEF Answered, Answers, A
  <2> HIDE DEF n
  <2>3. \A j \in i + 1 .. i + n : c[j] = a[j]
    BY <1>1, <2>2
  <2>4. Answers(c, i, n) = Answers(a, i, n)
    BY <2>3 DEF Answers
  <2>5. i + n <= Len(c) /\ c[i].calls = a[i].calls
    BY <1>1, <1>2, <2>2
  <2> QED BY <2>2, <2>4, <2>5 DEF Answered, Answers, n
<1>5. ASSUME NEW k \in 1 .. B, c[A + k].calls # {} PROVE Answered(c, A + k)
  <2> DEFINE n == Cardinality(b[k].calls)
  <2>1. Answered(b, k)
    BY <1>1, <1>5 DEF WellFormed
  <2>2. n \in Nat /\ k + n <= B /\ Answers(b, k, n) = b[k].calls
    BY <1>1, <1>3, <2>1 DEF Answered, Answers, B
  <2> HIDE DEF n
  <2>3. \A j \in k + 1 .. k + n : c[A + j] = b[j] /\ A + j \in A + k + 1 .. A + k + n
    BY <1>1, <2>2
  <2>4. \A j \in A + k + 1 .. A + k + n : j - A \in k + 1 .. k + n /\ A + (j - A) = j
    BY <1>1, <2>2
  <2>5. Answers(c, A + k, n) \subseteq Answers(b, k, n)
    BY <2>3, <2>4 DEF Answers
  <2>6. Answers(b, k, n) \subseteq Answers(c, A + k, n)
    BY <2>3 DEF Answers
  <2>7. A + k + n <= Len(c) /\ c[A + k].calls = b[k].calls
    BY <1>1, <1>3, <2>2
  <2> QED BY <2>2, <2>5, <2>6, <2>7 DEF Answered, Answers, n
<1>6. ASSUME NEW j \in 1 .. A, c[j].role = "tool" PROVE Asked(c, j)
  <2>1. Asked(a, j)
    BY <1>1, <1>6 DEF WellFormed
  <2>2. PICK i \in 1 .. j - 1 : a[j].call \in a[i].calls /\ \A k \in i + 1 .. j : a[k].role = "tool"
    BY <2>1 DEF Asked
  <2>3. i \in 1 .. A /\ \A k \in i + 1 .. j : c[k] = a[k]
    BY <1>1
  <2> QED BY <1>1, <2>2, <2>3 DEF Asked
<1>7. ASSUME NEW j \in 1 .. B, c[A + j].role = "tool" PROVE Asked(c, A + j)
  <2>1. Asked(b, j)
    BY <1>1, <1>7 DEF WellFormed
  <2>2. PICK i \in 1 .. j - 1 : b[j].call \in b[i].calls /\ \A k \in i + 1 .. j : b[k].role = "tool"
    BY <2>1 DEF Asked
  <2>3. ASSUME NEW k \in A + i + 1 .. A + j PROVE c[k].role = "tool"
    <3>1. k - A \in i + 1 .. j /\ k - A \in 1 .. B /\ A + (k - A) = k
      BY <1>1, <2>2
    <3>2. c[A + (k - A)] = b[k - A]
      BY <1>1, <3>1
    <3> QED BY <2>2, <3>1, <3>2
  <2>4. A + i \in 1 .. (A + j) - 1 /\ c[A + i] = b[i] /\ c[A + j] = b[j]
    BY <1>1, <2>2
  <2> QED BY <2>2, <2>3, <2>4 DEF Asked
<1>8. \A i \in 1 .. A + B : i \in 1 .. A \/ (i - A \in 1 .. B /\ i = A + (i - A))
  BY <1>1
<1>9. \A i \in DOMAIN c : /\ c[i].calls # {} => Answered(c, i)
                          /\ c[i].role = "tool" => Asked(c, i)
  <2>1. ASSUME NEW i \in DOMAIN c, i \in 1 .. A
        PROVE  (c[i].calls # {} => Answered(c, i)) /\ (c[i].role = "tool" => Asked(c, i))
    BY <1>4, <1>6, <2>1
  <2>2. ASSUME NEW k \in 1 .. B
        PROVE  /\ c[A + k].calls # {} => Answered(c, A + k)
               /\ c[A + k].role = "tool" => Asked(c, A + k)
    BY <1>5, <1>7
  <2>3. ASSUME NEW i \in DOMAIN c, i \notin 1 .. A
        PROVE  (c[i].calls # {} => Answered(c, i)) /\ (c[i].role = "tool" => Asked(c, i))
    <3>1. PICK k \in 1 .. B : i = A + k
      BY <1>1, <1>8, <2>3
    <3> QED BY <2>2, <3>1
  <2> QED BY <2>1, <2>3
<1> QED BY <1>1, <1>9 DEF WellFormed, c

\* Messages of the conversation alone form no group.
LEMMA ChatIsWellFormed ==
  ASSUME TurnAssumption, NEW ms \in Seq(Chat)
  PROVE  ms \in Seq(Said) /\ WellFormed(ms)
<1>1. \A i \in DOMAIN ms : ms[i] \in Chat /\ ms[i] \in Said
  BY ElementOfSeq, LenProperties DEF Said
<1>2. \A m \in Chat : m.calls = {} /\ m.role # "tool"
  BY DEF Chat, User, Text
<1>3. Chat \subseteq Said
  BY DEF Said
<1> QED BY <1>1, <1>2, <1>3, SeqMonotonic DEF WellFormed

\* A result its group lacks joins it.
LEMMA GroupGrows ==
  ASSUME TurnAssumption, NEW g, NEW want, Group(g, want),
         NEW m \in Protocol, m.role = "tool", m.call \in want
  PROVE  Group(Append(g, m), want \ {m.call})
<1> DEFINE h == Append(g, m)
           n == Len(g)
<1>1. /\ n \in Nat \ {0} /\ h \in Seq(Protocol) /\ Len(h) = n + 1 /\ h[n + 1] = m
      /\ \A i \in 1 .. n : h[i] = g[i]
  BY AppendProperties, LenProperties, EmptySeq DEF Group
<1> HIDE DEF h, n
<1>2. g[1] \in Said
  BY <1>1, ElementOfSeq DEF Group, Said, n
<1>3. IsFiniteSet(want) /\ Cardinality(want \ {m.call}) = Cardinality(want) - 1
      /\ Cardinality(want) \in Nat
  <2>1. IsFiniteSet(g[1].calls) /\ want \subseteq g[1].calls
    BY <1>2, SaidIs DEF Group
  <2>2. IsFiniteSet(want)
    BY <2>1, FS_Subset
  <2> QED BY <2>2, FS_RemoveElement, FS_CardinalityType
<1>4. h[1] = g[1] /\ h # <<>>
  BY <1>1, EmptySeq
<1>5. \A j \in 2 .. n + 1 : h[j].role = "tool" /\ (j = n + 1 \/ (j \in 2 .. n /\ h[j] = g[j]))
  BY <1>1 DEF Group, n
<1>6. {h[j].call : j \in 2 .. n + 1} = {g[j].call : j \in 2 .. n} \cup {m.call}
  <2>1. {h[j].call : j \in 2 .. n + 1} \subseteq {g[j].call : j \in 2 .. n} \cup {m.call}
    BY <1>1, <1>5
  <2>2. {g[j].call : j \in 2 .. n} \subseteq {h[j].call : j \in 2 .. n + 1}
    BY <1>1
  <2>3. m.call \in {h[j].call : j \in 2 .. n + 1}
    BY <1>1
  <2> QED BY <2>1, <2>2, <2>3
<1>7. {h[j].call : j \in 2 .. n + 1} = h[1].calls \ (want \ {m.call})
  BY <1>4, <1>6 DEF Group, n
<1>8. Len(h) - 1 + Cardinality(want \ {m.call}) = Cardinality(h[1].calls)
  BY <1>1, <1>3, <1>4 DEF Group, n
<1> QED BY <1>1, <1>4, <1>5, <1>7, <1>8 DEF Group, h

\* A group that lacks none is what a provider accepts.
LEMMA GroupIsWellFormed ==
  ASSUME TurnAssumption, NEW g, Group(g, {})
  PROVE  g \in Seq(Said) /\ WellFormed(g)
<1>1. g \in Seq(Protocol) /\ g # <<>> /\ Len(g) \in Nat \ {0} /\ DOMAIN g = 1 .. Len(g)
  BY LenProperties, EmptySeq DEF Group
<1>2. g \in Seq(Said) /\ \A i \in DOMAIN g : g[i] \in Said
  BY <1>1, ElementOfSeq, SeqMonotonic DEF Said
<1>3. Cardinality({}) = 0 /\ Cardinality(g[1].calls) \in Nat /\ g[1].role = "assistant"
  BY <1>1, <1>2, FS_EmptySet, SaidIs DEF Group
<1>4. Answered(g, 1)
  <2>1. 1 + Cardinality(g[1].calls) = Len(g)
    BY <1>1, <1>3 DEF Group
  <2> QED BY <1>1, <2>1 DEF Answered, Group
<1>5. ASSUME NEW i \in DOMAIN g, i # 1 PROVE g[i].calls = {} /\ Asked(g, i)
  <2>1. i \in 2 .. Len(g) /\ g[i].role = "tool"
    BY <1>1, <1>5 DEF Group
  <2>2. g[i].call \in g[1].calls /\ \A k \in 2 .. i : g[k].role = "tool"
    BY <1>1, <2>1 DEF Group
  <2> QED BY <1>1, <1>2, <2>1, <2>2, SaidIs DEF Asked
<1> QED BY <1>1, <1>2, <1>3, <1>4, <1>5 DEF WellFormed

\* What two sequences of messages carry, one after the other.
LEMMA MsgsJoin ==
  ASSUME NEW a \in Seq(Said), NEW b \in Seq(Said)
  PROVE  /\ MsgsOf(a \o b) = MsgsOf(a) \cup MsgsOf(b)
         /\ Once(a \o b) <=> Once(a) /\ Once(b) /\ MsgsOf(a) \cap MsgsOf(b) = {}
<1> DEFINE c == a \o b
           A == Len(a)
           B == Len(b)
<1>1. /\ A \in Nat /\ B \in Nat /\ DOMAIN a = 1 .. A /\ DOMAIN b = 1 .. B
      /\ DOMAIN c = 1 .. A + B
      /\ \A i \in 1 .. A : c[i] = a[i]
      /\ \A i \in 1 .. B : c[A + i] = b[i]
  BY ConcatProperties, LenProperties
<1> HIDE DEF c, A, B
<1>2. \A i \in 1 .. A + B : i \in 1 .. A \/ (i - A \in 1 .. B /\ i = A + (i - A))
  BY <1>1
<1>3. MsgsOf(c) = MsgsOf(a) \cup MsgsOf(b)
  <2>1. ASSUME NEW i \in DOMAIN c PROVE c[i].msg \in {a[k].msg : k \in DOMAIN a} \cup {b[k].msg : k \in DOMAIN b}
    <3>1. CASE i \in 1 .. A
      BY <1>1, <3>1
    <3>2. CASE i \notin 1 .. A
      <4>1. i - A \in DOMAIN b /\ c[i] = b[i - A]
        BY <1>1, <1>2, <3>2
      <4> QED BY <4>1
    <3> QED BY <3>1, <3>2
  <2>2. \A i \in DOMAIN a : i \in DOMAIN c /\ c[i] = a[i]
    BY <1>1
  <2>3. \A i \in DOMAIN b : A + i \in DOMAIN c /\ c[A + i] = b[i]
    BY <1>1
  <2>4. MsgsOf(c) \subseteq MsgsOf(a) \cup MsgsOf(b)
    BY <2>1 DEF MsgsOf
  <2>5. MsgsOf(a) \subseteq MsgsOf(c) /\ MsgsOf(b) \subseteq MsgsOf(c)
    BY <2>2, <2>3 DEF MsgsOf
  <2> QED BY <2>4, <2>5
<1>4. ASSUME Once(c) PROVE Once(a) /\ Once(b) /\ MsgsOf(a) \cap MsgsOf(b) = {}
  <2>1. Once(a)
    BY <1>1, <1>4 DEF Once
  <2>2. \A i, j \in 1 .. B : i # j => A + i # A + j /\ A + i \in DOMAIN c /\ A + j \in DOMAIN c
    BY <1>1
  <2>3. Once(b)
    BY <1>1, <1>4, <2>2 DEF Once
  <2>4. ASSUME NEW i \in 1 .. A, NEW j \in 1 .. B, a[i].msg = b[j].msg PROVE a[i].msg = NoMsg
    <3>1. i # A + j /\ i \in DOMAIN c /\ A + j \in DOMAIN c /\ c[i].msg = c[A + j].msg
      BY <1>1, <2>4
    <3> QED BY <1>1, <1>4, <3>1 DEF Once
  <2>5. MsgsOf(a) \cap MsgsOf(b) = {}
    BY <1>1, <2>4 DEF MsgsOf
  <2> QED BY <2>1, <2>3, <2>5
<1>5. ASSUME Once(a), Once(b), MsgsOf(a) \cap MsgsOf(b) = {} PROVE Once(c)
  <2>1. \A i \in 1 .. A, j \in 1 .. B : a[i].msg = b[j].msg => a[i].msg = NoMsg
    BY <1>1, <1>5 DEF MsgsOf
  <2> SUFFICES ASSUME NEW i \in DOMAIN c, NEW j \in DOMAIN c, i # j, c[i].msg = c[j].msg
               PROVE  c[i].msg = NoMsg
    BY DEF Once
  <2>2. CASE i \in 1 .. A /\ j \in 1 .. A
    BY <1>1, <1>5, <2>2 DEF Once
  <2>3. CASE i \in 1 .. A /\ j \notin 1 .. A
    <3>1. c[i] = a[i] /\ j - A \in 1 .. B /\ c[j] = b[j - A]
      BY <1>1, <1>2, <2>3
    <3> QED BY <2>1, <2>3, <3>1
  <2>4. CASE i \notin 1 .. A /\ j \in 1 .. A
    <3>1. c[j] = a[j] /\ i - A \in 1 .. B /\ c[i] = b[i - A]
      BY <1>1, <1>2, <2>4
    <3>2. a[j].msg = NoMsg
      BY <2>1, <2>4, <3>1
    <3> QED BY <3>1, <3>2
  <2>5. CASE i \notin 1 .. A /\ j \notin 1 .. A
    <3>1. i - A \in DOMAIN b /\ j - A \in DOMAIN b /\ i - A # j - A
      BY <1>1, <1>2, <2>5
    <3>2. c[i] = b[i - A] /\ c[j] = b[j - A]
      BY <1>1, <1>2, <2>5
    <3> QED BY <1>5, <3>1, <3>2 DEF Once
  <2> QED BY <2>2, <2>3, <2>4, <2>5
<1> QED BY <1>3, <1>4, <1>5 DEF c

LEMMA Reassociates ==
  ASSUME NEW a \in Seq(Said), NEW b \in Seq(Said), NEW c \in Seq(Said)
  PROVE  (a \o b) \o c = a \o (b \o c)
BY ConcatAssociative

LEMMA MsgsAppend ==
  ASSUME NEW a \in Seq(Said), NEW m \in Said
  PROVE  /\ Append(a, m) \in Seq(Said) /\ Append(a, m) = a \o <<m>>
         /\ MsgsOf(Append(a, m)) = MsgsOf(a) \cup ({m.msg} \ {NoMsg})
         /\ Once(Append(a, m)) <=> Once(a) /\ m.msg \notin MsgsOf(a)
<1>1. Append(a, m) = a \o <<m>> /\ Append(a, m) \in Seq(Said) /\ <<m>> \in Seq(Said)
  BY AppendIsConcat, AppendProperties
<1>2. MsgsOf(<<m>>) = {m.msg} \ {NoMsg} /\ Once(<<m>>)
  BY DEF MsgsOf, Once
<1>3. NoMsg \notin MsgsOf(a)
  BY DEF MsgsOf
<1>4. /\ MsgsOf(a \o <<m>>) = MsgsOf(a) \cup MsgsOf(<<m>>)
      /\ Once(a \o <<m>>) <=> Once(a) /\ Once(<<m>>) /\ MsgsOf(a) \cap MsgsOf(<<m>>) = {}
  BY <1>1, MsgsJoin
<1>5. MsgsOf(a) \cap MsgsOf(<<m>>) = {} <=> m.msg \notin MsgsOf(a)
  BY <1>2, <1>3
<1> QED BY <1>1, <1>2, <1>4, <1>5

LEMMA ProtocolCarriesNothing ==
  ASSUME TurnAssumption, NEW g \in Seq(Protocol)
  PROVE  g \in Seq(Said) /\ MsgsOf(g) = {} /\ Once(g)
<1>1. \A i \in DOMAIN g : g[i] \in Protocol /\ g[i] \in Said
  BY ElementOfSeq, LenProperties DEF Said
<1>2. \A i \in DOMAIN g : g[i].msg = NoMsg
  BY <1>1, SaidIs
<1>3. Protocol \subseteq Said
  BY DEF Said
<1> QED BY <1>2, <1>3, SeqMonotonic DEF MsgsOf, Once
-----------------------------------------------------------------------------
(***************************************************************************)
(* What _drop_orphan_tool_messages keeps: the messages of users, all and   *)
(* once, and whole groups                                                  *)
(***************************************************************************)
Told(ms, n) == {ms[i].msg : i \in 1 .. n} \ {NoMsg}

Keeps(out, ms, n) ==
  /\ out \in Seq(Said) /\ WellFormed(out) /\ MsgsOf(out) = Told(ms, n)
  /\ Once(ms) => Once(out)

States == [out : Seq(Said), group : Seq(Protocol), later : Seq(Chat), want : SUBSET (1 .. MaxCalls)]

Scans(s, ms, n) ==
  /\ s \in States /\ WellFormed(s.out)
  /\ IF s.want = {} THEN s.group = <<>> /\ s.later = <<>> ELSE Group(s.group, s.want)
  /\ Keeps(s.out \o s.later, ms, n)

LEMMA ToldNext ==
  ASSUME TurnAssumption, NEW ms \in Seq(Said), NEW n \in 0 .. Len(ms) - 1
  PROVE  /\ ms[n + 1] \in Said
         /\ Told(ms, n + 1) = Told(ms, n) \cup ({ms[n + 1].msg} \ {NoMsg})
         /\ Once(ms) => ms[n + 1].msg \notin Told(ms, n)
<1>1. Len(ms) \in Nat /\ DOMAIN ms = 1 .. Len(ms) /\ ms[n + 1] \in Said
  BY ElementOfSeq, LenProperties
<1>2. n \in Nat /\ 1 .. n + 1 = (1 .. n) \cup {n + 1} /\ n + 1 \in DOMAIN ms
  BY <1>1
<1>3. Told(ms, n + 1) = Told(ms, n) \cup ({ms[n + 1].msg} \ {NoMsg})
  BY <1>2 DEF Told
<1>4. ASSUME Once(ms) PROVE ms[n + 1].msg \notin Told(ms, n)
  <2>1. \A i \in 1 .. n : i \in DOMAIN ms /\ i # n + 1
    BY <1>1, <1>2
  <2> QED BY <1>2, <1>4, <2>1 DEF Once, Told
<1> QED BY <1>1, <1>3, <1>4

\* A message of the conversation joins what is kept; one of the protocol adds nothing to it.
LEMMA KeepsNext ==
  ASSUME TurnAssumption, NEW ms \in Seq(Said), NEW n \in 0 .. Len(ms) - 1,
         NEW out, Keeps(out, ms, n)
  PROVE  /\ ms[n + 1] \in Chat => Keeps(Append(out, ms[n + 1]), ms, n + 1)
         /\ ms[n + 1] \in Protocol => Keeps(out, ms, n + 1)
<1> DEFINE m == ms[n + 1]
<1>1. /\ m \in Said /\ Told(ms, n + 1) = Told(ms, n) \cup ({m.msg} \ {NoMsg})
      /\ Once(ms) => m.msg \notin Told(ms, n)
  BY ToldNext
<1> HIDE DEF m
<1>2. out \in Seq(Said) /\ WellFormed(out) /\ MsgsOf(out) = Told(ms, n)
  BY DEF Keeps
<1>3. ASSUME m \in Chat PROVE Keeps(Append(out, m), ms, n + 1)
  <2>1. <<m>> \in Seq(Chat)
    BY <1>3
  <2>2. <<m>> \in Seq(Said) /\ WellFormed(<<m>>)
    BY <2>1, ChatIsWellFormed
  <2>3. /\ Append(out, m) = out \o <<m>> /\ Append(out, m) \in Seq(Said)
        /\ MsgsOf(Append(out, m)) = MsgsOf(out) \cup ({m.msg} \ {NoMsg})
        /\ Once(Append(out, m)) <=> Once(out) /\ m.msg \notin MsgsOf(out)
    BY <1>1, <1>2, MsgsAppend
  <2>4. WellFormed(out \o <<m>>)
    BY <1>2, <2>2, WellFormedJoins
  <2> QED BY <1>1, <1>2, <2>3, <2>4 DEF Keeps
<1>4. ASSUME m \in Protocol PROVE Keeps(out, ms, n + 1)
  <2>1. m.msg = NoMsg
    BY <1>1, <1>4, SaidIs
  <2> QED BY <1>1, <2>1 DEF Keeps
<1> QED BY <1>3, <1>4 DEF m

LEMMA ClosedScans ==
  ASSUME NEW out, NEW ms, NEW n, Keeps(out, ms, n)
  PROVE  Scans(Closed(out), ms, n)
<1>1. out \in Seq(Said) /\ WellFormed(out)
  BY DEF Keeps
<1>2. <<>> \in Seq(Protocol) /\ <<>> \in Seq(Chat) /\ {} \in SUBSET (1 .. MaxCalls)
  OBVIOUS
<1>3. Closed(out) \in States
  BY <1>1, <1>2 DEF Closed, States
<1>4. out \o <<>> = out
  BY <1>1, ConcatEmptySeq
<1> QED BY <1>1, <1>3, <1>4 DEF Scans, Closed

LEMMA TopLevelScans ==
  ASSUME TurnAssumption, NEW ms \in Seq(Said), NEW n \in 0 .. Len(ms) - 1,
         NEW out, Keeps(out, ms, n)
  PROVE  Scans(TopLevel(out, ms[n + 1]), ms, n + 1)
<1> DEFINE m == ms[n + 1]
<1>1. m \in Said
  BY ToldNext
<1>2. /\ m \in Chat => Keeps(Append(out, m), ms, n + 1)
      /\ m \in Protocol => Keeps(out, ms, n + 1)
  BY KeepsNext
<1> HIDE DEF m
<1>3. CASE m.role = "assistant" /\ m.calls # {}
  <2> DEFINE s == [out |-> out, group |-> <<m>>, later |-> <<>>, want |-> m.calls]
  <2>1. TopLevel(out, m) = s
    BY <1>3 DEF TopLevel
  <2>2. m \in Protocol /\ m.calls \in SUBSET (1 .. MaxCalls) /\ Cardinality(m.calls) \in Nat
    BY <1>1, <1>3, SaidIs DEF Conversational
  <2>3. Keeps(out, ms, n + 1) /\ out \in Seq(Said) /\ WellFormed(out) /\ out \o <<>> = out
    BY <1>2, <2>2, ConcatEmptySeq DEF Keeps
  <2>4. /\ <<m>> \in Seq(Protocol) /\ <<m>> # <<>> /\ Len(<<m>>) = 1 /\ <<m>>[1] = m
        /\ <<>> \in Seq(Chat)
    BY <2>2
  <2>5. Group(<<m>>, m.calls)
    BY <1>3, <2>2, <2>4 DEF Group
  <2>6. s \in States
    BY <2>2, <2>3, <2>4 DEF States
  <2>7. Scans(s, ms, n + 1)
    BY <1>3, <2>3, <2>5, <2>6 DEF Scans
  <2> QED BY <2>1, <2>7 DEF m
<1>4. CASE m.role = "tool"
  <2>1. TopLevel(out, m) = Closed(out) /\ m \in Protocol
    BY <1>1, <1>4, SaidIs DEF TopLevel, Conversational
  <2> QED BY <1>2, <2>1, ClosedScans DEF m
<1>5. CASE ~(m.role = "assistant" /\ m.calls # {}) /\ m.role # "tool"
  <2>1. TopLevel(out, m) = Closed(Append(out, m))
    BY <1>5 DEF TopLevel
  <2>2. m \in Chat
    BY <1>1, <1>5, SaidIs DEF Said
  <2> QED BY <1>2, <2>1, <2>2, ClosedScans DEF m
<1> QED BY <1>3, <1>4, <1>5

\* One more message, whatever the scan was in the middle of.
LEMMA ScanNext ==
  ASSUME TurnAssumption, NEW ms \in Seq(Said), NEW n \in 0 .. Len(ms) - 1,
         NEW s, Scans(s, ms, n)
  PROVE  Scans(Scan(s, ms[n + 1]), ms, n + 1)
<1> DEFINE m == ms[n + 1]
<1>1. m \in Said
  BY ToldNext
<1>2. /\ s \in States /\ s.out \in Seq(Said) /\ s.group \in Seq(Protocol)
      /\ s.later \in Seq(Chat) /\ s.want \in SUBSET (1 .. MaxCalls)
  BY DEF Scans, States
<1>3. Keeps(s.out \o s.later, ms, n) /\ WellFormed(s.out)
  BY DEF Scans
<1>4. s.later \in Seq(Said) /\ WellFormed(s.later)
  BY <1>2, ChatIsWellFormed
<1>5. CASE s.want = {}
  <2>1. s.out \o s.later = s.out
    BY <1>2, <1>5, ConcatEmptySeq DEF Scans
  <2>2. Scan(s, m) = TopLevel(s.out, m)
    BY <1>5 DEF Scan
  <2> QED BY <1>3, <2>1, <2>2, TopLevelScans
<1>6. CASE s.want # {} /\ Joins(s, m)
  <2> DEFINE g == Append(s.group, m)
             w == s.want \ {m.call}
  <2>1. m.role = "tool" /\ m.call \in s.want /\ m \in Protocol
    BY <1>1, <1>6, SaidIs DEF Joins, Conversational
  <2>2. Group(g, w)
    BY <1>6, <2>1, GroupGrows DEF Scans
  <2>3. Keeps(s.out \o s.later, ms, n + 1)
    BY <1>3, <2>1, KeepsNext
  <2>4. Scan(s, m) = Joined(s, m)
    BY <1>6, <2>1 DEF Scan, Conversational
  <2>5. g \in Seq(Protocol) /\ w \in SUBSET (1 .. MaxCalls)
    BY <1>2, <2>2 DEF Group
  <2> HIDE DEF m
  <2>6. CASE s.want = {m.call}
    <3> DEFINE whole == s.out \o g \o s.later
    <3>1. w = {} /\ Joined(s, m) = Closed(whole)
      BY <2>6 DEF Joined
    <3>2. g \in Seq(Said) /\ WellFormed(g) /\ MsgsOf(g) = {} /\ Once(g)
      BY <2>2, <2>5, <3>1, GroupIsWellFormed, ProtocolCarriesNothing
    <3> HIDE DEF g
    <3>3. s.out \o g \in Seq(Said) /\ WellFormed(s.out \o g)
      BY <1>2, <1>3, <3>2, WellFormedJoins
    <3>4. whole \in Seq(Said) /\ WellFormed(whole)
      BY <1>4, <3>3, WellFormedJoins
    <3>5. MsgsOf(s.out \o g) = MsgsOf(s.out) /\ (Once(s.out \o g) <=> Once(s.out))
      <4>1. /\ MsgsOf(s.out \o g) = MsgsOf(s.out) \cup MsgsOf(g)
            /\ Once(s.out \o g) <=> Once(s.out) /\ Once(g) /\ MsgsOf(s.out) \cap MsgsOf(g) = {}
        BY <1>2, <3>2, MsgsJoin
      <4> QED BY <3>2, <4>1
    <3>6. /\ MsgsOf(whole) = MsgsOf(s.out) \cup MsgsOf(s.later)
          /\ Once(whole) <=> Once(s.out) /\ Once(s.later) /\ MsgsOf(s.out) \cap MsgsOf(s.later) = {}
      <4>1. /\ MsgsOf(whole) = MsgsOf(s.out \o g) \cup MsgsOf(s.later)
            /\ Once(whole) <=> /\ Once(s.out \o g) /\ Once(s.later)
                               /\ MsgsOf(s.out \o g) \cap MsgsOf(s.later) = {}
        BY <1>4, <3>3, MsgsJoin
      <4> QED BY <3>5, <4>1
    <3>7. MsgsOf(whole) = MsgsOf(s.out \o s.later) /\ (Once(whole) <=> Once(s.out \o s.later))
      BY <1>2, <1>4, <3>6, MsgsJoin
    <3>8. Keeps(whole, ms, n + 1)
      BY <2>3, <3>4, <3>7 DEF Keeps
    <3> QED BY <2>4, <3>1, <3>8, ClosedScans DEF m
  <2>7. CASE s.want # {m.call}
    <3> DEFINE new == [s EXCEPT !.group = g, !.want = s.want \ {m.call}]
    <3>1. Joined(s, m) = new
      BY <2>7 DEF Joined
    <3> HIDE DEF g
    <3>2. new \in States /\ new.out = s.out /\ new.later = s.later /\ new.group = g /\ new.want = w
      BY <1>2, <2>5 DEF States
    <3>3. w # {}
      BY <2>1, <2>7
    <3> HIDE DEF new, w
    <3>4. Scans(new, ms, n + 1)
      BY <1>3, <2>2, <2>3, <3>2, <3>3 DEF Scans
    <3> QED BY <2>4, <3>1, <3>4 DEF m
  <2> QED BY <2>6, <2>7
<1>7. CASE s.want # {} /\ ~Joins(s, m) /\ Conversational(m)
  <2> DEFINE l == Append(s.later, m)
             new == [s EXCEPT !.later = l]
  <2>1. Scan(s, m) = new
    BY <1>7 DEF Scan
  <2>2. m \in Chat
    BY <1>1, <1>7, SaidIs
  <2>3. Keeps(Append(s.out \o s.later, m), ms, n + 1)
    BY <1>3, <2>2, KeepsNext
  <2> HIDE DEF m
  <2>4. l \in Seq(Chat) /\ l = s.later \o <<m>> /\ <<m>> \in Seq(Said)
    BY <1>1, <1>2, <2>2, AppendProperties, AppendIsConcat
  <2>5. Append(s.out \o s.later, m) = s.out \o l
    <3>1. s.out \o s.later \in Seq(Said)
      BY <1>3 DEF Keeps
    <3>2. Append(s.out \o s.later, m) = (s.out \o s.later) \o <<m>>
      BY <1>1, <3>1, AppendIsConcat
    <3>3. (s.out \o s.later) \o <<m>> = s.out \o (s.later \o <<m>>)
      <4>1. PICK x \in Seq(Said) : x = s.out
        BY <1>2
      <4>2. PICK y \in Seq(Said) : y = s.later
        BY <1>4
      <4>3. PICK z \in Seq(Said) : z = <<m>>
        BY <2>4
      <4>4. (x \o y) \o z = x \o (y \o z)
        BY Reassociates
      <4> QED BY <4>1, <4>2, <4>3, <4>4
    <3> QED BY <2>4, <3>2, <3>3
  <2> HIDE DEF l
  <2>6. new \in States /\ new.out = s.out /\ new.later = l /\ new.group = s.group /\ new.want = s.want
    BY <1>2, <2>4 DEF States
  <2> HIDE DEF new
  <2>7. Group(s.group, s.want)
    BY <1>7 DEF Scans
  <2>8. Scans(new, ms, n + 1)
    BY <1>3, <1>7, <2>3, <2>5, <2>6, <2>7 DEF Scans
  <2> QED BY <2>1, <2>8 DEF m
<1>8. CASE s.want # {} /\ ~Joins(s, m) /\ ~Conversational(m)
  <2>1. Scan(s, m) = TopLevel(s.out \o s.later, m)
    BY <1>8 DEF Scan
  <2> QED BY <1>3, <2>1, TopLevelScans
<1> QED BY <1>5, <1>6, <1>7, <1>8

\* A function that scans ms, message by message; there is one, and Scanned takes it.
ScansAll(f, ms) ==
  f = [n \in 0 .. Len(ms) |-> IF n = 0 THEN Closed(<<>>) ELSE Scan(f[n - 1], ms[n])]

LEMMA NothingScanned ==
  ASSUME TurnAssumption, NEW ms \in Seq(Said)
  PROVE  Scans(Closed(<<>>), ms, 0)
<1>1. <<>> \in Seq(Chat) /\ <<>> \in Seq(Said)
  OBVIOUS
<1>2. WellFormed(<<>>) /\ MsgsOf(<<>>) = {} /\ Once(<<>>)
  BY DEF WellFormed, MsgsOf, Once
<1>3. Told(ms, 0) = {}
  BY DEF Told
<1> QED BY <1>1, <1>2, <1>3, ClosedScans DEF Keeps

LEMMA ScanExists ==
  ASSUME TurnAssumption, NEW ms \in Seq(Said)
  PROVE  \E f : ScansAll(f, ms)
<1> DEFINE N == Len(ms)
           Next1(n, s) == IF Scan(s, ms[n]) \in States THEN Scan(s, ms[n]) ELSE Closed(<<>>)
           step == [n \in 1 .. N |-> [s \in States |-> Next1(n, s)]]
<1>1. N \in Nat
  BY LenProperties
<1>2. Closed(<<>>) \in States /\ Scans(Closed(<<>>), ms, 0)
  BY NothingScanned DEF Scans
<1>3. step \in [1 .. N -> [States -> States]]
  BY <1>2
<1>4. \A n \in 1 .. N : \A s \in States : step[n][s] = Next1(n, s)
  OBVIOUS
<1> HIDE DEF N, step
<1>5. PICK f : Folds(f, N, States, Closed(<<>>), step)
  BY <1>1, <1>2, <1>3, FoldExists
<1>6. /\ f \in [0 .. N -> States] /\ f[0] = Closed(<<>>)
      /\ \A n \in 1 .. N : f[n] = step[n][f[n - 1]]
  BY <1>5 DEF Folds
<1> DEFINE T == {n \in 0 .. N : Scans(f[n], ms, n)}
<1>7. 0 \in T
  BY <1>1, <1>2, <1>6
<1>8. ASSUME NEW n \in 0 .. N - 1, Scans(f[n], ms, n)
      PROVE  f[n + 1] = Scan(f[n], ms[n + 1]) /\ Scans(f[n + 1], ms, n + 1)
  <2>1. n + 1 \in 1 .. N /\ f[n] \in States /\ f[(n + 1) - 1] = f[n]
    BY <1>1, <1>6
  <2>2. f[n + 1] = Next1(n + 1, f[n])
    BY <1>4, <1>6, <2>1
  <2>3. Scans(Scan(f[n], ms[n + 1]), ms, n + 1)
    BY <1>8, ScanNext DEF N
  <2>4. Scan(f[n], ms[n + 1]) \in States
    BY <2>3 DEF Scans
  <2> QED BY <2>2, <2>3, <2>4
<1>9. 0 .. N \subseteq T
  <2>1. \A n \in 0 .. N - 1 : n \in T => n + 1 \in T
    BY <1>1, <1>8
  <2> HIDE DEF T
  <2> QED BY <1>1, <1>7, <2>1, UpTo
<1>10. \A n \in 1 .. N : f[n] = Scan(f[n - 1], ms[n])
  <2>1. ASSUME NEW n \in 1 .. N PROVE f[n] = Scan(f[n - 1], ms[n])
    <3>1. n - 1 \in 0 .. N - 1 /\ n - 1 \in 0 .. N /\ (n - 1) + 1 = n
      BY <1>1
    <3>2. Scans(f[n - 1], ms, n - 1)
      BY <1>9, <3>1
    <3> QED BY <1>8, <3>1, <3>2
  <2> QED BY <2>1
<1> DEFINE F == [n \in 0 .. N |-> IF n = 0 THEN Closed(<<>>) ELSE Scan(f[n - 1], ms[n])]
<1>11. f = F
  <2>1. ASSUME NEW n \in 0 .. N PROVE f[n] = F[n]
    BY <1>1, <1>6, <1>10
  <2>2. f = [n \in 0 .. N |-> f[n]]
    BY <1>6
  <2> QED BY <2>1, <2>2
<1> QED BY <1>11 DEF ScansAll, N

LEMMA ScannedHolds ==
  ASSUME TurnAssumption, NEW ms \in Seq(Said)
  PROVE  Scans(Scanned(ms), ms, Len(ms))
<1> DEFINE N == Len(ms)
           scanned[n \in 0 .. Len(ms)] ==
             IF n = 0 THEN Closed(<<>>) ELSE Scan(scanned[n - 1], ms[n])
<1>1. Scanned(ms) = scanned[N]
  BY DEF Scanned
<1>2. ScansAll(scanned, ms)
  <2>1. \E f : ScansAll(f, ms)
    BY ScanExists
  <2> QED BY <2>1 DEF ScansAll
<1>3. N \in Nat
  BY LenProperties
<1> HIDE DEF scanned
<1>4. /\ scanned[0] = Closed(<<>>)
      /\ \A n \in 1 .. N : scanned[n] = Scan(scanned[n - 1], ms[n])
  BY <1>2, <1>3 DEF ScansAll
<1> HIDE DEF N
<1> DEFINE T == {n \in 0 .. N : Scans(scanned[n], ms, n)}
<1>5. 0 \in T
  BY <1>3, <1>4, NothingScanned
<1>6. ASSUME NEW n \in 0 .. N - 1, n \in T PROVE n + 1 \in T
  <2>1. scanned[n + 1] = Scan(scanned[n], ms[n + 1])
    <3>1. n + 1 \in 1 .. N /\ (n + 1) - 1 = n
      BY <1>3
    <3> QED BY <1>4, <3>1
  <2>2. Scans(Scan(scanned[n], ms[n + 1]), ms, n + 1)
    BY <1>6, ScanNext DEF N
  <2> QED BY <1>3, <2>1, <2>2
<1>7. 0 .. N \subseteq T
  <2> HIDE DEF T
  <2> QED BY <1>3, <1>5, <1>6, UpTo
<1>8. N \in T
  BY <1>3, <1>7
<1> QED BY <1>1, <1>8 DEF N

\* Nothing of a user is dropped with a broken group, and no broken group is left.
LEMMA DropKeeps ==
  ASSUME TurnAssumption, NEW ms \in Seq(Said)
  PROVE  /\ DropOrphanToolMessages(ms) \in Seq(Said)
         /\ WellFormed(DropOrphanToolMessages(ms))
         /\ MsgsOf(DropOrphanToolMessages(ms)) = MsgsOf(ms)
         /\ Once(ms) => Once(DropOrphanToolMessages(ms))
<1>1. Keeps(DropOrphanToolMessages(ms), ms, Len(ms))
  BY ScannedHolds DEF Scans, DropOrphanToolMessages
<1>2. Told(ms, Len(ms)) = MsgsOf(ms)
  BY LenProperties DEF Told, MsgsOf
<1> QED BY <1>1, <1>2 DEF Keeps
-----------------------------------------------------------------------------
(***************************************************************************)
(* What a drain brings: the messages of users after the cursor, all, once  *)
(***************************************************************************)
SaidRows == [id : Nat, by : Everyone \cup {NoMsg}, m : Said]
Users == {User(x) : x \in Everyone}
IsNew(r, cursor) == r.m.role = "user" /\ r.id > cursor
NewMsgs(cursor, n) == {rows[i].m.msg : i \in {j \in 1 .. n : IsNew(rows[j], cursor)}}

Gathers(x, cursor, n) ==
  /\ x \in Seq(Users) /\ MsgsOf(x) = NewMsgs(cursor, n)
  /\ Once(Plain(rows)) => Once(x)

GathersAll(f, cursor) ==
  f = [n \in 0 .. Len(rows) |->
         IF n = 0 THEN <<>>
         ELSE IF IsNew(rows[n], cursor) THEN Append(f[n - 1], rows[n].m) ELSE f[n - 1]]

LEMMA UsersAre ==
  ASSUME TurnAssumption
  PROVE  /\ Users \subseteq Chat /\ Users \subseteq Said
         /\ \A m \in Users : m.msg \in Everyone /\ m.msg # NoMsg
         /\ \A m \in Said : m.role = "user" => m \in Users
<1>1. Users \subseteq Chat /\ Users \subseteq Said
  BY DEF Users, Chat, Said
<1>2. \A m \in Users : m.msg \in Everyone /\ m.msg # NoMsg
  BY KindsAre DEF Users
<1>3. \A m \in Said : m.role = "user" => m \in Users
  BY SaidIs DEF Users
<1> QED BY <1>1, <1>2, <1>3

LEMMA GatherNext ==
  ASSUME TurnAssumption, rows \in Seq(SaidRows), NEW cursor, NEW n \in 0 .. Len(rows) - 1,
         NEW x, Gathers(x, cursor, n)
  PROVE  /\ IsNew(rows[n + 1], cursor) => Gathers(Append(x, rows[n + 1].m), cursor, n + 1)
         /\ ~IsNew(rows[n + 1], cursor) => Gathers(x, cursor, n + 1)
<1> DEFINE m == rows[n + 1].m
           L == Len(rows)
<1>1. L \in Nat /\ DOMAIN rows = 1 .. L /\ n \in Nat /\ n + 1 \in 1 .. L
  BY LenProperties
<1>2. rows[n + 1] \in SaidRows
  BY <1>1, ElementOfSeq
<1>3. m \in Said
  BY <1>2 DEF SaidRows
<1>4. x \in Seq(Users) /\ x \in Seq(Said) /\ MsgsOf(x) = NewMsgs(cursor, n)
  BY UsersAre, SeqMonotonic DEF Gathers
<1>5. \A j \in 1 .. n + 1 : j \in 1 .. n \/ j = n + 1
  BY <1>1
<1>6. ASSUME IsNew(rows[n + 1], cursor) PROVE Gathers(Append(x, m), cursor, n + 1)
  <2>1. m.role = "user" /\ m \in Users /\ m.msg # NoMsg
    BY <1>3, <1>6, UsersAre DEF IsNew
  <2>2. NewMsgs(cursor, n + 1) = NewMsgs(cursor, n) \cup {m.msg}
    <3>1. NewMsgs(cursor, n + 1) \subseteq NewMsgs(cursor, n) \cup {m.msg}
      BY <1>5 DEF NewMsgs
    <3>2. NewMsgs(cursor, n) \subseteq NewMsgs(cursor, n + 1)
      BY <1>1 DEF NewMsgs
    <3>3. m.msg \in NewMsgs(cursor, n + 1)
      BY <1>1, <1>6 DEF NewMsgs
    <3> QED BY <3>1, <3>2, <3>3
  <2>3. Append(x, m) \in Seq(Users)
    BY <1>4, <2>1, AppendProperties
  <2>4. ASSUME Once(Plain(rows)) PROVE m.msg \notin NewMsgs(cursor, n)
    <3>1. \A i \in 1 .. n : rows[i].m.msg # m.msg
      <4>1. DOMAIN Plain(rows) = 1 .. L /\ \A i \in 1 .. L : Plain(rows)[i] = rows[i].m
        BY <1>1 DEF Plain
      <4> QED BY <1>1, <2>1, <2>4, <4>1 DEF Once
    <3> QED BY <3>1 DEF NewMsgs
  <2>5. /\ MsgsOf(Append(x, m)) = MsgsOf(x) \cup ({m.msg} \ {NoMsg})
        /\ Once(Append(x, m)) <=> Once(x) /\ m.msg \notin MsgsOf(x)
    BY <1>3, <1>4, MsgsAppend
  <2> QED BY <1>4, <2>1, <2>2, <2>3, <2>4, <2>5 DEF Gathers
<1>7. ASSUME ~IsNew(rows[n + 1], cursor) PROVE Gathers(x, cursor, n + 1)
  <2>1. NewMsgs(cursor, n + 1) = NewMsgs(cursor, n)
    <3>1. \A j \in 1 .. n + 1 : IsNew(rows[j], cursor) => j \in 1 .. n
      BY <1>5, <1>7
    <3>2. \A j \in 1 .. n : j \in 1 .. n + 1
      BY <1>1
    <3> QED BY <3>1, <3>2 DEF NewMsgs
  <2> QED BY <1>4, <2>1 DEF Gathers
<1> QED BY <1>6, <1>7

LEMMA NothingGathered ==
  ASSUME NEW cursor
  PROVE  Gathers(<<>>, cursor, 0)
<1>1. <<>> \in Seq(Users) /\ MsgsOf(<<>>) = {} /\ Once(<<>>)
  BY DEF MsgsOf, Once
<1>2. NewMsgs(cursor, 0) = {}
  BY DEF NewMsgs
<1> QED BY <1>1, <1>2 DEF Gathers

LEMMA GatherExists ==
  ASSUME TurnAssumption, rows \in Seq(SaidRows), NEW cursor
  PROVE  \E f : GathersAll(f, cursor)
<1> DEFINE N == Len(rows)
           More(n, x) == IF IsNew(rows[n], cursor) THEN Append(x, rows[n].m) ELSE x
           step == [n \in 1 .. N |-> [x \in Seq(Said) |-> More(n, x)]]
<1>1. N \in Nat /\ DOMAIN rows = 1 .. N
  BY LenProperties
<1>2. \A n \in 1 .. N : rows[n].m \in Said
  <2>1. \A n \in 1 .. N : rows[n] \in SaidRows
    BY <1>1, ElementOfSeq
  <2> QED BY <2>1 DEF SaidRows
<1>3. step \in [1 .. N -> [Seq(Said) -> Seq(Said)]]
  <2>1. ASSUME NEW n \in 1 .. N, NEW x \in Seq(Said) PROVE More(n, x) \in Seq(Said)
    BY <1>2, AppendProperties
  <2> HIDE DEF More, N
  <2> QED BY <2>1
<1>4. \A n \in 1 .. N : \A x \in Seq(Said) : step[n][x] = More(n, x)
  OBVIOUS
<1>5. <<>> \in Seq(Said)
  OBVIOUS
<1> HIDE DEF N, step
<1>6. PICK f : Folds(f, N, Seq(Said), <<>>, step)
  BY <1>1, <1>3, <1>5, FoldExists
<1>7. /\ f \in [0 .. N -> Seq(Said)] /\ f[0] = <<>>
      /\ \A n \in 1 .. N : f[n] = step[n][f[n - 1]]
  BY <1>6 DEF Folds
<1>8. ASSUME NEW n \in 1 .. N PROVE f[n] = More(n, f[n - 1])
  <2>1. n - 1 \in 0 .. N
    BY <1>1
  <2> QED BY <1>4, <1>7, <2>1
<1> HIDE DEF More
<1> DEFINE F == [n \in 0 .. N |-> IF n = 0 THEN <<>> ELSE More(n, f[n - 1])]
<1>9. f = F
  <2>1. ASSUME NEW n \in 0 .. N PROVE f[n] = F[n]
    BY <1>1, <1>7, <1>8
  <2>2. f = [n \in 0 .. N |-> f[n]]
    BY <1>7
  <2> QED BY <2>1, <2>2
<1> QED BY <1>9 DEF GathersAll, N, More

LEMMA SinceHolds ==
  ASSUME TurnAssumption, rows \in Seq(SaidRows), NEW cursor
  PROVE  Gathers(Since(cursor), cursor, Len(rows))
<1> DEFINE N == Len(rows)
           new(r) == r.m.role = "user" /\ r.id > cursor
           since[n \in 0 .. Len(rows)] ==
             IF n = 0 THEN <<>>
             ELSE IF new(rows[n]) THEN Append(since[n - 1], rows[n].m) ELSE since[n - 1]
<1>1. Since(cursor) = since[N]
  BY DEF Since
<1>2. GathersAll(since, cursor)
  <2>1. \E f : GathersAll(f, cursor)
    BY GatherExists
  <2> QED BY <2>1 DEF GathersAll, IsNew
<1>3. N \in Nat
  BY LenProperties
<1> HIDE DEF since
<1>4. /\ since[0] = <<>>
      /\ \A n \in 1 .. N : since[n] = IF IsNew(rows[n], cursor) THEN Append(since[n - 1], rows[n].m)
                                      ELSE since[n - 1]
  <2> DEFINE G(n) == IF IsNew(rows[n], cursor) THEN Append(since[n - 1], rows[n].m)
                     ELSE since[n - 1]
  <2>1. since = [n \in 0 .. N |-> IF n = 0 THEN <<>> ELSE G(n)]
    BY <1>2 DEF GathersAll
  <2> HIDE DEF G
  <2>2. since[0] = <<>> /\ \A n \in 1 .. N : since[n] = G(n)
    BY <1>3, <2>1
  <2> QED BY <2>2 DEF G
<1> HIDE DEF N
<1> DEFINE T == {n \in 0 .. N : Gathers(since[n], cursor, n)}
<1>5. 0 \in T
  BY <1>3, <1>4, NothingGathered
<1>6. ASSUME NEW n \in 0 .. N - 1, n \in T PROVE n + 1 \in T
  <2>1. since[n + 1] = IF IsNew(rows[n + 1], cursor) THEN Append(since[n], rows[n + 1].m)
                       ELSE since[n]
    <3>1. n + 1 \in 1 .. N /\ (n + 1) - 1 = n
      BY <1>3
    <3> QED BY <1>4, <3>1
  <2>2. Gathers(since[n + 1], cursor, n + 1)
    BY <1>6, <2>1, GatherNext DEF N
  <2> QED BY <1>3, <2>2
<1>7. 0 .. N \subseteq T
  <2> HIDE DEF T
  <2> QED BY <1>3, <1>5, <1>6, UpTo
<1>8. N \in T
  BY <1>3, <1>7
<1> QED BY <1>1, <1>8 DEF N
-----------------------------------------------------------------------------
(***************************************************************************)
(* The inductive invariant of the contexts                                 *)
(***************************************************************************)
\* The history: ids grow, and each message of a user has one row.
Ordered ==
  /\ rows \in Seq(SaidRows) /\ Once(Plain(rows))
  /\ \A i \in DOMAIN rows : rows[i].id \in 1 .. lastId
  /\ \A i, j \in DOMAIN rows : i < j => rows[i].id < rows[j].id

Looping == {"top", "llm", "tools", "wrapup", "persist"}
Loading == Looping \cup {"loaded"}

\* A context that ends in a group, todo being the calls it lacks.
OpenEnd(ctx, todo) ==
  \E before, g \in Seq(Said) :
    /\ ctx = before \o g /\ WellFormed(before)
    /\ Group(g, {todo[i] : i \in DOMAIN todo})
    /\ \A i, j \in DOMAIN todo : todo[i] = todo[j] => i = j
Formed(s) == IF s.pc = "tools" THEN OpenEnd(s.ctx, s.todo) ELSE WellFormed(s.ctx)

\* What a turn loaded, of the rows R whose ids go up to last.
Loads(s, R, last) ==
  /\ s.ctx \in Seq(Said) /\ Once(s.ctx) /\ s.from \in 0 .. last
  /\ Window = 0 => \A r \in R :
       (r.m.role = "user" /\ r.id <= s.from) => r.m.msg \in MsgsOf(s.ctx)

\* What it drained, and what it has still to drain.
Loops(s, R, last) ==
  /\ s.base \in 0 .. last /\ s.cursor \in 0 .. last
  /\ \A r \in R : r.m.role = "user" =>
       /\ (r.id > s.base /\ r.id <= s.cursor) => r.m.msg \in MsgsOf(s.ctx)
       /\ r.id > s.cursor => r.m.msg \notin MsgsOf(s.ctx)

Reads(s, R, last) ==
  /\ s.trace \in Seq(Protocol)
  /\ s.pc \notin Loading => s.ctx = <<>>
  /\ s.pc \in Loading => Loads(s, R, last) /\ Formed(s)
  /\ s.pc \in Looping => Loops(s, R, last)
Reading == \A t \in Turns : Reads(turn[t], RowSet, lastId)

\* A message that has no row yet, and is in no context but that of its own turn.
Unrecorded(s) ==
  \/ s.pc # "idle" /\ s.kind = "task"
  \/ s.pc = "begin"
  \/ s.pc = "loaded" /\ s.kind \in {"message", "notice"}
Fresh(m) ==
  \/ inbox[m] \in {"new", "racing"}
  \/ \E t \in Turns : Unrecorded(turn[t]) /\ turn[t].own = m
Unheard ==
  \A m \in Everyone : Fresh(m) =>
    /\ m \notin Recorded
    /\ \A t \in Turns : m \in MsgsOf(turn[t].ctx) => turn[t].own = m

Contexts == /\ Ordered /\ Reading /\ Unheard
            /\ calls \in 0 .. MaxCalls /\ events \in 0 .. MaxEvents
-----------------------------------------------------------------------------
(***************************************************************************)
(* What each kind of step does to the history                              *)
(***************************************************************************)
\* The rows that are there after a step: old ones, and one that may record X.
Follows(X) ==
  /\ Ordered' /\ lastId' \in Nat /\ lastId <= lastId'
  /\ Recorded' \subseteq Recorded \cup X
  /\ \A r \in RowSet' : \/ r \in RowSet
                        \/ r.id > lastId /\ (r.m.role = "user" => r.m.msg \in X)

LEMMA StaysFollows ==
  ASSUME Ordered, lastId \in Nat, UNCHANGED <<rows, lastId>>
  PROVE  Follows({})
BY DEF Follows, Ordered, Plain, Recorded, RowSet, MsgsOf, Once

LEMMA AppendFollows ==
  ASSUME TurnAssumption, Typed, Ordered, NEW by \in Everyone \cup {NoMsg}, NEW m \in Said,
         AppendRow(by, m), m.msg \notin Recorded
  PROVE  Follows({m.msg} \ {NoMsg})
<1> DEFINE r == RowOf(lastId + 1, by, m)
           L == Len(rows)
<1>1. lastId \in Nat /\ rows \in Seq(SaidRows)
  BY DEF Typed, Ordered
<1>2. rows' = Append(rows, r) /\ lastId' = lastId + 1
  BY DEF AppendRow
<1>3. r \in SaidRows /\ r.id = lastId + 1 /\ r.by = by /\ r.m = m
  BY <1>1 DEF RowOf, SaidRows
<1> HIDE DEF r
<1>4. /\ rows' \in Seq(SaidRows) /\ Len(rows') = L + 1 /\ rows'[L + 1] = r
      /\ \A i \in 1 .. L : rows'[i] = rows[i]
      /\ L \in Nat /\ DOMAIN rows = 1 .. L /\ DOMAIN rows' = 1 .. L + 1
  BY <1>1, <1>2, <1>3, AppendProperties, LenProperties
<1> HIDE DEF L
<1>5. \A i \in 1 .. L + 1 : i \in 1 .. L \/ i = L + 1
  BY <1>4
<1>6. \A i \in 1 .. L : rows[i].id \in 1 .. lastId
  BY <1>4 DEF Ordered
<1>7. \A i \in DOMAIN rows' : rows'[i].id \in 1 .. lastId'
  BY <1>1, <1>2, <1>3, <1>4, <1>5, <1>6
<1>8. ASSUME NEW i \in 1 .. L + 1, NEW j \in 1 .. L + 1, i < j PROVE rows'[i].id < rows'[j].id
  <2>1. i \in 1 .. L /\ rows'[i] = rows[i]
    BY <1>4, <1>8
  <2>2. CASE j \in 1 .. L
    BY <1>4, <1>8, <2>1, <2>2 DEF Ordered
  <2>3. CASE j = L + 1
    BY <1>1, <1>3, <1>4, <1>6, <2>1, <2>3
  <2> QED BY <1>5, <2>2, <2>3
<1>9. Plain(rows) \in Seq(Said) /\ Plain(rows') = Append(Plain(rows), m)
  <2>1. Plain(rows) = [i \in 1 .. L |-> rows[i].m] /\ Plain(rows') = [i \in 1 .. L + 1 |-> rows'[i].m]
    BY <1>4 DEF Plain
  <2>2. \A i \in 1 .. L : rows[i] \in SaidRows
    BY <1>1, <1>4, ElementOfSeq
  <2>3. \A i \in 1 .. L : rows[i].m \in Said
    BY <2>2 DEF SaidRows
  <2>4. Plain(rows) \in Seq(Said) /\ Len(Plain(rows)) = L
    BY <1>4, <2>1, <2>3
  <2>5. PICK p \in Seq(Said) : p = Plain(rows)
    BY <2>4
  <2>6. PICK q \in Seq(Said) : q = Append(p, m)
    BY AppendProperties
  <2>7. Len(q) = L + 1 /\ q[L + 1] = m /\ \A i \in 1 .. L : q[i] = p[i]
    BY <2>4, <2>5, <2>6, AppendProperties
  <2>8. q = [i \in 1 .. L + 1 |-> q[i]]
    BY <2>7
  <2>9. \A i \in 1 .. L + 1 : rows'[i].m = q[i]
    BY <1>3, <1>4, <1>5, <2>1, <2>5, <2>7
  <2> QED BY <2>1, <2>5, <2>6, <2>8, <2>9
<1>10. Once(Plain(rows')) /\ MsgsOf(Plain(rows')) = Recorded \cup ({m.msg} \ {NoMsg})
  <2>1. PICK p \in Seq(Said) : p = Plain(rows)
    BY <1>9
  <2>2. /\ MsgsOf(Append(p, m)) = MsgsOf(p) \cup ({m.msg} \ {NoMsg})
        /\ Once(Append(p, m)) <=> Once(p) /\ m.msg \notin MsgsOf(p)
    BY MsgsAppend
  <2>3. Once(p) /\ MsgsOf(p) = Recorded
    BY <2>1 DEF Ordered, Recorded
  <2> QED BY <1>9, <2>1, <2>2, <2>3
<1>11. Ordered'
  BY <1>4, <1>7, <1>8, <1>10 DEF Ordered, Plain, Once
<1>12. Recorded' = Recorded \cup ({m.msg} \ {NoMsg})
  BY <1>10 DEF Recorded, Plain, MsgsOf
<1>13. ASSUME NEW x \in RowSet'
       PROVE  x \in RowSet \/ (x.id > lastId /\ (x.m.role = "user" => x.m.msg \in {m.msg} \ {NoMsg}))
  <2>1. PICK i \in 1 .. L + 1 : x = rows'[i]
    BY <1>4, <1>13 DEF RowSet
  <2>2. CASE i \in 1 .. L
    BY <1>4, <2>1, <2>2 DEF RowSet
  <2>3. CASE i = L + 1
    BY <1>1, <1>3, <1>4, <2>1, <2>3, SaidIs
  <2> QED BY <1>5, <2>2, <2>3
<1> QED BY <1>1, <1>2, <1>11, <1>12, <1>13 DEF Follows

\* The end of an ordered history is one.
LEMMA EndFollows ==
  ASSUME TurnAssumption, Typed, Ordered, NEW k \in Nat \ {0},
         rows' = SubSeq(rows, k, Len(rows)), lastId' = lastId
  PROVE  Follows({})
<1> DEFINE L == Len(rows)
           M == L - k + 1
<1>1. L \in Nat /\ DOMAIN rows = 1 .. L /\ rows \in Seq(SaidRows) /\ lastId \in Nat
  BY LenProperties DEF Ordered, Typed
<1>2. CASE k > L
  <2>1. rows' = <<>>
    BY <1>1, <1>2, SubSeqProperties
  <2>2. Ordered' /\ RowSet' = {} /\ Recorded' = {}
    BY <2>1 DEF Ordered, Plain, Once, RowSet, Recorded, MsgsOf
  <2> QED BY <1>1, <2>2 DEF Follows
<1>3. CASE k <= L
  <2>1. M \in Nat /\ M >= 1 /\ \A i \in 1 .. M : k + i - 1 \in 1 .. L
    BY <1>1, <1>3
  <2>2. /\ rows' \in Seq(SaidRows) /\ Len(rows') = M /\ DOMAIN rows' = 1 .. M
        /\ \A i \in 1 .. M : rows'[i] = rows[k + i - 1]
    <3>1. /\ \A i \in k .. L : rows[i] \in SaidRows
          /\ SubSeq(rows, k, L) \in Seq(SaidRows) /\ Len(SubSeq(rows, k, L)) = M
          /\ \A i \in 1 .. M : SubSeq(rows, k, L)[i] = rows[k + i - 1]
      BY <1>1, <1>3, ElementOfSeq, SubSeqProperties
    <3> QED BY <3>1, LenProperties
  <2> HIDE DEF M, L
  <2>3. /\ \A i \in DOMAIN rows' : rows'[i].id \in 1 .. lastId'
        /\ \A i, j \in DOMAIN rows' : i < j => rows'[i].id < rows'[j].id
    <3>1. \A i, j \in 1 .. M : i < j => k + i - 1 < k + j - 1
      BY <2>1
    <3> QED BY <1>1, <2>1, <2>2, <3>1 DEF Ordered
  <2>4. Once(Plain(rows'))
    <3>1. DOMAIN Plain(rows) = 1 .. L /\ \A i \in 1 .. L : Plain(rows)[i] = rows[i].m
      BY <1>1 DEF Plain
    <3>2. DOMAIN Plain(rows') = 1 .. M /\ \A i \in 1 .. M : Plain(rows')[i] = rows[k + i - 1].m
      BY <2>2 DEF Plain
    <3>3. ASSUME NEW i \in 1 .. M, NEW j \in 1 .. M, i # j,
                 rows[k + i - 1].m.msg = rows[k + j - 1].m.msg
          PROVE  rows[k + i - 1].m.msg = NoMsg
      <4>1. k + i - 1 \in 1 .. L /\ k + j - 1 \in 1 .. L
        BY <2>1
      <4>2. i \in Int /\ j \in Int /\ k \in Int /\ i # j
        BY <2>1, <3>3
      <4>3. k + i - 1 # k + j - 1
        BY <4>2
      <4> QED BY <4>3, <3>1, <3>3, <4>1 DEF Ordered, Once
    <3>4. PICK p : p = Plain(rows')
      OBVIOUS
    <3>5. DOMAIN p = 1 .. M /\ \A i \in 1 .. M : p[i] = rows[k + i - 1].m
      BY <3>2, <3>4
    <3>6. Once(p)
      BY <3>3, <3>5 DEF Once
    <3> QED BY <3>4, <3>6
  <2>5. \A r \in RowSet' : r \in RowSet
    BY <1>1, <2>1, <2>2 DEF RowSet
  <2>6. Recorded' \subseteq Recorded
    <3>1. \A i \in DOMAIN rows : Plain(rows)[i] = rows[i].m
      BY DEF Plain
    <3>2. \A i \in DOMAIN rows' : Plain(rows')[i] = rows'[i].m
      BY DEF Plain
    <3>3. DOMAIN Plain(rows) = DOMAIN rows /\ DOMAIN Plain(rows') = DOMAIN rows'
      BY DEF Plain
    <3> QED BY <1>1, <2>1, <2>2, <3>1, <3>2, <3>3 DEF Recorded, MsgsOf, Plain
  <2>7. Ordered'
    BY <2>2, <2>3, <2>4 DEF Ordered, Plain, Once
  <2> QED BY <1>1, <2>5, <2>6, <2>7 DEF Follows
<1> QED BY <1>1, <1>2, <1>3

\* Where the end of the history starts.
LEMMA FromIs ==
  ASSUME Ordered, NEW id
  PROVE  \E k \in Nat \ {0} : From(id) = SubSeq(rows, k, Len(rows))
<1> DEFINE before == {i \in DOMAIN rows : rows[i].id < id}
<1>1. DOMAIN rows = 1 .. Len(rows) /\ Len(rows) \in Nat
  BY LenProperties DEF Ordered
<1>2. IsFiniteSet(1 .. Len(rows)) /\ before \subseteq 1 .. Len(rows)
  BY <1>1, FS_Interval
<1>3. IsFiniteSet(before)
  BY <1>2, FS_Subset
<1>4. Cardinality(before) + 1 \in Nat \ {0}
  BY <1>3, FS_CardinalityType
<1> QED BY <1>4 DEF From
-----------------------------------------------------------------------------
(***************************************************************************)
(* What a turn has read stays right                                        *)
(***************************************************************************)
LEMMA ReadsStays ==
  ASSUME NEW s, NEW R, NEW last \in Nat, Reads(s, R, last),
         NEW R2, NEW last2 \in Nat, last <= last2, NEW X,
         \A r \in R2 : r \in R \/ (r.id > last /\ (r.m.role = "user" => r.m.msg \in X)),
         \A r \in R2 : r.id \in Nat,
         s.pc \in Looping => X \cap MsgsOf(s.ctx) = {}
  PROVE  Reads(s, R2, last2)
<1>1. ASSUME Loads(s, R, last) PROVE Loads(s, R2, last2)
  BY <1>1 DEF Loads
<1>2. ASSUME Loops(s, R, last), X \cap MsgsOf(s.ctx) = {} PROVE Loops(s, R2, last2)
  BY <1>2 DEF Loops
<1> QED BY <1>1, <1>2 DEF Reads

\* The same messages read, whatever else changed.
SameReading(s2, s) ==
  /\ s2.from = s.from /\ s2.base = s.base /\ s2.cursor = s.cursor
  /\ s2.ctx \in Seq(Said) /\ MsgsOf(s2.ctx) = MsgsOf(s.ctx) /\ (Once(s.ctx) => Once(s2.ctx))

LEMMA SameReads ==
  ASSUME NEW s, NEW s2, NEW R, NEW last, SameReading(s2, s)
  PROVE  /\ Loads(s, R, last) => Loads(s2, R, last)
         /\ Loops(s, R, last) => Loops(s2, R, last)
BY DEF SameReading, Loads, Loops

LEMMA GreatestOne ==
  ASSUME NEW N \in Nat, NEW T, T \subseteq 0 .. N, T # {}
  PROVE  \E n \in T : \A k \in T : k <= n
<1> DEFINE U == {N - n : n \in T}
<1>1. U \subseteq 0 .. N /\ U # {}
  <2>1. \A n \in T : N - n \in 0 .. N
    OBVIOUS
  <2>2. PICK n \in T : TRUE
    OBVIOUS
  <2> QED BY <2>1, <2>2
<1>2. PICK u \in U : \A k \in U : u <= k
  BY <1>1, LeastOne
<1>3. PICK n \in T : u = N - n
  OBVIOUS
<1>4. ASSUME NEW k \in T PROVE k <= n
  <2>1. N - k \in U /\ k \in 0 .. N /\ n \in 0 .. N
    OBVIOUS
  <2>2. N - n <= N - k
    BY <1>2, <1>3, <2>1
  <2> HIDE DEF U
  <2> QED BY <2>1, <2>2
<1> QED BY <1>4

LEMMA NewCursorIs ==
  ASSUME Ordered, lastId \in Nat, NEW cursor \in 0 .. lastId
  PROVE  /\ NewCursor(cursor) \in cursor .. lastId
         /\ \A r \in RowSet : r.m.role = "user" => r.id <= NewCursor(cursor)
<1> DEFINE ids == {rows[i].id : i \in {j \in DOMAIN rows : rows[j].m.role = "user"}}
<1>1. ids \subseteq 0 .. lastId
  BY DEF Ordered
<1>2. \A r \in RowSet : r.m.role = "user" => r.id \in ids
  BY DEF RowSet
<1>3. NewCursor(cursor) = IF \E x \in ids : x > cursor
                          THEN CHOOSE x \in ids : \A y \in ids : y <= x ELSE cursor
  BY DEF NewCursor
<1> HIDE DEF ids
<1>4. CASE \E x \in ids : x > cursor
  <2>1. \E x \in ids : \A y \in ids : y <= x
    BY <1>1, <1>4, GreatestOne
  <2>2. NewCursor(cursor) \in ids /\ \A y \in ids : y <= NewCursor(cursor)
    BY <1>3, <1>4, <2>1
  <2>3. PICK x \in ids : x > cursor
    BY <1>4
  <2>4. NewCursor(cursor) \in 0 .. lastId /\ x \in 0 .. lastId /\ x <= NewCursor(cursor)
    BY <1>1, <2>2
  <2>5. NewCursor(cursor) \in cursor .. lastId
    BY <2>3, <2>4
  <2> QED BY <1>2, <2>2, <2>5
<1>5. CASE ~\E x \in ids : x > cursor
  <2>1. NewCursor(cursor) = cursor /\ cursor \in cursor .. lastId
    BY <1>3, <1>5
  <2>2. \A x \in ids : x <= cursor
    BY <1>1, <1>5
  <2> QED BY <1>2, <2>1, <2>2
<1> QED BY <1>4, <1>5

\* A drain brings what it had not seen, and moves on to its last.
LEMMA DrainReads ==
  ASSUME TurnAssumption, Ordered, lastId \in Nat, NEW s, NEW d,
         Loads(s, RowSet, lastId), Loops(s, RowSet, lastId),
         d.ctx = s.ctx \o Since(s.cursor), d.cursor = NewCursor(s.cursor),
         d.from = s.from, d.base = s.base
  PROVE  /\ Loads(d, RowSet, lastId) /\ Loops(d, RowSet, lastId)
         /\ WellFormed(s.ctx) => WellFormed(d.ctx)
         /\ MsgsOf(d.ctx) \subseteq MsgsOf(s.ctx) \cup Recorded
<1> DEFINE c == s.cursor
           new == Since(c)
           fresh == {r.m.msg : r \in {x \in RowSet : IsNew(x, c)}}
<1>1. c \in 0 .. lastId /\ s.ctx \in Seq(Said) /\ Once(s.ctx)
  BY DEF Loads, Loops
<1>2. Gathers(new, c, Len(rows))
  BY SinceHolds DEF Ordered
<1>3. new \in Seq(Users) /\ new \in Seq(Said) /\ new \in Seq(Chat) /\ Once(new)
  BY <1>2, UsersAre, SeqMonotonic DEF Gathers, Ordered
<1>4. NewMsgs(c, Len(rows)) = fresh
  BY LenProperties DEF NewMsgs, RowSet, Ordered
<1>5. MsgsOf(new) = fresh
  BY <1>2, <1>4 DEF Gathers
<1> HIDE DEF new, c
<1>6. fresh \cap MsgsOf(s.ctx) = {}
  BY DEF Loops, IsNew, c
<1>7. fresh \subseteq Recorded
  <2>1. ASSUME NEW r \in RowSet, IsNew(r, c) PROVE r.m.msg \in Recorded
    <3>1. PICK i \in DOMAIN rows : r = rows[i]
      BY DEF RowSet
    <3>2. rows[i] \in SaidRows
      BY ElementOfSeq, LenProperties DEF Ordered
    <3>3. r.m \in Said /\ r.m.msg # NoMsg
      BY <2>1, <3>1, <3>2, SaidIs DEF SaidRows, IsNew
    <3> QED BY <3>1, <3>3 DEF Recorded, MsgsOf, Plain
  <2> QED BY <2>1
<1>8. /\ MsgsOf(d.ctx) = MsgsOf(s.ctx) \cup fresh
      /\ d.ctx \in Seq(Said) /\ Once(d.ctx)
  <2>1. /\ MsgsOf(s.ctx \o new) = MsgsOf(s.ctx) \cup MsgsOf(new)
        /\ Once(s.ctx \o new) <=> Once(s.ctx) /\ Once(new) /\ MsgsOf(s.ctx) \cap MsgsOf(new) = {}
    BY <1>1, <1>3, MsgsJoin
  <2>2. s.ctx \o new \in Seq(Said)
    BY <1>1, <1>3, ConcatProperties
  <2>3. d.ctx = s.ctx \o new
    BY DEF new, c
  <2> QED BY <1>1, <1>3, <1>5, <1>6, <2>1, <2>2, <2>3
<1>9. ASSUME WellFormed(s.ctx) PROVE WellFormed(d.ctx)
  <2>1. WellFormed(new)
    BY <1>3, ChatIsWellFormed
  <2>2. WellFormed(s.ctx \o new)
    BY <1>1, <1>3, <1>9, <2>1, WellFormedJoins
  <2> QED BY <2>2 DEF new, c
<1>10. /\ d.cursor \in c .. lastId
       /\ \A r \in RowSet : r.m.role = "user" => r.id <= d.cursor
  BY <1>1, NewCursorIs DEF c
<1>11. Loads(d, RowSet, lastId)
  BY <1>8 DEF Loads
<1>12. Loops(d, RowSet, lastId)
  <2>1. d.base \in 0 .. lastId /\ d.cursor \in 0 .. lastId
    BY <1>1, <1>10 DEF Loops
  <2>2. \A r \in RowSet : r.id \in 1 .. lastId
    BY DEF Ordered, RowSet
  <2>3. ASSUME NEW r \in RowSet, r.m.role = "user", r.id > d.base, r.id <= d.cursor
        PROVE  r.m.msg \in MsgsOf(d.ctx)
    <3>1. CASE r.id <= c
      BY <1>8, <2>3, <3>1 DEF Loops, c
    <3>2. CASE ~(r.id <= c)
      <4>1. IsNew(r, c)
        BY <1>1, <2>2, <2>3, <3>2 DEF IsNew
      <4> QED BY <1>8, <4>1
    <3> QED BY <3>1, <3>2
  <2>4. \A r \in RowSet : r.m.role = "user" => ~(r.id > d.cursor)
    BY <1>10, <2>1, <2>2
  <2> QED BY <2>1, <2>3, <2>4 DEF Loops
<1> QED BY <1>7, <1>8, <1>9, <1>11, <1>12

LEMMA EmptyContext == MsgsOf(<<>>) = {}
BY DEF MsgsOf

\* The turns in progress are of different messages.
LEMMA OwnersDiffer ==
  ASSUME TurnAssumption, Inv, NEW t \in Turns, NEW u \in Turns, u # t,
         ~At(t, "idle"), ~At(u, "idle")
  PROVE  turn[t].own # turn[u].own
BY DEF Inv, Owners, Owned, Turns, TurnAssumption

\* A step of a turn that goes on from t to new and records what X names.
LEMMA TurnStepReads ==
  ASSUME TurnAssumption, Inv, Contexts, NEW t \in Turns, ~At(t, "idle"), NEW new, NEW X,
         X \subseteq {turn[t].own}, Follows(X), turn' = [turn EXCEPT ![t] = new], inbox' = inbox,
         Reads(new, RowSet', lastId'),
         MsgsOf(new.ctx) \subseteq MsgsOf(turn[t].ctx) \cup Recorded \cup {turn[t].own},
         new.own = turn[t].own \/ new.ctx = <<>>,
         Unrecorded(new) => Unrecorded(turn[t]) /\ new.own = turn[t].own /\ new.own \notin X,
         X # {} => Unrecorded(turn[t]),
         calls' \in 0 .. MaxCalls, events' \in 0 .. MaxEvents
  PROVE  Contexts'
<1>1. turn = [u \in Turns |-> turn[u]] /\ lastId \in Nat
  BY DEF Inv, Typed
<1>2. turn'[t] = new /\ \A u \in Turns : u # t => turn'[u] = turn[u]
  BY <1>1
<1>3. /\ Ordered' /\ lastId' \in Nat /\ lastId <= lastId' /\ Recorded' \subseteq Recorded \cup X
      /\ \A r \in RowSet' : \/ r \in RowSet
                            \/ r.id > lastId /\ (r.m.role = "user" => r.m.msg \in X)
  BY DEF Follows
<1>4. \A r \in RowSet' : r.id \in Nat
  BY <1>3 DEF Ordered, RowSet
<1>5. turn[t].own \in Everyone /\ inbox[turn[t].own] = "taken"
  BY DEF Inv, Owners, Owned, Turns, Everyone
<1>6. ASSUME NEW u \in Turns, u # t PROVE X \cap MsgsOf(turn[u].ctx) = {}
  <2>1. CASE At(u, "idle")
    <3>1. turn[u].ctx = <<>>
      BY <2>1 DEF Contexts, Reading, Reads, At, Loading, Looping
    <3> QED BY <3>1, EmptyContext
  <2>2. CASE ~At(u, "idle") /\ X # {}
    <3>1. Fresh(turn[t].own)
      BY <2>2 DEF Fresh
    <3>2. turn[t].own \in MsgsOf(turn[u].ctx) => turn[u].own = turn[t].own
      BY <1>5, <3>1 DEF Contexts, Unheard
    <3> QED BY <1>6, <2>2, <3>2, OwnersDiffer
  <2> QED BY <2>1, <2>2
<1>7. ASSUME NEW u \in Turns PROVE Reads(turn'[u], RowSet', lastId')
  <2>1. CASE u = t
    BY <1>2, <2>1
  <2>2. CASE u # t
    <3>1. Reads(turn[u], RowSet, lastId)
      BY DEF Contexts, Reading
    <3>2. Reads(turn[u], RowSet', lastId')
      <4>1. X \cap MsgsOf(turn[u].ctx) = {}
        BY <1>6, <2>2
      <4>2. PICK R : R = RowSet
        OBVIOUS
      <4>3. PICK R2 : R2 = RowSet'
        OBVIOUS
      <4>4. PICK s : s = turn[u]
        OBVIOUS
      <4>5. /\ Reads(s, R, lastId) /\ X \cap MsgsOf(s.ctx) = {} /\ \A r \in R2 : r.id \in Nat
            /\ \A r \in R2 : r \in R \/ (r.id > lastId /\ (r.m.role = "user" => r.m.msg \in X))
        BY <1>3, <1>4, <3>1, <4>1, <4>2, <4>3, <4>4
      <4>6. Reads(s, R2, lastId')
        BY <1>1, <1>3, <4>5, ReadsStays, ZenonT(60)
      <4> QED BY <4>3, <4>4, <4>6
    <3> QED BY <1>2, <2>2, <3>2
  <2> QED BY <2>1, <2>2
<1>8. Reading'
  BY <1>7 DEF Reading
<1>9. ASSUME NEW m \in Everyone, Fresh(m)'
      PROVE  m \notin Recorded' /\ \A u \in Turns : m \in MsgsOf(turn'[u].ctx) => turn'[u].own = m
  <2>1. Fresh(m) /\ m \notin X
    <3>1. CASE inbox[m] \in {"new", "racing"}
      BY <1>5, <3>1 DEF Fresh
    <3>2. CASE inbox[m] \notin {"new", "racing"}
      <4>1. PICK u \in Turns : Unrecorded(turn'[u]) /\ turn'[u].own = m
        BY <1>9, <3>2 DEF Fresh, Unrecorded
      <4>2. CASE u = t
        BY <1>2, <4>1, <4>2 DEF Fresh
      <4>3. CASE u # t
        <5>1. Unrecorded(turn[u]) /\ turn[u].own = m
          BY <1>2, <4>1, <4>3
        <5>2. ~At(u, "idle")
          BY <5>1 DEF Unrecorded, At
        <5> QED BY <4>3, <5>1, <5>2, OwnersDiffer DEF Fresh
      <4> QED BY <4>2, <4>3
    <3> QED BY <3>1, <3>2
  <2>2. m \notin Recorded /\ \A u \in Turns : m \in MsgsOf(turn[u].ctx) => turn[u].own = m
    BY <2>1 DEF Contexts, Unheard
  <2>3. ASSUME NEW u \in Turns, m \in MsgsOf(turn'[u].ctx) PROVE turn'[u].own = m
    <3>1. CASE u # t
      BY <1>2, <2>2, <2>3, <3>1
    <3>2. CASE u = t
      <4>1. new.ctx # <<>>
        BY <1>2, <2>3, <3>2, EmptyContext
      <4> QED BY <1>2, <2>2, <2>3, <3>2, <4>1
    <3> QED BY <3>1, <3>2
  <2> QED BY <1>3, <2>1, <2>2, <2>3
<1>10. Unheard'
  BY <1>9 DEF Unheard
<1> QED BY <1>3, <1>8, <1>10 DEF Contexts

\* A step that leaves the turns where they are; who arrives or is recorded was fresh.
LEMMA AroundStepReads ==
  ASSUME TurnAssumption, Inv, Contexts, NEW X, Follows(X), X \subseteq Everyone,
         \A u \in Turns : \/ /\ turn'[u].ctx = turn[u].ctx /\ turn'[u].own = turn[u].own
                             /\ turn'[u].pc = turn[u].pc /\ turn'[u].kind = turn[u].kind
                             /\ turn'[u].trace = turn[u].trace /\ turn'[u].todo = turn[u].todo
                             /\ turn'[u].from = turn[u].from /\ turn'[u].base = turn[u].base
                             /\ turn'[u].cursor = turn[u].cursor
                          \/ /\ turn'[u].ctx = <<>> /\ turn'[u].trace = <<>>
                             /\ turn'[u].pc \notin Loading,
         \A m \in Everyone : Fresh(m)' => Fresh(m) /\ m \notin X,
         \A m \in X : Fresh(m) /\ \A u \in Turns : turn[u].own # m,
         calls' \in 0 .. MaxCalls, events' \in 0 .. MaxEvents
  PROVE  Contexts'
<1>1. lastId \in Nat
  BY DEF Inv, Typed
<1>3. /\ Ordered' /\ lastId' \in Nat /\ lastId <= lastId' /\ Recorded' \subseteq Recorded \cup X
      /\ \A r \in RowSet' : \/ r \in RowSet
                            \/ r.id > lastId /\ (r.m.role = "user" => r.m.msg \in X)
  BY DEF Follows
<1>4. \A r \in RowSet' : r.id \in Nat
  BY <1>3 DEF Ordered, RowSet
<1>5. \A u \in Turns : X \cap MsgsOf(turn[u].ctx) = {}
  BY DEF Contexts, Unheard
<1>6. ASSUME NEW u \in Turns PROVE Reads(turn'[u], RowSet', lastId')
  <2>1. CASE turn'[u].ctx = <<>> /\ turn'[u].trace = <<>> /\ turn'[u].pc \notin Loading
    BY <2>1 DEF Reads, Loading
  <2>2. CASE /\ turn'[u].ctx = turn[u].ctx /\ turn'[u].own = turn[u].own
             /\ turn'[u].pc = turn[u].pc /\ turn'[u].kind = turn[u].kind
             /\ turn'[u].trace = turn[u].trace /\ turn'[u].todo = turn[u].todo
             /\ turn'[u].from = turn[u].from /\ turn'[u].base = turn[u].base
             /\ turn'[u].cursor = turn[u].cursor
    <3>1. Reads(turn[u], RowSet, lastId)
      BY DEF Contexts, Reading
    <3>2. Reads(turn[u], RowSet', lastId')
      <4>1. X \cap MsgsOf(turn[u].ctx) = {}
        BY <1>5
      <4> QED BY <1>1, <1>3, <1>4, <3>1, <4>1, ReadsStays
    <3> QED BY <2>2, <3>2 DEF Reads, Loads, Loops, Formed
  <2> QED BY <2>1, <2>2
<1>7. Reading'
  BY <1>6 DEF Reading
<1>8. ASSUME NEW m \in Everyone, Fresh(m)'
      PROVE  m \notin Recorded' /\ \A u \in Turns : m \in MsgsOf(turn'[u].ctx) => turn'[u].own = m
  <2>1. Fresh(m) /\ m \notin X
    BY <1>8
  <2>2. m \notin Recorded /\ \A u \in Turns : m \in MsgsOf(turn[u].ctx) => turn[u].own = m
    BY <2>1 DEF Contexts, Unheard
  <2> QED BY <1>3, <2>1, <2>2, EmptyContext
<1>9. Unheard'
  BY <1>8 DEF Unheard
<1> QED BY <1>3, <1>7, <1>9 DEF Contexts
-----------------------------------------------------------------------------
(***************************************************************************)
(* The steps of a turn and its context                                     *)
(***************************************************************************)
LEMMA NoTurnReads ==
  ASSUME NEW R, NEW last
  PROVE  /\ Reads(NoTurn, R, last) /\ MsgsOf(NoTurn.ctx) = {} /\ NoTurn.ctx = <<>>
         /\ ~Unrecorded(NoTurn)
<1>1. /\ NoTurn.ctx = <<>> /\ NoTurn.trace = <<>> /\ NoTurn.pc = "idle" /\ NoTurn.kind = "none"
      /\ <<>> \in Seq(Protocol)
  BY DEF NoTurn
<1> QED BY <1>1, EmptyContext DEF Reads, Loading, Looping, Unrecorded

LEMMA WellFormedAppend ==
  ASSUME TurnAssumption, NEW a \in Seq(Said), WellFormed(a), NEW m \in Chat
  PROVE  WellFormed(Append(a, m))
<1>1. <<m>> \in Seq(Chat)
  OBVIOUS
<1>2. <<m>> \in Seq(Said) /\ WellFormed(<<m>>)
  BY <1>1, ChatIsWellFormed
<1>3. m \in Said
  BY DEF Said
<1>4. Append(a, m) = a \o <<m>>
  BY <1>3, MsgsAppend
<1> QED BY <1>2, <1>4, WellFormedJoins

\* Of a turn in progress: its shape, what it has read, and whose it is.
LEMMA InProgress ==
  ASSUME TurnAssumption, Inv, Contexts, NEW t \in Turns, ~At(t, "idle")
  PROVE  /\ Shape(turn[t]) /\ Reads(turn[t], RowSet, lastId) /\ turn[t].own \in Everyone
         /\ turn[t].own # NoMsg /\ lastId \in Nat /\ Ordered
         /\ Unrecorded(turn[t]) => turn[t].own \notin Recorded
         /\ calls \in 0 .. MaxCalls /\ events \in 0 .. MaxEvents
<1>1. Shape(turn[t]) /\ turn[t].own \in Everyone /\ turn[t].own # NoMsg
  BY Running
<1>2. Unrecorded(turn[t]) => turn[t].own \notin Recorded
  BY <1>1 DEF Contexts, Unheard, Fresh
<1> QED BY <1>1, <1>2 DEF Contexts, Reading, Inv, Typed

\* A turn that ends, the history as it was.
LEMMA EndsReads ==
  ASSUME TurnAssumption, Inv, Contexts, NEW t \in Turns, ~At(t, "idle"), Follows({}),
         turn' = [turn EXCEPT ![t] = NoTurn], inbox' = inbox,
         calls' \in 0 .. MaxCalls, events' \in 0 .. MaxEvents
  PROVE  Contexts'
<1>1. Reads(NoTurn, RowSet', lastId')
  BY NoTurnReads
<1>2. MsgsOf(NoTurn.ctx) = {} /\ NoTurn.ctx = <<>> /\ ~Unrecorded(NoTurn)
  BY NoTurnReads
<1> QED BY <1>1, <1>2, TurnStepReads

LEMMA RecordPhotoReads ==
  ASSUME TurnAssumption, Inv, Contexts, NEW t \in Turns, RecordPhoto(t)
  PROVE  Contexts'
<1> DEFINE s == turn[t]
           new == [s EXCEPT !.pc = "ready"]
<1>1. /\ At(t, "begin") /\ s.kind = "photo" /\ AppendRow(s.own, User(s.own))
      /\ turn' = [turn EXCEPT ![t] = new]
      /\ UNCHANGED <<busy, cancel, inbox, calls, events, erased, skipped>>
  BY DEF RecordPhoto, Go
<1>2. ~At(t, "idle") /\ s.pc = "begin"
  BY <1>1 DEF At
<1>3. /\ Shape(s) /\ Reads(s, RowSet, lastId) /\ s.own \in Everyone /\ s.own # NoMsg
      /\ Ordered /\ Unrecorded(s) /\ s.own \notin Recorded
      /\ calls \in 0 .. MaxCalls /\ events \in 0 .. MaxEvents
  BY <1>2, InProgress DEF Unrecorded
<1>4. /\ new.pc = "ready" /\ new.kind = s.kind /\ new.own = s.own /\ new.ctx = s.ctx
      /\ new.trace = s.trace
  BY <1>3 DEF Shape
<1> HIDE DEF new
<1>5. User(s.own) \in Said /\ User(s.own).msg = s.own
  BY <1>3, KindsAre DEF Said, Chat
<1>6. Follows({s.own})
  <2>1. Follows({User(s.own).msg} \ {NoMsg})
    BY <1>1, <1>3, <1>5, AppendFollows DEF Inv
  <2>2. {User(s.own).msg} \ {NoMsg} = {s.own}
    BY <1>3, <1>5
  <2> QED BY <2>1, <2>2
<1>7. s.ctx = <<>> /\ s.trace \in Seq(Protocol)
  BY <1>2, <1>3 DEF Reads, Loading, Looping
<1>8. Reads(new, RowSet', lastId') /\ MsgsOf(new.ctx) = {} /\ ~Unrecorded(new)
  BY <1>1, <1>4, <1>7, EmptyContext DEF Reads, Loading, Looping, Unrecorded
<1> QED BY <1>1, <1>2, <1>3, <1>4, <1>6, <1>8, TurnStepReads

\* The end of a history: some of its messages, each once.
LEMMA PartIs ==
  ASSUME Ordered, NEW k \in Nat \ {0}, NEW kept, kept = SubSeq(rows, k, Len(rows))
  PROVE  /\ Plain(kept) \in Seq(Said) /\ Once(Plain(kept)) /\ MsgsOf(Plain(kept)) \subseteq Recorded
         /\ k = 1 => kept = rows
<1> DEFINE L == Len(rows)
           M == IF k <= L THEN L - k + 1 ELSE 0
<1>1. L \in Nat /\ DOMAIN rows = 1 .. L /\ rows \in Seq(SaidRows)
  BY LenProperties DEF Ordered
<1>2. M \in Nat /\ \A i \in 1 .. M : k + i - 1 \in 1 .. L
  BY <1>1
<1>3. /\ DOMAIN kept = 1 .. M /\ Len(kept) = M
      /\ \A i \in 1 .. M : kept[i] = rows[k + i - 1]
  <2>1. CASE k <= L
    <3>1. /\ \A i \in k .. L : rows[i] \in SaidRows
          /\ SubSeq(rows, k, L) \in Seq(SaidRows) /\ Len(SubSeq(rows, k, L)) = M
          /\ \A i \in 1 .. M : SubSeq(rows, k, L)[i] = rows[k + i - 1]
      BY <1>1, <2>1, ElementOfSeq, SubSeqProperties
    <3> QED BY <3>1, LenProperties
  <2>2. CASE ~(k <= L)
    BY <1>1, <2>2, SubSeqProperties
  <2> QED BY <2>1, <2>2
<1> HIDE DEF M, L
<1>4. \A i \in 1 .. L : rows[i].m \in Said
  <2>1. \A i \in 1 .. L : rows[i] \in SaidRows
    BY <1>1, ElementOfSeq
  <2> QED BY <2>1 DEF SaidRows
<1>5. DOMAIN Plain(rows) = 1 .. L /\ \A i \in 1 .. L : Plain(rows)[i] = rows[i].m
  BY <1>1 DEF Plain
<1>6. Plain(kept) = [i \in 1 .. M |-> rows[k + i - 1].m]
  BY <1>3 DEF Plain
<1>7. Plain(kept) \in Seq(Said)
  <2>1. \A i \in 1 .. M : rows[k + i - 1].m \in Said
    BY <1>2, <1>4
  <2> QED BY <1>2, <1>6, <2>1
<1>8. Once(Plain(kept))
  <2>1. ASSUME NEW i \in 1 .. M, NEW j \in 1 .. M, i # j,
               rows[k + i - 1].m.msg = rows[k + j - 1].m.msg
        PROVE  rows[k + i - 1].m.msg = NoMsg
    <3>1. k + i - 1 \in 1 .. L /\ k + j - 1 \in 1 .. L
      BY <1>2
    <3>2. i \in Int /\ j \in Int /\ k \in Int /\ i # j
      BY <2>1
    <3>3. k + i - 1 # k + j - 1
      BY <3>2
    <3> QED BY <1>5, <2>1, <3>1, <3>3 DEF Ordered, Once
  <2> QED BY <1>6, <2>1 DEF Once
<1>9. MsgsOf(Plain(kept)) \subseteq Recorded
  <2>1. ASSUME NEW i \in DOMAIN Plain(kept)
        PROVE  \E j \in DOMAIN Plain(rows) : Plain(kept)[i] = Plain(rows)[j]
    <3>1. i \in 1 .. M /\ Plain(kept)[i] = rows[k + i - 1].m
      BY <1>6
    <3>2. k + i - 1 \in 1 .. L
      BY <1>2, <3>1
    <3>3. Plain(rows)[k + i - 1] = rows[k + i - 1].m
      BY <1>5, <3>2
    <3> QED BY <1>5, <3>1, <3>2, <3>3
  <2> QED BY <2>1 DEF MsgsOf, Recorded
<1>10. k = 1 => kept = rows
  <2>1. ASSUME k = 1 PROVE kept = rows
    <3>1. \A i \in 1 .. L : k + i - 1 = i
      BY <1>1, <2>1
    <3>2. M = L
      BY <1>1, <2>1 DEF M
    <3>3. DOMAIN kept = DOMAIN rows /\ \A i \in 1 .. L : kept[i] = rows[i]
      BY <1>1, <1>3, <3>1, <3>2
    <3>4. kept \in Seq(SaidRows)
      BY <1>1, SubSeqProperties, <2>1, ElementOfSeq
    <3> QED BY <1>1, <1>3, <3>2, <3>3, <3>4, SeqEqual
  <2> QED BY <2>1
<1> QED BY <1>7, <1>8, <1>9, <1>10

\* What a turn loads: well-formed, each message once, and all of them without a window.
LEMMA LoadedHolds ==
  ASSUME TurnAssumption, Ordered, lastId \in Nat
  PROVE  /\ Loaded \in Seq(Said) /\ WellFormed(Loaded) /\ Once(Loaded)
         /\ MsgsOf(Loaded) \subseteq Recorded
         /\ Window = 0 => MsgsOf(Loaded) = Recorded
<1> DEFINE kept == From(Cut(Window))
<1>1. PICK k \in Nat \ {0} : kept = SubSeq(rows, k, Len(rows))
  BY FromIs
<1>2. /\ Plain(kept) \in Seq(Said) /\ Once(Plain(kept)) /\ MsgsOf(Plain(kept)) \subseteq Recorded
  BY <1>1, PartIs
<1>3. Window = 0 => kept = rows
  <2>1. ASSUME Window = 0 PROVE kept = rows
    <3>1. Cut(Window) = 0
      BY <2>1 DEF Cut
    <3> DEFINE low == {i \in DOMAIN rows : rows[i].id < 0}
    <3>2. low = {}
      BY DEF Ordered
    <3>3. Cardinality({}) + 1 = 1
      BY FS_EmptySet
    <3>4. kept = SubSeq(rows, Cardinality(low) + 1, Len(rows))
      BY <3>1 DEF From
    <3> HIDE DEF low, kept
    <3>5. kept = SubSeq(rows, 1, Len(rows))
      BY <3>2, <3>3, <3>4
    <3>6. 1 \in Nat \ {0}
      OBVIOUS
    <3> QED BY <3>5, <3>6, PartIs
  <2> QED BY <2>1
<1>4. Loaded = DropOrphanToolMessages(Plain(kept))
  BY DEF Loaded
<1> HIDE DEF kept
<1>5. Window = 0 => MsgsOf(Plain(kept)) = Recorded
  BY <1>3 DEF Recorded
<1> QED BY <1>2, <1>4, <1>5, DropKeeps

LEMMA LoadHistoryReads ==
  ASSUME TurnAssumption, Inv, Contexts, NEW t \in Turns, LoadHistory(t)
  PROVE  Contexts'
<1> DEFINE s == turn[t]
           h == Loaded
           all == Assembled(t, h)
           new == [s EXCEPT !.pc = "loaded", !.from = lastId, !.ctx = all]
<1>1. /\ IF s.kind = "photo" THEN At(t, "ready") ELSE At(t, "begin")
      /\ UNCHANGED <<rows, lastId, inbox, calls, events, erased, skipped>>
      /\ turn' = [turn EXCEPT ![t] = NoTurn] \/ turn' = [turn EXCEPT ![t] = new]
  BY DEF LoadHistory, EndTurn, Go
<1>2. ~At(t, "idle") /\ s.pc \in {"begin", "ready"} /\ (s.kind # "photo" => s.pc = "begin")
  BY <1>1 DEF At
<1>3. /\ Shape(s) /\ Reads(s, RowSet, lastId) /\ s.own \in Everyone /\ s.own # NoMsg
      /\ Ordered /\ lastId \in Nat /\ (s.kind # "photo" => Unrecorded(s) /\ s.own \notin Recorded)
      /\ calls' \in 0 .. MaxCalls /\ events' \in 0 .. MaxEvents
  BY <1>1, <1>2, InProgress DEF Unrecorded
<1>4. Follows({}) /\ RowSet' = RowSet /\ lastId' = lastId
  BY <1>1, <1>3, StaysFollows DEF RowSet
<1>5. CASE turn' = [turn EXCEPT ![t] = NoTurn]
  BY <1>1, <1>2, <1>3, <1>4, <1>5, EndsReads
<1>6. CASE turn' = [turn EXCEPT ![t] = new]
  <2>1. /\ h \in Seq(Said) /\ WellFormed(h) /\ Once(h) /\ MsgsOf(h) \subseteq Recorded
        /\ Window = 0 => MsgsOf(h) = Recorded
    BY <1>3, LoadedHolds
  <2>2. /\ new.pc = "loaded" /\ new.from = lastId /\ new.ctx = all /\ new.kind = s.kind
        /\ new.own = s.own /\ new.trace = s.trace
    BY <1>3 DEF Shape
  <2>3. all = IF s.kind = "photo" THEN h ELSE Append(h, User(s.own))
    BY DEF Assembled
  <2> HIDE DEF new, all, h
  <2>4. /\ User(s.own) \in Chat /\ User(s.own) \in Said /\ User(s.own).msg = s.own
    BY <1>3, KindsAre DEF Said, Chat
  <2>5. /\ all \in Seq(Said) /\ WellFormed(all) /\ Once(all)
        /\ MsgsOf(all) \subseteq Recorded \cup {s.own} /\ MsgsOf(h) \subseteq MsgsOf(all)
    <3>1. CASE s.kind = "photo"
      BY <2>1, <2>3, <3>1
    <3>2. CASE s.kind # "photo"
      <4>1. WellFormed(Append(h, User(s.own)))
        BY <2>1, <2>4, WellFormedAppend
      <4>2. /\ Append(h, User(s.own)) \in Seq(Said)
            /\ MsgsOf(Append(h, User(s.own))) = MsgsOf(h) \cup ({s.own} \ {NoMsg})
            /\ Once(Append(h, User(s.own))) <=> Once(h) /\ s.own \notin MsgsOf(h)
        BY <2>1, <2>4, MsgsAppend
      <4> QED BY <1>3, <2>1, <2>3, <3>2, <4>1, <4>2
    <3> QED BY <3>1, <3>2
  <2>6. \A r \in RowSet : r.m.role = "user" => r.m.msg \in Recorded
    <3>1. ASSUME NEW r \in RowSet, r.m.role = "user" PROVE r.m.msg \in Recorded
      <4>1. PICK i \in DOMAIN rows : r = rows[i]
        BY DEF RowSet
      <4>2. rows[i] \in SaidRows
        BY <1>3, ElementOfSeq, LenProperties DEF Ordered
      <4>3. r.m \in Said /\ r.m.msg # NoMsg
        BY <3>1, <4>1, <4>2, SaidIs DEF SaidRows
      <4> QED BY <4>1, <4>3 DEF Recorded, MsgsOf, Plain
    <3> QED BY <3>1
  <2>7. Loads(new, RowSet, lastId)
    BY <1>3, <2>1, <2>2, <2>5, <2>6 DEF Loads
  <2>8. Reads(new, RowSet', lastId')
    BY <1>3, <1>4, <2>2, <2>5, <2>7 DEF Reads, Formed, Loading, Looping
  <2>9. Unrecorded(new) => Unrecorded(s)
    BY <1>2, <2>2 DEF Unrecorded
  <2>10. MsgsOf(new.ctx) \subseteq MsgsOf(s.ctx) \cup Recorded \cup {s.own}
    BY <2>2, <2>5
  <2> QED BY <1>1, <1>2, <1>3, <1>4, <1>6, <2>2, <2>8, <2>9, <2>10, TurnStepReads
<1> QED BY <1>1, <1>5, <1>6

LEMMA LastRowIs ==
  ASSUME Ordered, lastId \in Nat
  PROVE  LastRowId \in 0 .. lastId /\ \A r \in RowSet : r.id <= LastRowId
<1>1. Len(rows) \in Nat /\ DOMAIN rows = 1 .. Len(rows)
  BY LenProperties DEF Ordered
<1>2. CASE rows = <<>>
  BY <1>2 DEF LastRowId, RowSet
<1>3. CASE rows # <<>>
  <2>1. Len(rows) >= 1
    BY <1>1, <1>3, EmptySeq DEF Ordered
  <2>2. LastRowId = rows[Len(rows)].id
    BY <1>3 DEF LastRowId, Last
  <2>3. \A i \in DOMAIN rows : rows[i].id <= rows[Len(rows)].id
    <3>1. ASSUME NEW i \in DOMAIN rows PROVE rows[i].id <= rows[Len(rows)].id
      <4>1. CASE i = Len(rows)
        BY <1>1, <2>1, <4>1 DEF Ordered
      <4>2. CASE i # Len(rows)
        <5>1. i < Len(rows) /\ Len(rows) \in DOMAIN rows
          BY <1>1, <2>1, <4>2
        <5> QED BY <5>1 DEF Ordered
      <4> QED BY <4>1, <4>2
    <3> QED BY <3>1
  <2> QED BY <1>1, <2>1, <2>2, <2>3 DEF Ordered, RowSet
<1> QED BY <1>2, <1>3

\* A message of a user that had no row gets one.
LEMMA UserFollows ==
  ASSUME TurnAssumption, Inv, Ordered, NEW by \in Everyone \cup {NoMsg}, NEW m \in Everyone,
         AppendRow(by, User(m)), m \notin Recorded
  PROVE  Follows({m})
<1>1. User(m) \in Said /\ User(m).msg = m /\ m # NoMsg
  BY KindsAre DEF Said, Chat
<1>2. Follows({User(m).msg} \ {NoMsg})
  BY <1>1, AppendFollows DEF Inv
<1>3. {User(m).msg} \ {NoMsg} = {m}
  BY <1>1
<1> QED BY <1>2, <1>3

LEMMA BaselineReads ==
  ASSUME TurnAssumption, Inv, Contexts, NEW t \in Turns, Baseline(t)
  PROVE  Contexts'
<1> DEFINE s == turn[t]
           At1(c) == [s EXCEPT !.pc = "top", !.cursor = c, !.base = c]
<1>1. /\ At(t, "loaded") /\ UNCHANGED <<busy, cancel, inbox, calls, events, erased, skipped>>
      /\ \/ /\ s.kind \in {"message", "notice"} /\ AppendRow(s.own, User(s.own))
            /\ turn' = [turn EXCEPT ![t] = At1(lastId + 1)]
         \/ /\ s.kind \notin {"message", "notice"} /\ NoRow
            /\ turn' = [turn EXCEPT ![t] = At1(LastRowId)]
  BY DEF Baseline, Go
<1>2. ~At(t, "idle") /\ s.pc = "loaded"
  BY <1>1 DEF At
<1>3. /\ Shape(s) /\ Reads(s, RowSet, lastId) /\ s.own \in Everyone /\ s.own # NoMsg
      /\ Ordered /\ lastId \in Nat /\ (Unrecorded(s) => s.own \notin Recorded)
      /\ calls' \in 0 .. MaxCalls /\ events' \in 0 .. MaxEvents
  BY <1>1, <1>2, InProgress
<1>4. Loads(s, RowSet, lastId) /\ WellFormed(s.ctx) /\ s.trace \in Seq(Protocol)
  BY <1>2, <1>3 DEF Reads, Formed, Loading, Looping
<1>5. \A c : /\ At1(c).pc = "top" /\ At1(c).cursor = c /\ At1(c).base = c
             /\ At1(c).from = s.from /\ At1(c).ctx = s.ctx /\ At1(c).kind = s.kind
             /\ At1(c).own = s.own /\ At1(c).trace = s.trace
  BY <1>3 DEF Shape
<1> HIDE DEF At1
<1>6. ASSUME NEW c \in 0 .. lastId', lastId' \in Nat, \A r \in RowSet' : r.id \in Nat /\ r.id <= c,
             lastId <= lastId', \A r \in RowSet' : r \in RowSet \/ r.id > lastId
      PROVE  Reads(At1(c), RowSet', lastId')
  <2> DEFINE new == At1(c)
  <2>1. Loads(new, RowSet', lastId')
    <3>1. new.from \in 0 .. lastId' /\ \A r \in RowSet' : r.id <= new.from => r \in RowSet
      BY <1>3, <1>4, <1>5, <1>6 DEF Loads
    <3> QED BY <1>4, <1>5, <3>1 DEF Loads
  <2>2. Loops(new, RowSet', lastId')
    <3>1. new.base = c /\ new.cursor = c
      BY <1>5
    <3>2. \A r \in RowSet' : ~(r.id > c)
      BY <1>6
    <3> QED BY <1>6, <3>1, <3>2 DEF Loops
  <2> QED BY <1>4, <1>5, <2>1, <2>2 DEF Reads, Formed, Loading, Looping
<1>7. CASE /\ s.kind \in {"message", "notice"} /\ AppendRow(s.own, User(s.own))
           /\ turn' = [turn EXCEPT ![t] = At1(lastId + 1)]
  <2>1. Unrecorded(s)
    BY <1>2, <1>7 DEF Unrecorded
  <2>2. Follows({s.own})
    BY <1>3, <1>7, <2>1, UserFollows
  <2>3. lastId' = lastId + 1
    BY <1>7 DEF AppendRow
  <2>4. \A r \in RowSet' : r.id \in 1 .. lastId'
    BY <2>2 DEF Follows, Ordered, RowSet
  <2>5. Reads(At1(lastId + 1), RowSet', lastId')
    BY <1>3, <1>6, <2>2, <2>3, <2>4 DEF Follows
  <2>6. ~Unrecorded(At1(lastId + 1))
    BY <1>5, <1>7 DEF Unrecorded
  <2> QED BY <1>1, <1>2, <1>3, <1>5, <1>7, <2>1, <2>2, <2>5, <2>6, TurnStepReads
<1>8. CASE /\ s.kind \notin {"message", "notice"} /\ NoRow
           /\ turn' = [turn EXCEPT ![t] = At1(LastRowId)]
  <2>1. rows' = rows /\ lastId' = lastId /\ RowSet' = RowSet
    BY <1>8 DEF NoRow, RowSet
  <2>2. Follows({})
    BY <1>3, <2>1, StaysFollows
  <2>3. LastRowId \in 0 .. lastId /\ \A r \in RowSet : r.id <= LastRowId /\ r.id \in Nat
    BY <1>3, LastRowIs DEF Ordered, RowSet
  <2>4. Reads(At1(LastRowId), RowSet', lastId')
    BY <1>3, <1>6, <2>1, <2>3
  <2>5. Unrecorded(At1(LastRowId)) => Unrecorded(s)
    BY <1>2, <1>5 DEF Unrecorded
  <2> QED BY <1>1, <1>2, <1>3, <1>5, <1>8, <2>2, <2>4, <2>5, TurnStepReads
<1> QED BY <1>1, <1>7, <1>8
-----------------------------------------------------------------------------
(***************************************************************************)
(* The tool loop and its context                                           *)
(***************************************************************************)
\* A step inside the loop, by what it does to the context.
LEMMA LoopStepReads ==
  ASSUME TurnAssumption, Inv, Contexts, NEW t \in Turns, turn[t].pc \in Looping, Follows({}),
         NEW new, turn' = [turn EXCEPT ![t] = new], inbox' = inbox,
         new.pc \in Looping, new.own = turn[t].own, new.kind = turn[t].kind,
         new.trace \in Seq(Protocol), Loads(new, RowSet, lastId), Loops(new, RowSet, lastId),
         Formed(new), MsgsOf(new.ctx) \subseteq MsgsOf(turn[t].ctx) \cup Recorded,
         calls' \in 0 .. MaxCalls, events' \in 0 .. MaxEvents
  PROVE  Contexts'
<1>1. ~At(t, "idle") /\ (Unrecorded(new) => Unrecorded(turn[t])) /\ lastId \in Nat
  BY DEF At, Looping, Unrecorded, Inv, Typed
<1>2. Reads(new, RowSet, lastId)
  BY DEF Reads, Loading
<1>3. /\ lastId' \in Nat /\ lastId <= lastId' /\ \A r \in RowSet' : r.id \in Nat
      /\ \A r \in RowSet' : r \in RowSet \/ (r.id > lastId /\ (r.m.role = "user" => r.m.msg \in {}))
  BY DEF Follows, Ordered, RowSet
<1>4. Reads(new, RowSet', lastId')
  <2>1. Loads(new, RowSet', lastId')
    BY <1>1, <1>3 DEF Loads
  <2>2. Loops(new, RowSet', lastId')
    BY <1>1, <1>3 DEF Loops
  <2> QED BY <1>2, <2>1, <2>2 DEF Reads
<1> QED BY <1>1, <1>4, TurnStepReads

\* A turn in the loop.
LEMMA InLoop ==
  ASSUME TurnAssumption, Inv, Contexts, NEW t \in Turns, turn[t].pc \in Looping
  PROVE  /\ Shape(turn[t]) /\ Loads(turn[t], RowSet, lastId) /\ Loops(turn[t], RowSet, lastId)
         /\ Formed(turn[t]) /\ turn[t].trace \in Seq(Protocol) /\ turn[t].ctx \in Seq(Said)
         /\ turn[t].own \in Everyone /\ lastId \in Nat /\ Ordered /\ ~At(t, "idle")
         /\ calls \in 0 .. MaxCalls /\ events \in 0 .. MaxEvents
         /\ (turn[t].pc # "tools" => WellFormed(turn[t].ctx))
         /\ (turn[t].pc = "tools" => OpenEnd(turn[t].ctx, turn[t].todo))
<1>1. ~At(t, "idle")
  BY DEF At, Looping
<1> QED BY <1>1, InProgress DEF Reads, Loads, Formed, Loading

\* A group that lacks nothing is a context that may be sent.
LEMMA ClosedEnd ==
  ASSUME TurnAssumption, NEW ctx, OpenEnd(ctx, <<>>)
  PROVE  WellFormed(ctx)
<1>1. PICK before \in Seq(Said), g \in Seq(Said) :
        /\ ctx = before \o g /\ WellFormed(before)
        /\ Group(g, {<<>>[i] : i \in DOMAIN <<>>})
  BY DEF OpenEnd
<1>2. {<<>>[i] : i \in DOMAIN <<>>} = {}
  OBVIOUS
<1>3. Group(g, {})
  BY <1>1, <1>2
<1>4. WellFormed(g)
  BY <1>3, GroupIsWellFormed
<1> QED BY <1>1, <1>4, WellFormedJoins

\* s that drained: what it became.
Drained(d, s) ==
  /\ d.ctx = s.ctx \o Since(s.cursor) /\ d.cursor = NewCursor(s.cursor)
  /\ d.from = s.from /\ d.base = s.base /\ d.own = s.own /\ d.kind = s.kind /\ d.trace = s.trace

LEMMA DrainDrains ==
  ASSUME TurnAssumption, NEW s, Shape(s)
  PROVE  Drained(Drain(s), s) /\ Drained(Drain(Account(s)), s)
         /\ Shape(Drain(s)) /\ Shape(Drain(Account(s)))
<1>1. \A x : Shape(x) => Drained(Drain(x), x)
  BY DEF Drain, Drained, Shape
<1>2. /\ Shape(Account(s)) /\ Account(s).ctx = s.ctx /\ Account(s).cursor = s.cursor
      /\ Account(s).from = s.from /\ Account(s).base = s.base /\ Account(s).own = s.own
      /\ Account(s).kind = s.kind /\ Account(s).trace = s.trace
  <2>1. CASE Renews(s)
    <3>1. Account(s) = [s EXCEPT !.iter = 0, !.resets = @ + 1]
      BY <2>1 DEF Account
    <3> QED BY <3>1, AccountIs DEF Shape
  <2>2. CASE ~Renews(s)
    BY <2>2 DEF Account
  <2> QED BY <2>1, <2>2
<1>3. Drained(Drain(Account(s)), Account(s))
  BY <1>1, <1>2
<1> QED BY <1>1, <1>2, <1>3, DrainIs DEF Drained

LEMMA IterateDrains ==
  ASSUME TurnAssumption, NEW s, Shape(s)
  PROVE  /\ Drained(Iterate(s), s) /\ Iterate(s).pc \in {"top", "persist", "wrapup"}
<1> DEFINE n == Advance(s)
<1>1. \E d : /\ Shape(d) /\ Drained(d, s) /\ (n = d \/ n = [d EXCEPT !.iter = @ + 1])
  BY DrainDrains DEF Advance
<1>2. PICK d : /\ Shape(d) /\ Drained(d, s) /\ (n = d \/ n = [d EXCEPT !.iter = @ + 1])
  BY <1>1
<1>3. Iterate(s) = [n EXCEPT !.pc = IF n.iter < MaxIter THEN "top"
                                    ELSE IF n.said THEN "persist" ELSE "wrapup"]
  BY DEF Iterate
<1> HIDE DEF n
<1>4. Iterate(s).pc \in {"top", "persist", "wrapup"}
  BY <1>2, <1>3 DEF Shape
<1>5. /\ Iterate(s).ctx = d.ctx /\ Iterate(s).cursor = d.cursor /\ Iterate(s).from = d.from
      /\ Iterate(s).base = d.base /\ Iterate(s).own = d.own /\ Iterate(s).kind = d.kind
      /\ Iterate(s).trace = d.trace
  <2>1. CASE n = d
    BY <1>2, <1>3, <2>1 DEF Shape
  <2>2. CASE n = [d EXCEPT !.iter = @ + 1]
    BY <1>2, <1>3, <2>2 DEF Shape
  <2> QED BY <1>2, <2>1, <2>2
<1> QED BY <1>2, <1>4, <1>5 DEF Drained

\* A step of the loop that drains.
LEMMA DrainedReads ==
  ASSUME TurnAssumption, Inv, Contexts, NEW t \in Turns, turn[t].pc \in Looping,
         UNCHANGED <<rows, lastId, inbox, calls, events>>,
         NEW s, NEW new, turn' = [turn EXCEPT ![t] = new], Drained(new, s),
         new.pc \in Looping \ {"tools"},
         SameReading(s, turn[t]), WellFormed(s.ctx), s.own = turn[t].own,
         s.kind = turn[t].kind, s.trace = turn[t].trace
  PROVE  Contexts'
<1>1. /\ Loads(turn[t], RowSet, lastId) /\ Loops(turn[t], RowSet, lastId)
      /\ turn[t].trace \in Seq(Protocol) /\ lastId \in Nat /\ Ordered
      /\ calls \in 0 .. MaxCalls /\ events \in 0 .. MaxEvents
  BY InLoop
<1>2. Loads(s, RowSet, lastId) /\ Loops(s, RowSet, lastId)
  BY <1>1, SameReads
<1>3. /\ Loads(new, RowSet, lastId) /\ Loops(new, RowSet, lastId)
      /\ WellFormed(s.ctx) => WellFormed(new.ctx)
      /\ MsgsOf(new.ctx) \subseteq MsgsOf(s.ctx) \cup Recorded
  BY <1>1, <1>2, DrainReads DEF Drained
<1>4. Formed(new) /\ MsgsOf(new.ctx) \subseteq MsgsOf(turn[t].ctx) \cup Recorded
  BY <1>3 DEF Formed, SameReading
<1>5. Follows({})
  BY <1>1, StaysFollows
<1> QED BY <1>1, <1>3, <1>4, <1>5, LoopStepReads DEF Drained

LEMMA CheckpointAReads ==
  ASSUME TurnAssumption, Inv, Contexts, NEW t \in Turns, CheckpointA(t)
  PROVE  Contexts'
<1> DEFINE d == Drain(Account(turn[t]))
           new == IF cancel THEN [d EXCEPT !.pc = "wrapup", !.cancelled = TRUE]
                  ELSE [d EXCEPT !.pc = "llm", !.rounds = @ + 1]
<1>1. /\ turn[t].pc = "top" /\ turn' = [turn EXCEPT ![t] = new]
      /\ UNCHANGED <<rows, lastId, busy, cancel, inbox, calls, events, erased, skipped>>
  BY DEF CheckpointA, Go, At
<1>2. turn[t].pc \in Looping
  BY <1>1 DEF Looping
<1>3. Shape(turn[t]) /\ WellFormed(turn[t].ctx) /\ turn[t].ctx \in Seq(Said)
  BY <1>1, <1>2, InLoop
<1>4. Shape(d) /\ Drained(d, turn[t])
  BY <1>3, DrainDrains
<1> HIDE DEF d
<1>5. Drained(new, turn[t]) /\ new.pc \in {"wrapup", "llm"}
  BY <1>4 DEF Drained, Shape
<1>6. SameReading(turn[t], turn[t]) /\ new.pc \in Looping \ {"tools"}
  BY <1>3, <1>5 DEF SameReading, Looping
<1> HIDE DEF new
<1> QED BY <1>1, <1>2, <1>3, <1>5, <1>6, DrainedReads

\* A step of the loop that leaves the context as it was, and may be sent.
LEMMA SameContextReads ==
  ASSUME TurnAssumption, Inv, Contexts, NEW t \in Turns, turn[t].pc \in Looping,
         UNCHANGED <<rows, lastId, inbox, calls, events>>,
         NEW new, turn' = [turn EXCEPT ![t] = new], new.pc \in Looping \ {"tools"},
         new.ctx = turn[t].ctx, WellFormed(new.ctx), new.cursor = turn[t].cursor,
         new.from = turn[t].from, new.base = turn[t].base, new.own = turn[t].own,
         new.kind = turn[t].kind, new.trace = turn[t].trace
  PROVE  Contexts'
<1>1. /\ Loads(turn[t], RowSet, lastId) /\ Loops(turn[t], RowSet, lastId)
      /\ turn[t].trace \in Seq(Protocol) /\ lastId \in Nat /\ Ordered /\ turn[t].ctx \in Seq(Said)
      /\ calls \in 0 .. MaxCalls /\ events \in 0 .. MaxEvents
  BY InLoop
<1>2. SameReading(new, turn[t])
  BY <1>1 DEF SameReading
<1>3. Loads(new, RowSet, lastId) /\ Loops(new, RowSet, lastId)
  BY <1>1, <1>2, SameReads
<1>4. Follows({}) /\ Formed(new)
  BY <1>1, StaysFollows DEF Formed
<1> QED BY <1>1, <1>3, <1>4, LoopStepReads

LEMMA AnswerReads ==
  ASSUME TurnAssumption, Inv, Contexts, NEW t \in Turns, Answer(t)
  PROVE  Contexts'
<1> DEFINE s == [turn[t] EXCEPT !.said = TRUE, !.ctx = Append(@, Text)]
<1>1. /\ turn[t].pc = "llm"
      /\ UNCHANGED <<rows, lastId, busy, cancel, inbox, calls, events, erased, skipped>>
  BY DEF Answer, At
<1>2. turn[t].pc \in Looping
  BY <1>1 DEF Looping
<1>3. Shape(turn[t]) /\ WellFormed(turn[t].ctx) /\ turn[t].ctx \in Seq(Said)
  BY <1>1, <1>2, InLoop
<1>4. CASE turn' = [turn EXCEPT ![t] = Iterate(s)]
  <2>1. /\ Shape(s) /\ s.ctx = Append(turn[t].ctx, Text) /\ s.cursor = turn[t].cursor
        /\ s.from = turn[t].from /\ s.base = turn[t].base /\ s.own = turn[t].own
        /\ s.kind = turn[t].kind /\ s.trace = turn[t].trace
    BY <1>3 DEF Shape
  <2> HIDE DEF s
  <2>2. Text \in Chat /\ Text \in Said /\ Text.msg = NoMsg
    BY KindsAre DEF Chat, Said
  <2>3. WellFormed(s.ctx)
    BY <1>3, <2>1, <2>2, WellFormedAppend
  <2>4. SameReading(s, turn[t])
    <3>1. /\ Append(turn[t].ctx, Text) \in Seq(Said)
          /\ MsgsOf(Append(turn[t].ctx, Text)) = MsgsOf(turn[t].ctx) \cup ({NoMsg} \ {NoMsg})
          /\ Once(Append(turn[t].ctx, Text)) <=> Once(turn[t].ctx) /\ NoMsg \notin MsgsOf(turn[t].ctx)
      BY <1>3, <2>2, MsgsAppend
    <3>2. NoMsg \notin MsgsOf(turn[t].ctx)
      BY DEF MsgsOf
    <3> QED BY <2>1, <3>1, <3>2 DEF SameReading
  <2>5. Drained(Iterate(s), s) /\ Iterate(s).pc \in Looping \ {"tools"}
    BY <2>1, IterateDrains DEF Looping
  <2> QED BY <1>1, <1>2, <1>4, <2>1, <2>3, <2>4, <2>5, DrainedReads
<1>5. ASSUME NEW skip, turn' = [turn EXCEPT ![t] = [turn[t] EXCEPT !.pc = "persist", !.skip = skip]]
      PROVE  Contexts'
  <2> DEFINE new == [turn[t] EXCEPT !.pc = "persist", !.skip = skip]
  <2>1. /\ new.pc = "persist" /\ new.ctx = turn[t].ctx /\ new.cursor = turn[t].cursor
        /\ new.from = turn[t].from /\ new.base = turn[t].base /\ new.own = turn[t].own
        /\ new.kind = turn[t].kind /\ new.trace = turn[t].trace
    BY <1>3 DEF Shape
  <2>2. turn' = [turn EXCEPT ![t] = new]
    BY <1>5
  <2> HIDE DEF new
  <2>3. new.pc \in Looping \ {"tools"} /\ WellFormed(new.ctx)
    BY <1>3, <2>1 DEF Looping
  <2> QED BY <1>1, <1>2, <2>1, <2>2, <2>3, SameContextReads
<1>6. \/ turn' = [turn EXCEPT ![t] = Iterate(s)]
      \/ \E skip : turn' = [turn EXCEPT ![t] = [turn[t] EXCEPT !.pc = "persist", !.skip = skip]]
  BY DEF Answer, Go
<1> QED BY <1>4, <1>5, <1>6

LEMMA WrapUpReads ==
  ASSUME TurnAssumption, Inv, Contexts, NEW t \in Turns, WrapUp(t)
  PROVE  Contexts'
<1>1. PICK skip :
        /\ turn[t].pc = "wrapup"
        /\ turn' = [turn EXCEPT ![t] = [turn[t] EXCEPT !.pc = "persist", !.skip = skip]]
        /\ UNCHANGED <<rows, lastId, busy, cancel, inbox, calls, events, erased, skipped>>
  BY DEF WrapUp, At, Go
<1> DEFINE new == [turn[t] EXCEPT !.pc = "persist", !.skip = skip]
<1>2. turn[t].pc \in Looping
  BY <1>1 DEF Looping
<1>3. Shape(turn[t]) /\ WellFormed(turn[t].ctx) /\ turn[t].ctx \in Seq(Said)
  BY <1>1, <1>2, InLoop
<1>4. /\ new.pc = "persist" /\ new.ctx = turn[t].ctx /\ new.cursor = turn[t].cursor
      /\ new.from = turn[t].from /\ new.base = turn[t].base /\ new.own = turn[t].own
      /\ new.kind = turn[t].kind /\ new.trace = turn[t].trace
  BY <1>3 DEF Shape
<1>5. turn' = [turn EXCEPT ![t] = new]
  BY <1>1
<1> HIDE DEF new
<1>6. new.pc \in Looping \ {"tools"} /\ WellFormed(new.ctx)
  BY <1>3, <1>4 DEF Looping
<1> QED BY <1>1, <1>2, <1>4, <1>5, <1>6, SameContextReads

LEMMA EndBatchReads ==
  ASSUME TurnAssumption, Inv, Contexts, NEW t \in Turns, EndBatch(t)
  PROVE  Contexts'
<1> DEFINE new == [turn[t] EXCEPT !.pc = "wrapup"]
<1>1. /\ turn[t].pc = "tools" /\ turn[t].todo = <<>>
      /\ turn' = [turn EXCEPT ![t] = new] \/ turn' = [turn EXCEPT ![t] = Iterate(turn[t])]
      /\ UNCHANGED <<rows, lastId, busy, cancel, inbox, calls, events, erased, skipped>>
  BY DEF EndBatch, At, Go
<1>2. turn[t].pc \in Looping
  BY <1>1 DEF Looping
<1>3. Shape(turn[t]) /\ OpenEnd(turn[t].ctx, <<>>) /\ turn[t].ctx \in Seq(Said)
  BY <1>1, <1>2, InLoop
<1>4. WellFormed(turn[t].ctx) /\ SameReading(turn[t], turn[t])
  BY <1>3, ClosedEnd DEF SameReading
<1>5. /\ new.pc = "wrapup" /\ new.ctx = turn[t].ctx /\ new.cursor = turn[t].cursor
      /\ new.from = turn[t].from /\ new.base = turn[t].base /\ new.own = turn[t].own
      /\ new.kind = turn[t].kind /\ new.trace = turn[t].trace
  BY <1>3 DEF Shape
<1> HIDE DEF new
<1>6. new.pc \in Looping \ {"tools"} /\ WellFormed(new.ctx)
  BY <1>4, <1>5 DEF Looping
<1>7. Drained(Iterate(turn[t]), turn[t]) /\ Iterate(turn[t]).pc \in Looping \ {"tools"}
  BY <1>3, IterateDrains DEF Looping
<1>8. CASE turn' = [turn EXCEPT ![t] = new]
  BY <1>1, <1>2, <1>5, <1>6, <1>8, SameContextReads
<1>9. CASE turn' = [turn EXCEPT ![t] = Iterate(turn[t])]
  BY <1>1, <1>2, <1>4, <1>7, <1>9, DrainedReads
<1> QED BY <1>1, <1>8, <1>9
-----------------------------------------------------------------------------
(***************************************************************************)
(* The calls of a batch and its results                                    *)
(***************************************************************************)
\* A message that carries none of a user changes nothing of what was read.
LEMMA ProtocolFollows ==
  ASSUME TurnAssumption, Inv, Ordered, NEW by \in Everyone \cup {NoMsg}, NEW m \in Said,
         m.msg = NoMsg, AppendRow(by, m)
  PROVE  Follows({})
<1>1. NoMsg \notin Recorded
  BY DEF Recorded, MsgsOf
<1>2. Follows({m.msg} \ {NoMsg})
  BY <1>1, AppendFollows DEF Inv
<1>3. {m.msg} \ {NoMsg} = {}
  OBVIOUS
<1> QED BY <1>2, <1>3

\* One more message of the group at the end of a context, wherever it is kept.
LEMMA KeepReads ==
  ASSUME TurnAssumption, Inv, Contexts, NEW t \in Turns, turn[t].pc \in {"llm", "tools"},
         NEW m \in Protocol, NEW s, Shape(s), s.pc = "tools", Keep(t, m, s),
         s.ctx = turn[t].ctx, s.cursor = turn[t].cursor, s.from = turn[t].from,
         s.base = turn[t].base, s.own = turn[t].own, s.kind = turn[t].kind,
         s.trace = turn[t].trace, OpenEnd(Append(s.ctx, m), s.todo),
         inbox' = inbox, calls' \in 0 .. MaxCalls, events' \in 0 .. MaxEvents
  PROVE  Contexts'
<1>1. turn[t].pc \in Looping
  BY DEF Looping
<1>2. /\ Loads(turn[t], RowSet, lastId) /\ Loops(turn[t], RowSet, lastId)
      /\ turn[t].trace \in Seq(Protocol) /\ lastId \in Nat /\ Ordered /\ turn[t].ctx \in Seq(Said)
      /\ turn[t].own \in Everyone
  BY <1>1, InLoop
<1>3. m \in Said /\ m.msg = NoMsg
  BY SaidIs DEF Said
<1>4. /\ Append(s.ctx, m) \in Seq(Said) /\ MsgsOf(Append(s.ctx, m)) = MsgsOf(s.ctx)
      /\ Once(s.ctx) => Once(Append(s.ctx, m))
  <2>1. /\ Append(s.ctx, m) \in Seq(Said)
        /\ MsgsOf(Append(s.ctx, m)) = MsgsOf(s.ctx) \cup ({m.msg} \ {NoMsg})
        /\ Once(Append(s.ctx, m)) <=> Once(s.ctx) /\ m.msg \notin MsgsOf(s.ctx)
    BY <1>2, <1>3, MsgsAppend
  <2>2. NoMsg \notin MsgsOf(s.ctx)
    BY DEF MsgsOf
  <2> QED BY <1>3, <2>1, <2>2
<1>5. ASSUME NEW new, turn' = [turn EXCEPT ![t] = new], Follows({}), new.pc = "tools",
             new.ctx = Append(s.ctx, m), new.cursor = s.cursor, new.from = s.from,
             new.base = s.base, new.own = s.own, new.kind = s.kind, new.todo = s.todo,
             new.trace \in Seq(Protocol)
      PROVE  Contexts'
  <2>1. SameReading(new, turn[t])
    BY <1>4, <1>5 DEF SameReading
  <2>2. Loads(new, RowSet, lastId) /\ Loops(new, RowSet, lastId)
    BY <1>2, <2>1, SameReads
  <2>3. Formed(new) /\ new.pc \in Looping
    BY <1>5 DEF Formed, Looping
  <2>4. MsgsOf(new.ctx) \subseteq MsgsOf(turn[t].ctx) \cup Recorded
    BY <1>4, <1>5
  <2> QED BY <1>1, <1>5, <2>2, <2>3, <2>4, LoopStepReads
<1>6. CASE Incremental(t)
  <2> DEFINE new == [s EXCEPT !.ctx = Append(@, m)]
  <2>1. AppendRow(turn[t].own, m) /\ turn' = [turn EXCEPT ![t] = new]
    BY <1>6 DEF Keep, Go
  <2>2. Follows({})
    BY <1>2, <1>3, <2>1, ProtocolFollows
  <2>3. /\ new.pc = "tools" /\ new.ctx = Append(s.ctx, m) /\ new.cursor = s.cursor
        /\ new.from = s.from /\ new.base = s.base /\ new.own = s.own /\ new.kind = s.kind
        /\ new.todo = s.todo /\ new.trace = s.trace
    BY DEF Shape
  <2> HIDE DEF new
  <2> QED BY <1>2, <1>5, <2>1, <2>2, <2>3
<1>7. CASE ~Incremental(t)
  <2> DEFINE new == [s EXCEPT !.ctx = Append(@, m), !.trace = Append(@, m)]
  <2>1. NoRow /\ turn' = [turn EXCEPT ![t] = new]
    BY <1>7 DEF Keep, Go
  <2>2. Follows({})
    BY <1>2, <2>1, StaysFollows DEF NoRow
  <2>3. /\ new.pc = "tools" /\ new.ctx = Append(s.ctx, m) /\ new.cursor = s.cursor
        /\ new.from = s.from /\ new.base = s.base /\ new.own = s.own /\ new.kind = s.kind
        /\ new.todo = s.todo /\ new.trace = Append(s.trace, m)
    BY DEF Shape
  <2>4. Append(s.trace, m) \in Seq(Protocol)
    BY <1>2, AppendProperties
  <2> HIDE DEF new
  <2> QED BY <1>5, <2>1, <2>2, <2>3, <2>4
<1> QED BY <1>6, <1>7

\* An assistant with tool calls opens a group.
LEMMA OpenEndStarts ==
  ASSUME TurnAssumption, NEW ctx \in Seq(Said), WellFormed(ctx), NEW n \in Nat \ {0}, NEW c \in Nat,
         c + n <= MaxCalls
  PROVE  /\ Asks(c + 1 .. c + n) \in Protocol
         /\ OpenEnd(Append(ctx, Asks(c + 1 .. c + n)), [i \in 1 .. n |-> c + i])
<1> DEFINE S == c + 1 .. c + n
           todo == [i \in 1 .. n |-> c + i]
           m == Asks(S)
           g == <<m>>
<1>1. MaxCalls \in Nat
  BY DEF TurnAssumption
<1>2. S \in CallSets
  <2>1. c + 1 \in S /\ S \subseteq 1 .. MaxCalls
    BY <1>1
  <2> QED BY <2>1 DEF CallSets
<1>3. m \in Protocol /\ m \in Said
  BY <1>2 DEF Protocol, Said
<1>4. m.calls = S /\ S # {}
  BY <1>2, KindsAre DEF CallSets
<1>5. {todo[i] : i \in DOMAIN todo} = S
  <2>1. \A i \in 1 .. n : c + i \in S
    OBVIOUS
  <2>2. ASSUME NEW x \in S PROVE \E i \in 1 .. n : todo[i] = x
    <3>1. x - c \in 1 .. n /\ c + (x - c) = x
      OBVIOUS
    <3> QED BY <3>1
  <2> QED BY <2>1, <2>2
<1>6. \A i, j \in DOMAIN todo : todo[i] = todo[j] => i = j
  OBVIOUS
<1> HIDE DEF S, todo, m
<1>7. /\ g \in Seq(Protocol) /\ g \in Seq(Said) /\ g # <<>> /\ Len(g) = 1 /\ g[1] = m
  BY <1>3
<1>8. Cardinality(S) \in Nat
  BY <1>3, <1>4, SaidIs
<1> HIDE DEF g
<1>9. Group(g, S)
  <2>1. 2 .. Len(g) = {}
    BY <1>7
  <2>2. {g[j].call : j \in 2 .. Len(g)} = {}
    BY <2>1
  <2>3. Len(g) - 1 + Cardinality(S) = Cardinality(S)
    BY <1>7, <1>8
  <2> QED BY <1>4, <1>7, <2>1, <2>2, <2>3 DEF Group
<1>10. Append(ctx, m) = ctx \o g
  BY <1>3, MsgsAppend DEF g
<1>11. OpenEnd(Append(ctx, m), todo)
  BY <1>5, <1>6, <1>7, <1>9, <1>10 DEF OpenEnd
<1> QED BY <1>3, <1>11 DEF m, S, todo

\* The result of the next call.
LEMMA OpenEndGrows ==
  ASSUME TurnAssumption, NEW ctx, NEW todo \in Seq(Nat), todo # <<>>, OpenEnd(ctx, todo)
  PROVE  /\ Result(Head(todo)) \in Protocol
         /\ OpenEnd(Append(ctx, Result(Head(todo))), Tail(todo))
<1> DEFINE want == {todo[i] : i \in DOMAIN todo}
           c == Head(todo)
           rest == Tail(todo)
           m == Result(c)
           N == Len(todo)
<1>1. PICK before \in Seq(Said), g \in Seq(Said) :
        /\ ctx = before \o g /\ WellFormed(before) /\ Group(g, want)
        /\ \A i, j \in DOMAIN todo : todo[i] = todo[j] => i = j
  BY DEF OpenEnd
<1>2. N \in Nat /\ N >= 1 /\ DOMAIN todo = 1 .. N /\ c = todo[1]
  BY LenProperties, EmptySeq
<1>3. /\ rest \in Seq(Nat) /\ Len(rest) = N - 1 /\ DOMAIN rest = 1 .. N - 1
      /\ \A i \in 1 .. N - 1 : rest[i] = todo[i + 1]
  BY <1>2, HeadTailProperties, LenProperties
<1>4. c \in want
  BY <1>2
<1>5. c \in 1 .. MaxCalls
  <2>1. Len(g) \in Nat /\ Len(g) >= 1
    BY <1>1, LenProperties, EmptySeq
       DEF Group
  <2>2. g[1] \in Said /\ want \subseteq g[1].calls
    BY <1>1, <2>1, ElementOfSeq DEF Group
  <2>3. g[1].calls \subseteq 1 .. MaxCalls
    BY <2>2, SaidIs
  <2> QED BY <1>4, <2>2, <2>3
<1>6. /\ m \in Protocol /\ m \in Said /\ m.role = "tool" /\ m.call = c
  BY <1>5, KindsAre DEF Protocol, Said
<1>7. {rest[i] : i \in DOMAIN rest} = want \ {c}
  <2>1. ASSUME NEW i \in 1 .. N - 1 PROVE rest[i] \in want \ {c}
    <3>1. i + 1 \in 1 .. N /\ i + 1 # 1 /\ 1 \in 1 .. N
      BY <1>2
    <3>2. todo[i + 1] # todo[1]
      BY <1>1, <1>2, <3>1
    <3> QED BY <1>2, <1>3, <3>1, <3>2
  <2>2. ASSUME NEW x \in want \ {c} PROVE \E i \in 1 .. N - 1 : rest[i] = x
    <3>1. PICK j \in 1 .. N : x = todo[j]
      BY <1>2
    <3>2. j # 1
      BY <1>2, <3>1
    <3>3. j - 1 \in 1 .. N - 1 /\ (j - 1) + 1 = j
      BY <1>2, <3>2
    <3> QED BY <1>3, <3>1, <3>3
  <2>3. /\ \A i \in DOMAIN rest : rest[i] \in want \ {c}
        /\ \A x \in want \ {c} : \E i \in DOMAIN rest : rest[i] = x
    BY <1>3, <2>1, <2>2
  <2> HIDE DEF want, c, rest
  <2> QED BY <2>3
<1>8. \A i, j \in DOMAIN rest : rest[i] = rest[j] => i = j
  <2>1. ASSUME NEW i \in 1 .. N - 1, NEW j \in 1 .. N - 1, rest[i] = rest[j] PROVE i = j
    <3>1. i + 1 \in 1 .. N /\ j + 1 \in 1 .. N /\ todo[i + 1] = todo[j + 1]
      BY <1>2, <1>3, <2>1
    <3>2. i + 1 = j + 1
      BY <1>1, <1>2, <3>1
    <3> QED BY <1>2, <3>2
  <2> QED BY <1>3, <2>1
<1> HIDE DEF want, m, c, rest
<1>9. Group(Append(g, m), want \ {c})
  BY <1>1, <1>4, <1>6, GroupGrows
<1>10. Append(ctx, m) = before \o Append(g, m) /\ Append(g, m) \in Seq(Said)
  <2>1. before \o g \in Seq(Said) /\ <<m>> \in Seq(Said)
    BY <1>1, <1>6, ConcatProperties
  <2>2. Append(before \o g, m) = (before \o g) \o <<m>>
    BY <1>6, <2>1, MsgsAppend
  <2>3. Append(g, m) = g \o <<m>> /\ Append(g, m) \in Seq(Said)
    BY <1>1, <1>6, MsgsAppend
  <2>4. (before \o g) \o <<m>> = before \o (g \o <<m>>)
    BY <1>1, <2>1, Reassociates
  <2> QED BY <1>1, <2>2, <2>3, <2>4
<1>11. OpenEnd(Append(ctx, m), rest)
  BY <1>1, <1>7, <1>8, <1>9, <1>10 DEF OpenEnd
<1> QED BY <1>6, <1>11 DEF m, c, rest

LEMMA AskToolsReads ==
  ASSUME TurnAssumption, Inv, Contexts, NEW t \in Turns, AskTools(t)
  PROVE  Contexts'
<1>1. PICK n \in Batches, said \in BOOLEAN :
        /\ calls + n <= MaxCalls /\ calls' = calls + n
        /\ Keep(t, Asks(calls + 1 .. calls + n),
                [turn[t] EXCEPT !.pc = "tools", !.said = said, !.todo = [i \in 1 .. n |-> calls + i]])
  BY DEF AskTools
<1> DEFINE todo == [i \in 1 .. n |-> calls + i]
           s == [turn[t] EXCEPT !.pc = "tools", !.said = said, !.todo = todo]
           m == Asks(calls + 1 .. calls + n)
<1>2. turn[t].pc = "llm" /\ UNCHANGED <<busy, cancel, inbox, events, erased, skipped>>
  BY DEF AskTools, At
<1>3. turn[t].pc \in Looping
  BY <1>2 DEF Looping
<1>4. /\ Shape(turn[t]) /\ turn[t].ctx \in Seq(Said) /\ WellFormed(turn[t].ctx)
      /\ calls \in 0 .. MaxCalls /\ events \in 0 .. MaxEvents
  BY <1>2, <1>3, InLoop
<1>5. n \in Nat \ {0} /\ calls \in Nat /\ MaxCalls \in Nat
  BY <1>4 DEF TurnAssumption
<1>6. todo \in Seq(Nat)
  BY <1>5
<1>7. m \in Protocol /\ OpenEnd(Append(turn[t].ctx, m), todo)
  BY <1>1, <1>4, <1>5, OpenEndStarts
<1> HIDE DEF todo
<1>8. /\ Shape(s) /\ s.pc = "tools" /\ s.ctx = turn[t].ctx /\ s.cursor = turn[t].cursor
      /\ s.from = turn[t].from /\ s.base = turn[t].base /\ s.own = turn[t].own
      /\ s.kind = turn[t].kind /\ s.trace = turn[t].trace /\ s.todo = todo
  BY <1>4, <1>6 DEF Shape, Stages
<1>9. Keep(t, m, s)
  BY <1>1 DEF todo
<1>10. calls' \in 0 .. MaxCalls
  BY <1>1, <1>5
<1> HIDE DEF s, m
<1> QED BY <1>2, <1>4, <1>7, <1>8, <1>9, <1>10, KeepReads

\* The result of a call, synthetic or not.
LEMMA ResultReads ==
  ASSUME TurnAssumption, Inv, Contexts, NEW t \in Turns, turn[t].pc = "tools", turn[t].todo # <<>>,
         NEW s, Shape(s), s.todo = turn[t].todo, s.ctx = turn[t].ctx, s.cursor = turn[t].cursor,
         s.from = turn[t].from, s.base = turn[t].base, s.own = turn[t].own,
         s.kind = turn[t].kind, s.trace = turn[t].trace,
         Keep(t, Result(Head(turn[t].todo)), NextCall(s)), UNCHANGED <<inbox, calls, events>>
  PROVE  Contexts'
<1> DEFINE n == NextCall(s)
           m == Result(Head(turn[t].todo))
<1>1. turn[t].pc \in Looping
  BY DEF Looping
<1>2. /\ Shape(turn[t]) /\ OpenEnd(turn[t].ctx, turn[t].todo)
      /\ calls \in 0 .. MaxCalls /\ events \in 0 .. MaxEvents
  BY <1>1, InLoop
<1>3. turn[t].todo \in Seq(Nat)
  BY <1>2 DEF Shape
<1>4. m \in Protocol /\ OpenEnd(Append(turn[t].ctx, m), Tail(turn[t].todo))
  BY <1>2, <1>3, OpenEndGrows
<1>5. /\ n.ctx = s.ctx /\ n.cursor = s.cursor /\ n.from = s.from /\ n.base = s.base
      /\ n.own = s.own /\ n.kind = s.kind /\ n.trace = s.trace /\ n.todo = Tail(s.todo)
      /\ n.pc = "tools"
  BY DEF NextCall, Shape
<1>6. Shape(n)
  BY NextCallIs
<1> HIDE DEF n, m
<1>7. Keep(t, m, n)
  BY DEF m, n
<1> QED BY <1>2, <1>4, <1>5, <1>6, <1>7, KeepReads

LEMMA RefuseCallReads ==
  ASSUME TurnAssumption, Inv, Contexts, NEW t \in Turns, RefuseCall(t)
  PROVE  Contexts'
<1> DEFINE s == [turn[t] EXCEPT !.cancelled = @ \/ cancel]
<1>1. /\ turn[t].pc = "tools" /\ turn[t].todo # <<>>
      /\ Keep(t, Result(Head(turn[t].todo)), NextCall(s))
      /\ UNCHANGED <<busy, cancel, inbox, calls, events, erased, skipped>>
  BY DEF RefuseCall, At
<1>2. Shape(turn[t])
  BY DEF Inv, Typed
<1>3. /\ Shape(s) /\ s.todo = turn[t].todo /\ s.ctx = turn[t].ctx /\ s.cursor = turn[t].cursor
      /\ s.from = turn[t].from /\ s.base = turn[t].base /\ s.own = turn[t].own
      /\ s.kind = turn[t].kind /\ s.trace = turn[t].trace
  <2>1. (turn[t].cancelled \/ cancel) \in BOOLEAN
    OBVIOUS
  <2> QED BY <1>2, <2>1 DEF Shape
<1> HIDE DEF s
<1> QED BY <1>1, <1>3, ResultReads

LEMMA ExecuteCallReads ==
  ASSUME TurnAssumption, Inv, Contexts, NEW t \in Turns, ExecuteCall(t)
  PROVE  Contexts'
<1>1. PICK outcome \in {"ok", "failed", "retryable"} :
        Keep(t, Result(Head(turn[t].todo)), NextCall(Count(turn[t], outcome)))
  BY DEF ExecuteCall
<1> DEFINE s == Count(turn[t], outcome)
<1>2. /\ turn[t].pc = "tools" /\ turn[t].todo # <<>>
      /\ UNCHANGED <<busy, cancel, inbox, calls, events, erased, skipped>>
  BY DEF ExecuteCall, At
<1>3. Shape(turn[t])
  BY DEF Inv, Typed
<1>4. /\ Shape(s) /\ s.todo = turn[t].todo /\ s.ctx = turn[t].ctx /\ s.cursor = turn[t].cursor
      /\ s.from = turn[t].from /\ s.base = turn[t].base /\ s.own = turn[t].own
      /\ s.kind = turn[t].kind /\ s.trace = turn[t].trace
  BY <1>3 DEF Shape, Count
<1> HIDE DEF s
<1>5. Keep(t, Result(Head(turn[t].todo)), NextCall(s))
  BY <1>1 DEF s
<1> QED BY <1>2, <1>4, <1>5, ResultReads

LEMMA LlmFailsReads ==
  ASSUME TurnAssumption, Inv, Contexts, NEW t \in Turns, LlmFails(t)
  PROVE  Contexts'
<1>1. /\ turn[t].pc = "llm" /\ events < MaxEvents /\ events' = events + 1
      /\ turn' = [turn EXCEPT ![t] = NoTurn]
      /\ UNCHANGED <<rows, lastId, inbox, calls, erased, skipped>>
  BY DEF LlmFails, EndTurn, Go, At
<1>2. turn[t].pc \in Looping
  BY <1>1 DEF Looping
<1>3. /\ ~At(t, "idle") /\ lastId \in Nat /\ Ordered
      /\ calls \in 0 .. MaxCalls /\ events \in 0 .. MaxEvents
  BY <1>2, InLoop
<1>4. calls' \in 0 .. MaxCalls /\ events' \in 0 .. MaxEvents
  BY <1>1, <1>3 DEF TurnAssumption
<1>5. Follows({})
  BY <1>1, <1>3, StaysFollows
<1> QED BY <1>1, <1>3, <1>4, <1>5, EndsReads

LEMMA PersistReads ==
  ASSUME TurnAssumption, Inv, Contexts, NEW t \in Turns, Persist(t)
  PROVE  Contexts'
<1> DEFINE s == turn[t]
           next == [s EXCEPT !.trace = Tail(@)]
<1>1. turn[t].pc = "persist" /\ UNCHANGED <<inbox, calls, events, erased>>
  BY DEF Persist, At
<1>2. turn[t].pc \in Looping
  BY <1>1 DEF Looping
<1>3. /\ ~At(t, "idle") /\ lastId \in Nat /\ Ordered /\ Shape(s) /\ s.own \in Everyone
      /\ Loads(s, RowSet, lastId) /\ Loops(s, RowSet, lastId) /\ s.trace \in Seq(Protocol)
      /\ WellFormed(s.ctx) /\ s.ctx \in Seq(Said)
      /\ calls' \in 0 .. MaxCalls /\ events' \in 0 .. MaxEvents
  BY <1>1, <1>2, InLoop
<1>4. \/ NoRow /\ turn' = [turn EXCEPT ![t] = NoTurn]
      \/ /\ s.trace # <<>> /\ AppendRow(s.own, Head(s.trace))
         /\ turn' = [turn EXCEPT ![t] = next]
      \/ AppendRow(s.own, Text) /\ turn' = [turn EXCEPT ![t] = NoTurn]
  BY DEF Persist, EndTurn, Go
<1>5. CASE NoRow /\ turn' = [turn EXCEPT ![t] = NoTurn]
  <2>1. Follows({})
    BY <1>3, <1>5, StaysFollows DEF NoRow
  <2> QED BY <1>1, <1>3, <1>5, <2>1, EndsReads
<1>6. CASE AppendRow(s.own, Text) /\ turn' = [turn EXCEPT ![t] = NoTurn]
  <2>1. Text \in Said /\ Text.msg = NoMsg
    BY KindsAre DEF Chat, Said
  <2>2. Follows({})
    BY <1>3, <1>6, <2>1, ProtocolFollows
  <2> QED BY <1>1, <1>3, <1>6, <2>2, EndsReads
<1>7. CASE /\ s.trace # <<>> /\ AppendRow(s.own, Head(s.trace))
           /\ turn' = [turn EXCEPT ![t] = next]
  <2>1. Head(s.trace) \in Protocol /\ Tail(s.trace) \in Seq(Protocol)
    BY <1>3, <1>7, HeadTailProperties
  <2>2. Head(s.trace) \in Said /\ Head(s.trace).msg = NoMsg
    BY <2>1, SaidIs DEF Said
  <2>3. Follows({})
    BY <1>3, <1>7, <2>2, ProtocolFollows
  <2>4. /\ next.pc = "persist" /\ next.ctx = s.ctx /\ next.cursor = s.cursor
        /\ next.from = s.from /\ next.base = s.base /\ next.own = s.own /\ next.kind = s.kind
        /\ next.trace = Tail(s.trace)
    BY <1>1, <1>3 DEF Shape
  <2>5. turn' = [turn EXCEPT ![t] = next]
    BY <1>7
  <2> HIDE DEF next
  <2>6. SameReading(next, s)
    BY <1>3, <2>4 DEF SameReading
  <2>7. Loads(next, RowSet, lastId) /\ Loops(next, RowSet, lastId)
    BY <1>3, <2>6, SameReads
  <2>8. Formed(next) /\ next.pc \in Looping /\ MsgsOf(next.ctx) \subseteq MsgsOf(s.ctx) \cup Recorded
    BY <1>3, <2>4 DEF Formed, Looping
  <2> QED BY <1>1, <1>2, <1>3, <2>1, <2>3, <2>4, <2>5, <2>7, <2>8, LoopStepReads
<1> QED BY <1>4, <1>5, <1>6, <1>7
-----------------------------------------------------------------------------
(***************************************************************************)
(* What happens around the turns, and their contexts                       *)
(***************************************************************************)
\* The fields of a turn its context is judged by.
SameTurn(n, s) ==
  /\ n.ctx = s.ctx /\ n.own = s.own /\ n.pc = s.pc /\ n.kind = s.kind /\ n.trace = s.trace
  /\ n.todo = s.todo /\ n.from = s.from /\ n.base = s.base /\ n.cursor = s.cursor

\* A step that records nothing of a user, and takes nobody's message.
LEMMA QuietReads ==
  ASSUME TurnAssumption, Inv, Contexts, Follows({}),
         \A u \in Turns : \/ SameTurn(turn'[u], turn[u])
                          \/ /\ turn'[u].ctx = <<>> /\ turn'[u].trace = <<>>
                             /\ turn'[u].pc \notin Loading,
         \A m \in Everyone : Fresh(m)' => Fresh(m),
         calls' \in 0 .. MaxCalls, events' \in 0 .. MaxEvents
  PROVE  Contexts'
<1>1. PICK X : X = {}
  OBVIOUS
<1>2. /\ Follows(X) /\ X \subseteq Everyone /\ \A m \in Everyone : Fresh(m)' => Fresh(m) /\ m \notin X
      /\ \A m \in X : Fresh(m) /\ \A u \in Turns : turn[u].own # m
  BY <1>1
<1> QED BY <1>2, AroundStepReads DEF SameTurn

\* A turn that begins, of a message nobody had yet.
LEMMA StartReads ==
  ASSUME TurnAssumption, Inv, Contexts, NEW t \in Turns, At(t, "idle"), NEW m \in Everyone,
         NEW kind \in {"message", "photo", "task", "notice"}, inbox[m] = "new",
         inbox' = [inbox EXCEPT ![m] = "taken"], turn' = [turn EXCEPT ![t] = NewTurn(kind, m)],
         UNCHANGED <<rows, lastId, calls, events>>
  PROVE  Contexts'
<1>1. Ordered /\ lastId \in Nat /\ calls' \in 0 .. MaxCalls /\ events' \in 0 .. MaxEvents
  BY DEF Contexts, Inv, Typed
<1>2. Follows({})
  BY <1>1, StaysFollows
<1> DEFINE new == NewTurn(kind, m)
<1>3. new.ctx = <<>> /\ new.trace = <<>> /\ new.pc = "begin" /\ new.own = m /\ new.kind = kind
  BY DEF NewTurn, NoTurn
<1> HIDE DEF new
<1>4. turn'[t] = new /\ \A u \in Turns : u # t => turn'[u] = turn[u]
  BY DEF Inv, Typed, new
<1>5. inbox'[m] = "taken" /\ \A x \in Everyone : x # m => inbox'[x] = inbox[x]
  BY DEF Inv, Typed
<1>6. ASSUME NEW x \in Everyone, Fresh(x)' PROVE Fresh(x)
  <2>1. CASE x = m
    BY <2>1 DEF Fresh
  <2>2. CASE x # m
    BY <1>3, <1>4, <1>5, <1>6, <2>2 DEF Fresh
  <2> QED BY <2>1, <2>2
<1>7. ASSUME NEW u \in Turns
      PROVE  \/ SameTurn(turn'[u], turn[u])
             \/ /\ turn'[u].ctx = <<>> /\ turn'[u].trace = <<>> /\ turn'[u].pc \notin Loading
  BY <1>3, <1>4 DEF SameTurn, Loading, Looping
<1> QED BY <1>1, <1>2, <1>6, <1>7, QuietReads

LEMMA ReceiveReads ==
  ASSUME TurnAssumption, Inv, Contexts, NEW m \in Msgs, Receive(m)
  PROVE  Contexts'
<1>1. inbox[m] = "new" /\ m \in Everyone /\ UNCHANGED <<rows, lastId, cancel, calls, events, erased, skipped>>
  BY DEF Receive, Everyone
<1>2. CASE busy
  <2>1. inbox' = [inbox EXCEPT ![m] = "racing"] /\ turn' = turn
    BY <1>2 DEF Receive
  <2>2. Ordered /\ lastId \in Nat /\ calls' \in 0 .. MaxCalls /\ events' \in 0 .. MaxEvents
    BY <1>1 DEF Contexts, Inv, Typed
  <2>3. Follows({})
    BY <1>1, <2>2, StaysFollows
  <2>4. \A x \in Everyone : x # m => inbox'[x] = inbox[x]
    BY <2>1 DEF Inv, Typed
  <2>5. \A x \in Everyone : Fresh(x)' => Fresh(x)
    BY <1>1, <2>1, <2>4 DEF Fresh
  <2>6. \A u \in Turns : SameTurn(turn'[u], turn[u])
    BY <2>1 DEF SameTurn
  <2> QED BY <2>2, <2>3, <2>5, <2>6, QuietReads
<1>3. CASE ~busy
  <2>1. PICK kind \in KindsOf(m) : turn' = [turn EXCEPT !["inbound"] = NewTurn(kind, m)]
    BY <1>3 DEF Receive, Go
  <2>2. kind \in {"message", "photo", "task", "notice"}
    BY <2>1 DEF KindsOf
  <2>3. "inbound" \in Turns /\ At("inbound", "idle") /\ inbox' = [inbox EXCEPT ![m] = "taken"]
    BY <1>3 DEF Receive, Turns, Inv, SlotOfItsTurn, SlotHeldByATurn
  <2> QED BY <1>1, <2>1, <2>2, <2>3, StartReads
<1> QED BY <1>2, <1>3

LEMMA DispatchReads ==
  ASSUME TurnAssumption, Inv, Contexts, NEW n \in Notices, Dispatch(n)
  PROVE  Contexts'
<1>1. /\ inbox[n] = "new" /\ n \in Everyone /\ At("dispatch", "idle") /\ "dispatch" \in Turns
      /\ inbox' = [inbox EXCEPT ![n] = "taken"]
      /\ turn' = [turn EXCEPT !["dispatch"] = NewTurn("notice", n)]
      /\ UNCHANGED <<rows, lastId, calls, events>>
  BY DEF Dispatch, Go, Everyone, Turns
<1> QED BY <1>1, StartReads

LEMMA RecordInFlightReads ==
  ASSUME TurnAssumption, Inv, Contexts, NEW m \in Msgs, RecordInFlight(m)
  PROVE  Contexts'
<1>1. /\ inbox[m] = "racing" /\ m \in Everyone /\ m # NoMsg
      /\ AppendRow(NoMsg, User(m)) /\ inbox' = [inbox EXCEPT ![m] = "acked"]
      /\ UNCHANGED <<busy, cancel, turn, calls, events, erased, skipped>>
  BY DEF RecordInFlight, Everyone, TurnAssumption
<1>2. Ordered /\ calls' \in 0 .. MaxCalls /\ events' \in 0 .. MaxEvents
  BY <1>1 DEF Contexts
<1>3. Fresh(m) /\ m \notin Recorded
  BY <1>1 DEF Fresh, Contexts, Unheard
<1>4. Follows({m})
  BY <1>1, <1>2, <1>3, UserFollows
<1>5. \A u \in Turns : turn[u].own # m
  BY <1>1, NoTurnIs DEF Inv, Owners, Owned
<1>6. inbox'[m] = "acked" /\ \A x \in Everyone : x # m => inbox'[x] = inbox[x]
  BY <1>1 DEF Inv, Typed
<1>7. \A x \in Everyone : Fresh(x)' => Fresh(x) /\ x \notin {m}
  BY <1>1, <1>5, <1>6 DEF Fresh
<1>8. {m} \subseteq Everyone /\ \A x \in {m} : Fresh(x) /\ \A u \in Turns : turn[u].own # x
  BY <1>1, <1>3, <1>5
<1> QED BY <1>1, <1>2, <1>4, <1>7, <1>8, AroundStepReads

LEMMA ToolSendsReads ==
  ASSUME TurnAssumption, Inv, Contexts, NEW t \in Turns, ToolSends(t)
  PROVE  Contexts'
<1>1. /\ AppendRow(NoMsg, Text) /\ events < MaxEvents /\ events' = events + 1
      /\ UNCHANGED <<busy, cancel, inbox, turn, calls, erased, skipped>>
  BY DEF ToolSends
<1>2. Ordered /\ calls' \in 0 .. MaxCalls /\ events' \in 0 .. MaxEvents
  BY <1>1 DEF Contexts, TurnAssumption
<1>3. Text \in Said /\ Text.msg = NoMsg
  BY KindsAre DEF Chat, Said
<1>4. Follows({})
  BY <1>1, <1>2, <1>3, ProtocolFollows
<1>5. \A x \in Everyone : Fresh(x)' => Fresh(x)
  BY <1>1 DEF Fresh
<1>6. \A u \in Turns : SameTurn(turn'[u], turn[u])
  BY <1>1 DEF SameTurn
<1> QED BY <1>2, <1>4, <1>5, <1>6, QuietReads

LEMMA RequestCancelReads ==
  ASSUME TurnAssumption, Inv, Contexts, RequestCancel
  PROVE  Contexts'
<1> DEFINE new == [turn["inbound"] EXCEPT !.stopped = TRUE]
<1>1. /\ events < MaxEvents /\ events' = events + 1 /\ turn' = [turn EXCEPT !["inbound"] = new]
      /\ UNCHANGED <<rows, lastId, inbox, calls>>
  BY DEF RequestCancel
<1>2. /\ Ordered /\ lastId \in Nat /\ calls' \in 0 .. MaxCalls /\ events' \in 0 .. MaxEvents
      /\ "inbound" \in Turns /\ Shape(turn["inbound"])
  BY <1>1 DEF Contexts, TurnAssumption, Inv, Typed, Turns
<1>3. SameTurn(new, turn["inbound"])
  BY <1>2 DEF SameTurn, Shape
<1> HIDE DEF new
<1>4. turn'["inbound"] = new /\ \A u \in Turns : u # "inbound" => turn'[u] = turn[u]
  BY <1>1, <1>2 DEF Inv, Typed
<1>5. \A u \in Turns : SameTurn(turn'[u], turn[u])
  BY <1>3, <1>4 DEF SameTurn
<1>6. \A x \in Everyone : Fresh(x)' => Fresh(x)
  BY <1>1, <1>5 DEF Fresh, SameTurn, Unrecorded
<1>7. Follows({})
  BY <1>1, <1>2, StaysFollows
<1> QED BY <1>2, <1>5, <1>6, <1>7, QuietReads

LEMMA EraseReads ==
  ASSUME TurnAssumption, Inv, Contexts, ClearHistory \/ Trim
  PROVE  Contexts'
<1>1. Ordered /\ lastId \in Nat /\ Len(rows) \in Nat /\ rows \in Seq(SaidRows)
  BY LenProperties DEF Contexts, Inv, Typed, Ordered
<1>2. /\ events < MaxEvents /\ events' = events + 1
      /\ UNCHANGED <<lastId, inbox, turn, calls>>
  BY DEF ClearHistory, Trim, Erase
<1>3. calls' \in 0 .. MaxCalls /\ events' \in 0 .. MaxEvents
  BY <1>2 DEF Contexts, TurnAssumption
<1>4. \E k \in Nat \ {0} : rows' = SubSeq(rows, k, Len(rows))
  <2>1. CASE ClearHistory
    <3>1. rows' = <<>> /\ Len(rows) + 1 \in Nat \ {0}
      BY <1>1, <2>1 DEF ClearHistory, Erase
    <3>2. SubSeq(rows, Len(rows) + 1, Len(rows)) = <<>>
      BY <1>1, SubSeqProperties
    <3> QED BY <3>1, <3>2
  <2>2. CASE Trim
    BY <1>1, <2>2, FromIs DEF Trim, Erase
  <2> QED BY <2>1, <2>2
<1>5. Follows({})
  BY <1>1, <1>2, <1>4, EndFollows DEF Inv
<1>6. \A x \in Everyone : Fresh(x)' => Fresh(x)
  BY <1>2 DEF Fresh
<1>7. \A u \in Turns : SameTurn(turn'[u], turn[u])
  BY <1>2 DEF SameTurn
<1> QED BY <1>3, <1>5, <1>6, <1>7, QuietReads

LEMMA CrashReads ==
  ASSUME TurnAssumption, Inv, Contexts, Crash
  PROVE  Contexts'
<1>1. /\ events < MaxEvents /\ events' = events + 1 /\ turn' = [t \in Turns |-> NoTurn]
      /\ inbox' = [m \in Everyone |-> IF inbox[m] = "racing" THEN "lost" ELSE inbox[m]]
      /\ UNCHANGED <<rows, lastId, calls>>
  BY DEF Crash
<1>2. /\ Ordered /\ lastId \in Nat /\ calls' \in 0 .. MaxCalls /\ events' \in 0 .. MaxEvents
  BY <1>1 DEF Contexts, TurnAssumption, Inv, Typed
<1>3. \A u \in Turns : turn'[u] = NoTurn
  BY <1>1
<1>4. NoTurn.ctx = <<>> /\ NoTurn.trace = <<>> /\ NoTurn.pc \notin Loading /\ ~Unrecorded(NoTurn)
  BY NoTurnReads DEF NoTurn, Loading, Looping
<1>5. \A x \in Everyone : Fresh(x)' => Fresh(x)
  BY <1>1, <1>3, <1>4 DEF Fresh
<1>6. Follows({})
  BY <1>1, <1>2, StaysFollows
<1> QED BY <1>2, <1>3, <1>4, <1>5, <1>6, QuietReads

LEMMA ContextsBegin == ASSUME TurnAssumption, Init PROVE Contexts
<1>1. /\ rows = <<>> /\ lastId = 0 /\ calls = 0 /\ events = 0 /\ turn = [t \in Turns |-> NoTurn]
  BY DEF Init
<1>2. Ordered /\ Recorded = {}
  BY <1>1 DEF Ordered, Plain, Once, Recorded, MsgsOf
<1>3. \A t \in Turns : turn[t] = NoTurn
  BY <1>1
<1>4. Reading
  BY <1>3, NoTurnReads DEF Reading
<1>5. Unheard
  BY <1>2, <1>3, NoTurnReads DEF Unheard
<1> QED BY <1>1, <1>2, <1>4, <1>5 DEF Contexts, TurnAssumption

LEMMA ContextsStay == ASSUME TurnAssumption, Inv, Contexts, [Next]_vars PROVE Contexts'
<1>1. CASE UNCHANGED vars
  <2>1. UNCHANGED <<rows, lastId, inbox, turn, calls, events>>
    BY <1>1 DEF vars
  <2>2. Ordered /\ lastId \in Nat /\ calls' \in 0 .. MaxCalls /\ events' \in 0 .. MaxEvents
    BY <2>1 DEF Contexts, Inv, Typed
  <2>3. Follows({})
    BY <2>1, <2>2, StaysFollows
  <2>4. \A x \in Everyone : Fresh(x)' => Fresh(x)
    BY <2>1 DEF Fresh
  <2>5. \A u \in Turns : SameTurn(turn'[u], turn[u])
    BY <2>1 DEF SameTurn
  <2> QED BY <2>2, <2>3, <2>4, <2>5, QuietReads
<1>2. ASSUME NEW t \in Turns, Step(t) PROVE Contexts'
  BY <1>2, RecordPhotoReads, LoadHistoryReads, BaselineReads, CheckpointAReads, AnswerReads,
     AskToolsReads, RefuseCallReads, ExecuteCallReads, ToolSendsReads, EndBatchReads, WrapUpReads,
     LlmFailsReads, PersistReads DEF Step
<1>3. CASE Next
  BY <1>2, <1>3, ReceiveReads, RecordInFlightReads, DispatchReads, RequestCancelReads, EraseReads,
     CrashReads DEF Next
<1> QED BY <1>1, <1>3
-----------------------------------------------------------------------------
(***************************************************************************)
(* Theorems about the contexts                                             *)
(***************************************************************************)
\* The inductive invariant of the contexts holds, beside that of the turns.
THEOREM ContextsAreSound == Spec => [](Inv /\ Contexts)
<1>1. Init => Inv /\ Contexts
  BY TurnAssumption, InitHolds, ContextsBegin
<1>2. Inv /\ Contexts /\ [Next]_vars => Inv' /\ Contexts'
  BY TurnAssumption, NextKeeps, ContextsStay
<1> QED BY <1>1, <1>2, PTL DEF Spec

\* Every variable holds values of its kind, what the turns have in their
\* contexts after any scan of the history included.
THEOREM TurnsAreTyped == Spec => []TypeOK
<1>1. Inv /\ Contexts => TypeOK
  <2> SUFFICES ASSUME Inv, Contexts PROVE TypeOK
    OBVIOUS
  <2>1. ASSUME NEW i \in DOMAIN rows
        PROVE  /\ rows[i].id \in 1 .. lastId /\ rows[i].m \in Message
               /\ rows[i].by \in Everyone \cup {NoMsg}
    <3>1. rows \in Seq(SaidRows) /\ rows[i].id \in 1 .. lastId
      BY DEF Contexts, Ordered
    <3>2. rows[i] \in SaidRows
      BY <3>1, ElementOfSeq, LenProperties
    <3>3. rows[i].m \in Said /\ rows[i].by \in Everyone \cup {NoMsg}
      BY <3>2 DEF SaidRows
    <3> QED BY <3>1, <3>3, SaidIs, TurnAssumption
  <2>2. ASSUME NEW t \in Turns
        PROVE  /\ turn[t].pc \in Stages /\ turn[t].kind \in {"none", "notice", "message", "photo", "task"}
               /\ turn[t].resets \in 0 .. MaxResets /\ turn[t].iter \in 0 .. MaxIter
               /\ \A i \in DOMAIN turn[t].ctx : turn[t].ctx[i] \in Message
    <3>1. Shape(turn[t]) /\ Reads(turn[t], RowSet, lastId)
      BY DEF Inv, Typed, Contexts, Reading
    <3>2. turn[t].ctx \in Seq(Said)
      <4>1. <<>> \in Seq(Said)
        OBVIOUS
      <4>2. turn[t].ctx = <<>> \/ turn[t].ctx \in Seq(Said)
        BY <3>1 DEF Reads, Loads
      <4> QED BY <4>1, <4>2
    <3>3. \A i \in DOMAIN turn[t].ctx : turn[t].ctx[i] \in Said
      BY <3>2, ElementOfSeq, LenProperties
    <3> QED BY <3>1, <3>3, SaidIs, TurnAssumption DEF Shape, Kinds
  <2>3. inbox \in [Everyone -> {"new", "racing", "acked", "taken", "lost"}]
    BY DEF Inv, Typed, Places
  <2> QED BY <2>1, <2>2, <2>3 DEF TypeOK, Inv, Typed, Contexts
<1> QED BY <1>1, ContextsAreSound, PTL

\* Whatever the history holds (a batch a crash or a stop left half done, the
\* rows of another turn or of a tool in the middle of it, the cut of a window
\* or of a trim), what is sent to the provider has each group of tool calls
\* whole, with all its results and nothing in between.
THEOREM TheProviderAcceptsIt == Spec => []ProtocolIntact
<1>1. Inv /\ Contexts => ProtocolIntact
  <2> SUFFICES ASSUME Inv, Contexts, NEW t \in Turns, AsksTheLlm(t) PROVE WellFormed(turn[t].ctx)
    BY DEF ProtocolIntact
  <2>1. turn[t].pc \in Looping \ {"tools"}
    BY DEF AsksTheLlm, Looping
  <2> QED BY <2>1, InLoop, TurnAssumption
<1> QED BY <1>1, ContextsAreSound, PTL

\* Whatever arrives between the load of a turn and its cursor, and however
\* the groups around it break, the LLM is shown every message of a user up to
\* the cursor (all those the window let in), and none of them twice.
THEOREM TheHistoryIsSeen == Spec => []HistoryIsSeen
<1>1. Inv /\ Contexts => HistoryIsSeen
  <2> SUFFICES ASSUME Inv, Contexts PROVE HistoryIsSeen
    OBVIOUS
  <2>1. ASSUME NEW t \in Turns, AsksTheLlm(t), NEW i \in DOMAIN rows,
               rows[i].m.role = "user", rows[i].id <= turn[t].cursor,
               rows[i].id \notin turn[t].from + 1 .. turn[t].base,
               Window = 0 \/ rows[i].id > turn[t].base
        PROVE  rows[i].m.msg \in MsgsOf(turn[t].ctx)
    <3>1. turn[t].pc \in Looping
      BY <2>1 DEF AsksTheLlm, Looping
    <3>2. Loads(turn[t], RowSet, lastId) /\ Loops(turn[t], RowSet, lastId) /\ lastId \in Nat
      BY <3>1, InLoop, TurnAssumption
    <3>3. rows[i] \in RowSet /\ rows[i].id \in 1 .. lastId
      BY DEF RowSet, Contexts, Ordered
    <3>4. CASE rows[i].id > turn[t].base
      BY <2>1, <3>2, <3>3, <3>4 DEF Loops
    <3>5. CASE ~(rows[i].id > turn[t].base)
      <4>1. Window = 0 /\ rows[i].id <= turn[t].from
        BY <2>1, <3>2, <3>3, <3>5 DEF Loads, Loops
      <4> QED BY <2>1, <3>2, <3>3, <4>1 DEF Loads
    <3> QED BY <3>4, <3>5
  <2>2. SeesUpToItsCursor
    BY <2>1 DEF SeesUpToItsCursor
  <2>3. ASSUME NEW t \in Turns PROVE Once(turn[t].ctx)
    <3>1. Reads(turn[t], RowSet, lastId)
      BY DEF Contexts, Reading
    <3>2. turn[t].ctx = <<>> \/ Once(turn[t].ctx)
      BY <3>1 DEF Reads, Loads
    <3> QED BY <3>2 DEF Once
  <2>4. SeenOnce
    BY <2>3 DEF SeenOnce, Once
  <2> QED BY <2>2, <2>4 DEF HistoryIsSeen
<1> QED BY <1>1, ContextsAreSound, PTL
=============================================================================
