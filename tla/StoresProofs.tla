----------------------------- MODULE StoresProofs -----------------------------
(***************************************************************************)
(* What outlives a turn, for any constants: the catalog of skills and      *)
(* tools, the memory of the conversations, the index of the documents and  *)
(* the registry of faces.  Each subject has an inductive invariant of its  *)
(* own (CatInv, MemHist and MemVecs, IxInv, FcInv); OneSubject says that   *)
(* only one of them moves.                                                 *)
(***************************************************************************)
EXTENDS MCStores, Sequences, FiniteSetTheorems, SequenceTheorems, TLAPS

\* At each step the subject stays and either moves or keeps its variables.
LEMMA OneSubject ==
  ASSUME [Next]_vars
  PROVE  subject' = subject
BY DEF Next, vars

-----------------------------------------------------------------------------
\* The records of the turns that load the catalog.
CatTurn == [pc : {"idle", "look", "ask", "add"}, in : {"skills", "tools"}, at : Nat \ {0},
            vec : Models \cup {Missing}, tries : Nat, cuts : Nat, owns : BOOLEAN]
AllSkills == C!Range(Skills)
AllTools == C!Range(Tools)
WalkedBy(s) == IF s.in = "skills" THEN Skills ELSE Tools
WalksSkills(s) == s.pc # "idle" /\ s.in = "skills"

\* The i-th skill is in the list, or was given up.
Settled(i) == Skills[i] \in absent \/ \E k \in 1 .. Len(list) : list[k].of = Skills[i]
AllSettled == \A i \in 1 .. Len(Skills) : Settled(i)

CatTurnOk(s) ==
  /\ s \in CatTurn
  /\ s.pc \in {"ask", "add"} => s.at <= Len(WalkedBy(s))
  /\ s.pc = "look" => s.at <= Len(WalkedBy(s)) + 1
  /\ s.pc = "add" => s.vec \in Models /\ Provider[s.vec] = Provider[model]
  /\ s.pc # "idle" /\ s.in = "tools" =>
       \A i \in 1 .. Len(Tools) : i < s.at => vectors[Tools[i]] # Missing
  /\ s.owns => WalksSkills(s) /\ \A i \in 1 .. Len(Skills) : i < s.at => Settled(i)

CatCache ==
  /\ model \in Models /\ cache \in [C!Entries \X C!Providers -> Models \cup {Missing}]
  /\ \A e \in C!Entries, p \in C!Providers :
       cache[<<e, p>>] # Missing => Provider[cache[<<e, p>>]] = p
CatStore ==
  /\ list \in Seq([of : AllSkills, vec : Models]) /\ vectors \in [AllTools -> Models \cup {Missing}]
  /\ \A k \in 1 .. Len(list) : Provider[list[k].vec] = Provider[model]
  /\ \A e \in AllTools : vectors[e] # Missing => Provider[vectors[e]] = Provider[model]
  /\ ready => \A e \in AllTools : vectors[e] # Missing
CatTurns == turn \in [CatalogTurns -> CatTurn] /\ \A t \in CatalogTurns : CatTurnOk(turn[t])
CatOwner ==
  (\A t \in CatalogTurns : ~turn[t].owns)
    => AllSettled \/ (~loaded /\ \A t \in CatalogTurns : ~WalksSkills(turn[t]))
CatInv == CatCache /\ CatStore /\ CatTurns /\ CatOwner

\* What is settled or embedded stays so.
CatGrows ==
  /\ \A i \in 1 .. Len(Skills) : Settled(i) => Settled(i)'
  /\ \A e \in AllTools : vectors[e] # Missing => vectors'[e] # Missing

\* A turn that is not the one that moves is as good as before.
LEMMA OtherTurnsStay ==
  ASSUME C!CatalogAssumption, NEW s, CatTurnOk(s), CatGrows, model' = model
  PROVE  CatTurnOk(s)'
<1>1. \A i \in 1 .. Len(Tools) : Tools[i] \in AllTools
  BY DEF C!CatalogAssumption, AllTools, C!Range
<1> QED BY <1>1 DEF CatTurnOk, CatGrows, WalksSkills, WalkedBy

\* One turn moves and the catalog only grows.
LEMMA ATurnMoves ==
  ASSUME C!CatalogAssumption, CatInv, NEW t \in CatalogTurns, NEW s, NEW old, old = turn[t],
         turn' = [turn EXCEPT ![t] = s], model' = model, CatGrows, CatCache', CatStore',
         CatTurnOk(s)', old.owns => s.owns \/ AllSettled',
         WalksSkills(s) => WalksSkills(old), loaded' => loaded \/ WalksSkills(old)
  PROVE  CatInv'
<1>1. CatTurns'
  <2>1. s \in CatTurn
    BY DEF CatTurnOk
  <2>2. turn' \in [CatalogTurns -> CatTurn]
    BY <2>1 DEF CatInv, CatTurns
  <2>3. ASSUME NEW u \in CatalogTurns
        PROVE  CatTurnOk(turn[u])'
    <3>1. CASE u = t
      <4>1. turn'[u] = s
        BY <3>1 DEF CatInv, CatTurns
      <4> QED BY <4>1 DEF CatTurnOk
    <3>2. CASE u # t
      <4>1. PICK r : r = turn[u]
        OBVIOUS
      <4>2. turn'[u] = r /\ CatTurnOk(r)
        BY <3>2, <4>1 DEF CatInv, CatTurns
      <4>3. CatTurnOk(r)'
        BY <4>2, OtherTurnsStay
      <4> QED BY <4>2, <4>3 DEF CatTurnOk
    <3> QED BY <3>1, <3>2
  <2> QED BY <2>2, <2>3 DEF CatTurns
<1>2. CatOwner'
  <2>0. turn'[t] = s /\ \A u \in CatalogTurns \ {t} : turn'[u] = turn[u]
    BY DEF CatInv, CatTurns
  <2>1. SUFFICES ASSUME \A u \in CatalogTurns : ~turn'[u].owns
                 PROVE  AllSettled' \/ (~loaded' /\ \A u \in CatalogTurns : ~WalksSkills(turn'[u]))
    BY DEF CatOwner, WalksSkills
  <2>2. CASE old.owns
    BY <2>0, <2>1, <2>2
  <2>3. CASE ~old.owns
    <3>1. \A u \in CatalogTurns : ~turn[u].owns
      BY <2>0, <2>1, <2>3
    <3>2. CASE AllSettled
      BY <3>2 DEF AllSettled, CatGrows
    <3>3. CASE ~loaded /\ \A u \in CatalogTurns : ~WalksSkills(turn[u])
      <4>1. ~WalksSkills(old) /\ ~WalksSkills(s)
        BY <3>3
      <4>2. \A u \in CatalogTurns : ~WalksSkills(turn'[u])
        BY <2>0, <3>3, <4>1
      <4> QED BY <3>3, <4>1, <4>2
    <3> QED BY <3>1, <3>2, <3>3 DEF CatInv, CatOwner
  <2> QED BY <2>2, <2>3
<1> QED BY <1>1, <1>2 DEF CatInv

\* Nothing of the catalog changes but a turn.
LEMMA OnlyATurn ==
  ASSUME C!CatalogAssumption, CatInv, NEW t \in CatalogTurns, NEW s, NEW old, old = turn[t],
         turn' = [turn EXCEPT ![t] = s], UNCHANGED <<C!process, cache, list, loaded, vectors, ready, absent>>,
         CatTurnOk(s), old.owns => s.owns, WalksSkills(s) => WalksSkills(old)
  PROVE  CatInv'
<1>1. model' = model
  BY DEF C!process
<1>2. CatGrows
  BY DEF CatGrows, Settled
<1>3. CatCache' /\ CatStore'
  BY <1>1 DEF CatInv, CatCache, CatStore
<1>4. CatTurnOk(s)'
  BY <1>1, <1>2, OtherTurnsStay
<1> QED BY <1>1, <1>2, <1>3, <1>4, ATurnMoves

\* Who finds the list not loaded empties it, and owns it.
LEMMA TheListIsEmptied ==
  ASSUME C!CatalogAssumption, CatInv, NEW t \in CatalogTurns, C!WalkSkills(t)
  PROVE  CatInv'
<1>1. model' = model /\ list' = <<>> /\ absent' = {} /\ UNCHANGED <<cache, loaded, vectors, ready>>
  BY DEF C!WalkSkills, C!At, C!process
<1>2. PICK s : s = [C!Idle EXCEPT !.pc = "look", !.owns = TRUE]
  OBVIOUS
<1>3. /\ s \in CatTurn /\ s.pc = "look" /\ s.in = "skills" /\ s.at = 1 /\ s.owns
  <2>1. s = [pc |-> "look", in |-> "skills", at |-> 1, vec |-> Missing, tries |-> 0, cuts |-> 0,
             owns |-> TRUE]
    BY <1>2 DEF C!Idle
  <2> QED BY <2>1 DEF CatTurn
<1>4. turn' = [u \in CatalogTurns |-> IF u = t THEN s ELSE [turn[u] EXCEPT !.owns = FALSE]]
  BY <1>2 DEF C!WalkSkills
<1>5. CatCache' /\ CatStore'
  BY <1>1 DEF CatInv, CatCache, CatStore
<1>6. CatTurnOk(s)'
  <2>1. Len(Skills) \in Nat
    BY DEF C!CatalogAssumption
  <2> QED BY <1>3, <2>1 DEF CatTurnOk, WalkedBy, WalksSkills
<1>7. ASSUME NEW u \in CatalogTurns, u # t
      PROVE  turn'[u] \in CatTurn /\ CatTurnOk(turn[u])'
  <2>1. PICK r, n : r = turn[u] /\ n = [r EXCEPT !.owns = FALSE]
    OBVIOUS
  <2>2. CatTurnOk(r)
    BY <2>1 DEF CatInv, CatTurns
  <2>3. /\ n \in CatTurn /\ n.pc = r.pc /\ n.in = r.in /\ n.at = r.at /\ n.vec = r.vec /\ ~n.owns
    BY <2>1, <2>2 DEF CatTurnOk, CatTurn
  <2>4. turn'[u] = n
    BY <1>4, <1>7, <2>1
  <2>5. CatTurnOk(n)'
    BY <1>1, <2>2, <2>3 DEF CatTurnOk, WalkedBy, WalksSkills
  <2> QED BY <2>3, <2>4, <2>5 DEF CatTurnOk
<1>8. turn'[t] = s /\ turn'[t] \in CatTurn
  BY <1>3, <1>4
<1>9. CatTurns'
  <2>1. turn' \in [CatalogTurns -> CatTurn]
    BY <1>4, <1>7, <1>8
  <2>2. CatTurnOk(turn[t])'
    BY <1>6, <1>8 DEF CatTurnOk
  <2> QED BY <1>7, <2>1, <2>2 DEF CatTurns
<1>10. CatOwner'
  BY <1>3, <1>8 DEF CatOwner
<1> QED BY <1>5, <1>9, <1>10 DEF CatInv

\* A new process has nothing but the cache.
LEMMA ANewProcess ==
  ASSUME C!CatalogAssumption, CatInv, C!Restart
  PROVE  CatInv'
<1>1. /\ model' \in Models /\ list' = <<>> /\ ~loaded' /\ ~ready' /\ UNCHANGED cache
      /\ vectors' = [e \in AllTools |-> Missing] /\ turn' = [u \in CatalogTurns |-> C!Idle]
  BY DEF C!Restart, AllTools
<1>2. CatCache'
  BY <1>1 DEF CatInv, CatCache
<1>3. CatStore'
  BY <1>1 DEF CatStore
<1>4. CatTurns'
  <2>1. C!Idle \in CatTurn /\ C!Idle.pc = "idle" /\ ~C!Idle.owns
    BY DEF C!Idle, CatTurn
  <2>2. \A u \in CatalogTurns : turn'[u] = C!Idle
    BY <1>1
  <2> QED BY <1>1, <2>1, <2>2 DEF CatTurns, CatTurnOk
<1>5. CatOwner'
  BY <1>1 DEF CatOwner, WalksSkills, C!Idle
<1> QED BY <1>2, <1>3, <1>4, <1>5 DEF CatInv

\* The entry a turn is at.
LEMMA TheEntry ==
  ASSUME C!CatalogAssumption, CatInv, NEW t \in CatalogTurns, turn[t].at <= Len(C!Walked(t))
  PROVE  /\ C!Entry(t) \in C!Entries /\ C!Key(C!Entry(t)) \in C!Entries \X C!Providers
         /\ turn[t].in = "skills" =>
              C!Entry(t) = Skills[turn[t].at] /\ C!Entry(t) \in AllSkills /\ turn[t].at \in 1 .. Len(Skills)
         /\ turn[t].in = "tools" =>
              C!Entry(t) = Tools[turn[t].at] /\ C!Entry(t) \in AllTools /\ turn[t].at \in 1 .. Len(Tools)
<1>1. turn[t].at \in Nat \ {0} /\ turn[t].in \in {"skills", "tools"}
  <2>1. turn[t] \in CatTurn
    BY DEF CatInv, CatTurns
  <2> QED BY <2>1 DEF CatTurn
<1>2. turn[t].in = "skills" => C!Entry(t) = Skills[turn[t].at] /\ turn[t].at \in 1 .. Len(Skills)
  BY <1>1 DEF C!Entry, C!Walked, C!CatalogAssumption
<1>3. turn[t].in = "tools" => C!Entry(t) = Tools[turn[t].at] /\ turn[t].at \in 1 .. Len(Tools)
  BY <1>1 DEF C!Entry, C!Walked, C!CatalogAssumption
<1>4. /\ \A i \in 1 .. Len(Skills) : Skills[i] \in AllSkills
      /\ \A i \in 1 .. Len(Tools) : Tools[i] \in AllTools
  BY DEF C!CatalogAssumption, AllSkills, AllTools, C!Range
<1>5. C!Entry(t) \in C!Entries
  BY <1>1, <1>2, <1>3, <1>4 DEF C!Entries, AllSkills, AllTools
<1>6. Provider[model] \in C!Providers
  BY DEF CatInv, CatCache, C!Providers
<1> QED BY <1>1, <1>2, <1>3, <1>4, <1>5, <1>6 DEF C!Key

\* The turn as it is: its record, and what is known of it.
LEMMA TheTurn ==
  ASSUME C!CatalogAssumption, CatInv, NEW t \in CatalogTurns, NEW old, old = turn[t]
  PROVE  /\ CatTurnOk(old) /\ old \in CatTurn /\ old.at \in Nat \ {0} /\ old.tries \in Nat
         /\ old.cuts \in Nat /\ old.in \in {"skills", "tools"} /\ old.owns \in BOOLEAN
         /\ C!Walked(t) = WalkedBy(old) /\ Len(WalkedBy(old)) \in Nat
         /\ Len(Skills) \in Nat /\ Len(Tools) \in Nat
<1>1. CatTurnOk(old) /\ old \in CatTurn
  BY DEF CatInv, CatTurns
<1>2. Len(Skills) \in Nat /\ Len(Tools) \in Nat
  BY DEF C!CatalogAssumption
<1> QED BY <1>1, <1>2 DEF CatTurn, WalkedBy, C!Walked

\* A turn that is over is good, whatever the catalog is.
LEMMA IdleIsOk ==
  /\ CatTurnOk(C!Idle) /\ CatTurnOk(C!Idle)' /\ ~WalksSkills(C!Idle) /\ ~C!Idle.owns
  /\ C!Idle \in CatTurn /\ C!Idle.in = "skills" /\ C!Idle.at = 1 /\ C!Idle.pc = "idle"
BY DEF C!Idle, CatTurnOk, CatTurn, WalksSkills

\* A turn starts to walk the tools.
LEMMA TheToolsAreWalked ==
  ASSUME C!CatalogAssumption, CatInv, NEW t \in CatalogTurns, C!WalkTools(t)
  PROVE  CatInv'
<1>1. PICK s : s = [C!Idle EXCEPT !.pc = "look", !.in = "tools"]
  OBVIOUS
<1>2. s \in CatTurn /\ s.pc = "look" /\ s.in = "tools" /\ s.at = 1 /\ ~s.owns
  <2>1. s = [pc |-> "look", in |-> "tools", at |-> 1, vec |-> Missing, tries |-> 0, cuts |-> 0,
             owns |-> FALSE]
    BY <1>1 DEF C!Idle
  <2> QED BY <2>1 DEF CatTurn
<1>3. PICK old : old = turn[t]
  OBVIOUS
<1>4. CatTurnOk(old) /\ old.pc = "idle" /\ Len(Tools) \in Nat
  BY <1>3, TheTurn DEF C!WalkTools, C!At
<1>5. CatTurnOk(s)
  BY <1>2, <1>4 DEF CatTurnOk, WalkedBy, WalksSkills
<1>6. ~old.owns /\ ~WalksSkills(s)
  BY <1>2, <1>4 DEF CatTurnOk, WalksSkills
<1>7. turn' = [turn EXCEPT ![t] = s] /\ UNCHANGED <<C!process, cache, list, loaded, vectors, ready, absent>>
  BY <1>1 DEF C!WalkTools, C!At, C!Becomes
<1> QED BY <1>3, <1>5, <1>6, <1>7, OnlyATurn

\* A turn looks at an entry: it passes a tool that is embedded, finds the vector, or asks.
LEMMA AnEntryIsLookedUp ==
  ASSUME C!CatalogAssumption, CatInv, NEW t \in CatalogTurns, C!Look(t)
  PROVE  CatInv'
<1>1. PICK old : old = turn[t]
  OBVIOUS
<1>2. /\ CatTurnOk(old) /\ old \in CatTurn /\ old.at \in Nat \ {0} /\ old.at + 1 \in Nat \ {0}
      /\ Len(WalkedBy(old)) \in Nat /\ old.pc = "look" /\ old.at <= Len(WalkedBy(old))
      /\ old.in \in {"skills", "tools"} /\ Len(Tools) \in Nat
  BY <1>1, TheTurn DEF C!Look, C!At
<1>3. UNCHANGED <<C!process, cache, list, loaded, vectors, ready, absent>>
  BY DEF C!Look, C!At
<1>4. turn[t].at <= Len(C!Walked(t))
  BY DEF C!Look
<1>5. CASE C!Embedded(t) /\ C!Becomes(t, [turn[t] EXCEPT !.at = @ + 1])
  <2>1. PICK s : s = [old EXCEPT !.at = old.at + 1]
    OBVIOUS
  <2>2. /\ s \in CatTurn /\ s.pc = "look" /\ s.in = old.in /\ s.at = old.at + 1 /\ s.owns = old.owns
    BY <1>2, <2>1 DEF CatTurn
  <2>3. old.in = "tools" /\ vectors[Tools[old.at]] # Missing
    BY <1>1, <1>4, <1>5, TheEntry DEF C!Embedded
  <2>4. ~old.owns
    BY <1>2, <2>3 DEF CatTurnOk, WalksSkills
  <2>5. \A i \in 1 .. Len(Tools) : i < s.at => vectors[Tools[i]] # Missing
    <3>1. \A i \in 1 .. Len(Tools) : i < s.at => i < old.at \/ i = old.at
      BY <1>2, <2>2
    <3> QED BY <1>2, <2>3, <3>1 DEF CatTurnOk
  <2>6. CatTurnOk(s)
    BY <1>2, <2>2, <2>3, <2>4, <2>5 DEF CatTurnOk, WalkedBy
  <2>7. turn' = [turn EXCEPT ![t] = s]
    BY <1>1, <1>5, <2>1 DEF C!Becomes
  <2>8. ~WalksSkills(s)
    BY <2>2, <2>3 DEF WalksSkills
  <2> QED BY <1>1, <1>3, <2>4, <2>6, <2>7, <2>8, OnlyATurn
<1>6. CASE /\ ~C!Embedded(t) /\ cache[C!Key(C!Entry(t))] # Missing
           /\ C!Becomes(t, [turn[t] EXCEPT !.pc = "add", !.vec = cache[C!Key(C!Entry(t))]])
  <2>1. PICK v : v = cache[C!Key(C!Entry(t))]
    OBVIOUS
  <2>2. v \in Models /\ Provider[v] = Provider[model]
    <3>1. C!Entry(t) \in C!Entries /\ C!Key(C!Entry(t)) \in C!Entries \X C!Providers
      BY <1>4, TheEntry
    <3>2. C!Key(C!Entry(t)) = <<C!Entry(t), Provider[model]>> /\ Provider[model] \in C!Providers
      BY <3>1 DEF C!Key
    <3>3. v \in Models \cup {Missing}
      BY <2>1, <3>1 DEF CatInv, CatCache
    <3> QED BY <1>6, <2>1, <3>1, <3>2, <3>3 DEF CatInv, CatCache
  <2>3. PICK s : s = [old EXCEPT !.pc = "add", !.vec = v]
    OBVIOUS
  <2>4. /\ s \in CatTurn /\ s.pc = "add" /\ s.in = old.in /\ s.at = old.at /\ s.owns = old.owns
        /\ s.vec = v
    BY <1>2, <2>2, <2>3 DEF CatTurn
  <2>5. CatTurnOk(s)
    BY <1>2, <2>2, <2>4 DEF CatTurnOk, WalkedBy, WalksSkills
  <2>6. turn' = [turn EXCEPT ![t] = s]
    BY <1>1, <1>6, <2>1, <2>3 DEF C!Becomes
  <2>7. (old.owns => s.owns) /\ (WalksSkills(s) => WalksSkills(old))
    BY <1>2, <2>4 DEF WalksSkills
  <2> QED BY <1>1, <1>3, <2>5, <2>6, <2>7, OnlyATurn
<1>7. CASE ~C!Embedded(t) /\ C!Becomes(t, [turn[t] EXCEPT !.pc = "ask"])
  <2>3. PICK s : s = [old EXCEPT !.pc = "ask"]
    OBVIOUS
  <2>4. s \in CatTurn /\ s.pc = "ask" /\ s.in = old.in /\ s.at = old.at /\ s.owns = old.owns
    BY <1>2, <2>3 DEF CatTurn
  <2>5. CatTurnOk(s)
    BY <1>2, <2>4 DEF CatTurnOk, WalkedBy, WalksSkills
  <2>6. turn' = [turn EXCEPT ![t] = s]
    BY <1>1, <1>7, <2>3 DEF C!Becomes
  <2>7. (old.owns => s.owns) /\ (WalksSkills(s) => WalksSkills(old))
    BY <1>2, <2>4 DEF WalksSkills
  <2> QED BY <1>1, <1>3, <2>5, <2>6, <2>7, OnlyATurn
<1> QED BY <1>5, <1>6, <1>7 DEF C!Look

\* What a turn leaves out when it stops, or skips: the list grows, or what is gone does.
LEMMA SomeAreGivenUp ==
  ASSUME C!CatalogAssumption, CatInv, NEW t \in CatalogTurns, NEW gone, NEW s, NEW old, old = turn[t],
         C!Lost(t, gone), turn' = [turn EXCEPT ![t] = s],
         UNCHANGED <<C!process, cache, list, loaded, vectors, ready>>,
         CatTurnOk(s)', old.owns => s.owns \/ AllSettled', WalksSkills(s) => WalksSkills(old)
  PROVE  CatInv'
<1>1. model' = model
  BY DEF C!process
<1>2. absent \subseteq absent'
  BY DEF C!Lost
<1>3. CatGrows
  BY <1>2 DEF CatGrows, Settled
<1>4. CatCache' /\ CatStore'
  BY <1>1 DEF CatInv, CatCache, CatStore
<1> QED BY <1>1, <1>3, <1>4, ATurnMoves

\* An entry is asked for, and answered, tried again, cut or given up.
LEMMA AnEntryIsAsked ==
  ASSUME C!CatalogAssumption, CatInv, NEW t \in CatalogTurns, C!Ask(t)
  PROVE  CatInv'
<1>1. PICK old : old = turn[t]
  OBVIOUS
<1>2. /\ CatTurnOk(old) /\ old \in CatTurn /\ old.at \in Nat \ {0} /\ old.at + 1 \in Nat \ {0}
      /\ Len(WalkedBy(old)) \in Nat /\ old.pc = "ask" /\ old.at <= Len(WalkedBy(old))
      /\ old.in \in {"skills", "tools"} /\ old.tries \in Nat /\ old.cuts \in Nat
      /\ C!Walked(t) = WalkedBy(old) /\ old.owns \in BOOLEAN
  <2>1. old.pc = "ask"
    BY <1>1 DEF C!Ask, C!At
  <2> QED BY <1>1, <2>1, TheTurn DEF CatTurnOk
<1>3. UNCHANGED <<C!process, cache, list, loaded, vectors, ready>> /\ model' = model
  BY DEF C!Ask, C!At, C!process
<1>4. ASSUME NEW s \in CatTurn, s.pc \in {"ask", "add"}, s.in = old.in, s.at = old.at, s.owns = old.owns,
             s.pc = "add" => s.vec = model, turn' = [turn EXCEPT ![t] = s], UNCHANGED absent
      PROVE  CatInv'
  <2>1. model \in Models
    BY DEF CatInv, CatCache
  <2>2. CatTurnOk(s)
    BY <1>2, <1>4, <2>1 DEF CatTurnOk, WalkedBy, WalksSkills
  <2>3. (old.owns => s.owns) /\ (WalksSkills(s) => WalksSkills(old))
    BY <1>2, <1>4 DEF WalksSkills
  <2> QED BY <1>1, <1>3, <1>4, <2>2, <2>3, OnlyATurn
<1>5. CASE C!Becomes(t, [turn[t] EXCEPT !.pc = "add", !.vec = model, !.tries = 0, !.cuts = 0]) /\ UNCHANGED absent
  <2>1. PICK s : s = [old EXCEPT !.pc = "add", !.vec = model, !.tries = 0, !.cuts = 0]
    OBVIOUS
  <2>2. model \in Models
    BY DEF CatInv, CatCache
  <2>3. s \in CatTurn /\ s.pc = "add" /\ s.in = old.in /\ s.at = old.at /\ s.owns = old.owns /\ s.vec = model
    BY <1>2, <2>1, <2>2 DEF CatTurn
  <2> QED BY <1>1, <1>4, <1>5, <2>1, <2>3 DEF C!Becomes
<1>6. CASE C!Becomes(t, [turn[t] EXCEPT !.tries = @ + 1]) /\ UNCHANGED absent
  <2>1. PICK s : s = [old EXCEPT !.tries = old.tries + 1]
    OBVIOUS
  <2>2. old.tries + 1 \in Nat
    BY <1>2
  <2>3. s \in CatTurn /\ s.pc = "ask" /\ s.in = old.in /\ s.at = old.at /\ s.owns = old.owns
    BY <1>2, <2>1, <2>2 DEF CatTurn
  <2> QED BY <1>1, <1>4, <1>6, <2>1, <2>3 DEF C!Becomes
<1>7. CASE C!Becomes(t, [turn[t] EXCEPT !.tries = 0, !.cuts = @ + 1]) /\ UNCHANGED absent
  <2>1. PICK s : s = [old EXCEPT !.tries = 0, !.cuts = old.cuts + 1]
    OBVIOUS
  <2>2. old.cuts + 1 \in Nat
    BY <1>2
  <2>3. s \in CatTurn /\ s.pc = "ask" /\ s.in = old.in /\ s.at = old.at /\ s.owns = old.owns
    BY <1>2, <2>1, <2>2 DEF CatTurn
  <2> QED BY <1>1, <1>4, <1>7, <2>1, <2>3 DEF C!Becomes
<1>8. CASE C!Becomes(t, C!GivesUp(t)) /\ C!Lost(t, {C!Entry(t)})
  <2>1. CASE old.in # "skills"
    <3>1. ~old.owns
      BY <1>2, <2>1 DEF CatTurnOk, WalksSkills
    <3>2. PICK s, gone : s = C!Idle /\ gone = {C!Entry(t)}
      OBVIOUS
    <3>3. CatTurnOk(s)' /\ ~WalksSkills(s)
      BY <3>2, IdleIsOk DEF CatTurnOk
    <3>4. turn' = [turn EXCEPT ![t] = s] /\ C!Lost(t, gone)
      BY <1>1, <1>8, <2>1, <3>2 DEF C!Becomes, C!GivesUp
    <3> QED BY <1>1, <1>3, <3>1, <3>3, <3>4, SomeAreGivenUp
  <2>2. CASE old.in = "skills"
    <3>1. PICK s, gone : s = [C!Idle EXCEPT !.pc = "look", !.at = old.at + 1, !.owns = old.owns] /\ gone = {C!Entry(t)}
      OBVIOUS
    <3>2. s \in CatTurn /\ s.pc = "look" /\ s.in = "skills" /\ s.at = old.at + 1 /\ s.owns = old.owns
      BY <1>2, <3>1 DEF CatTurn, C!Idle
    <3>3. turn' = [turn EXCEPT ![t] = s] /\ C!Lost(t, gone)
      BY <1>1, <1>8, <2>2, <3>1 DEF C!Becomes, C!GivesUp
    <3>4. WalksSkills(s) /\ WalksSkills(old)
      BY <1>2, <2>2, <3>2 DEF WalksSkills
    <3>5. s.owns => \A i \in 1 .. Len(Skills) : i < s.at => Settled(i)'
      <4>1. SUFFICES ASSUME old.owns, NEW i \in 1 .. Len(Skills), i < old.at + 1
                     PROVE  Settled(i)'
        BY <3>2
      <4>2. absent' = absent \cup {C!Entry(t)}
        BY <1>1, <2>2, <3>1, <3>3, <4>1 DEF C!Lost
      <4>3. CASE i = old.at
        <5>1. C!Entry(t) = Skills[i]
          BY <1>1, <1>2, <2>2, <4>3, TheEntry
        <5> QED BY <4>2, <5>1 DEF Settled
      <4>4. CASE i < old.at
        BY <1>2, <1>3, <4>1, <4>2, <4>4 DEF CatTurnOk, Settled
      <4> QED BY <1>2, <4>1, <4>3, <4>4
    <3>6. CatTurnOk(s)'
      BY <1>2, <2>2, <3>2, <3>4, <3>5 DEF CatTurnOk, WalkedBy
    <3> QED BY <1>1, <1>3, <3>2, <3>3, <3>4, <3>6, SomeAreGivenUp
  <2> QED BY <2>1, <2>2
<1> QED BY <1>5, <1>6, <1>7, <1>8 DEF C!Ask

\* A turn is cut.
LEMMA ATurnIsCut ==
  ASSUME C!CatalogAssumption, CatInv, NEW t \in CatalogTurns, C!Cut(t)
  PROVE  CatInv'
<1>1. PICK old : old = turn[t]
  OBVIOUS
<1>2. /\ CatTurnOk(old) /\ old.at \in Nat \ {0} /\ C!Walked(t) = WalkedBy(old) /\ Len(Skills) \in Nat
  BY <1>1, TheTurn
<1>3. UNCHANGED <<C!process, cache, list, loaded, vectors, ready>>
  BY DEF C!Cut
<1>4. PICK s, gone : s = C!Idle /\ gone = {C!Walked(t)[i] : i \in old.at .. Len(C!Walked(t))}
  OBVIOUS
<1>5. turn' = [turn EXCEPT ![t] = s] /\ C!Lost(t, gone)
  BY <1>1, <1>4 DEF C!Cut, C!Becomes
<1>6. CatTurnOk(s)' /\ ~WalksSkills(s)
  BY <1>4, IdleIsOk DEF CatTurnOk
<1>7. old.owns => AllSettled'
  <2>1. SUFFICES ASSUME old.owns, NEW i \in 1 .. Len(Skills)
                 PROVE  Settled(i)'
    BY DEF AllSettled
  <2>2. old.in = "skills" /\ C!Walked(t) = Skills
    BY <1>2, <2>1 DEF CatTurnOk, WalksSkills, WalkedBy
  <2>3. absent' = absent \cup gone
    BY <1>1, <1>5, <2>1, <2>2 DEF C!Lost
  <2>4. CASE i < old.at
    BY <1>2, <1>3, <2>1, <2>3, <2>4 DEF CatTurnOk, Settled
  <2>5. CASE ~(i < old.at)
    <3>1. i \in old.at .. Len(Skills)
      BY <1>2, <2>1, <2>5
    <3>2. Skills[i] \in gone
      BY <1>4, <2>2, <3>1
    <3> QED BY <2>3, <3>2 DEF Settled
  <2> QED BY <2>4, <2>5
<1> QED BY <1>1, <1>3, <1>5, <1>6, <1>7, SomeAreGivenUp

\* A walk ends: everything was looked at.
LEMMA AWalkEnds ==
  ASSUME C!CatalogAssumption, CatInv, NEW t \in CatalogTurns, C!WalkEnds(t)
  PROVE  CatInv'
<1>1. PICK old : old = turn[t]
  OBVIOUS
<1>2. /\ CatTurnOk(old) /\ old.at \in Nat \ {0} /\ C!Walked(t) = WalkedBy(old) /\ Len(Skills) \in Nat
      /\ Len(Tools) \in Nat /\ old.in \in {"skills", "tools"}
  BY <1>1, TheTurn
<1>3. old.pc = "look" /\ old.at > Len(WalkedBy(old))
  BY <1>1, <1>2 DEF C!WalkEnds, C!At
<1>4. PICK s : s = C!Idle
  OBVIOUS
<1>5. turn' = [turn EXCEPT ![t] = s] /\ UNCHANGED <<cache, list, vectors, absent>> /\ model' = model
  BY <1>4 DEF C!WalkEnds, C!Becomes, C!At, C!process
<1>6. CatTurnOk(s)' /\ ~WalksSkills(s)
  BY <1>4, IdleIsOk DEF CatTurnOk
<1>7. CatGrows
  BY <1>5 DEF CatGrows, Settled
<1>8. old.owns => AllSettled'
  <2>1. SUFFICES ASSUME old.owns, NEW i \in 1 .. Len(Skills)
                 PROVE  Settled(i)'
    BY DEF AllSettled
  <2>2. WalkedBy(old) = Skills
    BY <1>2, <2>1 DEF CatTurnOk, WalksSkills, WalkedBy
  <2>3. i < old.at
    BY <1>2, <1>3, <2>2
  <2>4. Settled(i)
    BY <1>2, <2>1, <2>3 DEF CatTurnOk
  <2> QED BY <1>7, <2>4 DEF CatGrows
<1>9. CASE old.in = "skills"
  <2>1. UNCHANGED ready /\ WalksSkills(old)
    BY <1>1, <1>3, <1>9 DEF C!WalkEnds, WalksSkills
  <2>2. CatCache' /\ CatStore'
    BY <1>5, <2>1 DEF CatInv, CatCache, CatStore
  <2> QED BY <1>1, <1>5, <1>6, <1>7, <1>8, <2>1, <2>2, ATurnMoves
<1>10. CASE old.in = "tools"
  <2>1. UNCHANGED loaded
    BY <1>1, <1>10 DEF C!WalkEnds
  <2>2. \A e \in AllTools : vectors[e] # Missing
    <3>1. ASSUME NEW e \in AllTools
          PROVE  vectors[e] # Missing
      <4>1. PICK i \in 1 .. Len(Tools) : Tools[i] = e
        BY DEF AllTools, C!Range, C!CatalogAssumption
      <4>2. i < old.at
        BY <1>2, <1>3, <1>10 DEF WalkedBy
      <4> QED BY <1>2, <1>3, <1>10, <4>1, <4>2 DEF CatTurnOk
    <3> QED BY <3>1
  <2>3. CatCache' /\ CatStore'
    BY <1>5, <2>2 DEF CatInv, CatCache, CatStore
  <2> QED BY <1>1, <1>5, <1>6, <1>7, <1>8, <2>1, <2>3, ATurnMoves
<1> QED BY <1>2, <1>9, <1>10

\* A vector is added to what there is to rank.
LEMMA AVectorIsAdded ==
  ASSUME C!CatalogAssumption, CatInv, NEW t \in CatalogTurns, C!Add(t)
  PROVE  CatInv'
<1>1. PICK old : old = turn[t]
  OBVIOUS
<1>2. /\ CatTurnOk(old) /\ old \in CatTurn /\ old.at \in Nat \ {0} /\ old.at + 1 \in Nat \ {0}
      /\ Len(WalkedBy(old)) \in Nat /\ old.pc = "add" /\ old.at <= Len(WalkedBy(old))
      /\ old.in \in {"skills", "tools"} /\ C!Walked(t) = WalkedBy(old) /\ Len(Tools) \in Nat
      /\ Len(Skills) \in Nat
  <2>1. old.pc = "add"
    BY <1>1 DEF C!Add, C!At
  <2> QED BY <1>1, <2>1, TheTurn DEF CatTurnOk
<1>3. old.vec \in Models /\ Provider[old.vec] = Provider[model] /\ old.vec # Missing
  BY <1>2 DEF CatTurnOk, C!CatalogAssumption
<1>4. UNCHANGED <<loaded, ready, absent>> /\ model' = model
  BY DEF C!Add, C!At, C!process
<1>5. PICK e : e = C!Entry(t)
  OBVIOUS
<1>6. /\ e \in C!Entries /\ C!Key(e) \in C!Entries \X C!Providers
      /\ old.in = "skills" => e = Skills[old.at] /\ e \in AllSkills
      /\ old.in = "tools" => e = Tools[old.at] /\ e \in AllTools
  BY <1>1, <1>2, <1>5, TheEntry
<1>7. CatCache'
  <2>1. cache' = cache \/ cache' = [cache EXCEPT ![C!Key(e)] = old.vec]
    BY <1>1, <1>5 DEF C!Add
  <2>2. CASE cache' = cache
    BY <1>4, <2>2 DEF CatInv, CatCache
  <2>3. CASE cache' = [cache EXCEPT ![C!Key(e)] = old.vec]
    <3>1. cache' \in [C!Entries \X C!Providers -> Models \cup {Missing}]
      BY <1>3, <1>6, <2>3 DEF CatInv, CatCache
    <3>2. ASSUME NEW f \in C!Entries, NEW p \in C!Providers, cache'[<<f, p>>] # Missing
          PROVE  Provider[cache'[<<f, p>>]] = p
      <4>1. CASE <<f, p>> = C!Key(e)
        <5>1. p = Provider[model] /\ cache'[<<f, p>>] = old.vec
          BY <1>6, <2>3, <4>1 DEF C!Key, CatInv, CatCache
        <5> QED BY <1>3, <5>1
      <4>2. CASE <<f, p>> # C!Key(e)
        <5>1. cache'[<<f, p>>] = cache[<<f, p>>]
          BY <2>3, <4>2 DEF CatInv, CatCache
        <5> QED BY <3>2, <5>1 DEF CatInv, CatCache
      <4> QED BY <4>1, <4>2
    <3> QED BY <1>4, <3>1, <3>2 DEF CatInv, CatCache
  <2> QED BY <2>1, <2>2, <2>3
<1>8. PICK s : s = [old EXCEPT !.pc = "look", !.at = old.at + 1, !.vec = Missing]
  OBVIOUS
<1>9. s \in CatTurn /\ s.pc = "look" /\ s.in = old.in /\ s.at = old.at + 1 /\ s.owns = old.owns
  BY <1>2, <1>8 DEF CatTurn
<1>10. turn' = [turn EXCEPT ![t] = s]
  BY <1>1, <1>8 DEF C!Add, C!Becomes
<1>11. s.at <= Len(WalkedBy(s)) + 1 /\ (WalksSkills(s) => WalksSkills(old)) /\ (old.owns => s.owns)
  BY <1>2, <1>9 DEF WalkedBy, WalksSkills
<1>12. CASE old.in = "skills"
  <2>0. PICK item : item = [of |-> e, vec |-> old.vec]
    OBVIOUS
  <2>1. list' = Append(list, item) /\ UNCHANGED vectors
    BY <1>1, <1>5, <1>12, <2>0 DEF C!Add, C!Appended
  <2>2. item \in [of : AllSkills, vec : Models] /\ list \in Seq([of : AllSkills, vec : Models])
    BY <1>3, <1>6, <1>12, <2>0 DEF CatInv, CatStore
  <2>3. /\ list' \in Seq([of : AllSkills, vec : Models]) /\ Len(list') = Len(list) + 1
        /\ Len(list) \in Nat /\ list'[Len(list) + 1] = item
        /\ \A k \in 1 .. Len(list) : list'[k] = list[k]
    BY <2>1, <2>2
  <2>4. CatStore'
    <3>1. \A k \in 1 .. Len(list') : k \in 1 .. Len(list) \/ k = Len(list) + 1
      BY <2>3
    <3>2. \A k \in 1 .. Len(list') : Provider[list'[k].vec] = Provider[model]
      BY <1>3, <2>0, <2>3, <3>1 DEF CatInv, CatStore
    <3> QED BY <1>4, <2>1, <2>3, <3>2 DEF CatInv, CatStore
  <2>5. \A k \in 1 .. Len(list) : k \in 1 .. Len(list')
    BY <2>3
  <2>6. CatGrows
    BY <1>4, <2>1, <2>3, <2>5 DEF CatGrows, Settled
  <2>7. e = Skills[old.at] /\ Len(list) + 1 \in 1 .. Len(list') /\ item.of = e
    BY <1>6, <1>12, <2>0, <2>3
  <2>8. s.owns => \A i \in 1 .. Len(Skills) : i < s.at => Settled(i)'
    <3>1. \A i \in 1 .. Len(Skills) : i < s.at => i < old.at \/ i = old.at
      BY <1>2, <1>9
    <3>2. ASSUME s.owns, NEW i \in 1 .. Len(Skills), i < s.at
          PROVE  Settled(i)'
      <4>1. CASE i = old.at
        BY <2>3, <2>7, <4>1 DEF Settled
      <4>2. CASE i < old.at
        <5>1. Settled(i)
          BY <1>2, <1>9, <3>2, <4>2 DEF CatTurnOk
        <5> QED BY <2>6, <5>1 DEF CatGrows
      <4> QED BY <3>1, <3>2, <4>1, <4>2
    <3> QED BY <3>2
  <2>9. CatTurnOk(s)'
    BY <1>9, <1>11, <1>12, <2>8 DEF CatTurnOk, WalksSkills, WalkedBy
  <2> QED BY <1>1, <1>4, <1>7, <1>10, <1>11, <2>4, <2>6, <2>9, ATurnMoves
<1>13. CASE old.in = "tools"
  <2>1. vectors' = [vectors EXCEPT ![e] = old.vec] /\ UNCHANGED list /\ e \in AllTools
    BY <1>1, <1>5, <1>6, <1>13 DEF C!Add
  <2>2. /\ vectors' \in [AllTools -> Models \cup {Missing}] /\ vectors'[e] = old.vec
        /\ \A f \in AllTools \ {e} : vectors'[f] = vectors[f]
    BY <1>3, <2>1 DEF CatInv, CatStore
  <2>3. CatStore'
    <3>1. \A f \in AllTools : vectors'[f] # Missing => Provider[vectors'[f]] = Provider[model]
      BY <1>3, <2>2 DEF CatInv, CatStore
    <3>2. ready' => \A f \in AllTools : vectors'[f] # Missing
      BY <1>3, <1>4, <2>2 DEF CatInv, CatStore
    <3> QED BY <1>4, <2>1, <2>2, <3>1, <3>2 DEF CatInv, CatStore
  <2>4. CatGrows
    BY <1>3, <1>4, <2>1, <2>2 DEF CatGrows, Settled
  <2>5. \A i \in 1 .. Len(Tools) : i < s.at => vectors'[Tools[i]] # Missing
    <3>1. \A i \in 1 .. Len(Tools) : i < s.at => i < old.at \/ i = old.at
      BY <1>2, <1>9
    <3>2. \A i \in 1 .. Len(Tools) : Tools[i] \in AllTools
      BY DEF C!CatalogAssumption, AllTools, C!Range
    <3>3. \A i \in 1 .. Len(Tools) : i < old.at => vectors[Tools[i]] # Missing
      BY <1>2, <1>13 DEF CatTurnOk
    <3> QED BY <1>3, <1>6, <1>13, <2>2, <3>1, <3>2, <3>3
  <2>6. ~s.owns
    BY <1>2, <1>9, <1>13 DEF CatTurnOk, WalksSkills
  <2>7. CatTurnOk(s)'
    BY <1>9, <1>11, <1>13, <2>5, <2>6 DEF CatTurnOk, WalkedBy
  <2> QED BY <1>1, <1>4, <1>7, <1>10, <1>11, <2>3, <2>4, <2>7, ATurnMoves
<1> QED BY <1>2, <1>12, <1>13

\* The catalog begins as it stays.
LEMMA CatInit ==
  ASSUME C!CatalogAssumption, C!Init
  PROVE  CatInv
<1>1. /\ model \in Models /\ list = <<>> /\ ~loaded /\ ~ready
      /\ cache = [k \in C!Entries \X C!Providers |-> Missing]
      /\ vectors = [e \in AllTools |-> Missing] /\ turn = [u \in CatalogTurns |-> C!Idle]
  BY DEF C!Init, AllTools
<1>2. CatCache
  BY <1>1 DEF CatCache
<1>3. CatStore
  BY <1>1 DEF CatStore
<1>4. CatTurns
  <2>1. C!Idle \in CatTurn /\ CatTurnOk(C!Idle)
    BY IdleIsOk
  <2>2. \A u \in CatalogTurns : turn[u] = C!Idle
    BY <1>1
  <2> QED BY <1>1, <2>1, <2>2 DEF CatTurns
<1>5. CatOwner
  BY <1>1 DEF CatOwner, WalksSkills, C!Idle
<1> QED BY <1>2, <1>3, <1>4, <1>5 DEF CatInv

\* Every step keeps it.
LEMMA CatStep ==
  ASSUME C!CatalogAssumption, CatInv, C!Next \/ UNCHANGED C!vars
  PROVE  CatInv'
<1>1. CASE C!Next
  BY <1>1, ANewProcess, TheListIsEmptied, TheToolsAreWalked, AnEntryIsLookedUp, AnEntryIsAsked,
     AVectorIsAdded, AWalkEnds, ATurnIsCut DEF C!Next
<1>2. CASE UNCHANGED C!vars
  BY <1>2 DEF C!vars, CatInv, CatCache, CatStore, CatTurns, CatOwner, CatTurnOk, AllSettled, Settled,
     WalksSkills
<1> QED BY <1>1, <1>2

\* What is promised of the catalog follows.
LEMMA CatGood ==
  ASSUME C!CatalogAssumption, CatInv
  PROVE  C!NothingIsMissing /\ C!OneProvider
<1>1. C!OneProvider
  <2>1. DOMAIN list = 1 .. Len(list)
    BY DEF CatInv, CatStore
  <2> QED BY <2>1 DEF CatInv, CatStore, C!OneProvider, AllTools
<1>2. ready => \A e \in C!Range(Tools) : vectors[e] # Missing
  BY DEF CatInv, CatStore, AllTools
<1>3. ASSUME loaded, ~C!Walking("skills"), NEW e \in C!Range(Skills) \ absent
      PROVE  e \in {list[i].of : i \in DOMAIN list}
  <2>1. \A t \in CatalogTurns : ~turn[t].owns
    BY <1>3 DEF C!Walking, CatInv, CatTurns, CatTurnOk, WalksSkills
  <2>2. AllSettled
    BY <1>3, <2>1 DEF CatInv, CatOwner
  <2>3. PICK i \in 1 .. Len(Skills) : Skills[i] = e
    BY <1>3 DEF C!Range, C!CatalogAssumption
  <2>4. DOMAIN list = 1 .. Len(list)
    BY DEF CatInv, CatStore
  <2> QED BY <1>3, <2>2, <2>3, <2>4 DEF AllSettled, Settled
<1> QED BY <1>1, <1>2, <1>3 DEF C!NothingIsMissing

\* When the subject is the catalog, it moves as LazyCatalog says.
LEMMA CatMoves ==
  ASSUME [Next]_vars
  PROVE  subject' = subject /\ (subject = "catalog" => C!Next \/ UNCHANGED C!vars)
BY OneSubject DEF Next, vars, OfCatalog, C!vars

\* However many turns load the catalogue beside each other, fail, are cut or restart with
\* another model, no tool and no skill is lost but those the last load gave up, and no vectors
\* of two providers meet (yaml_skill_repo.py, tools/registry.py, embedding/cache.py).
THEOREM NoSkillIsLost ==
  Spec => []CatalogHolds
<1> DEFINE J == subject = "catalog" => CatInv
<1>1. Init => J
  BY StoresAssumption, CatInit DEF Init
<1>2. J /\ [Next]_vars => J'
  BY CatMoves, CatStep, StoresAssumption
<1>3. J => CatalogHolds
  BY CatGood, StoresAssumption DEF CatalogHolds
<1> QED BY <1>1, <1>2, <1>3, PTL DEF Spec

-----------------------------------------------------------------------------
\* The history of the conversations and the runs that consolidate it.
MemRow == [scope : Scopes, kind : {"text", "tool"}]
MemStages == {"idle", "extract", "store", "write", "mark", "trim", "clear"}
MemReading == {"extract", "store", "write", "mark"}
MemJob == [stage : MemStages, batch : SUBSET Nat, scope : Scopes \cup {NoScope}, facts : SUBSET Topics,
           shows : SUBSET Nat, then : Scopes \cup {NoScope}]

\* Rows that a consolidation must read, and those it did or was told to leave.
MemText(i) == log[i].scope \in channels /\ log[i].kind = "text"
MemCovered(i) == i \in read \/ i \in late \/ i \in cleared
\* The rows of the conversation that a run is at.
MemRows(s) == {i \in s.batch : log[i].scope = s.scope}

MemJobOk(s) ==
  /\ s \in MemJob /\ s.batch \subseteq 1 .. Len(log)
  /\ s.stage \in MemReading <=> s.batch # {}
  /\ s.stage \in MemReading \ {"extract"} => s.scope \in Scopes
MemSkipOk(s) ==
  /\ s.stage # "idle" => \A i \in 1 .. Len(log) : MemText(i) => i \in s.batch \/ MemCovered(i)
  /\ s.stage \in MemReading \ {"extract"} => MemRows(s) \subseteq read
MemReadOk(s) ==
  /\ s.stage = "extract" => s.batch \cap read = {}
  /\ s.stage \in MemReading \ {"extract"} => s.batch \cap read \subseteq MemRows(s)

MemLog ==
  /\ log \in Seq(MemRow) /\ faults \in Nat /\ overlap \in BOOLEAN
  /\ alive \subseteq 1 .. Len(log) /\ infused \subseteq 1 .. Len(log) /\ read \subseteq 1 .. Len(log)
  /\ \A i \in 1 .. Len(log) : MemText(i) /\ (i \in infused \/ i \notin alive) => MemCovered(i)
MemJobs ==
  job \in [Jobs -> MemJob] /\ \A j \in Jobs : MemJobOk(job[j]) /\ MemSkipOk(job[j])

\* While no run failed and none ran beside another, a row is read once.
MemQuiet == faults = 0 /\ ~overlap
MemReads ==
  MemQuiet =>
    /\ reread = {}
    /\ \A j, k \in Jobs : job[j].stage # "idle" /\ job[k].stage # "idle" => j = k
    /\ \A j \in Jobs : MemReadOk(job[j])
    /\ \A i \in read \cap alive : i \notin infused =>
         \E j \in Jobs : job[j].stage \in MemReading \ {"extract"} /\ i \in MemRows(job[j])
MemHist == MemLog /\ MemJobs /\ MemReads /\ L!ContextIsKept

\* Rows are only added to what was read, came late or was cleared.
MemGrows == read \subseteq read' /\ late \subseteq late' /\ cleared \subseteq cleared'

\* A run that is not the one that moves is as good as before.
LEMMA OtherRunsStay ==
  ASSUME NEW s, MemJobOk(s), MemSkipOk(s), UNCHANGED <<log, channels>>, MemGrows
  PROVE  MemJobOk(s)' /\ MemSkipOk(s)'
<1>1. MemJobOk(s)'
  BY DEF MemJobOk
<1>2. MemRows(s)' = MemRows(s)
  BY DEF MemRows
<1>3. \A i \in 1 .. Len(log) : MemText(i)' = MemText(i) /\ (MemCovered(i) => MemCovered(i)')
  BY DEF MemText, MemCovered, MemGrows
<1>4. MemSkipOk(s)'
  BY <1>2, <1>3 DEF MemSkipOk, MemGrows
<1> QED BY <1>1, <1>4

\* One run moves: what it marks and what leaves the history are covered.
LEMMA ARunMoves ==
  ASSUME MemLog, MemJobs, NEW j \in Jobs, NEW r, job' = [job EXCEPT ![j] = r],
         UNCHANGED <<log, channels>>, MemGrows, MemJobOk(r)', MemSkipOk(r)',
         faults' \in Nat, overlap' \in BOOLEAN,
         alive' \subseteq alive, infused' \subseteq 1 .. Len(log), read' \subseteq 1 .. Len(log),
         \A i \in 1 .. Len(log) :
           MemText(i) /\ ((i \in infused' /\ i \notin infused) \/ (i \in alive /\ i \notin alive'))
             => MemCovered(i)'
  PROVE  MemLog' /\ MemJobs'
<1>1. MemLog'
  <2>1. \A i \in 1 .. Len(log) : MemText(i)' = MemText(i) /\ (MemCovered(i) => MemCovered(i)')
    BY DEF MemText, MemCovered, MemGrows
  <2>2. \A i \in 1 .. Len(log) : MemText(i)' /\ (i \in infused' \/ i \notin alive') => MemCovered(i)'
    BY <2>1 DEF MemLog
  <2> QED BY <2>2 DEF MemLog
<1>2. MemJobs'
  <2>1. r \in MemJob
    BY DEF MemJobOk
  <2>2. job' \in [Jobs -> MemJob] /\ job'[j] = r /\ \A k \in Jobs \ {j} : job'[k] = job[k]
    BY <2>1 DEF MemJobs
  <2>3. ASSUME NEW k \in Jobs, k # j
        PROVE  MemJobOk(job[k])' /\ MemSkipOk(job[k])'
    <3>1. PICK s : s = job[k]
      OBVIOUS
    <3>2. MemJobOk(s) /\ MemSkipOk(s)
      BY <3>1 DEF MemJobs
    <3>3. MemJobOk(s)' /\ MemSkipOk(s)'
      BY <3>2, OtherRunsStay
    <3>4. job'[k] = s
      BY <2>2, <2>3, <3>1
    <3> QED BY <3>3, <3>4 DEF MemJobOk, MemSkipOk, MemRows
  <2>4. MemJobOk(job[j])' /\ MemSkipOk(job[j])'
    BY <2>2 DEF MemJobOk, MemSkipOk, MemRows
  <2> QED BY <2>2, <2>3, <2>4 DEF MemJobs
<1> QED BY <1>1, <1>2

\* ... and, if none failed and no two ran, it is the only one that runs.
LEMMA ARunReads ==
  ASSUME MemJobs, NEW j \in Jobs, NEW r \in MemJob, job' = [job EXCEPT ![j] = r],
         MemQuiet' =>
           /\ \A k \in Jobs \ {j} : job[k].stage = "idle"
           /\ reread' = {} /\ MemReadOk(r)'
           /\ \A i \in read' \cap alive' : i \notin infused' =>
                r.stage \in MemReading \ {"extract"} /\ i \in MemRows(r)'
  PROVE  MemReads'
<1>1. job'[j] = r /\ \A k \in Jobs \ {j} : job'[k] = job[k]
  BY DEF MemJobs
<1>2. SUFFICES ASSUME MemQuiet'
               PROVE  /\ reread' = {}
                      /\ \A k, n \in Jobs : job'[k].stage # "idle" /\ job'[n].stage # "idle" => k = n
                      /\ \A k \in Jobs : MemReadOk(job[k])'
                      /\ \A i \in read' \cap alive' : i \notin infused' =>
                           \E k \in Jobs : job'[k].stage \in MemReading \ {"extract"}
                                           /\ i \in MemRows(job[k])'
  BY DEF MemReads
<1>3. \A k \in Jobs \ {j} : job'[k].stage = "idle"
  BY <1>1, <1>2
<1>4. \A k \in Jobs : MemReadOk(job[k])'
  <2>1. MemReadOk(job[j])'
    BY <1>1, <1>2 DEF MemReadOk, MemRows
  <2>2. \A k \in Jobs \ {j} : MemReadOk(job[k])'
    BY <1>3 DEF MemReadOk, MemReading
  <2> QED BY <2>1, <2>2
<1>5. \A i \in read' \cap alive' : i \notin infused' =>
        job'[j].stage \in MemReading \ {"extract"} /\ i \in MemRows(job[j])'
  BY <1>1, <1>2 DEF MemRows
<1> QED BY <1>2, <1>3, <1>4, <1>5

\* What holds of a run, by its record.
LEMMA TheRun ==
  ASSUME MemHist, NEW j \in Jobs, NEW s, s = job[j]
  PROVE  /\ s \in MemJob /\ MemJobOk(s) /\ MemSkipOk(s) /\ L!Of(j, s.scope) = MemRows(s)
         /\ s.batch \subseteq 1 .. Len(log) /\ s.facts \subseteq Topics
         /\ MemQuiet /\ s.stage # "idle" =>
              reread = {} /\ MemReadOk(s) /\ \A k \in Jobs \ {j} : job[k].stage = "idle"
<1>1. MemJobOk(s) /\ MemSkipOk(s)
  BY DEF MemHist, MemJobs
<1>2. s \in MemJob /\ s.batch \subseteq 1 .. Len(log) /\ s.facts \subseteq Topics
  BY <1>1 DEF MemJobOk, MemJob
<1>3. MemQuiet /\ s.stage # "idle" =>
        reread = {} /\ MemReadOk(s) /\ \A k \in Jobs \ {j} : job[k].stage = "idle"
  BY DEF MemHist, MemReads
<1> QED BY <1>1, <1>2, <1>3 DEF L!Of, MemRows

\* What was read and is still there unmarked is of the run that is at it.
LEMMA ReadIsOfTheRun ==
  ASSUME MemHist, MemQuiet, NEW j \in Jobs, NEW s, s = job[j],
         \A k \in Jobs \ {j} : job[k].stage = "idle", NEW i \in read \cap alive, i \notin infused
  PROVE  s.stage \in MemReading \ {"extract"} /\ i \in MemRows(s)
BY DEF MemHist, MemReads, MemReading

-----------------------------------------------------------------------------
\* A row is said: it comes late to the runs that are on.
LEMMA ARowIsSaid ==
  ASSUME MemHist, NEW s \in Scopes, NEW what \in {"text", "tool"}, L!Say(s, what)
  PROVE  MemHist'
<1>1. PICK n : n = Len(log) + 1
  OBVIOUS
<1>2. PICK row \in MemRow : row = [scope |-> s, kind |-> what]
  BY DEF MemRow
<1>3. /\ log \in Seq(MemRow) /\ Len(log) \in Nat /\ n \in Nat /\ log' = Append(log, row)
      /\ log' \in Seq(MemRow) /\ Len(log') = n /\ log'[n] = row
      /\ \A i \in 1 .. Len(log) : log'[i] = log[i]
  BY <1>1, <1>2 DEF L!Say, MemHist, MemLog
<1>4. /\ alive' = alive \cup {n} /\ UNCHANGED <<channels, infused, cleared, renewed, job, read, reread, overlap, faults>>
      /\ late \subseteq late'
      /\ (\E j \in Jobs : job[j].stage # "idle") => n \in late'
  BY <1>3 DEF L!Say, L!env, L!reading, L!counts, L!Running
<1>5. \A i \in 1 .. n : i \in 1 .. Len(log) \/ i = n
  BY <1>1, <1>3
<1>6. \A i \in 1 .. Len(log) : i \in 1 .. n /\ i # n
  BY <1>1, <1>3
<1>7. \A i \in 1 .. Len(log) : MemText(i)' = MemText(i) /\ (MemCovered(i) => MemCovered(i)')
  <2>1. \A i \in 1 .. Len(log) : MemText(i)' = MemText(i)
    BY <1>3, <1>4 DEF MemText
  <2>2. \A i \in 1 .. Len(log) : MemCovered(i) => MemCovered(i)'
    BY <1>4 DEF MemCovered
  <2> QED BY <2>1, <2>2
<1>8. MemLog'
  <2>1. \A i \in 1 .. Len(log') : MemText(i)' /\ (i \in infused' \/ i \notin alive') => MemCovered(i)'
    <3>1. ASSUME NEW i \in 1 .. n, MemText(i)', i \in infused' \/ i \notin alive'
          PROVE  MemCovered(i)'
      <4>1. i # n
        BY <1>4, <1>6, <3>1 DEF MemHist, MemLog
      <4> QED BY <1>4, <1>5, <1>7, <3>1, <4>1 DEF MemHist, MemLog
    <3> QED BY <1>3, <3>1
  <2>2. n \in 1 .. n
    BY <1>1, <1>3
  <2>3. /\ alive' \subseteq 1 .. n /\ infused' \subseteq 1 .. n /\ read' \subseteq 1 .. n
    BY <1>4, <1>6, <2>2 DEF MemHist, MemLog
  <2> QED BY <1>3, <1>4, <2>1, <2>3 DEF MemHist, MemLog
<1>9. ASSUME NEW j \in Jobs
      PROVE  MemJobOk(job[j])' /\ MemSkipOk(job[j])' /\ MemRows(job[j])' = MemRows(job[j])
  <2>1. PICK r : r = job[j]
    OBVIOUS
  <2>2. MemJobOk(r) /\ MemSkipOk(r) /\ r.batch \subseteq 1 .. Len(log)
    BY <2>1 DEF MemHist, MemJobs, MemJobOk
  <2>3. MemRows(r)' = MemRows(r)
    BY <1>3, <2>2 DEF MemRows
  <2>4. MemJobOk(r)'
    BY <1>3, <1>6, <2>2 DEF MemJobOk
  <2>5. MemSkipOk(r)'
    <3>1. ASSUME r.stage # "idle", NEW i \in 1 .. Len(log'), MemText(i)'
          PROVE  i \in r.batch \/ MemCovered(i)'
      <4>1. CASE i = n
        <5>1. job[j].stage # "idle"
          BY <2>1, <3>1
        <5>2. n \in late'
          BY <1>4, <5>1
        <5> QED BY <4>1, <5>2 DEF MemCovered
      <4>2. CASE i \in 1 .. Len(log)
        BY <1>7, <2>2, <3>1, <4>2 DEF MemSkipOk
      <4> QED BY <1>3, <1>5, <3>1, <4>1, <4>2
    <3> QED BY <1>4, <2>2, <2>3, <3>1 DEF MemSkipOk
  <2> QED BY <1>4, <2>1, <2>3, <2>4, <2>5 DEF MemJobOk, MemSkipOk, MemRows
<1>10. MemJobs'
  BY <1>4, <1>9 DEF MemHist, MemJobs
<1>11. MemReads'
  <2>1. MemQuiet' = MemQuiet
    BY <1>4 DEF MemQuiet
  <2>2. SUFFICES ASSUME MemQuiet
                 PROVE  /\ \A j \in Jobs : MemReadOk(job[j])'
                        /\ \A i \in read \cap alive' : i \notin infused =>
                             \E j \in Jobs : job[j].stage \in MemReading \ {"extract"}
                                             /\ i \in MemRows(job[j])'
    BY <1>4, <2>1 DEF MemReads, MemHist
  <2>3. \A j \in Jobs : MemReadOk(job[j])'
    BY <1>4, <1>9, <2>2 DEF MemReads, MemHist, MemReadOk
  <2>4. \A i \in read \cap alive' : i \in read \cap alive
    BY <1>4, <1>6 DEF MemHist, MemLog
  <2>5. \A i \in read \cap alive : i \notin infused =>
          \E j \in Jobs : job[j].stage \in MemReading \ {"extract"} /\ i \in MemRows(job[j])
    BY <2>2 DEF MemHist, MemReads
  <2> QED BY <1>9, <2>3, <2>4, <2>5
<1>12. L!ContextIsKept'
  <2>1. ASSUME NEW c \in Scopes, NEW i \in L!LastMessages(c)'
        PROVE  i \in alive' \cup cleared' \cup renewed'
    <3>1. PICK after : after = {m \in 1 .. n : m > i /\ log'[m].scope = c /\ log'[m].kind = "text"}
      OBVIOUS
    <3>2. i \in 1 .. n /\ log'[i].scope = c /\ log'[i].kind = "text" /\ L!Cardinality(after) < KeepLast
      BY <1>3, <2>1, <3>1 DEF L!LastMessages, L!Ids
    <3>3. CASE i = n
      BY <1>4, <3>3
    <3>4. CASE i \in 1 .. Len(log)
      <4>1. PICK before : before = {m \in 1 .. Len(log) : m > i /\ log[m].scope = c /\ log[m].kind = "text"}
        OBVIOUS
      <4>2. before \subseteq after
        BY <1>3, <1>6, <3>1, <4>1
      <4>3. IsFiniteSet(after) /\ after \subseteq 1 .. n
        <5>1. IsFiniteSet(1 .. n)
          <6>1. 1 \in Int /\ n \in Int
            BY <1>3
          <6> QED BY <6>1, FS_Interval
        <5> QED BY <3>1, <5>1, FS_Subset
      <4>4. Cardinality(before) <= Cardinality(after)
        BY <4>2, <4>3, FS_Subset
      <4>5. Cardinality(before) \in Nat /\ Cardinality(after) \in Nat
        BY <4>2, <4>3, FS_Subset, FS_CardinalityType
      <4>6. L!Cardinality(before) = Cardinality(before) /\ L!Cardinality(after) = Cardinality(after)
        BY DEF L!Cardinality, Cardinality
      <4>7. L!Cardinality(before) < KeepLast
        BY <3>2, <4>4, <4>5, <4>6, StoresAssumption DEF L!MemoryAssumption
      <4>8. i \in L!LastMessages(c)
        BY <1>3, <3>2, <3>4, <4>1, <4>7 DEF L!LastMessages, L!Ids
      <4> QED BY <1>4, <4>8 DEF MemHist, L!ContextIsKept
    <3> QED BY <1>5, <3>2, <3>3, <3>4
  <2> QED BY <2>1 DEF L!ContextIsKept
<1> QED BY <1>8, <1>10, <1>11, <1>12 DEF MemHist

\* Less of what was alive, or more of it that was cleared: what is kept is still kept.
LEMMA ContextStays ==
  ASSUME MemHist, UNCHANGED log, alive \subseteq alive' \cup cleared' \cup renewed',
         cleared \subseteq cleared', renewed \subseteq renewed'
  PROVE  L!ContextIsKept'
<1>1. ASSUME NEW c \in Scopes, NEW i \in L!LastMessages(c)'
      PROVE  i \in alive' \cup cleared' \cup renewed'
  <2>1. i \in L!LastMessages(c)
    BY <1>1 DEF L!LastMessages, L!Ids
  <2> QED BY <2>1 DEF MemHist, L!ContextIsKept
<1> QED BY <1>1 DEF L!ContextIsKept

\* A conversation is cleared on request.
LEMMA AScopeIsCleared ==
  ASSUME MemHist, NEW s \in Scopes, L!Clear(s)
  PROVE  MemHist'
<1>1. /\ alive' = alive \ L!RowsOf(s) /\ cleared' = cleared \cup L!RowsOf(s)
      /\ UNCHANGED <<channels, log, infused, late, renewed, job, read, reread, overlap, faults>>
  BY DEF L!Clear, L!env, L!reading, L!counts
<1>2. MemGrows
  BY <1>1 DEF MemGrows
<1>3. \A i \in 1 .. Len(log) : MemText(i)' = MemText(i) /\ (MemCovered(i) => MemCovered(i)')
  BY <1>1, <1>2 DEF MemText, MemCovered, MemGrows
<1>4. MemLog'
  <2>1. \A i \in 1 .. Len(log) : MemText(i)' /\ (i \in infused' \/ i \notin alive') => MemCovered(i)'
    BY <1>1, <1>3 DEF MemHist, MemLog, MemCovered
  <2> QED BY <1>1, <2>1 DEF MemHist, MemLog
<1>5. MemJobs'
  <2>1. ASSUME NEW j \in Jobs
        PROVE  MemJobOk(job[j])' /\ MemSkipOk(job[j])'
    <3>1. PICK r : r = job[j]
      OBVIOUS
    <3>2. MemJobOk(r)' /\ MemSkipOk(r)'
      BY <1>1, <1>2, <3>1, OtherRunsStay DEF MemHist, MemJobs
    <3> QED BY <1>1, <3>1, <3>2 DEF MemJobOk, MemSkipOk, MemRows
  <2> QED BY <1>1, <2>1 DEF MemHist, MemJobs
<1>6. MemReads'
  <2>1. MemQuiet' = MemQuiet /\ read' \cap alive' \subseteq read \cap alive
    BY <1>1 DEF MemQuiet
  <2>2. \A j \in Jobs : MemRows(job[j])' = MemRows(job[j])
    BY <1>1 DEF MemRows
  <2>3. \A j \in Jobs : MemReadOk(job[j])' = MemReadOk(job[j])
    BY <1>1, <2>2 DEF MemReadOk
  <2> QED BY <1>1, <2>1, <2>2, <2>3 DEF MemHist, MemReads
<1>7. L!ContextIsKept'
  BY <1>1, ContextStays
<1> QED BY <1>4, <1>5, <1>6, <1>7 DEF MemHist

\* A run starts: it takes what is pending.
LEMMA ARunStarts ==
  ASSUME MemHist, NEW j \in Jobs, L!Load(j)
  PROVE  MemHist'
<1>1. /\ UNCHANGED <<channels, log, alive, infused, late, cleared, renewed, read, reread, faults>>
      /\ overlap' = (overlap \/ \E k \in Jobs \ {j} : job[k].stage # "idle") /\ job[j].stage = "idle"
  BY DEF L!Load, L!env, L!hist, L!Running
<1>2. PICK then \in Scopes \cup {NoScope} :
        IF L!Pending # {}
        THEN L!To(j, [L!NoJob EXCEPT !.stage = "extract", !.batch = L!Pending, !.then = then])
        ELSE L!To(j, [L!NoJob EXCEPT !.stage = IF then = NoScope THEN "idle" ELSE "clear", !.then = then])
  BY DEF L!Load
<1>3. PICK pending : pending = L!Pending
  OBVIOUS
<1>4. /\ pending \subseteq 1 .. Len(log) /\ pending \subseteq alive
      /\ \A i \in pending : i \notin infused
      /\ \A i \in 1 .. Len(log) : MemText(i) => i \in pending \/ MemCovered(i)
  BY <1>3 DEF L!Pending, MemHist, MemLog, MemText
<1>5. 1 .. Len(log) \subseteq Nat
  BY DEF MemHist, MemLog
<1>6. PICK r \in MemJob : /\ job' = [job EXCEPT ![j] = r] /\ r.batch = pending
                          /\ pending # {} => r.stage = "extract"
                          /\ pending = {} => r.stage \in {"idle", "clear"}
  <2>1. CASE pending # {}
    <3>1. PICK r : r = [L!NoJob EXCEPT !.stage = "extract", !.batch = pending, !.then = then]
      OBVIOUS
    <3>2. r = [stage |-> "extract", batch |-> pending, scope |-> NoScope, facts |-> {}, shows |-> {},
               then |-> then]
      BY <3>1 DEF L!NoJob
    <3>3. r \in MemJob /\ r.stage = "extract" /\ r.batch = pending
      BY <1>4, <1>5, <3>2 DEF MemJob, MemStages
    <3> QED BY <1>2, <1>3, <2>1, <3>1, <3>3 DEF L!To
  <2>2. CASE pending = {}
    <3>1. PICK stage \in {"idle", "clear"} : stage = IF then = NoScope THEN "idle" ELSE "clear"
      OBVIOUS
    <3>2. PICK r : r = [L!NoJob EXCEPT !.stage = stage, !.then = then]
      OBVIOUS
    <3>3. r = [stage |-> stage, batch |-> {}, scope |-> NoScope, facts |-> {}, shows |-> {},
               then |-> then]
      BY <3>2 DEF L!NoJob
    <3>4. r \in MemJob /\ r.stage = stage /\ r.batch = pending
      BY <2>2, <3>3 DEF MemJob, MemStages
    <3> QED BY <1>2, <1>3, <2>2, <3>1, <3>2, <3>4 DEF L!To
  <2> QED BY <2>1, <2>2
<1>7. overlap' \in BOOLEAN /\ faults' \in Nat
  BY <1>1 DEF MemHist, MemLog
<1>8. MemGrows
  BY <1>1 DEF MemGrows
<1>9. MemJobOk(r)'
  BY <1>1, <1>4, <1>6 DEF MemJobOk, MemReading
<1>10. MemSkipOk(r)'
  <2>1. \A i \in 1 .. Len(log) : MemText(i)' = MemText(i) /\ MemCovered(i)' = MemCovered(i)
    BY <1>1 DEF MemText, MemCovered
  <2>2. r.stage \notin MemReading \ {"extract"}
    BY <1>6 DEF MemReading
  <2> QED BY <1>1, <1>4, <1>6, <2>1, <2>2 DEF MemSkipOk
<1>11. MemLog' /\ MemJobs'
  BY <1>1, <1>6, <1>7, <1>8, <1>9, <1>10, ARunMoves DEF MemHist, MemLog
<1>12. MemReads'
  <2>1. ASSUME MemQuiet'
        PROVE  /\ \A k \in Jobs \ {j} : job[k].stage = "idle"
               /\ reread' = {} /\ MemReadOk(r)'
               /\ \A i \in read' \cap alive' : i \in infused'
    <3>1. MemQuiet /\ \A k \in Jobs \ {j} : job[k].stage = "idle"
      BY <1>1, <2>1 DEF MemQuiet
    <3>2. \A i \in read \cap alive : i \in infused
      BY <1>1, <3>1, ReadIsOfTheRun DEF MemReading
    <3>3. r.batch \cap read = {}
      BY <1>4, <1>6, <3>2
    <3>4. MemReadOk(r)'
      BY <1>1, <1>6, <3>3 DEF MemReadOk, MemReading
    <3> QED BY <1>1, <3>1, <3>2, <3>4 DEF MemHist, MemReads
  <2> QED BY <1>6, <2>1, ARunReads DEF MemHist
<1>13. L!ContextIsKept'
  BY <1>1, ContextStays
<1> QED BY <1>11, <1>12, <1>13 DEF MemHist


\* A run reads the next conversation.
LEMMA AScopeIsRead ==
  ASSUME MemHist, NEW j \in Jobs, L!Extract(j)
  PROVE  MemHist'
<1>1. PICK s : s = job[j]
  OBVIOUS
<1>2. /\ UNCHANGED <<channels, log, alive, infused, late, cleared, renewed, overlap, faults>>
      /\ s.stage = "extract"
  BY <1>1 DEF L!Extract, L!env, L!hist, L!counts
<1>3. PICK i \in L!First(s.batch), facts \in L!Facts :
        /\ L!To(j, [job[j] EXCEPT !.stage = "store", !.scope = log[i].scope, !.facts = facts])
        /\ read' = read \cup L!Of(j, log[i].scope)
        /\ reread' = reread \cup (read \cap L!Of(j, log[i].scope))
  BY <1>1 DEF L!Extract
<1>4. /\ s \in MemJob /\ MemJobOk(s) /\ MemSkipOk(s) /\ s.batch \subseteq 1 .. Len(log)
      /\ MemQuiet => reread = {} /\ MemReadOk(s) /\ \A k \in Jobs \ {j} : job[k].stage = "idle"
  BY <1>1, <1>2, TheRun
<1>5. i \in s.batch /\ facts \subseteq Topics
  BY DEF L!First, L!Facts
<1>6. PICK c \in Scopes : c = log[i].scope
  <2>1. i \in 1 .. Len(log) /\ log \in Seq(MemRow)
    BY <1>4, <1>5 DEF MemHist, MemLog
  <2>2. log[i] \in MemRow
    BY <2>1
  <2> QED BY <2>2 DEF MemRow
<1>7. PICK r : r = [s EXCEPT !.stage = "store", !.scope = c, !.facts = facts]
  OBVIOUS
<1>8. /\ r \in MemJob /\ r.stage = "store" /\ r.scope = c /\ r.batch = s.batch
      /\ job' = [job EXCEPT ![j] = r]
  BY <1>1, <1>3, <1>4, <1>5, <1>6, <1>7 DEF MemJob, MemStages, L!To
<1>9. PICK of : of = {k \in s.batch : log[k].scope = c}
  OBVIOUS
<1>10. read' = read \cup of /\ reread' = reread \cup (read \cap of) /\ MemRows(r)' = of /\ MemRows(r) = of
  BY <1>1, <1>2, <1>3, <1>6, <1>8, <1>9 DEF L!Of, MemRows
<1>11. MemGrows /\ of \subseteq 1 .. Len(log)
  BY <1>2, <1>4, <1>9, <1>10 DEF MemGrows
<1>12. MemJobOk(r)'
  BY <1>2, <1>4, <1>5, <1>8 DEF MemJobOk, MemReading
<1>13. MemSkipOk(r)'
  <2>1. \A k \in 1 .. Len(log) : MemText(k)' = MemText(k) /\ (MemCovered(k) => MemCovered(k)')
    BY <1>2, <1>11 DEF MemText, MemCovered, MemGrows
  <2> QED BY <1>2, <1>4, <1>8, <1>10, <2>1 DEF MemSkipOk
<1>14. MemLog' /\ MemJobs'
  BY <1>2, <1>8, <1>10, <1>11, <1>12, <1>13, ARunMoves DEF MemHist, MemLog
<1>15. MemReads'
  <2>1. ASSUME MemQuiet'
        PROVE  /\ \A k \in Jobs \ {j} : job[k].stage = "idle"
               /\ reread' = {} /\ MemReadOk(r)'
               /\ \A k \in read' \cap alive' : k \notin infused' => k \in MemRows(r)'
    <3>1. MemQuiet
      BY <1>2, <2>1 DEF MemQuiet
    <3>2. s.batch \cap read = {} /\ reread = {} /\ \A k \in Jobs \ {j} : job[k].stage = "idle"
      BY <1>2, <1>4, <3>1 DEF MemReadOk
    <3>3. reread' = {} /\ MemReadOk(r)'
      BY <1>8, <1>9, <1>10, <3>2 DEF MemReadOk
    <3>4. \A k \in read \cap alive : k \in infused
      BY <1>1, <1>2, <3>1, <3>2, ReadIsOfTheRun
    <3> QED BY <1>2, <1>10, <3>2, <3>3, <3>4
  <2> QED BY <1>8, <2>1, ARunReads DEF MemHist, MemReading
<1>16. L!ContextIsKept'
  BY <1>2, ContextStays
<1> QED BY <1>14, <1>15, <1>16 DEF MemHist

\* A run stores, looks or writes: it stays at its conversation.
LEMMA ARunGoesOn ==
  ASSUME MemHist, NEW j \in Jobs, NEW s, s = job[j], NEW r \in MemJob, job' = [job EXCEPT ![j] = r],
         s.stage \in MemReading \ {"extract"}, r.stage \in MemReading \ {"extract"},
         r.batch = s.batch, r.scope = s.scope,
         UNCHANGED <<channels, log, alive, infused, late, cleared, renewed, read, reread, overlap>>,
         faults' = faults \/ faults' = faults + 1
  PROVE  MemHist'
<1>1. /\ s \in MemJob /\ MemJobOk(s) /\ MemSkipOk(s)
      /\ MemQuiet /\ s.stage # "idle" =>
           reread = {} /\ MemReadOk(s) /\ \A k \in Jobs \ {j} : job[k].stage = "idle"
  BY TheRun
<1>2. faults' \in Nat /\ (MemQuiet' => MemQuiet) /\ s.stage # "idle" /\ r.stage # "idle" /\ MemGrows
  BY DEF MemHist, MemLog, MemQuiet, MemReading, MemGrows
<1>3. MemRows(r)' = MemRows(s)
  BY DEF MemRows
<1>4. MemJobOk(r)'
  BY <1>1 DEF MemJobOk, MemReading
<1>5. MemSkipOk(r)'
  <2>1. \A k \in 1 .. Len(log) : MemText(k)' = MemText(k) /\ MemCovered(k)' = MemCovered(k)
    BY DEF MemText, MemCovered
  <2> QED BY <1>1, <1>2, <1>3, <2>1 DEF MemSkipOk
<1>6. MemLog' /\ MemJobs'
  BY <1>2, <1>4, <1>5, ARunMoves DEF MemHist, MemLog
<1>7. MemReads'
  <2>1. ASSUME MemQuiet'
        PROVE  /\ \A k \in Jobs \ {j} : job[k].stage = "idle"
               /\ reread' = {} /\ MemReadOk(r)'
               /\ \A k \in read' \cap alive' : k \notin infused' => k \in MemRows(r)'
    <3>1. MemQuiet /\ reread = {} /\ MemReadOk(s) /\ \A k \in Jobs \ {j} : job[k].stage = "idle"
      BY <1>1, <1>2, <2>1
    <3>2. MemReadOk(r)'
      BY <1>3, <3>1 DEF MemReadOk
    <3>3. \A k \in read \cap alive : k \notin infused => k \in MemRows(s)
      BY <3>1, ReadIsOfTheRun
    <3> QED BY <1>3, <3>1, <3>2, <3>3
  <2> QED BY <2>1, ARunReads DEF MemHist
<1>8. L!ContextIsKept'
  BY ContextStays
<1> QED BY <1>6, <1>7, <1>8 DEF MemHist

\* A fact is stored, the recent memories are read, the digest is written or not.
LEMMA ARunWrites ==
  ASSUME MemHist, NEW j \in Jobs, L!StoreFact(j) \/ L!LookRecent(j) \/ L!WriteDigest(j)
  PROVE  MemHist'
<1>1. PICK s : s = job[j]
  OBVIOUS
<1>2. s \in MemJob /\ MemJobOk(s)
  BY <1>1, TheRun
<1>3. /\ UNCHANGED <<channels, log, alive, infused, late, cleared, renewed, read, reread, overlap>>
      /\ faults' = faults \/ faults' = faults + 1
      /\ s.stage \in {"store", "write"}
  BY <1>1 DEF L!StoreFact, L!LookRecent, L!WriteDigest, L!env, L!hist, L!reading, L!counts, L!OneFails
<1>4. PICK r : job' = [job EXCEPT ![j] = r] /\ r \in MemJob /\ r.stage \in {"store", "write", "mark"}
               /\ r.batch = s.batch /\ r.scope = s.scope
  <2>1. CASE L!StoreFact(j)
    <3>1. PICK t \in s.facts : L!To(j, [job[j] EXCEPT !.facts = @ \ {t}])
      BY <1>1, <2>1 DEF L!StoreFact
    <3>2. PICK r : r = [s EXCEPT !.facts = s.facts \ {t}]
      OBVIOUS
    <3>3. r \in MemJob /\ r.stage = s.stage /\ r.batch = s.batch /\ r.scope = s.scope
      BY <1>2, <3>2 DEF MemJob
    <3> QED BY <1>1, <1>3, <3>1, <3>2, <3>3 DEF L!To
  <2>2. CASE L!LookRecent(j)
    <3>1. PICK shows : shows = L!Recent(L!Scope(j))
      OBVIOUS
    <3>2. shows \subseteq Nat
      <4>1. \A k \in 1 .. Len(memories) : k \in Nat
        OBVIOUS
      <4> QED BY <3>1, <4>1 DEF L!Recent, L!Active
    <3>3. PICK r : r = [s EXCEPT !.stage = "write", !.shows = shows]
      OBVIOUS
    <3>4. r \in MemJob /\ r.stage = "write" /\ r.batch = s.batch /\ r.scope = s.scope
      BY <1>2, <3>2, <3>3 DEF MemJob, MemStages
    <3> QED BY <1>1, <2>2, <3>1, <3>3, <3>4 DEF L!To, L!LookRecent
  <2>3. CASE L!WriteDigest(j)
    <3>3. PICK r : r = [s EXCEPT !.stage = "mark"]
      OBVIOUS
    <3>4. r \in MemJob /\ r.stage = "mark" /\ r.batch = s.batch /\ r.scope = s.scope
      BY <1>2, <3>3 DEF MemJob, MemStages
    <3> QED BY <1>1, <2>3, <3>3, <3>4 DEF L!To, L!WriteDigest
  <2> QED BY <2>1, <2>2, <2>3
<1>5. s.stage \in MemReading \ {"extract"} /\ r.stage \in MemReading \ {"extract"}
  BY <1>3, <1>4 DEF MemReading
<1> QED BY <1>1, <1>3, <1>4, <1>5, ARunGoesOn

\* The rows of a conversation that was read are marked.
LEMMA AScopeIsMarked ==
  ASSUME MemHist, NEW j \in Jobs, L!MarkInfused(j)
  PROVE  MemHist'
<1>1. PICK s : s = job[j]
  OBVIOUS
<1>2. /\ UNCHANGED <<channels, log, alive, late, cleared, renewed, read, reread, overlap, faults>>
      /\ s.stage = "mark" /\ infused' = infused \cup L!RowsOf(s.scope)
  BY <1>1 DEF L!MarkInfused, L!env, L!reading, L!counts, L!Marked, L!Scope
<1>3. /\ s \in MemJob /\ MemJobOk(s) /\ MemSkipOk(s) /\ s.batch \subseteq 1 .. Len(log)
      /\ L!Of(j, s.scope) = MemRows(s)
      /\ MemQuiet => reread = {} /\ MemReadOk(s) /\ \A k \in Jobs \ {j} : job[k].stage = "idle"
  BY <1>1, <1>2, TheRun
<1>4. PICK rest : rest = s.batch \ MemRows(s)
  OBVIOUS
<1>5. PICK stage \in {"trim", "extract"} : stage = IF rest = {} THEN "trim" ELSE "extract"
  OBVIOUS
<1>6. PICK r : r = [s EXCEPT !.batch = rest, !.scope = NoScope, !.stage = stage]
  OBVIOUS
<1>7. /\ r \in MemJob /\ r.stage = stage /\ r.batch = rest /\ job' = [job EXCEPT ![j] = r]
  <2>1. r \in MemJob /\ r.stage = stage /\ r.batch = rest
    BY <1>3, <1>4, <1>6 DEF MemJob, MemStages
  <2>2. L!To(j, [job[j] EXCEPT !.batch = rest, !.scope = NoScope, !.stage = stage])
    BY <1>1, <1>3, <1>4, <1>5 DEF L!MarkInfused, L!Scope
  <2> QED BY <1>1, <1>6, <2>1, <2>2 DEF L!To
<1>8. MemGrows
  BY <1>2 DEF MemGrows
<1>9. MemRows(s) \subseteq read
  BY <1>2, <1>3 DEF MemSkipOk, MemReading
<1>10. MemJobOk(r)'
  BY <1>2, <1>3, <1>4, <1>5, <1>7 DEF MemJobOk, MemReading
<1>11. \A k \in 1 .. Len(log) : MemText(k)' = MemText(k) /\ MemCovered(k)' = MemCovered(k)
  BY <1>2 DEF MemText, MemCovered
<1>12. MemSkipOk(r)'
  <2>1. \A k \in 1 .. Len(log) : MemText(k) => k \in s.batch \/ MemCovered(k)
    BY <1>2, <1>3 DEF MemSkipOk
  <2>2. \A k \in 1 .. Len(log) : MemText(k) => k \in r.batch \/ MemCovered(k)
    BY <1>4, <1>7, <1>9, <2>1 DEF MemCovered
  <2>3. r.stage \notin MemReading \ {"extract"}
    BY <1>5, <1>7 DEF MemReading
  <2> QED BY <1>2, <1>11, <2>2, <2>3 DEF MemSkipOk
<1>13. MemLog' /\ MemJobs'
  <2>1. \A k \in L!RowsOf(s.scope) : k \in alive /\ log[k].scope = s.scope
    BY DEF L!RowsOf
  <2>2. infused' \subseteq 1 .. Len(log)
    BY <1>2, <2>1 DEF MemHist, MemLog
  <2>3. ASSUME NEW k \in 1 .. Len(log), MemText(k), k \in infused', k \notin infused
        PROVE  MemCovered(k)'
    <3>1. log[k].scope = s.scope
      BY <1>2, <2>1, <2>3
    <3>2. k \in s.batch \/ MemCovered(k)
      BY <1>2, <1>3, <2>3 DEF MemSkipOk
    <3>3. k \in s.batch => k \in read
      BY <1>9, <3>1 DEF MemRows
    <3> QED BY <1>11, <3>2, <3>3 DEF MemCovered
  <2> QED BY <1>2, <1>7, <1>8, <1>10, <1>12, <2>2, <2>3, ARunMoves DEF MemHist, MemLog
<1>14. MemReads'
  <2>1. ASSUME MemQuiet'
        PROVE  /\ \A k \in Jobs \ {j} : job[k].stage = "idle"
               /\ reread' = {} /\ MemReadOk(r)'
               /\ \A k \in read' \cap alive' : k \in infused'
    <3>1. MemQuiet /\ reread = {} /\ MemReadOk(s) /\ \A k \in Jobs \ {j} : job[k].stage = "idle"
      BY <1>2, <1>3, <2>1 DEF MemQuiet
    <3>2. s.batch \cap read \subseteq MemRows(s)
      BY <1>2, <3>1 DEF MemReadOk, MemReading
    <3>3. MemReadOk(r)'
      BY <1>2, <1>4, <1>5, <1>7, <3>2 DEF MemReadOk, MemReading
    <3>4. \A k \in read \cap alive : k \notin infused => k \in MemRows(s)
      BY <1>1, <3>1, ReadIsOfTheRun
    <3>5. \A k \in MemRows(s) \cap alive : k \in L!RowsOf(s.scope)
      BY DEF MemRows, L!RowsOf
    <3> QED BY <1>2, <3>1, <3>3, <3>4, <3>5
  <2> QED BY <1>7, <2>1, ARunReads DEF MemHist
<1>15. L!ContextIsKept'
  BY <1>2, ContextStays
<1> QED BY <1>13, <1>14, <1>15 DEF MemHist

\* A run that read everything ends, or goes on to clear: all is covered.
LEMMA ARunEnds ==
  ASSUME MemHist, NEW j \in Jobs, NEW s, s = job[j], NEW r \in MemJob, job' = [job EXCEPT ![j] = r],
         s.stage \in {"trim", "clear"}, r.stage \in {"idle", "clear"}, r.batch = {},
         UNCHANGED <<channels, log, infused, late, cleared, read, reread, overlap, faults>>,
         alive' \subseteq alive, L!ContextIsKept'
  PROVE  MemHist'
<1>1. /\ s \in MemJob /\ MemJobOk(s) /\ MemSkipOk(s) /\ s.stage # "idle"
      /\ MemQuiet => reread = {} /\ \A k \in Jobs \ {j} : job[k].stage = "idle"
  BY TheRun
<1>2. s.batch = {} /\ MemGrows
  BY <1>1 DEF MemJobOk, MemReading, MemGrows
<1>3. \A k \in 1 .. Len(log) : MemText(k)' = MemText(k) /\ MemCovered(k)' = MemCovered(k)
  BY DEF MemText, MemCovered
<1>4. \A k \in 1 .. Len(log) : MemText(k) => MemCovered(k)
  BY <1>1, <1>2 DEF MemSkipOk
<1>5. MemJobOk(r)'
  BY DEF MemJobOk, MemReading
<1>6. MemSkipOk(r)'
  BY <1>3, <1>4 DEF MemSkipOk, MemReading
<1>7. MemLog' /\ MemJobs'
  BY <1>2, <1>3, <1>4, <1>5, <1>6, ARunMoves DEF MemHist, MemLog
<1>8. MemReads'
  <2>1. ASSUME MemQuiet'
        PROVE  /\ \A k \in Jobs \ {j} : job[k].stage = "idle"
               /\ reread' = {} /\ MemReadOk(r)'
               /\ \A k \in read' \cap alive' : k \in infused'
    <3>1. MemQuiet /\ reread = {} /\ \A k \in Jobs \ {j} : job[k].stage = "idle"
      BY <1>1, <2>1 DEF MemQuiet
    <3>2. \A k \in read \cap alive : k \in infused
      BY <3>1, ReadIsOfTheRun DEF MemReading
    <3>3. MemReadOk(r)'
      BY DEF MemReadOk, MemReading
    <3> QED BY <3>1, <3>2, <3>3
  <2> QED BY <2>1, ARunReads DEF MemHist
<1> QED BY <1>7, <1>8 DEF MemHist

\* The record of a run that is over.
LEMMA NoRunIsOk ==
  L!NoJob \in MemJob /\ L!NoJob.stage = "idle" /\ L!NoJob.batch = {}
BY DEF L!NoJob, MemJob, MemStages

\* The history is trimmed: the last messages of each conversation stay.
LEMMA TheHistoryIsTrimmed ==
  ASSUME MemHist, NEW j \in Jobs, L!Trim(j)
  PROVE  MemHist'
<1>1. PICK s : s = job[j]
  OBVIOUS
<1>2. /\ UNCHANGED <<channels, log, infused, late, cleared, renewed, read, reread, overlap, faults>>
      /\ s.stage = "trim" /\ alive' = alive \ L!Trimmed
  BY <1>1 DEF L!Trim, L!env, L!reading, L!counts
<1>3. PICK r : job' = [job EXCEPT ![j] = r] /\ r \in MemJob /\ r.stage \in {"idle", "clear"} /\ r.batch = {}
  <2>1. s \in MemJob /\ s.batch = {}
    BY <1>1, <1>2, TheRun DEF MemJobOk, MemReading
  <2>2. PICK n : n = [s EXCEPT !.stage = "clear"]
    OBVIOUS
  <2>3. n \in MemJob /\ n.stage = "clear" /\ n.batch = {}
    BY <2>1, <2>2 DEF MemJob, MemStages
  <2> QED BY <1>1, <2>2, <2>3, NoRunIsOk DEF L!Trim, L!To
<1>4. L!ContextIsKept'
  <2>1. ASSUME NEW c \in Scopes, NEW i \in L!LastMessages(c)'
        PROVE  i \in alive' \cup cleared' \cup renewed'
    <3>1. i \in L!LastMessages(c) /\ i \in alive \cup cleared \cup renewed
      <4>1. i \in L!LastMessages(c)
        BY <1>2, <2>1 DEF L!LastMessages, L!Ids
      <4> QED BY <4>1 DEF MemHist, L!ContextIsKept
    <3>2. PICK after : after = {m \in 1 .. Len(log) : m > i /\ log[m].scope = c /\ log[m].kind = "text"}
      OBVIOUS
    <3>3. i \in 1 .. Len(log) /\ log[i].scope = c /\ log[i].kind = "text" /\ L!Cardinality(after) < KeepLast
      BY <3>1, <3>2 DEF L!LastMessages, L!Ids
    <3>4. i \notin L!Trimmed
      <4>1. SUFFICES ASSUME NEW m \in L!Newer(i), m > i, L!Cardinality(L!Newer(m)) = KeepLast
                     PROVE  FALSE
        BY DEF L!Trimmed
      <4>2. PICK newer : newer = L!Newer(m)
        OBVIOUS
      <4>3. m \in 1 .. Len(log) /\ log[m].scope = c
        BY <3>3, <4>1 DEF L!Newer, MemHist, MemLog
      <4>4. newer \subseteq after
        <5>1. ASSUME NEW n \in newer
              PROVE  n \in after
          <6>1. n \in alive /\ n >= m /\ log[n].scope = c /\ log[n].kind = "text"
            BY <4>2, <4>3, <5>1 DEF L!Newer
          <6>2. n \in 1 .. Len(log)
            BY <6>1 DEF MemHist, MemLog
          <6>3. n > i
            BY <3>3, <4>1, <4>3, <6>1, <6>2
          <6> QED BY <3>2, <6>1, <6>2, <6>3
        <5> QED BY <5>1
      <4>5. IsFiniteSet(after)
        <5>1. 1 \in Int /\ Len(log) \in Int
          BY DEF MemHist, MemLog
        <5>2. IsFiniteSet(1 .. Len(log)) /\ after \subseteq 1 .. Len(log)
          BY <3>2, <5>1, FS_Interval
        <5> QED BY <5>2, FS_Subset
      <4>6. /\ Cardinality(newer) <= Cardinality(after)
            /\ Cardinality(newer) \in Nat /\ Cardinality(after) \in Nat
        BY <4>4, <4>5, FS_Subset, FS_CardinalityType
      <4>7. L!Cardinality(newer) = Cardinality(newer) /\ L!Cardinality(after) = Cardinality(after)
        BY DEF L!Cardinality, Cardinality
      <4>8. KeepLast \in Nat
        BY StoresAssumption DEF L!MemoryAssumption
      <4> QED BY <3>3, <4>1, <4>2, <4>6, <4>7, <4>8
    <3> QED BY <1>2, <3>1, <3>4
  <2> QED BY <2>1 DEF L!ContextIsKept
<1>5. alive' \subseteq alive /\ s.stage \in {"trim", "clear"}
  BY <1>2
<1> QED BY <1>1, <1>2, <1>3, <1>4, <1>5, ARunEnds

\* /new clears the chat.
LEMMA TheChatIsRenewed ==
  ASSUME MemHist, NEW j \in Jobs, L!ClearAfter(j)
  PROVE  MemHist'
<1>1. PICK s, r : s = job[j] /\ r = L!NoJob
  OBVIOUS
<1>2. /\ UNCHANGED <<channels, log, infused, late, cleared, read, reread, overlap, faults>>
      /\ s.stage = "clear" /\ alive' = alive \ L!RowsOf(s.then)
      /\ renewed' = renewed \cup L!RowsOf(s.then) /\ job' = [job EXCEPT ![j] = r]
  BY <1>1 DEF L!ClearAfter, L!env, L!reading, L!counts, L!To
<1>3. L!ContextIsKept'
  BY <1>2, ContextStays
<1>4. r \in MemJob /\ r.stage \in {"idle", "clear"} /\ r.batch = {} /\ alive' \subseteq alive
      /\ s.stage \in {"trim", "clear"}
  BY <1>1, <1>2, NoRunIsOk
<1> QED BY <1>1, <1>2, <1>3, <1>4, ARunEnds

\* A run fails half way.
LEMMA ARunFails ==
  ASSUME MemHist, NEW j \in Jobs, L!Abort(j)
  PROVE  MemHist'
<1>1. PICK r : r = L!NoJob
  OBVIOUS
<1>2. /\ UNCHANGED <<channels, log, alive, infused, late, cleared, renewed, read, reread, overlap>>
      /\ job' = [job EXCEPT ![j] = r] /\ faults' = faults + 1
  BY <1>1 DEF L!Abort, L!env, L!hist, L!reading, L!OneFails, L!To
<1>3. r \in MemJob /\ r.stage = "idle" /\ r.batch = {}
  BY <1>1, NoRunIsOk
<1>4. faults' \in Nat /\ ~MemQuiet' /\ MemGrows
  BY <1>2 DEF MemHist, MemLog, MemQuiet, MemGrows
<1>5. MemJobOk(r)' /\ MemSkipOk(r)'
  BY <1>3 DEF MemJobOk, MemSkipOk, MemReading
<1>6. MemLog' /\ MemJobs'
  BY <1>2, <1>4, <1>5, ARunMoves DEF MemHist, MemLog
<1>7. MemReads'
  BY <1>4 DEF MemReads
<1>8. L!ContextIsKept'
  BY <1>2, ContextStays
<1> QED BY <1>6, <1>7, <1>8 DEF MemHist

\* Steps that touch neither the history nor the runs.
LEMMA HistoryStays ==
  ASSUME MemHist, UNCHANGED <<channels, log, alive, infused, late, cleared, renewed, job, read, reread,
                              overlap, faults>>
  PROVE  MemHist'
BY DEF MemHist, MemLog, MemJobs, MemReads, MemJobOk, MemSkipOk, MemReadOk, MemRows, MemText, MemCovered,
   MemQuiet, L!ContextIsKept, L!LastMessages, L!Ids

\* Every step keeps what is known of the history and of the runs.
LEMMA HistStep ==
  ASSUME MemHist, L!Next \/ UNCHANGED L!vars
  PROVE  MemHist'
<1>1. ASSUME NEW c \in Callers, L!CallStep(c)
      PROVE  MemHist'
  <2>1. UNCHANGED <<channels, log, alive, infused, late, cleared, renewed, job, read, reread, overlap, faults>>
    BY <1>1 DEF L!CallStep, L!SearchNeighbour, L!Create, L!Merge, L!UpdateCall, L!Delete, L!CallLooks,
       L!CallWrites, L!env, L!hist, L!reading, L!counts
  <2> QED BY <2>1, HistoryStays
<1>2. CASE L!LoadUnreconciled \/ L!Reconcile
  <2>1. UNCHANGED <<channels, log, alive, infused, late, cleared, renewed, job, read, reread, overlap, faults>>
    BY <1>2 DEF L!LoadUnreconciled, L!Reconcile, L!env, L!hist, L!reading, L!counts
  <2> QED BY <2>1, HistoryStays
<1>3. ASSUME NEW j \in Jobs, L!JobStep(j)
      PROVE  MemHist'
  BY <1>3, ARunStarts, AScopeIsRead, ARunWrites, AScopeIsMarked, TheHistoryIsTrimmed, TheChatIsRenewed,
     ARunFails DEF L!JobStep
<1>4. CASE UNCHANGED L!vars
  <2>1. UNCHANGED <<channels, log, alive, infused, late, cleared, renewed, job, read, reread, overlap, faults>>
    BY <1>4 DEF L!vars
  <2> QED BY <2>1, HistoryStays
<1> QED BY <1>1, <1>2, <1>3, <1>4, ARowIsSaid, AScopeIsCleared DEF L!Next

\* The history begins empty.
LEMMA HistInit ==
  ASSUME L!Init
  PROVE  MemHist
<1>1. /\ log = <<>> /\ alive = {} /\ infused = {} /\ read = {} /\ reread = {} /\ ~overlap /\ faults = 0
      /\ job = [j \in Jobs |-> L!NoJob] /\ overlap \in BOOLEAN
  BY DEF L!Init
<1>2. MemLog
  BY <1>1 DEF MemLog
<1>3. \A j \in Jobs : job[j] \in MemJob /\ job[j].stage = "idle" /\ job[j].batch = {}
  BY <1>1, NoRunIsOk
<1>4. MemJobs
  BY <1>1, <1>3, NoRunIsOk DEF MemJobs, MemJobOk, MemSkipOk, MemReading
<1>5. MemReads
  BY <1>1, <1>3 DEF MemReads, MemReadOk, MemReading
<1>6. L!ContextIsKept
  <2>1. 1 .. Len(log) = {}
    BY <1>1
  <2> QED BY <2>1 DEF L!ContextIsKept, L!LastMessages, L!Ids
<1> QED BY <1>2, <1>4, <1>5, <1>6 DEF MemHist


-----------------------------------------------------------------------------
\* The memories and their embeddings, the calls of the tool and the pass of the reconciler.
MemRecord == [topic : Topics, scope : Scopes, deleted : BOOLEAN, reconciled : BOOLEAN]
MemMatched(m, v) ==
  m \in Seq(MemRecord) /\ v \in Seq(Topics) /\ Len(v) = Len(m)
  /\ \A k \in 1 .. Len(m) : v[k] = m[k].topic
MemCall == [stage : {"idle", "found", "look", "write"}, topic : Topics \cup {NoTopic}, hit : Nat,
            scope : Scopes \cup {NoScope}, shows : SUBSET Nat]
MemCallOk(s) ==
  /\ s \in MemCall /\ s.hit \in 0 .. Len(memories)
  /\ s.stage = "found" => s.topic \in Topics /\ s.scope \in Scopes
MemVecs ==
  /\ MemMatched(memories, vectors) /\ seeds.todo \subseteq 1 .. Len(memories)
  /\ call \in [Callers -> MemCall] /\ \A c \in Callers : MemCallOk(call[c])

\* Whatever each memory becomes, its embedding matches while its topic stays.
LEMMA TopicsStay ==
  ASSUME NEW m, NEW v, MemMatched(m, v), NEW n \in [1 .. Len(m) -> MemRecord],
         \A k \in 1 .. Len(m) : n[k].topic = m[k].topic
  PROVE  MemMatched(n, v) /\ Len(n) = Len(m)
<1>1. Len(m) \in Nat
  BY DEF MemMatched
<1>2. n \in Seq(MemRecord) /\ Len(n) = Len(m)
  BY <1>1
<1> QED BY <1>2 DEF MemMatched

\* A memory is added with the embedding of its content.
LEMMA AMemoryIsAdded ==
  ASSUME NEW m, NEW v, MemMatched(m, v), NEW x \in MemRecord, NEW t \in Topics, t = x.topic
  PROVE  MemMatched(Append(m, x), Append(v, t)) /\ Len(Append(m, x)) = Len(m) + 1
<1>1. PICK n, w : n = Append(m, x) /\ w = Append(v, t)
  OBVIOUS
<1>2. m \in Seq(MemRecord) /\ v \in Seq(Topics) /\ Len(v) = Len(m) /\ Len(m) \in Nat
  BY DEF MemMatched
<1>3. n \in Seq(MemRecord) /\ w \in Seq(Topics) /\ Len(n) = Len(m) + 1 /\ Len(w) = Len(m) + 1
  BY <1>1, <1>2
<1>4. ASSUME NEW k \in 1 .. Len(n)
      PROVE  w[k] = n[k].topic
  <2>1. CASE k = Len(m) + 1
    BY <1>1, <1>2, <2>1
  <2>2. CASE k # Len(m) + 1
    <3>1. k \in 1 .. Len(m)
      BY <1>2, <1>3, <2>2
    <3>2. n[k] = m[k] /\ w[k] = v[k]
      BY <1>1, <1>2, <3>1
    <3> QED BY <3>1, <3>2 DEF MemMatched
  <2> QED BY <2>1, <2>2
<1> QED BY <1>1, <1>3, <1>4 DEF MemMatched

\* A memory changes with its embedding.
LEMMA AMemoryChanges ==
  ASSUME NEW m, NEW v, MemMatched(m, v), NEW k \in 1 .. Len(m), NEW x \in MemRecord, NEW t \in Topics,
         t = x.topic
  PROVE  MemMatched([m EXCEPT ![k] = x], [v EXCEPT ![k] = t]) /\ Len([m EXCEPT ![k] = x]) = Len(m)
<1>1. PICK n, w : n = [m EXCEPT ![k] = x] /\ w = [v EXCEPT ![k] = t]
  OBVIOUS
<1>2. m \in Seq(MemRecord) /\ v \in Seq(Topics) /\ Len(v) = Len(m)
  BY DEF MemMatched
<1>3. /\ n \in Seq(MemRecord) /\ Len(n) = Len(m)
      /\ \A i \in 1 .. Len(m) : n[i] = IF i = k THEN x ELSE m[i]
  BY <1>1, <1>2, ExceptSeq
<1>4. /\ w \in Seq(Topics) /\ Len(w) = Len(m)
      /\ \A i \in 1 .. Len(m) : w[i] = IF i = k THEN t ELSE v[i]
  BY <1>1, <1>2, ExceptSeq
<1> QED BY <1>1, <1>3, <1>4 DEF MemMatched

\* Some memories are deleted: the rest of what they say stays.
LEMMA SomeAreDeleted ==
  ASSUME MemMatched(memories, vectors), NEW S, NEW n, n = L!Deleted(S)
  PROVE  MemMatched(n, vectors) /\ Len(n) = Len(memories)
<1>1. n = [k \in 1 .. Len(memories) |-> [memories[k] EXCEPT !.deleted = memories[k].deleted \/ k \in S]]
  BY DEF L!Deleted
<1>2. ASSUME NEW k \in 1 .. Len(memories)
      PROVE  n[k] \in MemRecord /\ n[k].topic = memories[k].topic
  <2>1. PICK x : x = memories[k]
    OBVIOUS
  <2>2. x \in MemRecord
    BY <2>1 DEF MemMatched
  <2>3. PICK gone \in BOOLEAN : gone = (x.deleted \/ k \in S)
    OBVIOUS
  <2>4. n[k] = [x EXCEPT !.deleted = gone]
    BY <1>1, <2>1, <2>3
  <2> QED BY <2>1, <2>2, <2>4 DEF MemRecord
<1>3. n \in [1 .. Len(memories) -> MemRecord]
  BY <1>1, <1>2
<1>4. PICK m, v : m = memories /\ v = vectors
  OBVIOUS
<1> QED BY <1>2, <1>3, <1>4, TopicsStay

\* Some are marked as reconciled: the rest of what they say stays.
LEMMA SomeAreReconciled ==
  ASSUME NEW m, NEW v, MemMatched(m, v), NEW S, NEW n, n = L!MarkReconciled(m, S)
  PROVE  MemMatched(n, v) /\ Len(n) = Len(m)
<1>1. DOMAIN m = 1 .. Len(m)
  BY DEF MemMatched
<1>2. n = [k \in 1 .. Len(m) |-> [m[k] EXCEPT !.reconciled = m[k].reconciled \/ k \in S]]
  BY <1>1 DEF L!MarkReconciled
<1>3. ASSUME NEW k \in 1 .. Len(m)
      PROVE  n[k] \in MemRecord /\ n[k].topic = m[k].topic
  <2>1. PICK x : x = m[k]
    OBVIOUS
  <2>2. x \in MemRecord
    BY <2>1 DEF MemMatched
  <2>3. PICK done \in BOOLEAN : done = (x.reconciled \/ k \in S)
    OBVIOUS
  <2>4. n[k] = [x EXCEPT !.reconciled = done]
    BY <1>2, <2>1, <2>3
  <2> QED BY <2>1, <2>2, <2>4 DEF MemRecord
<1>4. n \in [1 .. Len(m) -> MemRecord]
  BY <1>2, <1>3
<1> QED BY <1>3, <1>4, TopicsStay

\* The memories grow, or stay as many: the calls of the tool still point at them.
LEMMA CallsStay ==
  ASSUME MemVecs, MemMatched(memories', vectors'), Len(memories) <= Len(memories'),
         UNCHANGED call, seeds'.todo \subseteq 1 .. Len(memories')
  PROVE  MemVecs'
<1>1. Len(memories) \in Nat /\ Len(memories') \in Nat
  BY DEF MemVecs, MemMatched
<1>2. \A c \in Callers : MemCallOk(call[c])'
  BY <1>1 DEF MemVecs, MemCallOk
<1> QED BY <1>2 DEF MemVecs, MemMatched

\* ... and one call moves.
LEMMA ACallMoves ==
  ASSUME MemVecs, MemMatched(memories', vectors'), Len(memories) <= Len(memories'),
         NEW c \in Callers, NEW r \in MemCall, call' = [call EXCEPT ![c] = r],
         r.hit \in 0 .. Len(memories'), r.stage = "found" => r.topic \in Topics /\ r.scope \in Scopes,
         UNCHANGED seeds
  PROVE  MemVecs'
<1>1. Len(memories) \in Nat /\ Len(memories') \in Nat
  BY DEF MemVecs, MemMatched
<1>2. call'[c] = r /\ call' \in [Callers -> MemCall] /\ \A k \in Callers \ {c} : call'[k] = call[k]
  BY DEF MemVecs
<1>3. \A k \in Callers \ {c} : MemCallOk(call[k])'
  BY <1>1, <1>2 DEF MemVecs, MemCallOk
<1>4. MemCallOk(call[c])'
  BY <1>2 DEF MemCallOk
<1>5. seeds'.todo \subseteq 1 .. Len(memories')
  BY <1>1 DEF MemVecs
<1> QED BY <1>2, <1>3, <1>4, <1>5 DEF MemVecs, MemMatched

\* The records that a call is given.
LEMMA CallRecords ==
  /\ L!NoCall \in MemCall /\ L!NoCall.hit = 0 /\ L!NoCall.stage = "idle"
  /\ \A s \in Scopes : LET w == [L!NoCall EXCEPT !.stage = "look", !.scope = s]
                       IN w \in MemCall /\ w.hit = 0 /\ w.stage = "look"
<1>1. L!NoCall = [stage |-> "idle", topic |-> NoTopic, hit |-> 0, scope |-> NoScope, shows |-> {}]
  BY DEF L!NoCall
<1>2. 0 \in Nat
  OBVIOUS
<1>3. ASSUME NEW s \in Scopes, NEW w, w = [L!NoCall EXCEPT !.stage = "look", !.scope = s]
      PROVE  w \in MemCall /\ w.hit = 0 /\ w.stage = "look"
  <2>1. w = [stage |-> "look", topic |-> NoTopic, hit |-> 0, scope |-> s, shows |-> {}]
    BY <1>1, <1>3
  <2> QED BY <1>2, <2>1 DEF MemCall
<1> QED BY <1>1, <1>2, <1>3 DEF MemCall

\* What the tool does once it wrote: it looks, or is done when there was nothing to write.
LEMMA ACallIsDone ==
  ASSUME MemVecs, MemMatched(memories', vectors'), Len(memories) <= Len(memories'), UNCHANGED seeds,
         NEW c \in Callers, L!Calling(c, L!NoCall) \/ \E s \in Scopes : L!Writing(c, s)
  PROVE  MemVecs'
<1>1. PICK r \in MemCall : call' = [call EXCEPT ![c] = r] /\ r.hit = 0 /\ r.stage # "found"
  <2>1. CASE L!Calling(c, L!NoCall)
    <3>1. PICK r : r = L!NoCall
      OBVIOUS
    <3> QED BY <2>1, <3>1, CallRecords DEF L!Calling
  <2>2. ASSUME NEW s \in Scopes, L!Writing(c, s)
        PROVE  \E r \in MemCall : call' = [call EXCEPT ![c] = r] /\ r.hit = 0 /\ r.stage # "found"
    <3>1. PICK r : r = [L!NoCall EXCEPT !.stage = "look", !.scope = s]
      OBVIOUS
    <3>2. r \in MemCall /\ r.hit = 0 /\ r.stage = "look"
      BY <3>1, CallRecords
    <3> QED BY <2>2, <3>1, <3>2 DEF L!Calling, L!Writing
  <2> QED BY <2>1, <2>2
<1>2. Len(memories') \in Nat
  BY DEF MemMatched
<1>3. r.hit \in 0 .. Len(memories')
  BY <1>1, <1>2
<1> QED BY <1>1, <1>3, ACallMoves

\* A memory is updated, unless it is deleted.
LEMMA AnUpdate ==
  ASSUME MemVecs, NEW k \in 1 .. Len(memories), NEW t \in Topics, L!Update(k, t)
  PROVE  MemMatched(memories', vectors') /\ Len(memories') = Len(memories)
<1>1. CASE memories[k].deleted
  BY <1>1 DEF L!Update, L!mem, MemVecs, MemMatched
<1>2. CASE ~memories[k].deleted
  <2>1. PICK m, v, old : m = memories /\ v = vectors /\ old = m[k]
    OBVIOUS
  <2>2. MemMatched(m, v) /\ old \in MemRecord
    BY <2>1 DEF MemVecs, MemMatched
  <2>3. PICK x : x = [old EXCEPT !.topic = t]
    OBVIOUS
  <2>4. x \in MemRecord /\ x.topic = t
    BY <2>2, <2>3 DEF MemRecord
  <2>5. memories' = [m EXCEPT ![k] = x] /\ vectors' = [v EXCEPT ![k] = t]
    BY <1>2, <2>1, <2>3 DEF L!Update
  <2>6. MemMatched([m EXCEPT ![k] = x], [v EXCEPT ![k] = t]) /\ Len([m EXCEPT ![k] = x]) = Len(m)
    BY <2>1, <2>2, <2>4, AMemoryChanges
  <2> QED BY <2>1, <2>5, <2>6
<1> QED BY <1>1, <1>2

\* The calls of the tool.
LEMMA ToolSteps ==
  ASSUME MemVecs, NEW c \in Callers, L!CallStep(c)
  PROVE  MemVecs'
<1>0. UNCHANGED seeds
  BY DEF L!CallStep, L!SearchNeighbour, L!Create, L!Merge, L!UpdateCall, L!Delete, L!CallLooks,
     L!CallWrites, L!recon
<1>1. PICK s : s = call[c]
  OBVIOUS
<1>2. /\ s \in MemCall /\ s.hit \in 0 .. Len(memories) /\ Len(memories) \in Nat
      /\ s.stage = "found" => s.topic \in Topics /\ s.scope \in Scopes
  BY <1>1 DEF MemVecs, MemCallOk, MemMatched
<1>3. \A k \in 1 .. Len(memories) : memories[k].scope \in Scopes
  <2>1. \A k \in 1 .. Len(memories) : memories[k] \in MemRecord
    BY DEF MemVecs, MemMatched
  <2> QED BY <2>1 DEF MemRecord
<1>4. CASE L!SearchNeighbour(c)
  <2>0. PICK t \in Topics, w \in Scopes : \E hit \in L!Similar(t) \cup {0} :
          L!Calling(c, [L!NoCall EXCEPT !.stage = "found", !.topic = t, !.scope = w, !.hit = hit])
    BY <1>4 DEF L!SearchNeighbour
  <2>1. PICK hit \in L!Similar(t) \cup {0} :
          L!Calling(c, [L!NoCall EXCEPT !.stage = "found", !.topic = t, !.scope = w, !.hit = hit])
    BY <2>0
  <2>2. hit \in 0 .. Len(memories) /\ hit \in Nat
    BY <1>2, <2>1 DEF L!Similar, L!Active
  <2>3. PICK r : r = [L!NoCall EXCEPT !.stage = "found", !.topic = t, !.scope = w, !.hit = hit]
    OBVIOUS
  <2>4. r = [stage |-> "found", topic |-> t, hit |-> hit, scope |-> w, shows |-> {}]
    BY <2>3 DEF L!NoCall
  <2>5. r \in MemCall /\ r.hit = hit /\ r.topic = t /\ r.scope = w
    BY <2>2, <2>4 DEF MemCall
  <2>6. UNCHANGED <<memories, vectors>>
    BY <1>4 DEF L!SearchNeighbour, L!mem
  <2>7. MemMatched(memories', vectors') /\ Len(memories) <= Len(memories')
    BY <1>2, <2>6 DEF MemVecs
  <2>8. call' = [call EXCEPT ![c] = r] /\ r.hit \in 0 .. Len(memories')
    BY <2>1, <2>2, <2>3, <2>5, <2>6 DEF L!Calling
  <2> QED BY <1>0, <2>5, <2>7, <2>8, ACallMoves
<1>5. CASE L!Create(c)
  <2>1. s.topic \in Topics /\ s.scope \in Scopes
    BY <1>1, <1>2, <1>5 DEF L!Create
  <2>2. PICK x, m, v, t : x = L!NewMemory(s.topic, s.scope) /\ m = memories /\ v = vectors /\ t = s.topic
    OBVIOUS
  <2>3. x \in MemRecord /\ x.topic = t
    BY <2>1, <2>2 DEF L!NewMemory, MemRecord
  <2>4. memories' = Append(m, x) /\ vectors' = Append(v, t) /\ L!Writing(c, s.scope)
    BY <1>1, <1>5, <2>2 DEF L!Create
  <2>5. MemMatched(Append(m, x), Append(v, t)) /\ Len(Append(m, x)) = Len(m) + 1
    BY <2>1, <2>2, <2>3, AMemoryIsAdded DEF MemVecs
  <2>6. MemMatched(memories', vectors') /\ Len(memories) <= Len(memories')
    BY <1>2, <2>2, <2>4, <2>5
  <2> QED BY <1>0, <2>1, <2>4, <2>6, ACallIsDone
<1>6. ASSUME NEW k \in 1 .. Len(memories), NEW t \in Topics, L!Update(k, t), L!Done(c, k)
      PROVE  MemVecs'
  <2>1. MemMatched(memories', vectors') /\ Len(memories) <= Len(memories')
    BY <1>2, <1>6, AnUpdate
  <2>2. L!Calling(c, L!NoCall) \/ \E w \in Scopes : L!Writing(c, w)
    BY <1>3, <1>6 DEF L!Done
  <2> QED BY <1>0, <2>1, <2>2, ACallIsDone
<1>7. CASE L!Merge(c)
  <2>1. PICK k, t : k = s.hit /\ t = s.topic
    OBVIOUS
  <2>2. k \in 1 .. Len(memories) /\ t \in Topics /\ L!Update(k, t) /\ L!Done(c, k)
    BY <1>1, <1>2, <1>7, <2>1 DEF L!Merge
  <2> QED BY <1>6, <2>2
<1>8. CASE L!UpdateCall(c)
  BY <1>6, <1>8 DEF L!UpdateCall
<1>9. CASE L!Delete(c)
  <2>1. PICK k \in L!Active : memories' = L!Deleted({k}) /\ L!Writing(c, memories[k].scope)
    BY <1>9 DEF L!Delete
  <2>2. k \in 1 .. Len(memories) /\ UNCHANGED vectors
    BY <1>9, <2>1 DEF L!Active, L!Delete
  <2>3. PICK n, S : n = L!Deleted(S) /\ S = {k}
    OBVIOUS
  <2>4. MemMatched(n, vectors) /\ Len(n) = Len(memories)
    BY <2>3, SomeAreDeleted DEF MemVecs
  <2>5. MemMatched(memories', vectors') /\ Len(memories) <= Len(memories')
    BY <1>2, <2>1, <2>2, <2>3, <2>4
  <2> QED BY <1>0, <1>3, <2>1, <2>2, <2>5, ACallIsDone
<1>10. CASE L!CallLooks(c)
  <2>1. PICK shows : shows = L!Recent(call[c].scope)
    OBVIOUS
  <2>2. shows \subseteq Nat
    <3>1. \A k \in 1 .. Len(memories) : k \in Nat
      OBVIOUS
    <3> QED BY <2>1, <3>1 DEF L!Recent, L!Active
  <2>3. PICK r : r = [s EXCEPT !.stage = "write", !.shows = shows]
    OBVIOUS
  <2>4. r \in MemCall /\ r.hit = s.hit /\ r.stage = "write"
    BY <1>2, <2>2, <2>3 DEF MemCall
  <2>5. UNCHANGED <<memories, vectors>> /\ call' = [call EXCEPT ![c] = r]
    BY <1>1, <1>10, <2>1, <2>3 DEF L!CallLooks, L!mem, L!Calling
  <2>6. MemMatched(memories', vectors') /\ Len(memories) <= Len(memories') /\ r.hit \in 0 .. Len(memories')
    BY <1>2, <2>4, <2>5 DEF MemVecs
  <2> QED BY <1>0, <2>4, <2>5, <2>6, ACallMoves
<1>11. CASE L!CallWrites(c)
  <2>1. UNCHANGED <<memories, vectors>> /\ L!Calling(c, L!NoCall)
    BY <1>11 DEF L!CallWrites, L!mem
  <2>2. MemMatched(memories', vectors') /\ Len(memories) <= Len(memories')
    BY <1>2, <2>1 DEF MemVecs
  <2> QED BY <1>0, <2>1, <2>2, ACallIsDone
<1> QED BY <1>4, <1>5, <1>7, <1>8, <1>9, <1>10, <1>11 DEF L!CallStep

\* A fact that a run extracted is stored.
LEMMA AFactIsStored ==
  ASSUME MemHist, MemVecs, NEW j \in Jobs, L!StoreFact(j)
  PROVE  MemVecs'
<1>1. PICK s : s = job[j]
  OBVIOUS
<1>2. s.facts \subseteq Topics /\ s.scope \in Scopes
  <2>1. MemJobOk(s) /\ s.facts \subseteq Topics
    BY <1>1, TheRun
  <2> QED BY <1>1, <2>1 DEF L!StoreFact, MemJobOk, MemReading
<1>3. PICK t \in s.facts : /\ memories' = Append(memories, L!NewMemory(t, s.scope))
                           /\ vectors' = Append(vectors, t)
  BY <1>1 DEF L!StoreFact, L!Scope
<1>4. PICK x, m, v : x = L!NewMemory(t, s.scope) /\ m = memories /\ v = vectors
  OBVIOUS
<1>5. x \in MemRecord /\ x.topic = t /\ t \in Topics
  BY <1>2, <1>4 DEF L!NewMemory, MemRecord
<1>6. MemMatched(Append(m, x), Append(v, t)) /\ Len(Append(m, x)) = Len(m) + 1
  BY <1>4, <1>5, AMemoryIsAdded DEF MemVecs
<1>7. MemMatched(memories', vectors') /\ Len(memories') = Len(memories) + 1 /\ Len(memories) \in Nat
  BY <1>3, <1>4, <1>6 DEF MemVecs, MemMatched
<1>8. UNCHANGED <<call, seeds>>
  BY DEF L!StoreFact, L!recon
<1>9. Len(memories) <= Len(memories') /\ seeds'.todo \subseteq 1 .. Len(memories')
  BY <1>7, <1>8 DEF MemVecs
<1> QED BY <1>7, <1>8, <1>9, CallsStay

\* What the LLM answers about similar memories is applied.
LEMMA ASeedIsReconciled ==
  ASSUME MemVecs, L!Reconcile
  PROVE  MemVecs'
<1>0. PICK k \in L!First(seeds.todo) : \E d \in L!Decisions(k) :
        /\ L!Apply(k, d)
        /\ LET rest == seeds.todo \ d.marks
           IN seeds' = IF rest = {} THEN L!NoPass ELSE [todo |-> rest, done |-> seeds.done \cup d.marks]
  BY DEF L!Reconcile
<1>1. PICK d \in L!Decisions(k) :
        /\ L!Apply(k, d)
        /\ LET rest == seeds.todo \ d.marks
           IN seeds' = IF rest = {} THEN L!NoPass ELSE [todo |-> rest, done |-> seeds.done \cup d.marks]
  BY <1>0
<1>2. k \in 1 .. Len(memories) /\ Len(memories) \in Nat
  BY <1>0 DEF L!First, MemVecs, MemMatched
<1>3. PICK into : into = d.do.into
  OBVIOUS
<1>4. into \in Topics \cup {NoTopic}
  BY <1>1, <1>3 DEF L!Decisions, L!Actions
<1>5. PICK drop, marks, n, m, v : /\ drop = d.do.drop /\ marks = d.marks \ drop /\ n = L!Deleted(drop)
                                  /\ m = L!MarkReconciled(n, marks) /\ v = vectors
  OBVIOUS
<1>6. MemMatched(n, v) /\ Len(n) = Len(memories)
  BY <1>5, SomeAreDeleted DEF MemVecs
<1>7. MemMatched(m, v) /\ Len(m) = Len(memories)
  BY <1>5, <1>6, SomeAreReconciled
<1>8. m = L!Kept(d)
  BY <1>5 DEF L!Kept
<1>9. MemMatched(memories', vectors') /\ Len(memories) <= Len(memories')
  <2>1. CASE into = NoTopic
    <3>1. memories' = m /\ vectors' = v
      BY <1>1, <1>3, <1>5, <1>8, <2>1 DEF L!Apply
    <3> QED BY <1>2, <1>7, <3>1
  <2>2. CASE into # NoTopic
    <3>1. PICK x : x = [L!NewMemory(into, memories[k].scope) EXCEPT !.reconciled = TRUE]
      OBVIOUS
    <3>2. x \in MemRecord /\ x.topic = into
      <4>1. memories[k] \in MemRecord
        BY <1>2 DEF MemVecs, MemMatched
      <4>2. memories[k].scope \in Scopes /\ into \in Topics
        BY <1>4, <2>2, <4>1 DEF MemRecord
      <4>3. x = [topic |-> into, scope |-> memories[k].scope, deleted |-> FALSE, reconciled |-> TRUE]
        BY <3>1 DEF L!NewMemory
      <4> QED BY <4>2, <4>3 DEF MemRecord
    <3>3. memories' = Append(m, x) /\ vectors' = Append(v, into)
      BY <1>1, <1>3, <1>5, <1>8, <2>2, <3>1 DEF L!Apply
    <3>4. MemMatched(Append(m, x), Append(v, into)) /\ Len(Append(m, x)) = Len(m) + 1
      BY <1>4, <1>7, <2>2, <3>2, AMemoryIsAdded
    <3> QED BY <1>2, <1>7, <3>3, <3>4
  <2> QED BY <2>1, <2>2
<1>10. seeds'.todo \subseteq seeds.todo
  <2>1. CASE seeds.todo \ d.marks = {}
    BY <1>1, <2>1 DEF L!NoPass
  <2>2. CASE seeds.todo \ d.marks # {}
    <3>1. seeds' = [todo |-> seeds.todo \ d.marks, done |-> seeds.done \cup d.marks]
      BY <1>1, <2>2
    <3> QED BY <3>1
  <2> QED BY <2>1, <2>2
<1>11. seeds'.todo \subseteq 1 .. Len(memories')
  <2>1. Len(memories') \in Nat
    BY <1>9 DEF MemMatched
  <2> QED BY <1>2, <1>9, <1>10, <2>1 DEF MemVecs
<1>12. UNCHANGED call
  BY DEF L!Reconcile
<1> QED BY <1>9, <1>11, <1>12, CallsStay

\* Every step keeps the embeddings beside their memories.
LEMMA VecStep ==
  ASSUME MemHist, MemVecs, L!Next \/ UNCHANGED L!vars
  PROVE  MemVecs'
<1>0. Len(memories) \in Nat
  BY DEF MemVecs, MemMatched
<1>1. ASSUME UNCHANGED <<memories, vectors, call, seeds>>
      PROVE  MemVecs'
  BY <1>1 DEF MemVecs, MemMatched, MemCallOk
<1>2. ASSUME NEW j \in Jobs, L!JobStep(j)
      PROVE  MemVecs'
  <2>1. CASE L!StoreFact(j)
    BY <2>1, AFactIsStored
  <2>2. CASE ~L!StoreFact(j)
    <3>1. UNCHANGED <<memories, vectors, call, seeds>>
      BY <1>2, <2>2 DEF L!JobStep, L!Load, L!Extract, L!LookRecent, L!WriteDigest, L!MarkInfused, L!Trim,
         L!ClearAfter, L!Abort, L!mem, L!recon
    <3> QED BY <1>1, <3>1
  <2> QED BY <2>1, <2>2
<1>3. ASSUME NEW s \in Scopes, L!Clear(s) \/ \E what \in {"text", "tool"} : L!Say(s, what)
      PROVE  MemVecs'
  BY <1>1, <1>3 DEF L!Clear, L!Say, L!mem, L!recon
<1>4. CASE L!LoadUnreconciled
  <2>1. /\ UNCHANGED <<memories, vectors, call>>
        /\ seeds' = [L!NoPass EXCEPT !.todo = {k \in L!Active : ~memories[k].reconciled}]
    BY <1>4 DEF L!LoadUnreconciled, L!mem
  <2>2. seeds'.todo = {k \in L!Active : ~memories[k].reconciled}
    BY <2>1 DEF L!NoPass
  <2>3. seeds'.todo \subseteq 1 .. Len(memories)
    BY <2>2 DEF L!Active
  <2>4. MemMatched(memories', vectors') /\ Len(memories) <= Len(memories')
    BY <1>0, <2>1 DEF MemVecs
  <2> QED BY <2>1, <2>3, <2>4, CallsStay
<1>5. CASE UNCHANGED L!vars
  BY <1>1, <1>5 DEF L!vars
<1> QED BY <1>2, <1>3, <1>4, <1>5, ToolSteps, ASeedIsReconciled DEF L!Next

\* The memories begin empty.
LEMMA VecInit ==
  ASSUME L!Init
  PROVE  MemVecs
<1>1. memories = <<>> /\ vectors = <<>> /\ call = [c \in Callers |-> L!NoCall] /\ seeds.todo = {}
  BY DEF L!Init, L!NoPass
<1>2. L!NoCall \in MemCall /\ L!NoCall.hit = 0 /\ L!NoCall.stage = "idle"
  BY CallRecords
<1>3. MemMatched(memories, vectors)
  BY <1>1 DEF MemMatched
<1>4. \A c \in Callers : MemCallOk(call[c])
  BY <1>1, <1>2 DEF MemCallOk
<1> QED BY <1>1, <1>2, <1>3, <1>4 DEF MemVecs

\* When the subject is the memory, it moves as LongTermMemory says.
LEMMA MemMoves ==
  ASSUME [Next]_vars
  PROVE  subject' = subject /\ (subject = "memory" => L!Next \/ UNCHANGED L!vars)
BY OneSubject DEF Next, vars, OfMemory, L!vars

\* What is promised of the memory follows.
LEMMA MemGood ==
  ASSUME MemHist, MemVecs
  PROVE  L!VectorsMatch /\ L!NothingSkipped /\ L!ContextIsKept /\ L!ReadOnce
<1>1. L!TypeOK
  <2>1. \A j \in Jobs : job[j].stage \in {"extract", "store", "write", "mark"} => job[j].batch # {}
    BY DEF MemHist, MemJobs, MemJobOk, MemReading
  <2>2. \A c \in Callers : call[c].hit \in 0 .. Len(memories)
    BY DEF MemVecs, MemCallOk
  <2> QED BY <2>1, <2>2 DEF L!TypeOK, L!Ids, MemHist, MemLog, MemVecs, MemMatched, MemRecord
<1>2. L!VectorsMatch
  BY <1>1 DEF L!VectorsMatch, MemVecs, MemMatched
<1>3. L!NothingSkipped
  BY DEF L!NothingSkipped, L!Ids, MemHist, MemLog, MemText, MemCovered
<1>4. L!ReadOnce
  BY DEF L!ReadOnce, MemHist, MemLog, MemReads, MemQuiet
<1> QED BY <1>2, <1>3, <1>4 DEF MemHist

\* Runs that overlap, fail half way or race with the tool skip no message and read none twice,
\* leave every conversation its last messages, and every memory the embedding of its content, for
\* any conversations, runs, calls and bounds (consolidate_memory.py, sqlite_memory_repo.py).
THEOREM NoMessageIsSkipped ==
  Spec => []MemoryHolds
<1> DEFINE J == subject = "memory" => MemHist /\ MemVecs
<1>1. Init => J
  BY HistInit, VecInit DEF Init
<1>2. J /\ [Next]_vars => J'
  BY MemMoves, HistStep, VecStep
<1>3. J => MemoryHolds
  BY MemGood DEF MemoryHolds
<1> QED BY <1>1, <1>2, <1>3, PTL DEF Spec

-----------------------------------------------------------------------------
\* The tables of the index.
IxAt == {0} \cup I!Versions
IxChunk == [file : Files, version : I!Versions, at : Nat, by : Nat, w : Workers]
IxRow == [mtime : IxAt, count : Nat]
IxDb == [chunks : SUBSET IxChunk, vectors : SUBSET IxChunk, rows : [Files -> IxRow]]
IxCall == [op : {"idle", "index", "ingest", "delete"}, todo : SUBSET Files, seen : [Files -> IxAt],
           file : Files \cup {0}, version : IxAt, ids : SUBSET IxChunk, physical : BOOLEAN,
           touched : SUBSET Files]

IxAgrees(d) ==
  /\ d \in IxDb /\ d.chunks \subseteq d.vectors
  /\ \A f \in Files : d.rows[f] = I!NoRow \/ d.rows[f].mtime \in I!Versions
  /\ \A f \in Files : I!Cardinality(I!ChunksOf(d, f)) = d.rows[f].count
  /\ \A c \in d.chunks : c.version = d.rows[c.file].mtime
  /\ \A c, e \in d.chunks : c.file = e.file => c.by = e.by /\ c.w = e.w

\* What a call read is of the file it is at, and what a pass left behind is as it lies in the
\* folder, unless somebody changed it since.
IxFresh(s) ==
  s.op = "index" => \A f \in Glob \ s.touched :
    /\ f \notin s.todo /\ disk[f] # 0 => db.rows[f].mtime = disk[f]
    /\ f \in s.todo => s.seen[f] = db.rows[f].mtime
    /\ f = s.file => s.version = disk[f]
IxCallOk(s) ==
  /\ s \in IxCall /\ IxFresh(s)
  /\ \A c \in s.ids : c.file = s.file
  /\ s.op \in {"index", "ingest"} /\ s.file # 0 => s.file \in s.todo /\ s.version \in I!Versions

IxStore == disk \in [Files -> IxAt] /\ IxAgrees(db) /\ calls \in Nat
IxCalls == call \in [Workers -> IxCall] /\ \A w \in Workers : IxCallOk(call[w])
\* The open transaction is of one file.
IxOpen(w) ==
  /\ w \in Workers /\ IxAgrees(tx) /\ call[w].file \in Files /\ call[w].todo # {}
  /\ call[w].op # "idle"
  /\ \A g \in Files \ {call[w].file} : tx.rows[g] = db.rows[g]
  /\ call[w].op \in {"index", "ingest"} => tx.rows[call[w].file].mtime = call[w].version
IxInv == IxStore /\ IxCalls /\ (writer # Nobody => IxOpen(writer))

\* Positions that are a multiple of the stride leave no gap as long as one.
LEMMA AStrideCovers ==
  ASSUME NEW n \in Nat, NEW s \in Nat \ {0}
  PROVE  \E i \in 0 .. n : i % s = 0 /\ n < i + s
<1>1. PICK q, r, i : q = n \div s /\ r = n % s /\ i = s * q
  OBVIOUS
<1>2. r \in 0 .. s - 1
  BY <1>1
<1>3. q \in Nat
  BY <1>1
<1>4. n = s * (n \div s) + (n % s)
  OBVIOUS
<1>5. n = i + r
  BY <1>1, <1>4
<1>6. i \in Nat
  BY <1>1, <1>3
<1>7. (s * q) % s = 0
  BY <1>3
<1>8. i \in 0 .. n /\ n < i + s
  BY <1>2, <1>5, <1>6
<1> QED BY <1>1, <1>7, <1>8

\* The windows of a document hold every word of it, and no other.
LEMMA WindowsHoldEveryWord ==
  ASSUME I!KnowledgeAssumption, NEW v \in I!Versions
  PROVE  UNION {I!Window(v, i) : i \in I!Starts(v)} = 1 .. Words[v]
<1>1. PICK n, st : n = Words[v] /\ st = I!Stride
  OBVIOUS
<1>2. n \in Nat
  BY <1>1 DEF I!KnowledgeAssumption, I!Versions
<1>3. st \in Nat \ {0} /\ st <= Size /\ Size \in Nat
  BY <1>1 DEF I!KnowledgeAssumption, I!Stride
<1>4. I!Starts(v) = {i \in 0 .. (n - 1) : i % st = 0}
  BY <1>1 DEF I!Starts
<1>5. \A i \in 0 .. (n - 1) : I!Window(v, i) = (i + 1) .. (IF i + Size < n THEN i + Size ELSE n)
  BY <1>1 DEF I!Window
<1>6. ASSUME NEW p \in 1 .. n
      PROVE  \E i \in I!Starts(v) : p \in I!Window(v, i)
  <2>1. PICK i \in 0 .. (p - 1) : i % st = 0 /\ p - 1 < i + st
    <3>1. p - 1 \in Nat
      BY <1>2
    <3> QED BY <1>3, <3>1, AStrideCovers
  <2>2. i \in 0 .. (n - 1) /\ i \in I!Starts(v)
    BY <1>2, <1>4, <2>1
  <2>3. p \in (i + 1) .. (IF i + Size < n THEN i + Size ELSE n)
    BY <1>2, <1>3, <2>1
  <2> QED BY <1>5, <2>2, <2>3
<1>7. ASSUME NEW i \in I!Starts(v), NEW p \in I!Window(v, i)
      PROVE  p \in 1 .. n
  <2>1. i \in 0 .. (n - 1)
    BY <1>4
  <2>2. p \in (i + 1) .. (IF i + Size < n THEN i + Size ELSE n)
    BY <1>5, <1>7, <2>1
  <2> QED BY <1>2, <1>3, <2>1, <2>2
<1> QED BY <1>1, <1>6, <1>7

\* What the tables of the index promise, of a database that agrees.
LEMMA AgreementIsKept ==
  ASSUME I!KnowledgeAssumption, IxAgrees(db)
  PROVE  I!TablesAgree
<1>1. ASSUME NEW f \in Files, NEW X, X = I!ChunksOf(db, f)
      PROVE  /\ \A c \in X : c.version = db.rows[f].mtime
             /\ I!Cardinality({<<c.by, c.w>> : c \in X}) <= 1
             /\ (db.rows[f] # I!NoRow /\ {c.at : c \in X} = I!Starts(db.rows[f].mtime)) =>
                  UNION {I!Window(c.version, c.at) : c \in X} = 1 .. Words[db.rows[f].mtime]
  <2>1. \A c \in X : c \in db.chunks /\ c.file = f
    BY <1>1 DEF I!ChunksOf
  <2>2. \A c \in X : c.version = db.rows[f].mtime
    BY <2>1 DEF IxAgrees
  <2>3. I!Cardinality({<<c.by, c.w>> : c \in X}) <= 1
    <3>1. CASE X = {}
      <4>1. {<<c.by, c.w>> : c \in X} = {}
        BY <3>1
      <4>2. I!Cardinality({}) = 0
        BY FS_EmptySet DEF I!Cardinality, Cardinality
      <4> QED BY <4>1, <4>2
    <3>2. CASE X # {}
      <4>1. PICK c0 \in X : TRUE
        BY <3>2
      <4>2. PICK x : x = <<c0.by, c0.w>>
        OBVIOUS
      <4>3. \A c \in X : <<c.by, c.w>> = x
        BY <2>1, <4>2 DEF IxAgrees
      <4>4. {<<c.by, c.w>> : c \in X} = {x}
        BY <4>1, <4>3
      <4>5. I!Cardinality({x}) = 1
        BY FS_Singleton DEF I!Cardinality, Cardinality
      <4> QED BY <4>4, <4>5
    <3> QED BY <3>1, <3>2
  <2>4. ASSUME db.rows[f] # I!NoRow, {c.at : c \in X} = I!Starts(db.rows[f].mtime)
        PROVE  UNION {I!Window(c.version, c.at) : c \in X} = 1 .. Words[db.rows[f].mtime]
    <3>1. PICK v : v = db.rows[f].mtime
      OBVIOUS
    <3>2. v \in I!Versions
      BY <2>4, <3>1 DEF IxAgrees
    <3>3. UNION {I!Window(v, i) : i \in I!Starts(v)} = 1 .. Words[v]
      BY <3>2, WindowsHoldEveryWord
    <3>4. {I!Window(c.version, c.at) : c \in X} = {I!Window(v, c.at) : c \in X}
      BY <2>2, <3>1
    <3>5. {I!Window(v, c.at) : c \in X} = {I!Window(v, i) : i \in {c.at : c \in X}}
      OBVIOUS
    <3> QED BY <2>4, <3>1, <3>3, <3>4, <3>5
  <2> QED BY <2>2, <2>3, <2>4
<1>2. \A f \in Files : I!Cardinality(I!ChunksOf(db, f)) = db.rows[f].count
  BY DEF IxAgrees
<1>3. db.chunks \subseteq db.vectors
  BY DEF IxAgrees
<1> QED BY <1>1, <1>2, <1>3 DEF I!TablesAgree

\* The chunks of one file that one call writes.
IxKept(f, v, by, w, embedded) ==
  {[file |-> f, version |-> v, at |-> i, by |-> by, w |-> w] : i \in embedded}

\* A file is written again, with the chunks whose embedding did not fail.
LEMMA AFileIsFiled ==
  ASSUME I!KnowledgeAssumption, NEW d, IxAgrees(d), NEW f \in Files, NEW ids, NEW v \in I!Versions,
         \A c \in ids : c.file = f,
         NEW by \in Nat, NEW w \in Workers, NEW embedded \in SUBSET I!Starts(v), NEW kept,
         kept = IxKept(f, v, by, w, embedded),
         NEW n, n = I!Filed(I!Wipe(d, f, ids), f, v, kept)
  PROVE  /\ IxAgrees(n) /\ n.rows[f].mtime = v
         /\ \A g \in Files \ {f} : n.rows[g] = d.rows[g]
<1>1. embedded \subseteq 0 .. (Words[v] - 1) /\ Words[v] \in Nat
  BY DEF I!Starts, I!KnowledgeAssumption, I!Versions
<1>2. IsFiniteSet(embedded) /\ \A i \in embedded : i \in Nat
  <2>1. 0 \in Int /\ Words[v] - 1 \in Int
    BY <1>1
  <2>2. IsFiniteSet(0 .. (Words[v] - 1))
    BY <2>1, FS_Interval
  <2>3. IsFiniteSet(embedded)
    BY <1>1, <2>2, FS_Subset
  <2>4. \A i \in 0 .. (Words[v] - 1) : i \in Nat
    BY <1>1
  <2> QED BY <1>1, <2>3, <2>4
<1>3. \A c \in kept : c \in IxChunk /\ c.file = f /\ c.version = v /\ c.by = by /\ c.w = w
  BY <1>2 DEF IxChunk, IxKept
<1>4. I!Cardinality(kept) \in Nat
  <2>1. IsFiniteSet(kept)
    <3>1. PICK chunk : chunk = [i \in embedded |-> [file |-> f, version |-> v, at |-> i, by |-> by, w |-> w]]
      OBVIOUS
    <3>2. chunk \in Surjection(embedded, kept)
      BY <3>1 DEF Surjection, IxKept
    <3> QED BY <1>2, <3>2, FS_Surjection
  <2> QED BY <2>1, FS_CardinalityType DEF I!Cardinality, Cardinality
<1>5. PICK count \in Nat : count = I!Cardinality(kept)
  BY <1>4
<1>6. PICK row : row = [mtime |-> v, count |-> count]
  OBVIOUS
<1>7. row \in IxRow /\ row.mtime = v /\ row.count = count
  BY <1>6 DEF IxRow, IxAt
<1>8. PICK m : m = I!Wipe(d, f, ids)
  OBVIOUS
<1>9. d \in IxDb
  BY DEF IxAgrees
<1>10. /\ m \in IxDb /\ m.chunks = {c \in d.chunks : c.file # f} /\ m.vectors = d.vectors \ ids
       /\ m.rows = d.rows
  BY <1>8, <1>9 DEF I!Wipe, IxDb
<1>11. n = [m EXCEPT !.chunks = m.chunks \cup kept, !.vectors = m.vectors \cup kept,
                     !.rows = [m.rows EXCEPT ![f] = row]]
  BY <1>5, <1>6, <1>8, <1>10 DEF I!Filed, IxDb
<1>12. /\ n.chunks = {c \in d.chunks : c.file # f} \cup kept /\ n.vectors = (d.vectors \ ids) \cup kept
       /\ n.rows = [d.rows EXCEPT ![f] = row]
  BY <1>10, <1>11 DEF IxDb
<1>13. d.rows \in [Files -> IxRow] /\ d.chunks \subseteq IxChunk /\ d.vectors \subseteq IxChunk
  BY <1>9 DEF IxDb
<1>14. /\ n.rows \in [Files -> IxRow] /\ n.rows[f] = row
       /\ \A g \in Files \ {f} : n.rows[g] = d.rows[g]
  BY <1>7, <1>12, <1>13
<1>15. n \in IxDb
  <2>1. n.chunks \subseteq IxChunk /\ n.vectors \subseteq IxChunk
    BY <1>3, <1>12, <1>13
  <2> QED BY <1>10, <1>11, <1>14, <2>1 DEF IxDb
<1>16. n.chunks \subseteq n.vectors
  BY <1>12 DEF IxAgrees
<1>17. \A g \in Files : n.rows[g] = I!NoRow \/ n.rows[g].mtime \in I!Versions
  BY <1>7, <1>14 DEF IxAgrees
<1>18. ASSUME NEW g \in Files
       PROVE  I!Cardinality(I!ChunksOf(n, g)) = n.rows[g].count
  <2>1. CASE g = f
    <3>1. I!ChunksOf(n, g) = kept
      BY <1>3, <1>12, <2>1 DEF I!ChunksOf
    <3> QED BY <1>5, <1>7, <1>14, <2>1, <3>1
  <2>2. CASE g # f
    <3>1. I!ChunksOf(n, g) = I!ChunksOf(d, g)
      BY <1>3, <1>12, <2>2 DEF I!ChunksOf
    <3> QED BY <1>14, <2>2, <3>1 DEF IxAgrees
  <2> QED BY <2>1, <2>2
<1>19. \A c \in n.chunks : (c \in d.chunks /\ c.file # f /\ c.file \in Files) \/ (c \in kept /\ c.file = f)
  <2>1. \A c \in d.chunks : c.file \in Files
    BY <1>13 DEF IxChunk
  <2> QED BY <1>3, <1>12, <2>1
<1>20. \A c \in n.chunks : c.version = n.rows[c.file].mtime
  BY <1>3, <1>7, <1>14, <1>19 DEF IxAgrees
<1>21. \A c, e \in n.chunks : c.file = e.file => c.by = e.by /\ c.w = e.w
  BY <1>3, <1>19 DEF IxAgrees
<1> QED BY <1>7, <1>14, <1>15, <1>16, <1>17, <1>18, <1>20, <1>21 DEF IxAgrees

\* A file is taken out.
LEMMA AFileIsUnfiled ==
  ASSUME I!KnowledgeAssumption, NEW d, IxAgrees(d), NEW f \in Files, NEW ids, \A c \in ids : c.file = f,
         NEW n, n = I!Unfiled(d, f, ids)
  PROVE  IxAgrees(n) /\ \A g \in Files \ {f} : n.rows[g] = d.rows[g]
<1>1. PICK m, row : m = I!Wipe(d, f, ids) /\ row = I!NoRow
  OBVIOUS
<1>2. row \in IxRow /\ row.count = 0
  <2>1. 0 \in Nat
    OBVIOUS
  <2> QED BY <1>1, <2>1 DEF I!NoRow, I!Absent, IxRow, IxAt
<1>3. d \in IxDb
  BY DEF IxAgrees
<1>4. /\ m \in IxDb /\ m.chunks = {c \in d.chunks : c.file # f} /\ m.vectors = d.vectors \ ids
      /\ m.rows = d.rows
  BY <1>1, <1>3 DEF I!Wipe, IxDb
<1>5. n = [m EXCEPT !.rows = [m.rows EXCEPT ![f] = row]]
  BY <1>1, <1>4 DEF I!Unfiled, IxDb
<1>6. /\ n.chunks = {c \in d.chunks : c.file # f} /\ n.vectors = d.vectors \ ids
      /\ n.rows = [d.rows EXCEPT ![f] = row]
  BY <1>4, <1>5 DEF IxDb
<1>7. d.rows \in [Files -> IxRow] /\ d.chunks \subseteq IxChunk /\ d.vectors \subseteq IxChunk
  BY <1>3 DEF IxDb
<1>8. /\ n.rows \in [Files -> IxRow] /\ n.rows[f] = row
      /\ \A g \in Files \ {f} : n.rows[g] = d.rows[g]
  BY <1>2, <1>6, <1>7
<1>9. n \in IxDb
  BY <1>4, <1>5, <1>8 DEF IxDb
<1>10. n.chunks \subseteq n.vectors
  BY <1>6 DEF IxAgrees
<1>11. \A g \in Files : n.rows[g] = I!NoRow \/ n.rows[g].mtime \in I!Versions
  BY <1>1, <1>8 DEF IxAgrees
<1>12. ASSUME NEW g \in Files
       PROVE  I!Cardinality(I!ChunksOf(n, g)) = n.rows[g].count
  <2>1. CASE g = f
    <3>1. I!ChunksOf(n, g) = {}
      BY <1>6, <2>1 DEF I!ChunksOf
    <3>2. I!Cardinality({}) = 0
      BY FS_EmptySet DEF I!Cardinality, Cardinality
    <3> QED BY <1>2, <1>8, <2>1, <3>1, <3>2
  <2>2. CASE g # f
    <3>1. I!ChunksOf(n, g) = I!ChunksOf(d, g)
      BY <1>6, <2>2 DEF I!ChunksOf
    <3> QED BY <1>8, <2>2, <3>1 DEF IxAgrees
  <2> QED BY <2>1, <2>2
<1>13. \A c \in n.chunks : c \in d.chunks /\ c.file # f /\ c.file \in Files
  BY <1>6, <1>7 DEF IxChunk
<1>14. \A c \in n.chunks : c.version = n.rows[c.file].mtime
  BY <1>8, <1>13 DEF IxAgrees
<1>15. \A c, e \in n.chunks : c.file = e.file => c.by = e.by /\ c.w = e.w
  BY <1>13 DEF IxAgrees
<1> QED BY <1>8, <1>9, <1>10, <1>11, <1>12, <1>14, <1>15 DEF IxAgrees


-----------------------------------------------------------------------------
\* A call that does not move sees the same folder and tables, or is told of the file that changed.
IxSame(f) == \A g \in Files \ {f} : disk'[g] = disk[g] /\ db'.rows[g].mtime = db.rows[g].mtime
IxTold(s, n, f) ==
  IF s.op = "idle" THEN n = s ELSE n = [s EXCEPT !.touched = s.touched \cup {f}]

LEMMA ACallWaits ==
  ASSUME NEW s, IxCallOk(s), NEW n,
         (n = s /\ UNCHANGED <<disk, db>>) \/ \E f \in Files : IxTold(s, n, f) /\ IxSame(f)
  PROVE  IxCallOk(n)' /\ n.op = s.op /\ n.file = s.file /\ n.version = s.version /\ n.todo = s.todo
<1>1. CASE n = s /\ UNCHANGED <<disk, db>>
  BY <1>1 DEF IxCallOk, IxFresh
<1>2. ASSUME NEW f \in Files, IxTold(s, n, f), IxSame(f)
      PROVE  IxCallOk(n)' /\ n.op = s.op /\ n.file = s.file /\ n.version = s.version /\ n.todo = s.todo
  <2>1. CASE s.op = "idle"
    BY <1>2, <2>1 DEF IxTold, IxCallOk, IxFresh
  <2>2. CASE s.op # "idle"
    <3>1. s \in IxCall
      BY DEF IxCallOk
    <3>2. n = [s EXCEPT !.touched = s.touched \cup {f}]
      BY <1>2, <2>2 DEF IxTold
    <3>3. /\ n \in IxCall /\ n.op = s.op /\ n.file = s.file /\ n.version = s.version /\ n.todo = s.todo
          /\ n.seen = s.seen /\ n.ids = s.ids /\ n.touched = s.touched \cup {f}
      BY <3>1, <3>2 DEF IxCall
    <3>4. \A g \in Glob \ n.touched : g \in Glob \ s.touched /\ g \in Files \ {f}
      BY <3>3, StoresAssumption DEF I!KnowledgeAssumption
    <3>5. IxFresh(n)'
      <4>1. SUFFICES ASSUME s.op = "index", NEW g \in Glob \ n.touched
                     PROVE  /\ g \notin n.todo /\ disk'[g] # 0 => db'.rows[g].mtime = disk'[g]
                            /\ g \in n.todo => n.seen[g] = db'.rows[g].mtime
                            /\ g = n.file => n.version = disk'[g]
        BY <3>3 DEF IxFresh
      <4>2. disk'[g] = disk[g] /\ db'.rows[g].mtime = db.rows[g].mtime
        BY <1>2, <3>4 DEF IxSame
      <4> QED BY <3>3, <3>4, <4>1, <4>2 DEF IxCallOk, IxFresh
    <3> QED BY <3>3, <3>5 DEF IxCallOk
  <2> QED BY <2>1, <2>2
<1> QED BY <1>1, <1>2

\* One call moves, and the others wait or are told of what it did.
LEMMA OneCallMoves ==
  ASSUME IxCalls, NEW w \in Workers, NEW r, r \in IxCall, IxCallOk(r)',
         \/ call' = [call EXCEPT ![w] = r] /\ UNCHANGED <<disk, db>>
         \/ \E f \in Files : I!Changed(f, w, r) /\ IxSame(f)
  PROVE  /\ IxCalls' /\ call'[w] = r
         /\ \A u \in Workers \ {w} : /\ call'[u].op = call[u].op /\ call'[u].file = call[u].file
                                     /\ call'[u].version = call[u].version /\ call'[u].todo = call[u].todo
<1>1. call \in [Workers -> IxCall]
  BY DEF IxCalls
<1>2. ASSUME NEW u \in Workers \ {w}, NEW s, NEW n, s = call[u], n = call'[u],
             (n = s /\ UNCHANGED <<disk, db>>) \/ \E f \in Files : IxTold(s, n, f) /\ IxSame(f)
      PROVE  /\ n \in IxCall /\ IxCallOk(call[u])' /\ n.op = s.op /\ n.file = s.file
             /\ n.version = s.version /\ n.todo = s.todo
  <2>1. IxCallOk(s)
    BY <1>2 DEF IxCalls
  <2>2. IxCallOk(n)' /\ n.op = s.op /\ n.file = s.file /\ n.version = s.version /\ n.todo = s.todo
    BY <1>2, <2>1, ACallWaits
  <2> QED BY <1>2, <2>2 DEF IxCallOk, IxFresh
<1>3. CASE call' = [call EXCEPT ![w] = r] /\ UNCHANGED <<disk, db>>
  <2>1. call'[w] = r /\ \A u \in Workers \ {w} : call'[u] = call[u]
    BY <1>1, <1>3
  <2>2. call' = [u \in Workers |-> call'[u]]
    BY <1>1, <1>3
  <2>3. IxCallOk(call[w])'
    BY <2>1 DEF IxCallOk, IxFresh
  <2>4. \A u \in Workers : call'[u] \in IxCall /\ IxCallOk(call[u])'
    BY <1>2, <1>3, <2>1, <2>3
  <2> QED BY <2>1, <2>2, <2>4 DEF IxCalls
<1>4. ASSUME NEW f \in Files, I!Changed(f, w, r), IxSame(f)
      PROVE  /\ IxCalls' /\ call'[w] = r
             /\ \A u \in Workers \ {w} : /\ call'[u].op = call[u].op /\ call'[u].file = call[u].file
                                         /\ call'[u].version = call[u].version /\ call'[u].todo = call[u].todo
  <2>1. /\ call' = [u \in Workers |-> call'[u]] /\ call'[w] = r
        /\ \A u \in Workers \ {w} : call'[u] = I!Touch(f, w)[u]
    BY <1>4 DEF I!Changed, I!Touch
  <2>2. \A u \in Workers \ {w} : IxTold(call[u], call'[u], f)
    BY <2>1 DEF I!Touch, IxTold
  <2>3. IxCallOk(call[w])'
    BY <2>1 DEF IxCallOk, IxFresh
  <2>4. ASSUME NEW u \in Workers \ {w}
        PROVE  /\ call'[u] \in IxCall /\ IxCallOk(call[u])' /\ call'[u].op = call[u].op
               /\ call'[u].file = call[u].file /\ call'[u].version = call[u].version
               /\ call'[u].todo = call[u].todo
    <3>1. PICK s, n : s = call[u] /\ n = call'[u]
      OBVIOUS
    <3>2. \E g \in Files : IxTold(s, n, g) /\ IxSame(g)
      BY <1>4, <2>2, <3>1
    <3> QED BY <1>2, <3>1, <3>2
  <2> QED BY <2>1, <2>3, <2>4 DEF IxCalls
<1> QED BY <1>3, <1>4

\* Another call than the writer moves: the open transaction is as it was.
LEMMA TheWriterStays ==
  ASSUME IxInv, NEW w \in Workers, writer # w, UNCHANGED <<db, writer, tx>>,
         \A u \in Workers \ {w} : /\ call'[u].op = call[u].op /\ call'[u].file = call[u].file
                                  /\ call'[u].version = call[u].version /\ call'[u].todo = call[u].todo
  PROVE  (writer # Nobody => IxOpen(writer))'
<1>1. CASE writer = Nobody
  BY <1>1
<1>2. CASE writer # Nobody
  <2>1. PICK u : u = writer
    OBVIOUS
  <2>2. u \in Workers \ {w} /\ IxOpen(u)
    BY <1>2, <2>1 DEF IxInv, IxOpen
  <2> QED BY <2>1, <2>2 DEF IxOpen
<1> QED BY <1>1, <1>2

\* Nothing changes but a call that does not write.
LEMMA OnlyACall ==
  ASSUME IxInv, NEW w \in Workers, NEW r, IxCallOk(r), call' = [call EXCEPT ![w] = r],
         UNCHANGED <<disk, db, writer, tx>>, writer # w, calls' \in Nat
  PROVE  IxInv'
<1>1. r \in IxCall /\ IxCallOk(r)'
  BY DEF IxCallOk, IxFresh
<1>2. /\ IxCalls'
      /\ \A u \in Workers \ {w} : /\ call'[u].op = call[u].op /\ call'[u].file = call[u].file
                                  /\ call'[u].version = call[u].version /\ call'[u].todo = call[u].todo
  BY <1>1, OneCallMoves DEF IxInv
<1>3. (writer # Nobody => IxOpen(writer))'
  BY <1>2, TheWriterStays
<1>4. IxStore'
  BY DEF IxInv, IxStore
<1> QED BY <1>2, <1>3, <1>4 DEF IxInv

\* The call as it is; the writer is at a file, and has it to do.
LEMMA TheCall ==
  ASSUME IxInv, NEW w \in Workers, NEW s, s = call[w]
  PROVE  /\ s \in IxCall /\ IxCallOk(s) /\ s.todo \subseteq Files /\ s.file \in Files \cup {0}
         /\ writer = w => s.file # 0 /\ s.op # "idle" /\ s.todo # {}
<1>1. s \in IxCall /\ IxCallOk(s)
  BY DEF IxInv, IxCalls
<1>2. s.todo \subseteq Files /\ s.file \in Files \cup {0}
  BY <1>1 DEF IxCall
<1>3. writer = w => s.file # 0 /\ s.op # "idle" /\ s.todo # {}
  BY StoresAssumption DEF I!KnowledgeAssumption, IxInv, IxOpen
<1> QED BY <1>1, <1>2, <1>3

\* What a call starts from.
LEMMA IdleCall ==
  ASSUME I!KnowledgeAssumption
  PROVE  /\ I!Idle \in IxCall /\ I!Idle.op = "idle" /\ I!Idle.file = 0 /\ I!Idle.ids = {}
         /\ I!Idle.todo = {} /\ I!Idle.touched = {}
         /\ IxCallOk(I!Idle) /\ IxCallOk(I!Idle)'
<1>1. I!Idle = [op |-> "idle", todo |-> {}, seen |-> [f \in Files |-> 0], file |-> 0,
                version |-> 0, ids |-> {}, physical |-> FALSE, touched |-> {}]
  BY DEF I!Idle, I!Absent, I!Outside
<1>2. 0 \in IxAt
  BY DEF IxAt
<1>3. I!Idle \in IxCall /\ I!Idle.op = "idle" /\ I!Idle.file = 0 /\ I!Idle.ids = {}
      /\ I!Idle.todo = {} /\ I!Idle.touched = {}
  BY <1>1, <1>2 DEF IxCall
<1> QED BY <1>3 DEF IxCallOk, IxFresh

\* index starts with the files that lie in the folder and the rows as they are.
LEMMA APassStarts ==
  ASSUME IxInv, NEW w \in Workers, I!StartIndex(w)
  PROVE  IxInv'
<1>1. PICK todo, seen : /\ todo = {f \in Glob : disk[f] # 0}
                        /\ seen = [f \in Files |-> db.rows[f].mtime]
  OBVIOUS
<1>2. seen \in [Files -> IxAt] /\ todo \subseteq Files
  <2>1. db.rows \in [Files -> IxRow]
    BY DEF IxInv, IxStore, IxAgrees, IxDb
  <2>2. \A f \in Files : db.rows[f].mtime \in IxAt
    BY <2>1 DEF IxRow
  <2> QED BY <1>1, <2>2, StoresAssumption DEF I!KnowledgeAssumption
<1>3. PICK r : r = [I!Idle EXCEPT !.op = "index", !.seen = seen, !.todo = todo]
  OBVIOUS
<1>4. r = [op |-> "index", todo |-> todo, seen |-> seen, file |-> 0, version |-> 0, ids |-> {},
           physical |-> FALSE, touched |-> {}]
  BY <1>3 DEF I!Idle, I!Absent, I!Outside
<1>5. r \in IxCall
  BY <1>2, <1>4 DEF IxCall, IxAt
<1>6. IxCallOk(r)
  <2>1. \A f \in Glob : f \in Files /\ f # 0
    BY StoresAssumption DEF I!KnowledgeAssumption
  <2>2. IxFresh(r)
    BY <1>1, <1>4, <2>1 DEF IxFresh
  <2> QED BY <1>4, <1>5, <2>2 DEF IxCallOk
<1>7. call' = [call EXCEPT ![w] = r] /\ UNCHANGED <<disk, db, writer, tx>> /\ calls' = calls + 1
  BY <1>1, <1>3 DEF I!StartIndex, I!Starting, I!Becomes, I!Absent
<1>8. writer # w
  BY TheCall DEF I!StartIndex, I!Starting
<1>9. calls' \in Nat
  BY <1>7 DEF IxInv, IxStore
<1> QED BY <1>6, <1>7, <1>8, <1>9, OnlyACall

\* ingest starts by copying the document, of which the other calls are told.
LEMMA AnIngestStarts ==
  ASSUME IxInv, NEW w \in Workers, I!StartIngest(w)
  PROVE  IxInv'
<1>1. PICK f \in Files, v \in I!Versions :
        /\ disk' = [disk EXCEPT ![f] = v]
        /\ I!Changed(f, w, [I!Idle EXCEPT !.op = "ingest", !.todo = {f}])
  BY DEF I!StartIngest
<1>2. PICK r : r = [I!Idle EXCEPT !.op = "ingest", !.todo = {f}]
  OBVIOUS
<1>3. r = [op |-> "ingest", todo |-> {f}, seen |-> [g \in Files |-> 0], file |-> 0, version |-> 0,
           ids |-> {}, physical |-> FALSE, touched |-> {}]
  BY <1>2 DEF I!Idle, I!Absent, I!Outside
<1>4. r \in IxCall
  BY <1>3 DEF IxCall, IxAt
<1>5. IxCallOk(r)'
  BY <1>3, <1>4 DEF IxCallOk, IxFresh
<1>6. UNCHANGED <<db, writer, tx>> /\ calls' = calls + 1
  BY DEF I!StartIngest, I!Starting
<1>7. IxSame(f)
  BY <1>1, <1>6 DEF IxSame, IxInv, IxStore
<1>8. /\ IxCalls'
      /\ \A u \in Workers \ {w} : /\ call'[u].op = call[u].op /\ call'[u].file = call[u].file
                                  /\ call'[u].version = call[u].version /\ call'[u].todo = call[u].todo
  BY <1>1, <1>2, <1>4, <1>5, <1>7, OneCallMoves DEF IxInv
<1>9. writer # w
  BY TheCall DEF I!StartIngest, I!Starting
<1>10. (writer # Nobody => IxOpen(writer))'
  BY <1>6, <1>8, <1>9, TheWriterStays
<1>11. IxStore'
  BY <1>1, <1>6 DEF IxInv, IxStore, IxAt
<1> QED BY <1>8, <1>10, <1>11 DEF IxInv

\* A deletion starts with a name that is in the index.
LEMMA ADeletionStarts ==
  ASSUME IxInv, NEW w \in Workers, I!StartDelete(w)
  PROVE  IxInv'
<1>1. PICK f \in Files, physical \in BOOLEAN :
        I!Becomes(w, [I!Idle EXCEPT !.op = "delete", !.todo = {f}, !.physical = physical])
  BY DEF I!StartDelete
<1>2. PICK r : r = [I!Idle EXCEPT !.op = "delete", !.todo = {f}, !.physical = physical]
  OBVIOUS
<1>3. r = [op |-> "delete", todo |-> {f}, seen |-> [g \in Files |-> 0], file |-> 0, version |-> 0,
           ids |-> {}, physical |-> physical, touched |-> {}]
  BY <1>2 DEF I!Idle, I!Absent, I!Outside
<1>4. r \in IxCall
  BY <1>3 DEF IxCall, IxAt
<1>5. IxCallOk(r)
  BY <1>3, <1>4 DEF IxCallOk, IxFresh
<1>6. UNCHANGED <<disk, db, writer, tx>> /\ calls' = calls + 1 /\ call' = [call EXCEPT ![w] = r]
  BY <1>1, <1>2 DEF I!StartDelete, I!Starting, I!Becomes
<1>7. writer # w
  BY TheCall DEF I!StartDelete, I!Starting
<1>8. calls' \in Nat
  BY <1>6 DEF IxInv, IxStore
<1> QED BY <1>5, <1>6, <1>7, <1>8, OnlyACall

\* A file of the pass is left behind.
LEMMA NextFileIsACall ==
  ASSUME NEW s \in IxCall, NEW f, NEW n, n = I!NextFile(s, f)
  PROVE  /\ n \in IxCall /\ n.op = s.op /\ n.todo = s.todo \ {f} /\ n.file = 0 /\ n.ids = {}
         /\ n.seen = s.seen /\ n.version = s.version /\ n.touched = s.touched
BY DEF I!NextFile, I!Outside, IxCall

\* A pass comes to a file: it is skipped, unreadable, or read with the ids of its chunks.
LEMMA APassGoesOn ==
  ASSUME IxInv, NEW w \in Workers, I!Pass(w)
  PROVE  IxInv'
<1>1. PICK s : s = call[w]
  OBVIOUS
<1>2. /\ s \in IxCall /\ IxCallOk(s) /\ s.todo \subseteq Files /\ s.file = 0 /\ writer # w
      /\ s.op \in {"index", "ingest"}
  BY <1>1, TheCall DEF I!Pass, I!Outside
<1>3. /\ UNCHANGED <<disk, db, writer, tx, calls>>
      /\ \E f \in I!First(s.todo) :
           \/ I!Skips(s, f) /\ I!Becomes(w, I!NextFile(s, f))
           \/ I!Becomes(w, [I!NextFile(s, f) EXCEPT !.touched = @ \cup {f}])
           \/ ~I!Skips(s, f) /\ I!Becomes(w, [s EXCEPT !.file = f, !.version = disk[f], !.ids = I!ChunksOf(db, f)])
  BY <1>1 DEF I!Pass
<1>4. PICK f \in I!First(s.todo) :
        \/ I!Skips(s, f) /\ I!Becomes(w, I!NextFile(s, f))
        \/ I!Becomes(w, [I!NextFile(s, f) EXCEPT !.touched = @ \cup {f}])
        \/ ~I!Skips(s, f) /\ I!Becomes(w, [s EXCEPT !.file = f, !.version = disk[f], !.ids = I!ChunksOf(db, f)])
  BY <1>3
<1>5. f \in s.todo /\ f \in Files /\ f # 0
  BY <1>2, StoresAssumption DEF I!First, I!KnowledgeAssumption
<1>6. calls' \in Nat
  BY <1>3 DEF IxInv, IxStore
<1>7. PICK m : m = I!NextFile(s, f)
  OBVIOUS
<1>8. /\ m \in IxCall /\ m.op = s.op /\ m.todo = s.todo \ {f} /\ m.file = 0 /\ m.ids = {}
      /\ m.seen = s.seen /\ m.version = s.version /\ m.touched = s.touched
  BY <1>2, <1>7, NextFileIsACall
<1>9. \A g \in Glob : g # 0 /\ g \in Files
  BY StoresAssumption DEF I!KnowledgeAssumption
<1>10. CASE I!Skips(s, f) /\ I!Becomes(w, I!NextFile(s, f))
  <2>1. disk[f] = 0 \/ (s.op = "index" /\ s.seen[f] = disk[f])
    BY <1>10 DEF I!Skips, I!Absent
  <2>2. IxFresh(m)
    <3>1. SUFFICES ASSUME s.op = "index", NEW g \in Glob \ s.touched
                   PROVE  /\ g \notin m.todo /\ disk[g] # 0 => db.rows[g].mtime = disk[g]
                          /\ g \in m.todo => s.seen[g] = db.rows[g].mtime
                          /\ g # 0
      BY <1>8, <1>9 DEF IxFresh
    <3>2. CASE g = f
      BY <1>2, <1>5, <1>8, <1>9, <2>1, <3>1, <3>2 DEF IxCallOk, IxFresh
    <3>3. CASE g # f
      BY <1>2, <1>8, <1>9, <3>1, <3>3 DEF IxCallOk, IxFresh
    <3> QED BY <3>2, <3>3
  <2>3. IxCallOk(m)
    BY <1>8, <2>2 DEF IxCallOk
  <2>4. call' = [call EXCEPT ![w] = m]
    BY <1>7, <1>10 DEF I!Becomes
  <2> QED BY <1>2, <1>3, <1>6, <2>3, <2>4, OnlyACall
<1>11. CASE I!Becomes(w, [I!NextFile(s, f) EXCEPT !.touched = @ \cup {f}])
  <2>1. PICK n : n = [m EXCEPT !.touched = m.touched \cup {f}]
    OBVIOUS
  <2>2. /\ n \in IxCall /\ n.op = s.op /\ n.todo = s.todo \ {f} /\ n.file = 0 /\ n.ids = {}
        /\ n.seen = s.seen /\ n.touched = s.touched \cup {f}
    BY <1>5, <1>8, <2>1 DEF IxCall
  <2>3. IxFresh(n)
    BY <1>2, <1>9, <2>2 DEF IxCallOk, IxFresh
  <2>4. IxCallOk(n)
    BY <2>2, <2>3 DEF IxCallOk
  <2>5. call' = [call EXCEPT ![w] = n]
    BY <1>7, <1>11, <2>1 DEF I!Becomes
  <2> QED BY <1>2, <1>3, <1>6, <2>4, <2>5, OnlyACall
<1>12. CASE ~I!Skips(s, f) /\ I!Becomes(w, [s EXCEPT !.file = f, !.version = disk[f], !.ids = I!ChunksOf(db, f)])
  <2>1. PICK v, ids : v = disk[f] /\ ids = I!ChunksOf(db, f)
    OBVIOUS
  <2>2. v \in IxAt /\ v # 0 /\ v \in I!Versions
    <3>1. v \in IxAt
      BY <1>5, <2>1 DEF IxInv, IxStore
    <3>2. v # 0
      BY <1>12, <2>1 DEF I!Skips, I!Absent
    <3> QED BY <3>1, <3>2 DEF IxAt
  <2>3. ids \subseteq IxChunk /\ \A c \in ids : c.file = f
    BY <2>1 DEF I!ChunksOf, IxInv, IxStore, IxAgrees, IxDb
  <2>4. PICK n : n = [s EXCEPT !.file = f, !.version = v, !.ids = ids]
    OBVIOUS
  <2>5. /\ n \in IxCall /\ n.op = s.op /\ n.todo = s.todo /\ n.file = f /\ n.ids = ids /\ n.version = v
        /\ n.seen = s.seen /\ n.touched = s.touched
    BY <1>2, <1>5, <2>2, <2>3, <2>4 DEF IxCall
  <2>6. IxFresh(n)
    BY <1>2, <2>1, <2>5 DEF IxCallOk, IxFresh
  <2>7. IxCallOk(n)
    BY <1>5, <2>2, <2>3, <2>5, <2>6 DEF IxCallOk
  <2>8. call' = [call EXCEPT ![w] = n]
    BY <1>12, <2>1, <2>4 DEF I!Becomes
  <2> QED BY <1>2, <1>3, <1>6, <2>7, <2>8, OnlyACall
<1> QED BY <1>4, <1>10, <1>11, <1>12

\* A deletion reads the ids of the chunks.
LEMMA TheIdsAreRead ==
  ASSUME IxInv, NEW w \in Workers, I!ReadIds(w)
  PROVE  IxInv'
<1>1. PICK s : s = call[w]
  OBVIOUS
<1>2. s \in IxCall /\ IxCallOk(s) /\ s.todo \subseteq Files /\ s.file = 0 /\ writer # w /\ s.op = "delete"
  BY <1>1, TheCall DEF I!ReadIds, I!Outside
<1>3. PICK f \in s.todo : I!Becomes(w, [call[w] EXCEPT !.file = f, !.ids = I!ChunksOf(db, f)])
  BY <1>1 DEF I!ReadIds
<1>4. PICK ids : ids = I!ChunksOf(db, f)
  OBVIOUS
<1>5. ids \subseteq IxChunk /\ \A c \in ids : c.file = f
  BY <1>4 DEF I!ChunksOf, IxInv, IxStore, IxAgrees, IxDb
<1>6. PICK n : n = [s EXCEPT !.file = f, !.ids = ids]
  OBVIOUS
<1>7. n \in IxCall /\ n.op = "delete" /\ n.file = f /\ n.ids = ids
  BY <1>2, <1>5, <1>6 DEF IxCall
<1>8. IxCallOk(n)
  BY <1>5, <1>7 DEF IxCallOk, IxFresh
<1>9. call' = [call EXCEPT ![w] = n] /\ UNCHANGED <<disk, db, writer, tx, calls>>
  BY <1>1, <1>3, <1>4, <1>6 DEF I!ReadIds, I!Becomes
<1>10. calls' \in Nat
  BY <1>9 DEF IxInv, IxStore
<1> QED BY <1>2, <1>8, <1>9, <1>10, OnlyACall

\* A transaction opens: what it sees agrees, and is of one file.
LEMMA ATransactionOpens ==
  ASSUME IxInv, NEW w \in Workers, I!WriteFile(w) \/ I!WriteDelete(w)
  PROVE  IxInv'
<1>1. PICK s : s = call[w]
  OBVIOUS
<1>2. /\ s \in IxCall /\ IxCallOk(s) /\ writer = Nobody /\ writer' = w /\ s.file \in Files
      /\ s.op # "idle" /\ UNCHANGED <<disk, db, call, calls>>
  BY <1>1, TheCall DEF I!WriteFile, I!WriteDelete, I!Outside
<1>3. IxAgrees(db) /\ \A c \in s.ids : c.file = s.file
  BY <1>2 DEF IxInv, IxStore, IxCallOk
<1>4. s.file # 0 /\ s.todo # {}
  <2>1. s.file # 0
    BY <1>2, StoresAssumption DEF I!KnowledgeAssumption
  <2>2. CASE I!WriteFile(w)
    <3>1. s.op \in {"index", "ingest"}
      BY <1>1, <2>2 DEF I!WriteFile
    <3> QED BY <1>2, <2>1, <3>1 DEF IxCallOk
  <2>3. CASE I!WriteDelete(w)
    BY <1>1, <2>1, <2>3 DEF I!WriteDelete
  <2> QED BY <2>1, <2>2, <2>3
<1>5. IxAgrees(tx') /\ (\A g \in Files \ {s.file} : tx'.rows[g] = db.rows[g])
      /\ (s.op \in {"index", "ingest"} => tx'.rows[s.file].mtime = s.version)
  <2>1. PICK d, f, ids, v : d = db /\ f = s.file /\ ids = s.ids /\ v = s.version
    OBVIOUS
  <2>2. CASE I!WriteFile(w)
    <3>1. s.op \in {"index", "ingest"} /\ v \in I!Versions
      <4>1. s.op \in {"index", "ingest"}
        BY <1>1, <2>2 DEF I!WriteFile
      <4> QED BY <1>2, <1>4, <2>1, <4>1 DEF IxCallOk
    <3>2. PICK embedded \in SUBSET I!Starts(v) :
            tx' = I!Filed(I!Wipe(d, f, ids), f, v,
                          {[file |-> f, version |-> v, at |-> i, by |-> calls, w |-> w] : i \in embedded})
      BY <1>1, <2>1, <2>2 DEF I!WriteFile
    <3>3. PICK by, kept, n : /\ by = calls /\ n = tx'
                             /\ kept = {[file |-> f, version |-> v, at |-> i, by |-> by, w |-> w] : i \in embedded}
      OBVIOUS
    <3>4. by \in Nat /\ IxAgrees(d) /\ f \in Files /\ \A c \in ids : c.file = f
      BY <1>2, <1>3, <2>1, <3>3 DEF IxInv, IxStore
    <3>5. n = I!Filed(I!Wipe(d, f, ids), f, v, kept)
      BY <3>2, <3>3
    <3>6. IxAgrees(n) /\ n.rows[f].mtime = v /\ \A g \in Files \ {f} : n.rows[g] = d.rows[g]
      <4>1. I!KnowledgeAssumption
        BY StoresAssumption
      <4>2. v \in I!Versions /\ w \in Workers /\ embedded \in SUBSET I!Starts(v)
        BY <3>1, <3>2
      <4>3. kept = IxKept(f, v, by, w, embedded)
        BY <3>3 DEF IxKept
      <4> QED BY <3>4, <3>5, <4>1, <4>2, <4>3, AFileIsFiled
    <3> QED BY <2>1, <3>3, <3>6 DEF IxAgrees
  <2>3. CASE I!WriteDelete(w)
    <3>1. PICK n : n = I!Unfiled(d, f, ids)
      OBVIOUS
    <3>2. IxAgrees(n) /\ \A g \in Files \ {f} : n.rows[g] = d.rows[g]
      BY <1>2, <1>3, <2>1, <3>1, AFileIsUnfiled, StoresAssumption
    <3>3. tx' = n /\ s.op = "delete"
      BY <1>1, <2>1, <2>3, <3>1 DEF I!WriteDelete
    <3> QED BY <2>1, <3>2, <3>3 DEF IxAgrees
  <2> QED BY <2>2, <2>3
<1>6. IxStore' /\ IxCalls'
  BY <1>2 DEF IxInv, IxStore, IxCalls, IxCallOk, IxFresh, IxAgrees
<1>7. IxOpen(writer)'
  BY <1>1, <1>2, <1>4, <1>5 DEF IxOpen, IxAgrees
<1> QED BY <1>6, <1>7 DEF IxInv

\* The transaction is committed: the pass leaves the file, the others are told of it.
LEMMA ATransactionIsCommitted ==
  ASSUME IxInv, NEW w \in Workers, I!Commit(w)
  PROVE  IxInv'
<1>1. PICK s, f : s = call[w] /\ f = s.file
  OBVIOUS
<1>2. writer = w /\ writer # Nobody
  BY StoresAssumption DEF I!Commit, I!KnowledgeAssumption
<1>3. IxOpen(w) /\ s \in IxCall /\ IxCallOk(s) /\ f \in Files /\ f # 0
  BY <1>1, <1>2, TheCall, StoresAssumption DEF IxInv, IxOpen, I!KnowledgeAssumption
<1>4. db' = tx /\ writer' = Nobody /\ UNCHANGED <<disk, calls>>
  BY DEF I!Commit
<1>5. PICK r : r = IF s.op = "delete" THEN [s EXCEPT !.todo = {}, !.version = 0] ELSE I!NextFile(s, f)
  OBVIOUS
<1>6. I!Changed(f, w, r)
  BY <1>1, <1>5 DEF I!Commit, I!Absent
<1>7. IxSame(f)
  BY <1>1, <1>3, <1>4 DEF IxSame, IxOpen
<1>8. r \in IxCall /\ IxCallOk(r)'
  <2>1. CASE s.op = "delete"
    <3>1. r \in IxCall /\ r.op = "delete" /\ r.ids = s.ids /\ r.file = s.file
      BY <1>3, <1>5, <2>1 DEF IxCall, IxAt
    <3> QED BY <1>3, <3>1 DEF IxCallOk, IxFresh
  <2>2. CASE s.op # "delete"
    <3>1. /\ r \in IxCall /\ r.op = s.op /\ r.todo = s.todo \ {f} /\ r.file = 0 /\ r.ids = {}
          /\ r.seen = s.seen /\ r.version = s.version /\ r.touched = s.touched
      BY <1>3, <1>5, <2>2, NextFileIsACall
    <3>2. s.op \in {"index", "ingest"}
      BY <1>1, <1>3, <2>2 DEF IxCall, IxOpen
    <3>3. db'.rows[f].mtime = s.version
      BY <1>1, <1>3, <1>4, <3>2 DEF IxOpen
    <3>4. IxFresh(r)'
      <4>1. SUFFICES ASSUME s.op = "index", NEW g \in Glob \ s.touched
                     PROVE  /\ g \notin r.todo /\ disk[g] # 0 => db'.rows[g].mtime = disk[g]
                            /\ g \in r.todo => s.seen[g] = db'.rows[g].mtime
                            /\ g # 0
        BY <1>4, <3>1 DEF IxFresh
      <4>2. g \in Files /\ g # 0
        BY StoresAssumption DEF I!KnowledgeAssumption
      <4>3. CASE g = f
        BY <1>1, <1>3, <3>1, <3>3, <4>1, <4>2, <4>3 DEF IxCallOk, IxFresh
      <4>4. CASE g # f
        <5>1. db'.rows[g].mtime = db.rows[g].mtime
          BY <1>7, <4>2, <4>4 DEF IxSame
        <5> QED BY <1>3, <3>1, <4>1, <4>2, <4>4, <5>1 DEF IxCallOk, IxFresh
      <4> QED BY <4>3, <4>4
    <3> QED BY <3>1, <3>4 DEF IxCallOk
  <2> QED BY <2>1, <2>2
<1>9. IxCalls'
  BY <1>3, <1>6, <1>7, <1>8, OneCallMoves DEF IxInv
<1>10. IxStore'
  BY <1>3, <1>4 DEF IxInv, IxStore, IxOpen, IxAgrees
<1> QED BY <1>4, <1>9, <1>10 DEF IxInv

\* A call is over.
LEMMA ACallIsOver ==
  ASSUME IxInv, NEW w \in Workers, I!EndPass(w)
  PROVE  IxInv'
<1>1. PICK r : r = I!Idle
  OBVIOUS
<1>2. call' = [call EXCEPT ![w] = r] /\ UNCHANGED <<disk, db, writer, tx, calls>>
  BY <1>1 DEF I!EndPass, I!Becomes
<1>3. writer # w
  BY TheCall DEF I!EndPass
<1>4. IxCallOk(r) /\ calls' \in Nat
  BY <1>1, <1>2, IdleCall, StoresAssumption DEF IxInv, IxStore
<1> QED BY <1>2, <1>3, <1>4, OnlyACall

\* A call fails: its transaction is rolled back.
LEMMA ACallFails ==
  ASSUME IxInv, NEW w \in Workers, I!Fail(w)
  PROVE  IxInv'
<1>1. PICK r : r = I!Idle
  OBVIOUS
<1>2. call' = [call EXCEPT ![w] = r] /\ UNCHANGED <<disk, db, calls>>
  BY <1>1 DEF I!Fail, I!Becomes
<1>3. r \in IxCall /\ IxCallOk(r) /\ IxCallOk(r)' /\ calls' \in Nat
  BY <1>1, <1>2, IdleCall, StoresAssumption DEF IxInv, IxStore
<1>4. CASE writer # w
  <2>1. UNCHANGED <<writer, tx>>
    BY <1>4 DEF I!Fail
  <2> QED BY <1>2, <1>3, <1>4, <2>1, OnlyACall
<1>5. CASE writer = w
  <2>1. writer' = Nobody
    BY <1>5 DEF I!Fail
  <2>2. IxCalls'
    BY <1>2, <1>3, OneCallMoves DEF IxInv
  <2>3. IxStore'
    BY <1>2 DEF IxInv, IxStore, IxAgrees
  <2> QED BY <2>1, <2>2, <2>3 DEF IxInv
<1> QED BY <1>4, <1>5

\* The file goes, and the others are told, or it stays.
LEMMA TheFileGoes ==
  ASSUME IxInv, NEW w \in Workers, I!Unlink(w)
  PROVE  IxInv'
<1>1. PICK s, r, f : s = call[w] /\ r = I!Idle /\ f = s.file
  OBVIOUS
<1>2. UNCHANGED <<db, writer, tx, calls>> /\ f \in Files /\ writer # w
  BY <1>1, TheCall DEF I!Unlink, I!Outside
<1>3. r \in IxCall /\ IxCallOk(r) /\ IxCallOk(r)' /\ calls' \in Nat
  BY <1>1, <1>2, IdleCall, StoresAssumption DEF IxInv, IxStore
<1>4. CASE I!Becomes(w, I!Idle) /\ UNCHANGED disk
  <2>1. call' = [call EXCEPT ![w] = r]
    BY <1>1, <1>4 DEF I!Becomes
  <2> QED BY <1>2, <1>3, <1>4, <2>1, OnlyACall
<1>5. CASE disk' = [disk EXCEPT ![f] = 0] /\ I!Changed(f, w, r)
  <2>1. IxSame(f)
    BY <1>2, <1>5 DEF IxSame, IxInv, IxStore
  <2>2. /\ IxCalls'
        /\ \A u \in Workers \ {w} : /\ call'[u].op = call[u].op /\ call'[u].file = call[u].file
                                    /\ call'[u].version = call[u].version /\ call'[u].todo = call[u].todo
    BY <1>2, <1>3, <1>5, <2>1, OneCallMoves DEF IxInv
  <2>3. (writer # Nobody => IxOpen(writer))'
    BY <1>2, <2>2, TheWriterStays
  <2>4. IxStore'
    BY <1>2, <1>5 DEF IxInv, IxStore, IxAt
  <2> QED BY <2>2, <2>3, <2>4 DEF IxInv
<1> QED BY <1>1, <1>4, <1>5 DEF I!Unlink, I!Absent

\* The owner of the folder changes a file: every call is told.
LEMMA AFileChanges ==
  ASSUME IxInv, I!Change
  PROVE  IxInv'
<1>1. PICK f \in Files, v \in {0} \cup I!Versions :
        disk' = [disk EXCEPT ![f] = v] /\ call' = I!Touch(f, Nobody)
  BY DEF I!Change, I!Absent
<1>2. UNCHANGED <<db, writer, tx, calls>>
  BY DEF I!Change
<1>3. IxSame(f)
  BY <1>1, <1>2 DEF IxSame, IxInv, IxStore
<1>4. ASSUME NEW u \in Workers
      PROVE  /\ call'[u] \in IxCall /\ IxCallOk(call[u])' /\ call'[u].op = call[u].op
             /\ call'[u].file = call[u].file /\ call'[u].version = call[u].version
             /\ call'[u].todo = call[u].todo
  <2>1. PICK s, n : s = call[u] /\ n = call'[u]
    OBVIOUS
  <2>2. u # Nobody
    BY StoresAssumption DEF I!KnowledgeAssumption
  <2>3. IxTold(s, n, f) /\ IxCallOk(s)
    BY <1>1, <2>1, <2>2 DEF I!Touch, IxTold, IxInv, IxCalls
  <2>4. \E g \in Files : IxTold(s, n, g) /\ IxSame(g)
    BY <1>3, <2>3
  <2>5. IxCallOk(n)' /\ n.op = s.op /\ n.file = s.file /\ n.version = s.version /\ n.todo = s.todo
    BY <2>3, <2>4, ACallWaits
  <2> QED BY <2>1, <2>5 DEF IxCallOk, IxFresh
<1>5. IxCalls'
  <2>1. call' = [u \in Workers |-> call'[u]]
    BY <1>1 DEF I!Touch
  <2> QED BY <1>4, <2>1 DEF IxCalls
<1>6. IxStore'
  BY <1>1, <1>2 DEF IxInv, IxStore, IxAt
<1>7. (writer # Nobody => IxOpen(writer))'
  <2>1. CASE writer = Nobody
    BY <1>2, <2>1
  <2>2. CASE writer # Nobody
    <3>1. PICK u : u = writer
      OBVIOUS
    <3>2. u \in Workers /\ IxOpen(u)
      BY <2>2, <3>1 DEF IxInv, IxOpen
    <3> QED BY <1>2, <1>4, <3>1, <3>2 DEF IxOpen
  <2> QED BY <2>1, <2>2
<1> QED BY <1>5, <1>6, <1>7 DEF IxInv

\* The index begins empty.
LEMMA IxInit ==
  ASSUME I!Init
  PROVE  IxInv
<1>1. /\ disk \in [Files -> {0, 1}] /\ db = I!EmptyDb /\ writer = Nobody /\ calls = 0
      /\ call = [w \in Workers |-> I!Idle]
      /\ \A f \in Files : disk[f] = 0 \/ disk[f] = 1
  BY DEF I!Init, I!Absent
<1>2. IxAgrees(db)
  <2>1. PICK row : row = I!NoRow
    OBVIOUS
  <2>2. row \in IxRow /\ row.count = 0
    <3>1. 0 \in Nat
      OBVIOUS
    <3> QED BY <2>1, <3>1 DEF I!NoRow, I!Absent, IxRow, IxAt
  <2>3. db = [chunks |-> {}, vectors |-> {}, rows |-> [f \in Files |-> row]]
    BY <1>1, <2>1 DEF I!EmptyDb
  <2>4. db.chunks = {} /\ db.vectors = {} /\ db.rows = [f \in Files |-> row]
    BY <2>3
  <2>5. db \in IxDb
    BY <2>2, <2>3 DEF IxDb
  <2>6. \A f \in Files : I!ChunksOf(db, f) = {}
    BY <2>4 DEF I!ChunksOf
  <2>7. I!Cardinality({}) = 0
    BY FS_EmptySet DEF I!Cardinality, Cardinality
  <2> QED BY <2>1, <2>2, <2>4, <2>5, <2>6, <2>7 DEF IxAgrees
<1>3. disk \in [Files -> IxAt]
  <2>1. 1 \in I!Versions
    BY StoresAssumption DEF I!Versions, I!KnowledgeAssumption
  <2>2. {0, 1} \subseteq IxAt
    BY <2>1 DEF IxAt
  <2> QED BY <1>1, <2>2
<1>4. IxCalls
  <2>1. I!Idle \in IxCall /\ IxCallOk(I!Idle)
    BY IdleCall, StoresAssumption
  <2> QED BY <1>1, <2>1 DEF IxCalls
<1> QED BY <1>1, <1>2, <1>3, <1>4 DEF IxInv, IxStore

\* Every step keeps it.
LEMMA IxStep ==
  ASSUME IxInv, I!Next \/ UNCHANGED I!vars
  PROVE  IxInv'
<1>1. ASSUME UNCHANGED <<disk, db, writer, tx, call, calls>>
      PROVE  IxInv'
  BY <1>1 DEF IxInv, IxStore, IxCalls, IxCallOk, IxFresh, IxOpen, IxAgrees
<1>2. CASE I!Rebuild \/ I!Search \/ UNCHANGED I!vars
  BY <1>1, <1>2 DEF I!Rebuild, I!Search, I!vars
<1> QED BY <1>2, APassStarts, AnIngestStarts, ADeletionStarts, APassGoesOn, TheIdsAreRead,
        ATransactionOpens, ATransactionIsCommitted, ACallIsOver, ACallFails, TheFileGoes, AFileChanges
        DEF I!Next, I!Manage

\* When the subject is the index, it moves as KnowledgeIndex says.
LEMMA IxMoves ==
  ASSUME [Next]_vars
  PROVE  subject' = subject /\ (subject = "index" => I!Next \/ UNCHANGED I!vars)
BY OneSubject DEF Next, vars, OfIndex, I!vars

\* A pass that ends left the folder as it lies there.
LEMMA APassEndsFresh ==
  ASSUME IxInv
  PROVE  I!IndexIsFresh
<1>1. ASSUME NEW w \in Workers, call[w].op = "index", call[w].todo = {},
             NEW f \in Glob \ call[w].touched, disk[f] # 0
      PROVE  db.rows[f].mtime = disk[f]
  BY <1>1 DEF IxInv, IxCalls, IxCallOk, IxFresh
<1> QED BY <1>1 DEF I!IndexIsFresh, I!Absent

\* The three tables of the index agree after every commit of any calls at the same time, and a
\* pass that ends leaves the version that lies in the folder, for any documents, windows, calls and
\* changes of the folder (document_knowledge_source.py).
THEOREM TheIndexIsRight ==
  Spec => IndexHolds
<1> DEFINE J == subject = "index" => IxInv
<1>1. Init => J
  BY IxInit DEF Init
<1>2. J /\ [Next]_vars => J'
  BY IxMoves, IxStep
<1>3. J => (subject = "index" => I!TablesAgree)
  BY AgreementIsKept, StoresAssumption DEF IxInv, IxStore
<1>4. J => (subject = "index" => I!IndexIsFresh)
  BY APassEndsFresh
<1>5. J /\ [Next]_vars => [subject = "index" => I!IndexIsFresh]_vars
  BY <1>4
<1> QED BY <1>1, <1>2, <1>3, <1>5, PTL DEF Spec, IndexHolds

-----------------------------------------------------------------------------
\* The registry: its persons, whose face an embedding is, and the points of the index.
FcCategories == {None, "ignorada"}
FcPerson == [categoria : FcCategories, count : Nat]
FcRows(R, p) == {e \in DOMAIN R : R[e] = p}
FcAgrees(P, R, V, n) ==
  /\ n \in 0 .. MaxEnrolled /\ DOMAIN P \subseteq 1 .. n /\ P \in [DOMAIN P -> FcPerson]
  /\ DOMAIN R \subseteq 1 .. n /\ R \in [DOMAIN R -> DOMAIN P] /\ V \in [DOMAIN R -> Points]
  /\ \A p \in DOMAIN P : FcRows(R, p) # {} /\ P[p].count = F!Cardinality(FcRows(R, p))

\* The photos, and what has been found on them.
FcFaces == UNION {[1 .. n -> Points] : n \in 1 .. MaxFaces}
FcPhoto == [chat : Chats, faces : FcFaces]
FcMatch == [status : {"matched", "ambiguous", "unknown"}, categoria : FcCategories]
FcPhotos ==
  /\ photos \in Seq(FcPhoto) /\ look \in Seq(Seq(FcMatch)) /\ Len(look) = Len(photos)
  /\ metadata \subseteq 1 .. Len(photos)

\* What a tool checked still holds when it writes.
FcChecked(c) ==
  \/ /\ c.op = "add" /\ c.person \in DOMAIN persons /\ c.ref[1] \in metadata
     /\ c.ref[2] \in DOMAIN photos[c.ref[1]].faces
  \/ c.op = "forget" /\ c.person \in DOMAIN persons /\ c.embs = FcRows(rows, c.person)
  \/ /\ c.op = "merge" /\ c.person \in DOMAIN persons /\ c.target \in DOMAIN persons
     /\ c.person # c.target
FcTurns == DOMAIN turn = FaceTurns /\ \A t \in FaceTurns : turn[t] = None \/ FcChecked(turn[t])
FcInv == FcAgrees(persons, rows, vecs, enrolled) /\ FcPhotos /\ FcTurns

\* The embeddings of a person are finitely many.
LEMMA RowsAreFinite ==
  ASSUME NEW n \in Nat, NEW R, DOMAIN R \subseteq 1 .. n, NEW p
  PROVE  IsFiniteSet(FcRows(R, p)) /\ F!Cardinality(FcRows(R, p)) \in Nat
<1>1. 1 \in Int /\ n \in Int
  OBVIOUS
<1>2. IsFiniteSet(1 .. n)
  BY <1>1, FS_Interval
<1>3. FcRows(R, p) \in SUBSET (1 .. n)
  BY DEF FcRows
<1>4. IsFiniteSet(FcRows(R, p))
  BY <1>2, <1>3, FS_Subset
<1> QED BY <1>4, FS_CardinalityType DEF F!Cardinality, Cardinality

\* A new person with the embedding of a face.
LEMMA APersonIsNew ==
  ASSUME F!FaceRegistryAssumption, NEW P, NEW R, NEW V, NEW n, FcAgrees(P, R, V, n), NEW i, i = n + 1,
         i <= MaxEnrolled, NEW x \in Points, NEW r \in FcPerson, r.count = 1,
         NEW P2, P2 = F!With(P, i, r), NEW R2, R2 = F!With(R, i, i), NEW V2, V2 = F!With(V, i, x)
  PROVE  FcAgrees(P2, R2, V2, i)
<1>1. /\ n \in Nat /\ i \in 1 .. MaxEnrolled /\ MaxEnrolled \in Nat /\ i \notin 1 .. n
      /\ 1 .. n \subseteq 1 .. i
  BY DEF FcAgrees, F!FaceRegistryAssumption
<1>2. /\ DOMAIN P2 = DOMAIN P \cup {i} /\ DOMAIN R2 = DOMAIN R \cup {i} /\ DOMAIN V2 = DOMAIN R2
      /\ i \notin DOMAIN P /\ i \notin DOMAIN R /\ DOMAIN P \subseteq 1 .. i /\ DOMAIN R \subseteq 1 .. i
  BY <1>1 DEF FcAgrees, F!With
<1>3. /\ P2[i] = r /\ R2[i] = i /\ V2[i] = x
      /\ \A p \in DOMAIN P : P2[p] = P[p] /\ P2[p] \in FcPerson
      /\ \A e \in DOMAIN R : R2[e] = R[e] /\ R[e] \in DOMAIN P /\ V2[e] = V[e] /\ V[e] \in Points
  BY <1>1, <1>2 DEF FcAgrees, F!With
<1>4. P2 \in [DOMAIN P2 -> FcPerson] /\ R2 \in [DOMAIN R2 -> DOMAIN P2] /\ V2 \in [DOMAIN R2 -> Points]
  <2>1. /\ P2 = [y \in DOMAIN P2 |-> P2[y]] /\ R2 = [y \in DOMAIN R2 |-> R2[y]]
        /\ V2 = [y \in DOMAIN R2 |-> V2[y]]
    BY <1>2 DEF F!With
  <2> QED BY <1>2, <1>3, <2>1
<1>5. FcRows(R2, i) = {i}
  BY <1>2, <1>3 DEF FcRows
<1>6. F!Cardinality({i}) = 1
  BY FS_Singleton DEF F!Cardinality, Cardinality
<1>7. \A p \in DOMAIN P : FcRows(R2, p) = FcRows(R, p)
  BY <1>2, <1>3 DEF FcRows
<1>8. \A p \in DOMAIN P2 : FcRows(R2, p) # {} /\ P2[p].count = F!Cardinality(FcRows(R2, p))
  BY <1>2, <1>3, <1>5, <1>6, <1>7 DEF FcAgrees
<1>9. i \in 0 .. MaxEnrolled /\ DOMAIN P2 \subseteq 1 .. i /\ DOMAIN R2 \subseteq 1 .. i
  BY <1>1, <1>2
<1> QED BY <1>4, <1>8, <1>9 DEF FcAgrees

\* One embedding more of a person.
LEMMA AnEmbeddingIsAdded ==
  ASSUME F!FaceRegistryAssumption, NEW P, NEW R, NEW V, NEW n, FcAgrees(P, R, V, n), NEW i, i = n + 1,
         i <= MaxEnrolled, NEW x \in Points, NEW p \in DOMAIN P,
         NEW P2, P2 = [P EXCEPT ![p].count = @ + 1], NEW R2, R2 = F!With(R, i, p),
         NEW V2, V2 = F!With(V, i, x)
  PROVE  FcAgrees(P2, R2, V2, i)
<1>1. /\ n \in Nat /\ i \in 1 .. MaxEnrolled /\ MaxEnrolled \in Nat /\ i \notin 1 .. n
      /\ 1 .. n \subseteq 1 .. i
  BY DEF FcAgrees, F!FaceRegistryAssumption
<1>2. PICK k \in Nat : k = P[p].count /\ k = F!Cardinality(FcRows(R, p))
  BY DEF FcAgrees, FcPerson
<1>3. PICK r : r = [P[p] EXCEPT !.count = k + 1]
  OBVIOUS
<1>4. r \in FcPerson /\ r.count = k + 1
  BY <1>3 DEF FcAgrees, FcPerson
<1>5. P2 = [P EXCEPT ![p] = r]
  BY <1>2, <1>3
<1>6. /\ DOMAIN P2 = DOMAIN P /\ DOMAIN R2 = DOMAIN R \cup {i} /\ DOMAIN V2 = DOMAIN R2
      /\ i \notin DOMAIN R /\ DOMAIN P \subseteq 1 .. i /\ DOMAIN R \subseteq 1 .. i
  BY <1>1, <1>5 DEF FcAgrees, F!With
<1>7. /\ P2[p] = r /\ R2[i] = p /\ V2[i] = x
      /\ \A q \in DOMAIN P : q # p => P2[q] = P[q] /\ P2[q] \in FcPerson
      /\ \A e \in DOMAIN R : R2[e] = R[e] /\ R[e] \in DOMAIN P /\ V2[e] = V[e] /\ V[e] \in Points
  BY <1>5, <1>6 DEF FcAgrees, F!With
<1>8. P2 \in [DOMAIN P2 -> FcPerson] /\ R2 \in [DOMAIN R2 -> DOMAIN P2] /\ V2 \in [DOMAIN R2 -> Points]
  <2>1. R2 = [y \in DOMAIN R2 |-> R2[y]] /\ V2 = [y \in DOMAIN R2 |-> V2[y]]
    BY <1>6 DEF F!With
  <2>2. P2 \in [DOMAIN P2 -> FcPerson]
    BY <1>4, <1>5 DEF FcAgrees
  <2> QED BY <1>6, <1>7, <2>1, <2>2
<1>9. FcRows(R2, p) = FcRows(R, p) \cup {i} /\ i \notin FcRows(R, p)
  BY <1>6, <1>7 DEF FcRows
<1>10. F!Cardinality(FcRows(R, p) \cup {i}) = k + 1
  <2>1. IsFiniteSet(FcRows(R, p))
    BY <1>1, RowsAreFinite DEF FcAgrees
  <2>2. Cardinality(FcRows(R, p)) = k
    BY <1>2 DEF F!Cardinality, Cardinality
  <2>3. Cardinality(FcRows(R, p) \cup {i}) = k + 1
    BY <1>9, <2>1, <2>2, FS_AddElement
  <2> QED BY <2>3 DEF F!Cardinality, Cardinality
<1>11. \A q \in DOMAIN P : q # p => FcRows(R2, q) = FcRows(R, q)
  BY <1>6, <1>7 DEF FcRows
<1>12. \A q \in DOMAIN P2 : FcRows(R2, q) # {} /\ P2[q].count = F!Cardinality(FcRows(R2, q))
  <2>1. FcRows(R2, p) # {} /\ P2[p].count = F!Cardinality(FcRows(R2, p))
    BY <1>4, <1>7, <1>9, <1>10
  <2>2. ASSUME NEW q \in DOMAIN P, q # p
        PROVE  FcRows(R2, q) # {} /\ P2[q].count = F!Cardinality(FcRows(R2, q))
    BY <1>7, <1>11, <2>2 DEF FcAgrees
  <2> QED BY <1>6, <2>1, <2>2
<1>13. i \in 0 .. MaxEnrolled /\ DOMAIN P2 \subseteq 1 .. i /\ DOMAIN R2 \subseteq 1 .. i
  BY <1>1, <1>6
<1> QED BY <1>8, <1>12, <1>13 DEF FcAgrees

\* A person goes, with the embeddings.
LEMMA APersonIsForgotten ==
  ASSUME NEW P, NEW R, NEW V, NEW n, FcAgrees(P, R, V, n), NEW p \in DOMAIN P,
         NEW P2, P2 = F!Without(P, {p}), NEW R2, R2 = F!Without(R, FcRows(R, p)),
         NEW V2, V2 = F!Without(V, FcRows(R, p))
  PROVE  FcAgrees(P2, R2, V2, n)
<1>1. /\ DOMAIN P2 = DOMAIN P \ {p} /\ DOMAIN R2 = DOMAIN R \ FcRows(R, p) /\ DOMAIN V2 = DOMAIN R2
      /\ \A q \in DOMAIN P2 : P2[q] = P[q] /\ P2[q] \in FcPerson
      /\ \A e \in DOMAIN R2 : R2[e] = R[e] /\ V2[e] = V[e] /\ V[e] \in Points
  BY DEF FcAgrees, F!Without, F!Restrict
<1>2. \A e \in DOMAIN R2 : R2[e] \in DOMAIN P2
  BY <1>1 DEF FcAgrees, FcRows
<1>3. /\ P2 = [y \in DOMAIN P2 |-> P2[y]] /\ R2 = [y \in DOMAIN R2 |-> R2[y]]
      /\ V2 = [y \in DOMAIN R2 |-> V2[y]]
  BY <1>1 DEF F!Without, F!Restrict
<1>4. P2 \in [DOMAIN P2 -> FcPerson] /\ R2 \in [DOMAIN R2 -> DOMAIN P2] /\ V2 \in [DOMAIN R2 -> Points]
  BY <1>1, <1>2, <1>3
<1>5. ASSUME NEW q \in DOMAIN P2
      PROVE  FcRows(R2, q) = FcRows(R, q)
  <2>1. q # p
    BY <1>1
  <2>2. \A y : y \in FcRows(R2, q) <=> y \in FcRows(R, q)
    BY <1>1, <2>1 DEF FcRows
  <2> QED BY <2>2
<1> QED BY <1>1, <1>4, <1>5 DEF FcAgrees

\* The embeddings of one person become those of another.
LEMMA PersonsAreMerged ==
  ASSUME NEW P, NEW R, NEW V, NEW n, FcAgrees(P, R, V, n), F!FaceRegistryAssumption,
         NEW s \in DOMAIN P, NEW d \in DOMAIN P, s # d,
         NEW total, total = F!Cardinality(FcRows(R, s) \cup FcRows(R, d)),
         NEW P1, P1 = [p \in DOMAIN P |-> IF p = d THEN [P[p] EXCEPT !.count = total] ELSE P[p]],
         NEW P2, P2 = F!Without(P1, {s}),
         NEW R2, R2 = [e \in DOMAIN R |-> IF R[e] = s THEN d ELSE R[e]]
  PROVE  FcAgrees(P2, R2, V, n)
<1>1. n \in Nat
  BY DEF FcAgrees, F!FaceRegistryAssumption
<1>2. total \in Nat
  <2>1. IsFiniteSet(FcRows(R, s)) /\ IsFiniteSet(FcRows(R, d))
    BY <1>1, RowsAreFinite DEF FcAgrees
  <2>2. IsFiniteSet(FcRows(R, s) \cup FcRows(R, d))
    BY <2>1, FS_Union
  <2> QED BY <2>2, FS_CardinalityType DEF F!Cardinality, Cardinality
<1>3. PICK r : r = [P[d] EXCEPT !.count = total]
  OBVIOUS
<1>4. r \in FcPerson /\ r.count = total
  BY <1>2, <1>3 DEF FcAgrees, FcPerson
<1>5. /\ DOMAIN P2 = DOMAIN P \ {s} /\ P2[d] = r /\ d \in DOMAIN P2
      /\ \A q \in DOMAIN P2 : q # d => P2[q] = P[q] /\ P2[q] \in FcPerson
  BY <1>3 DEF FcAgrees, F!Without, F!Restrict
<1>6. /\ DOMAIN R2 = DOMAIN R /\ \A e \in DOMAIN R : R2[e] \in DOMAIN P2
  BY <1>5 DEF FcAgrees
<1>7. P2 \in [DOMAIN P2 -> FcPerson] /\ R2 \in [DOMAIN R2 -> DOMAIN P2] /\ V \in [DOMAIN R2 -> Points]
  <2>1. P2 = [y \in DOMAIN P2 |-> P2[y]]
    BY <1>5 DEF F!Without, F!Restrict
  <2> QED BY <1>4, <1>5, <1>6, <2>1 DEF FcAgrees
<1>8. FcRows(R2, d) = FcRows(R, s) \cup FcRows(R, d)
  BY <1>6 DEF FcRows
<1>9. \A q \in DOMAIN P2 : q # d => FcRows(R2, q) = FcRows(R, q)
  BY <1>5, <1>6 DEF FcRows
<1>10. \A q \in DOMAIN P2 : FcRows(R2, q) # {} /\ P2[q].count = F!Cardinality(FcRows(R2, q))
  BY <1>4, <1>5, <1>8, <1>9 DEF FcAgrees
<1> QED BY <1>5, <1>6, <1>7, <1>10 DEF FcAgrees

\* Every candidate for the face of an embedding is as near as itself.
LEMMA AKnownFaceIsMatched ==
  ASSUME F!FaceRegistryAssumption, FcAgrees(persons, rows, vecs, enrolled), NEW e \in DOMAIN rows,
         NEW m \in F!Matches(vecs[e])
  PROVE  m.status = "matched"
<1>1. PICK x \in Points : x = vecs[e]
  BY DEF FcAgrees
<1>2. DOMAIN vecs = DOMAIN rows /\ \A f \in DOMAIN vecs : vecs[f] \in Nat
  BY DEF FcAgrees, F!FaceRegistryAssumption
<1>3. PICK N \in F!Nearest(x) :
        m \in (IF F!Known(N) = {} THEN {F!Stranger} ELSE {F!Seen(f, x) : f \in F!Closest(F!Known(N), x)})
  BY <1>1 DEF F!Matches
<1>4. PICK D, k : D = DOMAIN vecs /\ k = F!Min({K, F!Cardinality(D)})
  OBVIOUS
<1>5. /\ N \in SUBSET D /\ F!Cardinality(N) = k
      /\ \A f \in N, g \in D \ N : F!Distance(vecs[f], x) <= F!Distance(vecs[g], x)
  BY <1>3, <1>4 DEF F!Nearest, F!kSubset
<1>6. k \in Nat /\ k # 0
  <2>1. PICK n : n = F!Cardinality(D)
    OBVIOUS
  <2>2. n \in Nat /\ n # 0
    <3>1. enrolled \in Nat
      BY DEF FcAgrees, F!FaceRegistryAssumption
    <3>2. 1 \in Int /\ enrolled \in Int
      BY <3>1
    <3>3. IsFiniteSet(1 .. enrolled)
      BY <3>2, FS_Interval
    <3>4. D \in SUBSET (1 .. enrolled)
      BY <1>2, <1>4 DEF FcAgrees
    <3>5. IsFiniteSet(D)
      BY <3>3, <3>4, FS_Subset
    <3>6. e \in D
      BY <1>2, <1>4
    <3>7. Cardinality(D) \in Nat /\ Cardinality(D) # 0
      BY <3>5, <3>6, FS_CardinalityType, FS_EmptySet
    <3> QED BY <2>1, <3>7 DEF F!Cardinality, Cardinality
  <2>3. K \in Nat \ {0}
    BY DEF F!FaceRegistryAssumption
  <2>4. \E y \in {K, n} : \A z \in {K, n} : y <= z
    BY <2>2, <2>3
  <2>5. F!Min({K, n}) \in {K, n}
    BY <2>4 DEF F!Min
  <2> QED BY <1>4, <2>1, <2>2, <2>3, <2>5
<1>7. N # {}
  <2>1. F!Cardinality({}) = 0
    BY FS_EmptySet DEF F!Cardinality, Cardinality
  <2> QED BY <1>5, <1>6, <2>1
<1>8. F!Known(N) = N
  BY <1>2, <1>4, <1>5 DEF F!Known, FcAgrees
<1>9. PICK f \in F!Closest(N, x) : m = F!Seen(f, x)
  BY <1>3, <1>7, <1>8
<1>10. f \in N /\ \A g \in N : F!Distance(vecs[f], x) <= F!Distance(vecs[g], x)
  BY <1>9 DEF F!Closest
<1>11. F!Distance(x, x) = 0 /\ \A g \in D : F!Distance(vecs[g], x) \in Nat
  BY <1>1, <1>2, <1>4 DEF F!Distance, F!FaceRegistryAssumption
<1>12. F!Distance(vecs[f], x) = 0
  <2>1. CASE e \in N
    BY <1>1, <1>5, <1>10, <1>11, <2>1
  <2>2. CASE e \notin N
    BY <1>1, <1>2, <1>4, <1>5, <1>10, <1>11, <2>2
  <2> QED BY <2>1, <2>2
<1>13. F!Status(0) = "matched"
  BY DEF F!Status, F!FaceRegistryAssumption
<1> QED BY <1>9, <1>12, <1>13 DEF F!Seen

\* A photo arrives, and what is known of the others stays.
LEMMA APhotoArrives ==
  ASSUME FcInv, NEW c \in Chats, NEW faces \in FcFaces, F!PhotoArrives(c, faces)
  PROVE  FcInv'
<1>1. PICK photo \in FcPhoto : photo = [chat |-> c, faces |-> faces]
  BY DEF FcPhoto
<1>2. <<>> \in Seq(FcMatch)
  OBVIOUS
<1>3. PICK ph, lk, ph2, lk2 : ph = photos /\ lk = look /\ ph2 = photos' /\ lk2 = look'
  OBVIOUS
<1>4. /\ ph \in Seq(FcPhoto) /\ lk \in Seq(Seq(FcMatch)) /\ Len(lk) = Len(ph)
      /\ ph2 = Append(ph, photo) /\ lk2 = Append(lk, <<>>)
  BY <1>1, <1>3 DEF FcInv, FcPhotos, F!PhotoArrives
<1>5. /\ ph2 \in Seq(FcPhoto) /\ Len(ph2) = Len(ph) + 1 /\ Len(ph) \in Nat
      /\ \A i \in 1 .. Len(ph) : ph2[i] = ph[i]
  BY <1>4
<1>6. lk2 \in Seq(Seq(FcMatch)) /\ Len(lk2) = Len(ph2)
  BY <1>2, <1>4, <1>5
<1>7. 1 .. Len(ph) \subseteq 1 .. Len(ph2)
  BY <1>5
<1>8. UNCHANGED <<persons, rows, vecs, metadata, turn, enrolled>>
  BY DEF F!PhotoArrives, F!registry
<1>9. FcPhotos'
  BY <1>3, <1>5, <1>6, <1>7, <1>8 DEF FcInv, FcPhotos
<1>10. \A i \in metadata : photos'[i] = photos[i]
  BY <1>3, <1>5 DEF FcInv, FcPhotos
<1>11. FcTurns'
  BY <1>8, <1>10 DEF FcInv, FcTurns, FcChecked
<1> QED BY <1>8, <1>9, <1>11 DEF FcInv

\* What a face is matched with is a status and the category of a person, if any.
LEMMA AMatchIsARecord ==
  ASSUME FcAgrees(persons, rows, vecs, enrolled), NEW x, NEW m \in F!Matches(x)
  PROVE  m \in FcMatch
<1>1. PICK N \in F!Nearest(x) :
        m \in (IF F!Known(N) = {} THEN {F!Stranger} ELSE {F!Seen(f, x) : f \in F!Closest(F!Known(N), x)})
  BY DEF F!Matches
<1>2. CASE m = F!Stranger
  BY <1>2 DEF F!Stranger, FcMatch, FcCategories
<1>3. CASE m # F!Stranger
  <2>1. PICK f \in F!Closest(F!Known(N), x) : m = F!Seen(f, x)
    BY <1>1, <1>3
  <2>2. rows[f] \in DOMAIN persons
    BY <2>1 DEF F!Closest, F!Known
  <2>3. persons[rows[f]].categoria \in FcCategories
    BY <2>2 DEF FcAgrees, FcPerson
  <2>4. F!Status(F!Distance(vecs[f], x)) \in {"matched", "ambiguous", "unknown"}
    BY DEF F!Status
  <2> QED BY <2>1, <2>3, <2>4 DEF F!Seen, FcMatch
<1> QED BY <1>2, <1>3

\* A face is matched, or the faces of a photo are kept.
LEMMA APhotoIsProcessed ==
  ASSUME FcInv, NEW h \in DOMAIN look, F!MatchFace(h) \/ F!SaveMetadata(h)
  PROVE  FcInv'
<1>1. UNCHANGED <<persons, rows, vecs, photos, turn, enrolled>>
  BY DEF F!MatchFace, F!SaveMetadata, F!registry
<1>2. look \in Seq(Seq(FcMatch)) /\ h \in 1 .. Len(look) /\ Len(look) = Len(photos)
  BY DEF FcInv, FcPhotos
<1>3. metadata \subseteq metadata' /\ metadata' \subseteq 1 .. Len(photos)
  BY <1>2 DEF FcInv, FcPhotos, F!MatchFace, F!SaveMetadata
<1>4. look' \in Seq(Seq(FcMatch)) /\ Len(look') = Len(look)
  <2>1. CASE F!MatchFace(h)
    <3>1. PICK m \in F!Matches(photos[h].faces[Len(look[h]) + 1]) :
            look' = [look EXCEPT ![h] = Append(look[h], m)]
      BY <2>1 DEF F!MatchFace
    <3>2. PICK lk, found : lk = look /\ found = Append(look[h], m)
      OBVIOUS
    <3>3. found \in Seq(FcMatch)
      BY <1>2, <3>1, <3>2, AMatchIsARecord DEF FcInv
    <3>4. [lk EXCEPT ![h] = found] \in Seq(Seq(FcMatch)) /\ Len([lk EXCEPT ![h] = found]) = Len(lk)
      BY <1>2, <3>2, <3>3, ExceptSeq
    <3> QED BY <3>1, <3>2, <3>4
  <2>2. CASE F!SaveMetadata(h)
    BY <1>2, <2>2 DEF F!SaveMetadata
  <2> QED BY <2>1, <2>2
<1>5. FcPhotos'
  BY <1>1, <1>2, <1>3, <1>4 DEF FcInv, FcPhotos
<1>6. FcTurns'
  BY <1>1, <1>3 DEF FcInv, FcTurns, FcChecked
<1> QED BY <1>1, <1>5, <1>6 DEF FcInv

\* The face of a reference is an embedding.
LEMMA AFaceIsAPoint ==
  ASSUME FcPhotos, NEW ref, ref[1] \in metadata, ref[2] \in DOMAIN photos[ref[1]].faces
  PROVE  F!Face(ref) \in Points
<1>1. photos[ref[1]] \in FcPhoto
  <2>1. PICK h \in 1 .. Len(photos) : h = ref[1]
    BY DEF FcPhotos
  <2> QED BY <2>1 DEF FcPhotos
<1>2. PICK faces \in FcFaces : faces = photos[ref[1]].faces
  BY <1>1 DEF FcPhoto
<1>3. \A i \in DOMAIN faces : faces[i] \in Points
  BY DEF FcFaces
<1> QED BY <1>2, <1>3 DEF F!Face

\* A face of a photo is enrolled as a new person.
LEMMA AFaceIsRegistered ==
  ASSUME F!FaceRegistryAssumption, FcInv, \A t \in FaceTurns : turn[t] = None,
         NEW c, NEW ref \in F!Refs(c), NEW categoria \in FcCategories, F!Register(ref, categoria)
  PROVE  FcInv'
<1>1. PICK x \in Points : x = F!Face(ref)
  BY AFaceIsAPoint DEF FcInv, F!Refs
<1>2. PICK r : r = [categoria |-> categoria, count |-> 1]
  OBVIOUS
<1>3. r \in FcPerson /\ r.count = 1
  BY <1>2 DEF FcPerson
<1>4. PICK P, R, V, n, i : P = persons /\ R = rows /\ V = vecs /\ n = enrolled /\ i = n + 1
  OBVIOUS
<1>5. /\ i <= MaxEnrolled /\ persons' = F!With(P, i, r) /\ rows' = F!With(R, i, i)
      /\ vecs' = F!With(V, i, x) /\ enrolled' = i /\ UNCHANGED <<photos, look, metadata, turn>>
  BY <1>1, <1>2, <1>4 DEF F!Register, F!NextId
<1>6. PICK P2, R2, V2 : P2 = persons' /\ R2 = rows' /\ V2 = vecs'
  OBVIOUS
<1>7. FcAgrees(P, R, V, n)
  BY <1>4 DEF FcInv
<1>8. FcAgrees(P2, R2, V2, i)
  BY <1>3, <1>4, <1>5, <1>6, <1>7, APersonIsNew
<1>9. FcAgrees(persons, rows, vecs, enrolled)'
  BY <1>5, <1>6, <1>8
<1>10. FcPhotos' /\ FcTurns'
  BY <1>5 DEF FcInv, FcPhotos, FcTurns
<1> QED BY <1>9, <1>10 DEF FcInv

\* A tool checks, and what it found holds.
LEMMA AToolChecks ==
  ASSUME FcInv, NEW t \in FaceTurns, NEW c,
         F!AddCheck(t, c) \/ F!ForgetCheck(t) \/ F!MergeCheck(t)
  PROVE  FcInv'
<1>1. PICK checked : F!Checks(t, checked) /\ FcChecked(checked)
  <2>1. CASE F!AddCheck(t, c)
    <3>1. PICK p \in DOMAIN persons, ref \in F!Refs(c) :
            F!Checks(t, [op |-> "add", person |-> p, ref |-> ref])
      BY <2>1 DEF F!AddCheck
    <3>2. FcChecked([op |-> "add", person |-> p, ref |-> ref])
      BY <3>1 DEF FcChecked, F!Refs
    <3> QED BY <3>1, <3>2
  <2>2. CASE F!ForgetCheck(t)
    <3>1. PICK p \in DOMAIN persons :
            F!Checks(t, [op |-> "forget", person |-> p, embs |-> F!RowsOf(p)])
      BY <2>2 DEF F!ForgetCheck
    <3>2. F!RowsOf(p) = FcRows(rows, p)
      BY DEF F!RowsOf, FcRows
    <3>3. FcChecked([op |-> "forget", person |-> p, embs |-> F!RowsOf(p)])
      BY <3>1, <3>2 DEF FcChecked
    <3> QED BY <3>1, <3>3
  <2>3. CASE F!MergeCheck(t)
    <3>1. PICK s \in DOMAIN persons, d \in DOMAIN persons :
            s # d /\ F!Checks(t, [op |-> "merge", person |-> s, target |-> d])
      BY <2>3 DEF F!MergeCheck
    <3>2. FcChecked([op |-> "merge", person |-> s, target |-> d])
      BY <3>1 DEF FcChecked
    <3> QED BY <3>1, <3>2
  <2> QED BY <2>1, <2>2, <2>3
<1>2. /\ UNCHANGED <<persons, rows, vecs, photos, look, metadata, enrolled>>
      /\ turn' = [turn EXCEPT ![t] = checked]
  BY <1>1 DEF F!Checks, F!registry
<1>3. DOMAIN turn' = FaceTurns /\ \A u \in FaceTurns : turn'[u] = IF u = t THEN checked ELSE turn[u]
  BY <1>2 DEF FcInv, FcTurns
<1>4. FcChecked(checked)' /\ \A u \in FaceTurns : FcChecked(turn[u]) => FcChecked(turn[u])'
  BY <1>1, <1>2 DEF FcChecked
<1>5. FcTurns'
  BY <1>2, <1>3, <1>4 DEF FcInv, FcTurns, FcChecked
<1> QED BY <1>2, <1>5 DEF FcInv, FcPhotos

\* The only turn that uses the tools writes what it checked.
LEMMA AToolWrites ==
  ASSUME F!FaceRegistryAssumption, FcInv, NEW t \in FaceTurns, FaceTurns = {t},
         F!AddWrite(t) \/ F!ForgetWrite(t) \/ F!MergeWrite(t)
  PROVE  FcInv'
<1>1. PICK c : c = turn[t]
  OBVIOUS
<1>2. /\ c # None /\ FcChecked(c) /\ turn' = [turn EXCEPT ![t] = None]
      /\ UNCHANGED <<photos, look, metadata>>
  BY <1>1 DEF F!AddWrite, F!ForgetWrite, F!MergeWrite, F!Writes, FcInv, FcTurns
<1>3. FcPhotos' /\ FcTurns'
  BY <1>2 DEF FcInv, FcPhotos, FcTurns
<1>4. PICK P, R, V, n, P2, R2, V2, n2 : /\ P = persons /\ R = rows /\ V = vecs /\ n = enrolled
                                        /\ P2 = persons' /\ R2 = rows' /\ V2 = vecs' /\ n2 = enrolled'
  OBVIOUS
<1>5. FcAgrees(P, R, V, n)
  BY <1>4 DEF FcInv
<1>6. FcAgrees(P2, R2, V2, n2)
  <2>1. CASE F!AddWrite(t)
    <3>1. c.op = "add"
      BY <1>1, <2>1 DEF F!AddWrite, F!Writes
    <3>2. PICK p \in DOMAIN persons : p = c.person
      BY <1>2, <3>1 DEF FcChecked
    <3>3. PICK x \in Points : x = F!Face(c.ref)
      BY <1>2, <3>1, AFaceIsAPoint DEF FcChecked, FcInv
    <3>4. /\ n2 = n + 1 /\ n2 <= MaxEnrolled /\ R2 = F!With(R, n2, p) /\ V2 = F!With(V, n2, x)
          /\ P2 = [P EXCEPT ![p].count = @ + 1]
      BY <1>1, <1>4, <2>1, <3>2, <3>3 DEF F!AddWrite, F!NextId
    <3>5. p \in DOMAIN P
      BY <1>4, <3>2
    <3>6. PICK P3 : P3 = [P EXCEPT ![p].count = @ + 1]
      OBVIOUS
    <3>7. FcAgrees(P3, R2, V2, n2)
      BY <1>5, <3>3, <3>4, <3>5, <3>6, AnEmbeddingIsAdded
    <3> QED BY <3>4, <3>6, <3>7
  <2>2. CASE F!ForgetWrite(t)
    <3>1. c.op = "forget"
      BY <1>1, <2>2 DEF F!ForgetWrite, F!Writes
    <3>2. PICK p \in DOMAIN P : p = c.person /\ c.embs = FcRows(R, p) /\ F!RowsOf(p) = FcRows(R, p)
      BY <1>2, <1>4, <3>1 DEF FcChecked, F!RowsOf, FcRows
    <3>3. /\ P2 = F!Without(P, {p}) /\ R2 = F!Without(R, FcRows(R, p)) /\ V2 = F!Without(V, FcRows(R, p))
          /\ n2 = n
      BY <1>1, <1>4, <2>2, <3>2 DEF F!ForgetWrite, F!Forgotten
    <3> QED BY <1>5, <3>2, <3>3, APersonIsForgotten
  <2>3. CASE F!MergeWrite(t)
    <3>1. c.op = "merge"
      BY <1>1, <2>3 DEF F!MergeWrite, F!Writes
    <3>2. PICK s \in DOMAIN P, d \in DOMAIN P : s = c.person /\ d = c.target /\ s # d
      BY <1>2, <1>4, <3>1 DEF FcChecked
    <3>3. PICK total, P1 :
            /\ total = F!Cardinality(FcRows(R, s) \cup FcRows(R, d))
            /\ P1 = [p \in DOMAIN P |-> IF p = d THEN [P[p] EXCEPT !.count = total] ELSE P[p]]
      OBVIOUS
    <3>4. F!RowsOf(s) = FcRows(R, s) /\ F!RowsOf(d) = FcRows(R, d)
      BY <1>4 DEF F!RowsOf, FcRows
    <3>5. /\ P2 = F!Without(P1, {s}) /\ R2 = [e \in DOMAIN R |-> IF R[e] = s THEN d ELSE R[e]]
          /\ V2 = V /\ n2 = n
      BY <1>1, <1>4, <2>3, <3>2, <3>3, <3>4 DEF F!MergeWrite, F!Recount
    <3> QED BY <1>5, <3>2, <3>3, <3>5, PersonsAreMerged
  <2> QED BY <2>1, <2>2, <2>3
<1>7. FcAgrees(persons, rows, vecs, enrolled)'
  BY <1>4, <1>6
<1> QED BY <1>3, <1>7 DEF FcInv

\* Every step of one turn at a time keeps it.
LEMMA FcStep ==
  ASSUME F!FaceRegistryAssumption, FcInv, \A t, u \in FaceTurns : t = u,
         F!Next \/ UNCHANGED F!vars
  PROVE  FcInv'
<1>1. CASE UNCHANGED F!vars
  BY <1>1 DEF F!vars, F!registry, FcInv, FcPhotos, FcTurns, FcChecked
<1>2. CASE \E c \in Chats, faces \in UNION {[1 .. n -> Points] : n \in 1 .. MaxFaces} : F!PhotoArrives(c, faces)
  BY <1>2, APhotoArrives DEF FcFaces
<1>3. CASE \E h \in DOMAIN look : F!MatchFace(h) \/ F!SaveMetadata(h)
  BY <1>3, APhotoIsProcessed
<1>4. ASSUME NEW t \in FaceTurns, F!Tool(t)
      PROVE  FcInv'
  <2>1. FaceTurns = {t}
    OBVIOUS
  <2>2. CASE \E c \in Private : F!RegisterFace(t, c) \/ F!SkipFace(t, c)
    <3>1. PICK c \in Private : \E ref \in F!Refs(c), categoria \in FcCategories : F!Register(ref, categoria)
      BY <2>2 DEF F!RegisterFace, F!SkipFace, FcCategories
    <3>2. \A u \in FaceTurns : turn[u] = None
      BY <2>1, <2>2 DEF F!RegisterFace, F!SkipFace
    <3> QED BY <3>1, <3>2, AFaceIsRegistered
  <2>3. CASE (\E c \in Private : F!AddCheck(t, c)) \/ F!ForgetCheck(t) \/ F!MergeCheck(t)
    BY <2>3, AToolChecks
  <2>4. CASE F!AddWrite(t) \/ F!ForgetWrite(t) \/ F!MergeWrite(t)
    BY <2>1, <2>4, AToolWrites
  <2> QED BY <1>4, <2>2, <2>3, <2>4 DEF F!Tool
<1> QED BY <1>1, <1>2, <1>3, <1>4 DEF F!Next

\* It holds when the process starts with an empty registry.
LEMMA FcInit ==
  ASSUME F!Init, F!FaceRegistryAssumption
  PROVE  FcInv
<1>1. PICK none : none = F!NoPerson
  OBVIOUS
<1>2. DOMAIN none = {}
  BY <1>1 DEF F!NoPerson
<1>3. \A S : none \in [{} -> S]
  BY <1>1 DEF F!NoPerson
<1>4. persons = none /\ rows = none /\ vecs = none /\ enrolled = 0 /\ 0 \in 0 .. MaxEnrolled
  BY <1>1 DEF F!Init, F!FaceRegistryAssumption
<1>5. FcAgrees(persons, rows, vecs, enrolled)
  BY <1>2, <1>3, <1>4 DEF FcAgrees
<1>6. FcPhotos /\ FcTurns
  BY DEF F!Init, FcPhotos, FcTurns
<1> QED BY <1>5, <1>6 DEF FcInv

\* What the registry promises.
LEMMA TheRegistryIsRight ==
  ASSUME F!FaceRegistryAssumption, FcInv
  PROVE  F!RegistryAgrees /\ F!KnownIsRecognised
<1>1. FcAgrees(persons, rows, vecs, enrolled) /\ FcPhotos
  BY DEF FcInv
<1>2. 1 .. enrolled \subseteq 1 .. MaxEnrolled
  BY <1>1 DEF FcAgrees, F!FaceRegistryAssumption
<1>3. F!TypeOK
  BY <1>1, <1>2 DEF FcAgrees, FcPhotos, F!TypeOK, F!Person, F!Embedding
<1>4. \A p : F!RowsOf(p) = FcRows(rows, p)
  BY DEF F!RowsOf, FcRows
<1>5. F!RegistryAgrees
  BY <1>1, <1>3, <1>4 DEF FcAgrees, F!RegistryAgrees
<1>6. F!KnownIsRecognised
  BY <1>1, AKnownFaceIsMatched DEF F!KnownIsRecognised
<1> QED BY <1>5, <1>6

\* When the subject is the faces, it moves as FaceRegistry says.
LEMMA FcMoves ==
  ASSUME [Next]_vars
  PROVE  subject' = subject /\ (subject = "faces" => F!Next \/ UNCHANGED F!vars)
BY OneSubject DEF Next, vars, OfFaces, F!vars, F!registry

\* The three tables of the registry agree and a known face is never taken for a stranger, whatever
\* photos are processed beside the tools of one turn, for any points, thresholds and neighbours
\* (sqlite_face_registry.py).
THEOREM NoFaceIsLost ==
  ASSUME \A t, u \in FaceTurns : t = u
  PROVE  Spec => []FacesHold
<1> DEFINE J == subject = "faces" => FcInv
<1>1. F!FaceRegistryAssumption
  BY StoresAssumption
<1>2. Init => J
  BY <1>1, FcInit DEF Init
<1>3. J /\ [Next]_vars => J'
  BY <1>1, FcMoves, FcStep
<1>4. J => FacesHold
  BY <1>1, TheRegistryIsRight DEF FacesHold
<1> QED BY <1>2, <1>3, <1>4, PTL DEF Spec
=============================================================================
