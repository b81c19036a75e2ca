--------------------------- MODULE EvidenceProofs ---------------------------
(***************************************************************************)
(* Theorems about module Evidence, for every roster, every set of event    *)
(* bodies the host may upload and every value of the bounds.               *)
(***************************************************************************)
EXTENDS Evidence, FiniteSetTheorems, SequenceTheorems, TLAPS

-----------------------------------------------------------------------------
\* A non-empty set of bounded naturals has a greatest element, so the CHOOSEs
\* of LastInfection and Ack name one.
LEMMA GreatestElement ==
  ASSUME NEW N \in Nat, NEW S \in SUBSET (0..N), S # {}
  PROVE  \E m \in S : \A k \in S : k <= m
<1> DEFINE U == {u \in 0..N : \A k \in S : k <= u}
           Less == OpToRel(<, Nat)
<1>1. U \subseteq Nat /\ N \in U
  OBVIOUS
<1>2. \A x, y \in Nat : <<y, x>> \in Less <=> y < x
  BY DEF OpToRel
<1>3. PICK x \in U : \A y \in U : ~ (<<y, x>> \in Less)
  <2>1. IsWellFoundedOn(Less, Nat)
    BY NatLessThanWellFounded
  <2> HIDE DEF U, Less
  <2> QED BY <1>1, <2>1, WFMin
<1>4. \A y \in U : ~ (y < x)
  BY <1>1, <1>2, <1>3
<1>5. x \in S
  <2>1. CASE x = 0
    <3>1. PICK k \in S : TRUE
      OBVIOUS
    <3>2. k = 0
      BY <2>1, <3>1
    <3> QED BY <2>1, <3>2
  <2>2. CASE x # 0
    <3>1. x - 1 \in 0..N /\ x - 1 < x
      BY <2>2
    <3>2. x - 1 \notin U
      BY <1>4, <3>1
    <3>3. PICK k \in S : k > x - 1
      BY <3>1, <3>2
    <3>4. k = x
      BY <3>3
    <3> QED BY <3>4
  <2> QED BY <2>1, <2>2
<1> QED BY <1>5

\* A non-empty set of naturals has a least element: induction over the naturals
\* for a set, where the library's theorems take a predicate.
LEMMA LeastElement ==
  ASSUME NEW S \in SUBSET Nat, S # {}
  PROVE  \E m \in S : \A k \in S : m <= k
<1> DEFINE Less == OpToRel(<, Nat)
<1>1. IsWellFoundedOn(Less, Nat)
  BY NatLessThanWellFounded
<1>2. \A x, y \in Nat : <<y, x>> \in Less <=> y < x
  BY DEF OpToRel
<1>3. PICK m \in S : \A k \in S : ~(<<k, m>> \in Less)
  <2> HIDE DEF Less
  <2> QED BY <1>1, WFMin
<1>4. \A k \in S : ~(k < m) /\ k \in Nat /\ m \in Nat
  BY <1>2, <1>3
<1> HIDE DEF Less
<1> QED BY <1>4

\* Applying a function again and again from a start.
Iterates(g, F, a, N) == g[0] = a /\ \A n \in 1..N : g[n] = F[g[n - 1]]
LEMMA Iteration ==
  ASSUME NEW S, NEW F \in [S -> S], NEW a \in S, NEW N \in Nat
  PROVE  \E g \in [0..N -> S] : Iterates(g, F, a, N)
<1> USE DEF Iterates
<1> DEFINE Good(g, n) == /\ g \in [0..n -> S] /\ g[0] = a
                         /\ \A k \in 1..n : g[k] = F[g[k - 1]]
           Bad == {n \in Nat : ~\E g : Good(g, n)}
<1>1. SUFFICES ASSUME Bad # {} PROVE FALSE
  OBVIOUS
<1>2. PICK m \in Bad : \A k \in Bad : m <= k
  <2> HIDE DEF Bad
  <2>1. Bad \in SUBSET Nat
    BY DEF Bad
  <2> QED BY <1>1, <2>1, LeastElement
<1>3. CASE m = 0
  <2>1. Good([k \in 0..0 |-> a], 0)
    OBVIOUS
  <2> QED BY <1>2, <1>3, <2>1
<1>4. CASE m # 0
  <2>1. m - 1 \in Nat /\ m - 1 \notin Bad
    <3>1. m \in Nat
      BY <1>2
    <3> HIDE DEF Bad
    <3> QED BY <1>2, <1>4, <3>1
  <2>2. PICK g : Good(g, m - 1)
    BY <2>1
  <2> DEFINE h == [k \in 0..m |-> IF k = m THEN F[g[m - 1]] ELSE g[k]]
  <2>3. g[m - 1] \in S
    BY <2>1, <2>2
  <2>4. h \in [0..m -> S] /\ h[0] = a
    BY <1>4, <2>1, <2>2, <2>3
  <2>5. ASSUME NEW k \in 1..m PROVE h[k] = F[h[k - 1]]
    <3>1. k - 1 \in 0..(m - 1) /\ k - 1 # m /\ k - 1 \in 0..m
      BY <2>1
    <3>2. h[k - 1] = g[k - 1]
      BY <3>1
    <3>3. CASE k = m
      BY <3>2, <3>3
    <3>4. CASE k # m
      <4>1. k \in 1..(m - 1) /\ k \in 0..m
        BY <3>4, <2>1
      <4>2. h[k] = g[k]
        BY <3>4, <4>1
      <4> QED BY <2>2, <3>2, <4>1, <4>2
    <3> QED BY <3>3, <3>4
  <2>6. Good(h, m)
    BY <2>4, <2>5
  <2> QED BY <1>2, <2>6
<1> QED BY <1>3, <1>4

\* A round has finitely many badges.
LEMMA RosterFinite ==
  /\ IsFiniteSet(Roster) /\ Cardinality(Roster) \in Nat
BY RosterAssumption, FS_Subset, FS_CardinalityType

-----------------------------------------------------------------------------
(***************************************************************************)
(* Types.  TypeOK is not inductive: that a settled row has a body to take  *)
(* the victim and the sequence from needs RowsMatch, and that the time of  *)
(* the last infection is a number needs Bounded.                           *)
(***************************************************************************)
RowsMatch ==
  \A i \in Ids : /\ status[i] = "none" <=> body[i] = NoBody
                 /\ body[i] # NoBody => EventId(body[i]) = i

Bounded ==
  /\ \A s \in Roster : role[s].infected_elapsed \in 0..Duration
  /\ end.elapsed \in 0..Duration

TypeInv == TypeOK /\ RowsMatch /\ Bounded

\* A step of the server, whatever is uploaded or acknowledged: what follows
\* holds of any host, in particular of one that carries what badges do.
CloseReceipt == [slot: Roster, produced: 0..MaxSeq]
DecisionFrontier == [slot: Roster, through: 0..MaxSeq]
Handled ==
  \/ Tick
  \/ CheckDue
  \/ \E batch \in SUBSET Body : Ingest(batch)
  \/ \E batch \in SUBSET Body : \E e \in batch : IngestConflict(batch, e)
  \/ \E receipts \in SUBSET CloseReceipt, frontiers \in SUBSET DecisionFrontier :
       Ack(receipts, frontiers)
  \/ \E i \in Ids : SettleRow(i)
  \/ SettleDone

LEMMA BoxHandled == [Next]_vars => [Handled]_vars
BY BodiesAssumption, ReceiptsAssumption
   DEF Next, Handled, Batches, CloseReceipt, DecisionFrontier

\* A round starts with every variable in its type.
LEMMA InitTyped == Init => TypeInv
<1> SUFFICES ASSUME Init PROVE TypeInv
  OBVIOUS
<1> USE RosterAssumption, NumbersAssumption, SentinelAssumption
<1>1. \A s \in Roster : FirstRole(s) \in Role /\ FirstRole(s).infected_elapsed = 0
  BY DEF FirstRole, Role, NoCause
<1>2. Running \in End /\ Running.elapsed = Duration
  BY DEF Running, End, Phases
<1>3. role \in [Roster -> Role] /\ history \in [Roster -> SUBSET Role]
  BY <1>1 DEF Init
<1>4. snapshot \in [role: [Roster -> Role], end: End, revision: Nat]
  BY <1>2, <1>3 DEF Init
<1>5. endCommands \in Seq(Command)
  BY DEF Init
<1>6. TypeOK
  BY <1>2, <1>3, <1>4, <1>5 DEF Init, TypeOK, Statuses
<1>7. RowsMatch
  BY DEF Init, RowsMatch
<1>8. Bounded
  BY <1>1, <1>2 DEF Init, Bounded
<1> QED BY <1>6, <1>7, <1>8 DEF TypeInv

\* EndWith is a well-formed result, no later than the end of the round.
LEMMA EndWithTyped ==
  ASSUME TypeInv, NEW receipts
  PROVE  EndWith(receipts) \in End /\ EndWith(receipts).elapsed \in 0..Duration
<1> USE NumbersAssumption, RosterAssumption
<1> DEFINE T == {role[s].infected_elapsed : s \in Roster}
<1>1. LastInfection \in 0..Duration
  <2>1. T \in SUBSET (0..Duration) /\ T # {}
    BY DEF TypeInv, Bounded
  <2>2. \E t \in T : \A k \in T : k <= t
    <3> HIDE DEF T
    <3> QED BY <2>1, GreatestElement
  <2>3. \E t \in T : \A s \in Roster : role[s].infected_elapsed <= t
    BY <2>2
  <2>4. LastInfection \in T
    BY <2>3 DEF LastInfection
  <2> QED BY <2>1, <2>4
<1>2. end.elapsed \in 0..Duration
  BY DEF TypeInv, Bounded
<1>3. EndWith(receipts).elapsed \in 0..Duration
  BY <1>1, <1>2 DEF EndWith
<1>4. Missing(receipts) \in SUBSET Roster
  BY DEF Missing
<1>5. EndWith(receipts) \in End
  BY <1>3, <1>4 DEF EndWith, End, Phases
<1> QED BY <1>3, <1>5

\* What finishIfDue leaves in m.end is a round end.
LEMMA EndOrSameTyped ==
  ASSUME TypeInv, NEW receipts
  PROVE  EndOrSame(receipts) \in End /\ EndOrSame(receipts).elapsed \in 0..Duration
BY EndWithTyped DEF EndOrSame, TypeInv, TypeOK, Bounded

\* finishIfDue leaves a well-formed result, snapshot and list of commands.
LEMMA FinishTyped ==
  ASSUME TypeInv, NEW receipts, NEW saved \in BOOLEAN, FinishIfDue(receipts, saved)
  PROVE  /\ end' \in End /\ end'.elapsed \in 0..Duration
         /\ revision' \in Nat
         /\ snapshot' \in [role: [Roster -> Role], end: End, revision: Nat]
         /\ endCommands' \in Seq(Command)
<1> DEFINE next == EndOrSame(receipts)
           first == IF next # end /\ (end.phase = "running" \/ next.winner # end.winner)
                    THEN <<EndRoundCommand(next)>> ELSE <<>>
           second == IF next # end /\ next.phase = "final"
                     THEN <<FinalResultCommand(next)>> ELSE <<>>
<1>1. next \in End /\ next.elapsed \in 0..Duration
  BY EndOrSameTyped
<1>2. end' = next
  BY DEF FinishIfDue
<1>3. revision' \in Nat
  BY DEF FinishIfDue, TypeInv, TypeOK
<1>4. snapshot' \in [role: [Roster -> Role], end: End, revision: Nat]
  BY <1>1, <1>3 DEF FinishIfDue, TypeInv, TypeOK
<1>5. endCommands' = endCommands \o first \o second
  BY DEF FinishIfDue
<1>6. EndRoundCommand(next) \in Command /\ FinalResultCommand(next) \in Command
  BY <1>1 DEF EndRoundCommand, FinalResultCommand, Command, End
<1>7. first \in Seq(Command) /\ second \in Seq(Command)
  <2> HIDE DEF next
  <2> QED BY <1>6
<1>8. endCommands' \in Seq(Command)
  <2> HIDE DEF first, second
  <2>1. endCommands \in Seq(Command)
    BY DEF TypeInv, TypeOK
  <2> QED BY <1>5, <1>7, <2>1, ConcatProperties
<1> QED BY <1>1, <1>2, <1>3, <1>4, <1>8

\* What settleEvents may rely on once eventDecision has decided.
LEMMA DecisionFacts ==
  ASSUME NEW e
  PROVE  /\ Decision(e) \in {"accepted", "rejected", "pending_dependency"}
         /\ Decision(e) # "pending_dependency" /\ e.victim \in Roster
              => e.seq = role[e.victim].covered_seq + 1
         /\ Decision(e) = "accepted"
              => /\ e.victim \in Roster
                 /\ Admissible(e) /\ ParentHolds(e) /\ ~AttemptUsed(e)
BY Zenon DEF Decision

\* A row that waits to be settled has a body, stored under its own identity.
LEMMA PendingRow ==
  ASSUME TypeInv, NEW i \in Ids, status[i] = "pending_dependency"
  PROVE  body[i] \in Body /\ EventId(body[i]) = i
<1>1. body[i] # NoBody /\ EventId(body[i]) = i
  BY DEF TypeInv, RowsMatch
<1>2. body[i] \in Body
  BY <1>1 DEF TypeInv, TypeOK
<1> QED BY <1>1, <1>2

\* Settling a row gives its victim a role entry.
LEMMA RoleAfterTyped ==
  ASSUME TypeInv, NEW e \in Body, e.victim \in Roster, NEW decision,
         decision = "accepted" => e.elapsed < Duration
  PROVE  /\ RoleAfter(e, decision) \in Role
         /\ RoleAfter(e, decision).infected_elapsed \in 0..Duration
<1> USE NumbersAssumption
<1>1. /\ e.seq \in 0..MaxSeq /\ e.seq \in -1..MaxSeq /\ e.elapsed \in Nat
  BY DEF Body, Seqs
<1>2. role[e.victim] \in Role /\ role[e.victim].infected_elapsed \in 0..Duration
  BY DEF TypeInv, TypeOK, Bounded
<1> QED BY <1>1, <1>2 DEF RoleAfter, Role

\* An accepted event happened before the end of the round.
LEMMA AcceptedInTime ==
  ASSUME TypeInv, NEW e \in Body, Decision(e) = "accepted"
  PROVE  e.elapsed < Duration
<1>1. InRound(e)
  BY DecisionFacts DEF Admissible
<1>2. e.elapsed \in Nat /\ e.uncertainty \in Nat /\ end.elapsed \in 0..Duration
  BY DEF Body, TypeInv, Bounded
<1> QED BY <1>1, <1>2, NumbersAssumption DEF InRound

\* Settling one row preserves the types.
LEMMA SettleRowTyped ==
  ASSUME TypeInv, NEW i \in Ids, SettleRow(i)
  PROVE  TypeInv'
<1> DEFINE e == body[i]
           decision == Decision(e)
<1>1. status[i] = "pending_dependency" /\ decision # "pending_dependency"
  BY DEF SettleRow
<1>2. e \in Body /\ EventId(e) = i
  BY <1>1, PendingRow
<1>3. decision \in {"accepted", "rejected"}
  BY <1>1, DecisionFacts
<1>4. /\ status' = [status EXCEPT ![i] = decision] /\ settling' = "changed"
      /\ UNCHANGED <<body, end, closed, decisionAcks, conflicts, snapshot,
                     endCommands, now>>
  BY DEF SettleRow
<1>5. /\ role' \in [Roster -> Role] /\ history' \in [Roster -> SUBSET Role]
      /\ revision' \in Nat
      /\ \A s \in Roster : role'[s].infected_elapsed \in 0..Duration
  <2>1. CASE e.victim \in Roster
    <3> DEFINE r == RoleAfter(e, decision)
    <3>1. decision = "accepted" => e.elapsed < Duration
      BY <1>2, AcceptedInTime
    <3>2. r \in Role /\ r.infected_elapsed \in 0..Duration
      BY <1>2, <2>1, <3>1, RoleAfterTyped
    <3>3. SaveRole(e.victim, r) /\ revision' = revision + 1
      BY <2>1 DEF SettleRow
    <3> HIDE DEF r, e, decision
    <3> QED BY <2>1, <3>2, <3>3 DEF SaveRole, TypeInv, TypeOK, Bounded
  <2>2. CASE e.victim \notin Roster
    BY <2>2 DEF SettleRow, TypeInv, TypeOK, Bounded
  <2> QED BY <2>1, <2>2
<1> HIDE DEF e, decision
<1>6. TypeOK'
  BY <1>3, <1>4, <1>5 DEF TypeInv, TypeOK, Statuses
<1>7. RowsMatch'
  <2>1. \A j \in Ids : status'[j] = "none" <=> status[j] = "none"
    BY <1>1, <1>3, <1>4 DEF TypeInv, TypeOK
  <2> QED BY <1>4, <2>1 DEF TypeInv, RowsMatch, EventId
<1>8. Bounded'
  BY <1>4, <1>5 DEF TypeInv, Bounded
<1> QED BY <1>6, <1>7, <1>8 DEF TypeInv

\* A batch without conflicts stores each of its new bodies under the identity
\* that body states.
LEMMA IngestRows ==
  ASSUME TypeInv, NEW batch \in SUBSET Body, Ingest(batch), NEW i \in Ids
  PROVE  /\ body[i] # NoBody => body'[i] = body[i] /\ status'[i] = status[i]
         /\ body[i] = NoBody /\ body'[i] # NoBody =>
              /\ body'[i] \in batch /\ EventId(body'[i]) = i
              /\ status'[i] = IF end.phase = "final" THEN "rejected"
                              ELSE "pending_dependency"
         /\ body'[i] = NoBody => status'[i] = status[i]
<1> DEFINE new == {e \in batch : body[EventId(e)] = NoBody}
<1>1. /\ body' = [j \in Ids |-> IF \E e \in new : EventId(e) = j
                                THEN CHOOSE e \in new : EventId(e) = j ELSE body[j]]
      /\ status' = [j \in Ids |-> IF \E e \in new : EventId(e) = j
                                  THEN IF end.phase = "final" THEN "rejected"
                                       ELSE "pending_dependency"
                                  ELSE status[j]]
  BY DEF Ingest
<1>2. CASE \E e \in new : EventId(e) = i
  <2>1. (CHOOSE e \in new : EventId(e) = i) \in new
    BY <1>2
  <2>2. EventId(CHOOSE e \in new : EventId(e) = i) = i
    BY <1>2
  <2>3. body[i] = NoBody
    BY <2>1, <2>2
  <2>4. body'[i] \in batch /\ EventId(body'[i]) = i
    BY <1>1, <1>2, <2>1, <2>2
  <2>5. body'[i] # NoBody
    BY <2>4, SentinelAssumption
  <2> QED BY <1>1, <1>2, <2>3, <2>4, <2>5
<1>3. CASE ~\E e \in new : EventId(e) = i
  BY <1>1, <1>3
<1> QED BY <1>2, <1>3

\* Storing a batch preserves the types.
LEMMA IngestTyped ==
  ASSUME TypeInv, NEW batch \in SUBSET Body, Ingest(batch)
  PROVE  TypeInv'
<1>1. \A i \in Ids : body'[i] \in Body \cup {NoBody} /\ status'[i] \in Statuses
  BY IngestRows DEF TypeInv, TypeOK, Statuses
<1>2. body' \in [Ids -> Body \cup {NoBody}] /\ status' \in [Ids -> Statuses]
  BY <1>1 DEF Ingest
<1>3. /\ settling' = "scan"
      /\ UNCHANGED <<role, history, end, closed, decisionAcks, conflicts, revision,
                     snapshot, endCommands, now>>
  BY DEF Ingest
<1>4. TypeOK'
  BY <1>2, <1>3 DEF TypeInv, TypeOK
<1>5. RowsMatch'
  <2> SUFFICES ASSUME NEW i \in Ids
               PROVE  /\ status'[i] = "none" <=> body'[i] = NoBody
                      /\ body'[i] # NoBody => EventId(body'[i]) = i
    BY DEF RowsMatch, EventId
  <2>1. /\ status[i] = "none" <=> body[i] = NoBody
        /\ body[i] # NoBody => EventId(body[i]) = i
    BY DEF TypeInv, RowsMatch
  <2> QED BY <2>1, IngestRows
<1>6. Bounded'
  BY <1>3 DEF TypeInv, Bounded
<1> QED BY <1>4, <1>5, <1>6 DEF TypeInv

\* Recording a conflict preserves the types.
LEMMA IngestConflictTyped ==
  ASSUME TypeInv, NEW batch \in SUBSET Body, NEW e \in batch, IngestConflict(batch, e)
  PROVE  TypeInv'
<1>1. EventId(e) \in Ids
  BY DEF EventId, Ids, Body
<1>2. conflicts' \subseteq Body
  <2>1. PICK f \in batch \cup {body[EventId(e)]} :
          f \notin {NoBody, e} /\ conflicts' = conflicts \cup {e, f}
    BY DEF IngestConflict
  <2>2. f \in Body
    BY <1>1, <2>1 DEF TypeInv, TypeOK
  <2> QED BY <2>1, <2>2 DEF TypeInv, TypeOK
<1> QED BY <1>2 DEF IngestConflict, TypeInv, TypeOK, RowsMatch, Bounded, EventId

\* message("ack") keeps the greatest frontier and the greatest receipt.
LEMMA AckTyped ==
  ASSUME TypeInv, NEW receipts \in SUBSET [slot: Roster, produced: 0..MaxSeq],
         NEW frontiers \in SUBSET [slot: Roster, through: 0..MaxSeq],
         Ack(receipts, frontiers)
  PROVE  TypeInv'
<1> USE NumbersAssumption
<1> DEFINE acked(s) == {decisionAcks[s]} \cup
                       {f.through : f \in {g \in frontiers : g.slot = s}}
           produced(s) == {r.produced : r \in {q \in receipts : q.slot = s}} \cup
                          (IF closed[s] = NotClosed THEN {} ELSE {closed[s]})
           next == [s \in Roster |-> IF produced(s) = {} THEN NotClosed
                                     ELSE CHOOSE n \in produced(s) :
                                            \A k \in produced(s) : k <= n]
<1>1. decisionAcks' \in [Roster -> 0..MaxSeq]
  <2>1. decisionAcks' = [s \in Roster |-> CHOOSE n \in acked(s) : \A k \in acked(s) : k <= n]
    BY DEF Ack
  <2>2. ASSUME NEW s \in Roster
        PROVE  (CHOOSE n \in acked(s) : \A k \in acked(s) : k <= n) \in 0..MaxSeq
    <3>1. acked(s) \in SUBSET (0..MaxSeq) /\ acked(s) # {}
      BY DEF TypeInv, TypeOK
    <3> HIDE DEF acked
    <3>2. \E n \in acked(s) : \A k \in acked(s) : k <= n
      BY <3>1, GreatestElement
    <3> QED BY <3>1, <3>2
  <2> HIDE DEF acked
  <2> QED BY <2>1, <2>2
<1>2. closed' = next /\ FinishIfDue(next, FALSE)
  BY DEF Ack
<1>3. next \in [Roster -> (0..MaxSeq) \cup {NotClosed}]
  <2>1. ASSUME NEW s \in Roster, produced(s) # {}
        PROVE  (CHOOSE n \in produced(s) : \A k \in produced(s) : k <= n) \in 0..MaxSeq
    <3>1. produced(s) \in SUBSET (0..MaxSeq)
      BY DEF TypeInv, TypeOK
    <3> HIDE DEF produced
    <3>2. \E n \in produced(s) : \A k \in produced(s) : k <= n
      BY <2>1, <3>1, GreatestElement
    <3> QED BY <3>1, <3>2
  <2> HIDE DEF produced
  <2> QED BY <2>1
<1>4. UNCHANGED <<body, status, conflicts, role, history, now, settling>>
  BY DEF Ack, evidence
<1>5. /\ end' \in End /\ end'.elapsed \in 0..Duration
      /\ revision' \in Nat
      /\ snapshot' \in [role: [Roster -> Role], end: End, revision: Nat]
      /\ endCommands' \in Seq(Command)
  <2> HIDE DEF next
  <2> QED BY <1>2, FinishTyped
<1> HIDE DEF next
<1> QED BY <1>1, <1>2, <1>3, <1>4, <1>5
        DEF TypeInv, TypeOK, RowsMatch, Bounded, EventId

\* The steps that only call finishIfDue preserve the types.
LEMMA FinishStepTyped ==
  ASSUME TypeInv, CheckDue \/ SettleDone
  PROVE  TypeInv'
<1>1. PICK saved \in BOOLEAN : FinishIfDue(closed, saved)
  BY DEF CheckDue, SettleDone
<1>2. UNCHANGED <<body, status, conflicts, role, history, closed, decisionAcks, now>>
      /\ settling' \in {settling, "idle"}
  BY DEF CheckDue, SettleDone, evidence
<1>3. /\ end' \in End /\ end'.elapsed \in 0..Duration
      /\ revision' \in Nat
      /\ snapshot' \in [role: [Roster -> Role], end: End, revision: Nat]
      /\ endCommands' \in Seq(Command)
  BY <1>1, FinishTyped
<1> QED BY <1>2, <1>3 DEF TypeInv, TypeOK, RowsMatch, Bounded, EventId

\* Every step of the server preserves the types.
LEMMA StepTyped == TypeInv /\ [Handled]_vars => TypeInv'
<1> SUFFICES ASSUME TypeInv, [Handled]_vars PROVE TypeInv'
  OBVIOUS
<1>1. CASE Tick
  BY <1>1, NumbersAssumption
     DEF Tick, evidence, TypeInv, TypeOK, RowsMatch, Bounded, EventId
<1>2. CASE CheckDue
  BY <1>2, FinishStepTyped
<1>3. CASE \E batch \in SUBSET Body : Ingest(batch)
  BY <1>3, IngestTyped
<1>4. CASE \E batch \in SUBSET Body : \E e \in batch : IngestConflict(batch, e)
  BY <1>4, IngestConflictTyped
<1>5. CASE \E receipts \in SUBSET CloseReceipt, frontiers \in SUBSET DecisionFrontier :
             Ack(receipts, frontiers)
  BY <1>5, AckTyped DEF CloseReceipt, DecisionFrontier
<1>6. CASE \E i \in Ids : SettleRow(i)
  BY <1>6, SettleRowTyped
<1>7. CASE SettleDone
  BY <1>7, FinishStepTyped
<1>8. CASE UNCHANGED vars
  BY <1>8 DEF vars, TypeInv, TypeOK, RowsMatch, Bounded, EventId
<1> QED BY <1>1, <1>2, <1>3, <1>4, <1>5, <1>6, <1>7, <1>8 DEF Handled

\* Every value the server keeps about a round has the shape its tables and
\* messages give it, whatever is uploaded: in particular the elapsed time of a
\* result is a number within the round.
THEOREM TypeCorrect == Spec => []TypeOK
<1>1. Spec => []TypeInv
  BY InitTyped, StepTyped, BoxHandled, PTL DEF Spec
<1>2. TypeInv => TypeOK
  BY DEF TypeInv
<1> QED BY <1>1, <1>2, PTL

-----------------------------------------------------------------------------
(***************************************************************************)
(* The tree of infections.  InfectionTree says nothing of patient zero     *)
(* while the others are infected, so that it was never a victim is added.  *)
(***************************************************************************)
PatientZeroStays == role[PatientZero].role = "Z"
TreeInv == TypeInv /\ InfectionTree /\ PatientZeroStays /\ OneInfectionEach /\ Frontier

\* The steps that settle no row leave roles and accepted events as they are,
\* and no row leaves or enters the decided ones except by arriving too late.
Quiet ==
  /\ UNCHANGED role
  /\ \A i \in Ids : body[i] # NoBody => body'[i] = body[i] /\ status'[i] = status[i]
  /\ \A i \in Ids : body[i] = NoBody =>
       \/ status'[i] \in {"none", "pending_dependency"}
       \/ (status'[i] = "rejected" /\ end.phase = "final")
  /\ end.phase = "final" => end' = end /\ endCommands' = endCommands

\* finishIfDue changes nothing once the result is final.
LEMMA FinalStays ==
  ASSUME TypeInv, end.phase = "final", NEW receipts, NEW saved, FinishIfDue(receipts, saved)
  PROVE  end' = end /\ endCommands' = endCommands
<1>1. EndOrSame(receipts) = end
  BY DEF EndOrSame
<1>2. end' = end /\ endCommands' = endCommands \o <<>> \o <<>>
  BY <1>1 DEF FinishIfDue
<1>3. endCommands \in Seq(Command)
  BY DEF TypeInv, TypeOK
<1> QED BY <1>2, <1>3, ConcatEmptySeq

\* Every step but the settling of a row decides nothing: it leaves bodies it finds,
\* statuses and roles alone, and a result that is final.
LEMMA QuietSteps ==
  ASSUME TypeInv, [Handled]_vars, ~\E i \in Ids : SettleRow(i)
  PROVE  Quiet
<1> DEFINE SameRows == UNCHANGED <<body, status, role>>
<1>1. ASSUME SameRows, end.phase = "final" => end' = end /\ endCommands' = endCommands
      PROVE  Quiet
  <2>1. \A i \in Ids : body[i] = NoBody => status'[i] = "none"
    BY <1>1 DEF TypeInv, RowsMatch
  <2> QED BY <1>1, <2>1 DEF Quiet
<1>2. CASE Tick
  BY <1>1, <1>2 DEF Tick, evidence
<1>3. CASE CheckDue
  BY <1>1, <1>3, FinalStays DEF CheckDue, evidence
<1>4. CASE \E batch \in SUBSET Body : Ingest(batch)
  <2>1. PICK batch \in SUBSET Body : Ingest(batch)
    BY <1>4
  <2>2. UNCHANGED <<role, end, endCommands>>
    BY <2>1 DEF Ingest
  <2>3. \A i \in Ids : body[i] = NoBody => status[i] = "none"
    BY DEF TypeInv, RowsMatch
  <2>4. ASSUME NEW i \in Ids
        PROVE  /\ body[i] # NoBody => body'[i] = body[i] /\ status'[i] = status[i]
               /\ body[i] = NoBody =>
                    \/ status'[i] \in {"none", "pending_dependency"}
                    \/ (status'[i] = "rejected" /\ end.phase = "final")
    BY <2>1, <2>3, IngestRows
  <2> QED BY <2>2, <2>4 DEF Quiet
<1>5. CASE \E batch \in SUBSET Body : \E e \in batch : IngestConflict(batch, e)
  BY <1>1, <1>5 DEF IngestConflict
<1>6. CASE \E receipts \in SUBSET CloseReceipt, frontiers \in SUBSET DecisionFrontier :
             Ack(receipts, frontiers)
  <2>1. PICK receipts, frontiers : Ack(receipts, frontiers)
    BY <1>6
  <2>2. \E next : FinishIfDue(next, FALSE)
    BY <2>1 DEF Ack
  <2>3. UNCHANGED <<body, status, role>>
    BY <2>1 DEF Ack, evidence
  <2> QED BY <1>1, <2>2, <2>3, FinalStays
<1>7. CASE SettleDone
  BY <1>1, <1>7, FinalStays DEF SettleDone
<1>8. CASE UNCHANGED vars
  BY <1>1, <1>8 DEF vars
<1> QED BY <1>2, <1>3, <1>4, <1>5, <1>6, <1>7, <1>8 DEF Handled

\* The effect of settling one row, in the terms of the invariants.
LEMMA SettleRowEffect ==
  ASSUME TypeInv, NEW i \in Ids, SettleRow(i)
  PROVE  LET e == body[i] IN
         /\ e \in Body /\ EventId(e) = i /\ status[i] = "pending_dependency"
         /\ body' = body /\ end' = end /\ endCommands' = endCommands
         /\ status'[i] \in {"accepted", "rejected"}
         /\ \A j \in Ids \ {i} : status'[j] = status[j]
         /\ status'[i] = "accepted" =>
              /\ e.victim \in Roster
              /\ Admissible(e) /\ ParentHolds(e) /\ ~AttemptUsed(e)
         /\ \A s \in Roster \ {e.victim} : role'[s] = role[s]
         /\ e.victim \in Roster =>
              /\ e.seq = role[e.victim].covered_seq + 1
              /\ role'[e.victim] = RoleAfter(e, status'[i])
<1> DEFINE e == body[i]
           decision == Decision(e)
<1>1. status[i] = "pending_dependency" /\ decision # "pending_dependency"
  BY DEF SettleRow
<1>2. e \in Body /\ EventId(e) = i
  BY <1>1, PendingRow
<1>3. decision \in {"accepted", "rejected"}
  BY <1>1, DecisionFacts
<1>4. status' = [status EXCEPT ![i] = decision] /\ UNCHANGED <<body, end, endCommands>>
  BY DEF SettleRow
<1>5. status'[i] = decision /\ \A j \in Ids \ {i} : status'[j] = status[j]
  BY <1>4 DEF TypeInv, TypeOK
<1>6. decision = "accepted" => /\ e.victim \in Roster
                               /\ Admissible(e) /\ ParentHolds(e) /\ ~AttemptUsed(e)
  BY DecisionFacts
<1>7. e.victim \in Roster => e.seq = role[e.victim].covered_seq + 1
  BY <1>1, DecisionFacts
<1>8. IF e.victim \in Roster
      THEN role' = [role EXCEPT ![e.victim] = RoleAfter(e, decision)]
      ELSE role' = role
  BY DEF SettleRow, SaveRole
<1>9. /\ \A s \in Roster \ {e.victim} : role'[s] = role[s]
      /\ e.victim \in Roster => role'[e.victim] = RoleAfter(e, decision)
  <2> HIDE DEF e, decision
  <2> QED BY <1>8 DEF TypeInv, TypeOK
<1> HIDE DEF decision
<1> QED BY <1>1, <1>2, <1>3, <1>4, <1>5, <1>6, <1>7, <1>9

\* The tree of a round that has just started is patient zero alone.
LEMMA InitSafe == Init => TreeInv
<1> SUFFICES ASSUME Init PROVE TreeInv
  OBVIOUS
<1>1. TypeInv
  BY InitTyped
<1>2. \A i \in Ids : status[i] = "none"
  BY DEF Init
<1>3. \A s \in Roster :
        /\ role[s].role = "Z" <=> s = PatientZero
        /\ s = PatientZero => role[s].cause = 0
        /\ role[s].role_rev = 1 /\ role[s].covered_seq = 0
  <2>1. \A s \in Roster : role[s] = FirstRole(s)
    BY DEF Init
  <2>2. ASSUME NEW s \in Roster
        PROVE  /\ FirstRole(s).role = "Z" <=> s = PatientZero
               /\ s = PatientZero => FirstRole(s).cause = 0
               /\ FirstRole(s).role_rev = 1 /\ FirstRole(s).covered_seq = 0
    BY DEF FirstRole
  <2> QED BY <2>1, <2>2
<1>4. InfectionTree
  BY <1>2, <1>3, NumbersAssumption DEF InfectionTree, Accepted
<1>5. PatientZeroStays
  BY <1>3, RosterAssumption DEF PatientZeroStays
<1>6. OneInfectionEach
  BY <1>2 DEF OneInfectionEach, Accepted
<1>7. Frontier
  <2>1. \A s \in Roster : \A q \in Seqs : ~Decided(<<s, q>>)
    BY <1>2, RosterAssumption DEF Decided, Ids
  <2>2. \A q \in 1..MaxSeq : q \in Seqs
    BY DEF Seqs
  <2> QED BY <1>3, <2>1, <2>2, NumbersAssumption DEF Frontier
<1> QED BY <1>1, <1>4, <1>5, <1>6, <1>7 DEF TreeInv

\* Steps that decide nothing keep the tree.
LEMMA QuietSafe ==
  ASSUME TreeInv, Quiet, TypeInv'
  PROVE  TreeInv'
<1>1. TypeInv
  BY DEF TreeInv
<1>2. Accepted' = Accepted /\ \A i \in Accepted : body'[i] = body[i]
  <2>1. \A i \in Ids : body[i] = NoBody => status[i] = "none"
    BY <1>1 DEF TypeInv, RowsMatch
  <2>2. \A i \in Ids : status'[i] = "accepted" <=> status[i] = "accepted"
    BY <2>1 DEF Quiet
  <2>3. \A i \in Accepted : body[i] # NoBody
    BY <2>1 DEF Accepted
  <2> QED BY <2>2, <2>3 DEF Quiet, Accepted
<1>3. InfectionTree'
  <2>1. InfectionTree /\ role' = role
    BY DEF TreeInv, Quiet
  <2>2. /\ \A i \in Accepted : LET e == body'[i] IN
              /\ EventId(e) = i /\ e.victim \in Roster
              /\ role[e.victim].role = "Z" /\ role[e.victim].cause = e.seq
              /\ IF e.cause.seq = 0 THEN e.actor = PatientZero
                 ELSE ParentId(e) \in Accepted
              /\ e.actor # e.victim
        /\ \A s \in Roster : role[s].role = "Z" =>
             \/ s = PatientZero /\ role[s].cause = 0
             \/ s # PatientZero /\ <<s, role[s].cause>> \in Accepted
    BY <1>2, <2>1 DEF InfectionTree
  <2> QED BY <1>2, <2>1, <2>2 DEF InfectionTree, EventId, ParentId
<1>4. PatientZeroStays'
  BY DEF TreeInv, PatientZeroStays, Quiet
<1>5. OneInfectionEach'
  BY <1>2 DEF TreeInv, OneInfectionEach
<1>6. Frontier'
  <2> SUFFICES ASSUME NEW s \in Roster
               PROVE  /\ role[s].role_rev = role[s].covered_seq + 1
                      /\ \A q \in 1..role[s].covered_seq : Decided(<<s, q>>)'
                      /\ \A q \in (role[s].covered_seq + 1)..MaxSeq :
                           Decided(<<s, q>>)' => status'[<<s, q>>] = "rejected"
                                                 /\ end'.phase = "final"
    BY DEF Frontier, Quiet, Decided
  <2>1. role[s].covered_seq \in 0..MaxSeq /\ MaxSeq \in Nat
    BY <1>1, NumbersAssumption DEF TypeInv, TypeOK, Role
  <2>2. \A q \in 1..MaxSeq : <<s, q>> \in Ids
    BY RosterAssumption DEF Ids, Seqs
  <2>3. \A i \in Ids : body[i] = NoBody <=> status[i] = "none"
    BY <1>1 DEF TypeInv, RowsMatch
  <2>4. \A i \in Ids : Decided(i) => status'[i] = status[i]
    BY <2>3 DEF Quiet, Decided
  <2>5. \A i \in Ids : Decided(i)' /\ ~Decided(i)
          => status'[i] = "rejected" /\ end.phase = "final"
    BY <2>3 DEF Quiet, Decided
  <2>6. end.phase = "final" => end'.phase = "final"
    BY DEF Quiet
  <2>7. /\ role[s].role_rev = role[s].covered_seq + 1
        /\ \A q \in 1..role[s].covered_seq : Decided(<<s, q>>)
        /\ \A q \in (role[s].covered_seq + 1)..MaxSeq :
             Decided(<<s, q>>) => status[<<s, q>>] = "rejected" /\ end.phase = "final"
    BY DEF TreeInv, Frontier
  <2>8. \A q \in 1..role[s].covered_seq : Decided(<<s, q>>)'
    <3>1. \A q \in 1..role[s].covered_seq : q \in 1..MaxSeq
      BY <2>1
    <3> QED BY <2>2, <2>4, <2>7, <3>1 DEF Decided
  <2>9. ASSUME NEW q \in (role[s].covered_seq + 1)..MaxSeq, Decided(<<s, q>>)'
        PROVE  status'[<<s, q>>] = "rejected" /\ end'.phase = "final"
    <3>1. <<s, q>> \in Ids
      BY <2>1, <2>2
    <3> QED BY <2>4, <2>5, <2>6, <2>7, <2>9, <3>1
  <2> QED BY <2>7, <2>8, <2>9
<1> QED BY <1>3, <1>4, <1>5, <1>6 DEF TreeInv

\* Deciding one row keeps the tree: the heart of the argument.
LEMMA SettleRowSafe ==
  ASSUME TreeInv, NEW i \in Ids, SettleRow(i), TypeInv'
  PROVE  TreeInv'
<1> DEFINE e == body[i]
<1> USE RosterAssumption, NumbersAssumption
<1>1. TypeInv
  BY DEF TreeInv
<1>2. /\ e \in Body /\ EventId(e) = i /\ status[i] = "pending_dependency"
      /\ body' = body /\ end' = end
      /\ status'[i] \in {"accepted", "rejected"}
      /\ \A j \in Ids \ {i} : status'[j] = status[j]
      /\ status'[i] = "accepted" =>
           /\ e.victim \in Roster
           /\ Admissible(e) /\ ParentHolds(e) /\ ~AttemptUsed(e)
      /\ \A s \in Roster \ {e.victim} : role'[s] = role[s]
      /\ e.victim \in Roster =>
           /\ e.seq = role[e.victim].covered_seq + 1
           /\ role'[e.victim] = RoleAfter(e, status'[i])
  BY <1>1, SettleRowEffect
<1> HIDE DEF e
<1>3. i = <<e.victim, e.seq>> /\ i \notin Accepted
  BY <1>2 DEF EventId, Accepted
<1>4. e.victim \in Roster =>
        /\ role'[e.victim].covered_seq = e.seq
        /\ role'[e.victim].role_rev = role[e.victim].role_rev + 1
        /\ status'[i] = "rejected" => /\ role'[e.victim].role = role[e.victim].role
                                      /\ role'[e.victim].cause = role[e.victim].cause
        /\ status'[i] = "accepted" => /\ role'[e.victim].role = "Z"
                                      /\ role'[e.victim].cause = e.seq
  BY <1>2 DEF RoleAfter
<1>5. status'[i] = "accepted" =>
        /\ e.victim \in Roster /\ role[e.victim].role = "H"
        /\ e.actor # e.victim
        /\ IF e.cause.seq = 0 THEN e.actor = PatientZero
           ELSE ParentId(e) \in Accepted
  <2> SUFFICES ASSUME status'[i] = "accepted"
               PROVE  /\ role[e.victim].role = "H" /\ e.actor # e.victim
                      /\ IF e.cause.seq = 0 THEN e.actor = PatientZero
                         ELSE ParentId(e) \in Accepted
    BY <1>2
  <2>1. Admissible(e) /\ ParentHolds(e)
    BY <1>2
  <2>2. role[e.victim].role = "H" /\ e.actor # e.victim
    BY <2>1 DEF Admissible, VictimWasHuman
  <2>3. CASE e.cause.seq = 0
    BY <2>1, <2>2, <2>3 DEF Admissible
  <2>4. CASE e.cause.seq # 0
    <3>1. ParentId(e) \in Ids
      BY <1>2, <2>4 DEF ParentId, Ids, Body, Seqs
    <3> QED BY <2>1, <2>2, <2>4, <3>1 DEF ParentHolds, Accepted
  <2> QED BY <2>3, <2>4
<1>6. Accepted' = IF status'[i] = "accepted" THEN Accepted \cup {i} ELSE Accepted
  BY <1>2 DEF Accepted
<1>7. \A s \in Roster : role[s].role = "Z" =>
        role'[s].role = "Z" /\ role'[s].cause = role[s].cause
  BY <1>2, <1>4, <1>5
<1>8. InfectionTree'
  <2>1. InfectionTree
    BY DEF TreeInv
  <2>2. ASSUME NEW j \in Accepted'
        PROVE  LET f == body[j] IN
               /\ EventId(f) = j /\ f.victim \in Roster
               /\ role'[f.victim].role = "Z" /\ role'[f.victim].cause = f.seq
               /\ IF f.cause.seq = 0 THEN f.actor = PatientZero
                  ELSE ParentId(f) \in Accepted'
               /\ f.actor # f.victim
    <3>1. CASE j = i
      <4>1. status'[i] = "accepted"
        BY <2>2, <3>1 DEF Accepted
      <4> QED BY <1>2, <1>4, <1>5, <1>6, <3>1, <4>1 DEF e
    <3>2. CASE j # i
      <4>1. j \in Accepted
        BY <1>6, <2>2, <3>2
      <4>2. LET f == body[j] IN
            /\ EventId(f) = j /\ f.victim \in Roster
            /\ role[f.victim].role = "Z" /\ role[f.victim].cause = f.seq
            /\ IF f.cause.seq = 0 THEN f.actor = PatientZero
               ELSE ParentId(f) \in Accepted
            /\ f.actor # f.victim
        BY <2>1, <4>1 DEF InfectionTree
      <4> QED BY <1>6, <1>7, <4>2
    <3> QED BY <3>1, <3>2
  <2>3. ASSUME NEW s \in Roster, role'[s].role = "Z"
        PROVE  \/ s = PatientZero /\ role'[s].cause = 0
               \/ s # PatientZero /\ <<s, role'[s].cause>> \in Accepted'
    <3>1. CASE role[s].role = "Z"
      <4>1. \/ s = PatientZero /\ role[s].cause = 0
            \/ s # PatientZero /\ <<s, role[s].cause>> \in Accepted
        BY <2>1, <3>1 DEF InfectionTree
      <4> QED BY <1>6, <1>7, <3>1, <4>1
    <3>2. CASE role[s].role # "Z"
      <4>1. s = e.victim /\ status'[i] = "accepted"
        BY <1>2, <1>4, <2>3, <3>2
      <4>2. s # PatientZero
        BY <3>2 DEF TreeInv, PatientZeroStays
      <4> QED BY <1>3, <1>4, <1>6, <4>1, <4>2
    <3> QED BY <3>1, <3>2
  <2> QED BY <1>2, <2>2, <2>3 DEF InfectionTree, EventId, ParentId
<1>9. PatientZeroStays'
  BY <1>7 DEF TreeInv, PatientZeroStays
<1>10. OneInfectionEach'
  <2>1. ASSUME NEW j \in Accepted, status'[i] = "accepted"
        PROVE  /\ body[j].victim # e.victim
               /\ ~(body[j].actor = e.actor /\ body[j].attempt = e.attempt)
    <3>1. role[body[j].victim].role = "Z" /\ j \in Ids /\ j # i /\ status[j] = "accepted"
      BY <1>3 DEF TreeInv, InfectionTree, Accepted
    <3>2. body[j].victim # e.victim
      BY <1>5, <2>1, <3>1
    <3>3. ~AttemptUsed(e) /\ j \in Ids \ {EventId(e)}
      BY <1>2, <2>1, <3>1
    <3> QED BY <3>1, <3>2, <3>3 DEF AttemptUsed
  <2>2. \A j, k \in Accepted : j # k =>
          /\ body[j].victim # body[k].victim
          /\ ~(body[j].actor = body[k].actor /\ body[j].attempt = body[k].attempt)
    BY DEF TreeInv, OneInfectionEach
  <2> QED BY <1>2, <1>6, <2>1, <2>2 DEF OneInfectionEach, e
<1>11. Frontier'
  <2> SUFFICES ASSUME NEW s \in Roster
               PROVE  /\ role'[s].role_rev = role'[s].covered_seq + 1
                      /\ \A q \in 1..role'[s].covered_seq : Decided(<<s, q>>)'
                      /\ \A q \in (role'[s].covered_seq + 1)..MaxSeq :
                           Decided(<<s, q>>)' => status'[<<s, q>>] = "rejected"
                                                 /\ end'.phase = "final"
    BY DEF Frontier, Decided
  <2>1. /\ role[s].role_rev = role[s].covered_seq + 1
        /\ \A q \in 1..role[s].covered_seq : Decided(<<s, q>>)
        /\ \A q \in (role[s].covered_seq + 1)..MaxSeq :
             Decided(<<s, q>>) => status[<<s, q>>] = "rejected" /\ end.phase = "final"
    BY DEF TreeInv, Frontier
  <2>2. role[s].covered_seq \in 0..MaxSeq
    BY <1>1 DEF TypeInv, TypeOK, Role
  <2>3. \A q \in 1..MaxSeq : <<s, q>> \in Ids
    BY DEF Ids, Seqs
  <2>4. Decided(i)' /\ \A j \in Ids \ {i} : status'[j] = status[j]
    BY <1>2 DEF Decided
  <2>5. CASE s = e.victim
    <3>1. /\ role'[s].covered_seq = role[s].covered_seq + 1
          /\ role'[s].role_rev = role[s].role_rev + 1
          /\ i = <<s, role[s].covered_seq + 1>>
      BY <1>2, <1>3, <1>4, <2>5
    <3>2. role[s].covered_seq + 1 \in 1..MaxSeq
      BY <1>2, <2>2, <3>1 DEF Ids, Seqs
    <3>3. ASSUME NEW q \in 1..(role[s].covered_seq + 1)
          PROVE  Decided(<<s, q>>)'
      <4>1. CASE q = role[s].covered_seq + 1
        BY <2>4, <3>1, <4>1
      <4>2. CASE q # role[s].covered_seq + 1
        <5>1. q \in 1..role[s].covered_seq /\ q \in 1..MaxSeq
          BY <2>2, <3>2, <4>2
        <5>2. <<s, q>> \in Ids \ {i}
          BY <2>3, <3>1, <4>2, <5>1
        <5> QED BY <2>1, <2>4, <5>1, <5>2 DEF Decided
      <4> QED BY <4>1, <4>2
    <3>4. ASSUME NEW q \in (role[s].covered_seq + 2)..MaxSeq, Decided(<<s, q>>)'
          PROVE  status'[<<s, q>>] = "rejected" /\ end'.phase = "final"
      <4>1. q \in (role[s].covered_seq + 1)..MaxSeq /\ q \in 1..MaxSeq
            /\ q # role[s].covered_seq + 1
        BY <2>2
      <4>2. <<s, q>> \in Ids \ {i}
        BY <2>3, <3>1, <4>1
      <4> QED BY <1>2, <2>1, <2>4, <3>4, <4>1, <4>2 DEF Decided
    <3>5. role'[s].covered_seq + 1 = role[s].covered_seq + 2
      BY <2>2, <3>1
    <3> QED BY <2>1, <3>1, <3>3, <3>4, <3>5
  <2>6. CASE s # e.victim
    <3>1. role'[s] = role[s]
      BY <1>2, <2>6
    <3>2. \A q \in 1..MaxSeq : <<s, q>> \in Ids \ {i}
      BY <1>3, <2>3, <2>6
    <3>3. \A q \in 1..role[s].covered_seq : q \in 1..MaxSeq
      BY <2>2
    <3>4. \A q \in (role[s].covered_seq + 1)..MaxSeq : q \in 1..MaxSeq
      BY <2>2
    <3> QED BY <1>2, <2>1, <2>4, <3>1, <3>2, <3>3, <3>4 DEF Decided
  <2> QED BY <2>5, <2>6
<1> QED BY <1>8, <1>9, <1>10, <1>11 DEF TreeInv

\* Every step of the server keeps the tree.
LEMMA StepSafe == TreeInv /\ [Handled]_vars => TreeInv'
<1> SUFFICES ASSUME TreeInv, [Handled]_vars PROVE TreeInv'
  OBVIOUS
<1>1. TypeInv /\ TypeInv'
  BY StepTyped DEF TreeInv
<1>2. CASE \E i \in Ids : SettleRow(i)
  BY <1>1, <1>2, SettleRowSafe
<1>3. CASE ~\E i \in Ids : SettleRow(i)
  BY <1>1, <1>3, QuietSteps, QuietSafe
<1> QED BY <1>2, <1>3

\* The strengthened tree invariant holds throughout.
LEMMA AlwaysSafe == Spec => []TreeInv
BY InitSafe, StepSafe, BoxHandled, PTL DEF Spec

\* However uploads are ordered, repeated and contradicted, the accepted
\* infections form a tree in which every zombie but patient zero was infected
\* once, by an accepted event whose cause settleEvents accepted before it.
THEOREM TreeAlways == Spec => []InfectionTree
<1>1. TreeInv => InfectionTree
  BY DEF TreeInv
<1> QED BY <1>1, AlwaysSafe, PTL

\* No badge is infected twice and no tag attempt infects two badges.
THEOREM OnceAlways == Spec => []OneInfectionEach
<1>1. TreeInv => OneInfectionEach
  BY DEF TreeInv
<1> QED BY <1>1, AlwaysSafe, PTL

\* covered_seq is the decided prefix of a badge's events, for all sequences.
THEOREM FrontierAlways == Spec => []Frontier
<1>1. TreeInv => Frontier
  BY DEF TreeInv
<1> QED BY <1>1, AlwaysSafe, PTL

-----------------------------------------------------------------------------
(***************************************************************************)
(* What no step may do.                                                    *)
(***************************************************************************)
\* No step revises a decision, replaces a body or cures a zombie.
LEMMA StepSticks ==
  ASSUME TreeInv, [Handled]_vars
  PROVE  /\ \A i \in Ids : Decided(i) => status'[i] = status[i]
         /\ \A i \in Ids : body[i] # NoBody => body'[i] = body[i]
         /\ \A s \in Roster : role[s].role = "Z" => role'[s].role = "Z"
         /\ \A s \in Roster : role'[s] # role[s] => role'[s].role_rev > role[s].role_rev
         /\ end.phase = "final" =>
              /\ end' = end /\ endCommands' = endCommands /\ Accepted' = Accepted
              /\ \A s \in Roster : role'[s].role = role[s].role
<1>1. TypeInv
  BY DEF TreeInv
<1>2. \A i \in Ids : Decided(i) => body[i] # NoBody
  BY <1>1 DEF TypeInv, RowsMatch, Decided
<1>3. CASE ~\E i \in Ids : SettleRow(i)
  <2>1. Quiet
    BY <1>1, <1>3, QuietSteps
  <2>2. \A i \in Ids : status'[i] = "accepted" <=> status[i] = "accepted"
    BY <1>1, <2>1 DEF Quiet, TypeInv, RowsMatch
  <2>3. Accepted' = Accepted
    BY <2>2 DEF Accepted
  <2> QED BY <1>2, <2>1, <2>3 DEF Quiet
<1>4. ASSUME NEW i \in Ids, SettleRow(i)
      PROVE  /\ \A j \in Ids : Decided(j) => status'[j] = status[j]
             /\ \A j \in Ids : body[j] # NoBody => body'[j] = body[j]
             /\ \A s \in Roster : role[s].role = "Z" => role'[s].role = "Z"
             /\ \A s \in Roster : role'[s] # role[s] => role'[s].role_rev > role[s].role_rev
             /\ end.phase = "final" =>
                  /\ end' = end /\ endCommands' = endCommands /\ Accepted' = Accepted
                  /\ \A s \in Roster : role'[s].role = role[s].role
  <2> DEFINE e == body[i]
  <2>1. /\ status[i] = "pending_dependency"
        /\ body' = body /\ end' = end /\ endCommands' = endCommands
        /\ status'[i] \in {"accepted", "rejected"}
        /\ \A j \in Ids \ {i} : status'[j] = status[j]
        /\ status'[i] = "accepted" => Admissible(e)
        /\ \A s \in Roster \ {e.victim} : role'[s] = role[s]
        /\ e.victim \in Roster => role'[e.victim] = RoleAfter(e, status'[i])
    BY <1>1, <1>4, SettleRowEffect
  <2> HIDE DEF e
  <2>2. e.victim \in Roster =>
          /\ role'[e.victim].role_rev = role[e.victim].role_rev + 1
          /\ role'[e.victim].role \in {role[e.victim].role, "Z"}
          /\ status'[i] = "rejected" => role'[e.victim].role = role[e.victim].role
    BY <2>1 DEF RoleAfter
  <2>3. \A s \in Roster : role[s].role_rev \in Nat
    BY <1>1 DEF TypeInv, TypeOK, Role
  <2>4. \A s \in Roster : role'[s] # role[s] => role'[s].role_rev > role[s].role_rev
    BY <2>1, <2>2, <2>3
  <2>5. end.phase = "final" => status'[i] = "rejected"
    BY <2>1 DEF Admissible, InRound
  <2>6. end.phase = "final" => Accepted' = Accepted
    BY <2>1, <2>5 DEF Accepted
  <2>7. \A j \in Ids : Decided(j) => status'[j] = status[j]
    BY <2>1 DEF Decided
  <2> QED BY <2>1, <2>2, <2>4, <2>5, <2>6, <2>7
<1> QED BY <1>3, <1>4

\* A decision that was stored is never revised, a stored body never replaced,
\* and no canonical zombie turns human again.
THEOREM DecisionsAlwaysStick == Spec => DecisionsStick
<1>1. TreeInv /\ [Handled]_vars =>
        [/\ \A i \in Ids : Decided(i) => status'[i] = status[i]
         /\ \A i \in Ids : body[i] # NoBody => body'[i] = body[i]
         /\ \A s \in Roster : role[s].role = "Z" => role'[s].role = "Z"]_vars
  BY StepSticks
<1> QED BY <1>1, AlwaysSafe, BoxHandled, PTL DEF Spec, DecisionsStick

\* The final result is the last word, whatever evidence still arrives.
THEOREM FinalAlwaysFinal == Spec => FinalIsFinal
<1>1. TreeInv /\ [Handled]_vars =>
        [end.phase = "final" =>
           /\ end' = end /\ endCommands' = endCommands
           /\ Accepted' = Accepted
           /\ \A s \in Roster : role'[s].role = role[s].role]_vars
  BY StepSticks
<1> QED BY <1>1, AlwaysSafe, BoxHandled, PTL DEF Spec, FinalIsFinal

\* A published role is replaced only under a higher revision.
THEOREM RevisionsAlwaysIdentify == Spec => RevisionsIdentifyRoles
<1>1. TreeInv /\ [Handled]_vars =>
        [\A s \in Roster : role'[s] # role[s] => role'[s].role_rev > role[s].role_rev]_vars
  BY StepSticks
<1> QED BY <1>1, AlwaysSafe, BoxHandled, PTL DEF Spec, RevisionsIdentifyRoles

-----------------------------------------------------------------------------
(***************************************************************************)
(* The stored snapshot.  While settleEvents runs it lags behind the roles; *)
(* the loop remembers in `changed' that it owes a snapshot.                *)
(***************************************************************************)
SnapshotInv ==
  settling # "changed" =>
    snapshot = [role |-> role, end |-> end, revision |-> revision]

\* finishIfDue leaves a current snapshot behind, provided the caller saved or
\* nothing had changed.
LEMMA FinishSnapshot ==
  ASSUME NEW receipts, NEW saved \in BOOLEAN, FinishIfDue(receipts, saved),
         saved \/ snapshot = [role |-> role, end |-> end, revision |-> revision],
         role' = role
  PROVE  snapshot' = [role |-> role', end |-> end', revision |-> revision']
<1>1. CASE saved \/ EndOrSame(receipts) # end
  BY <1>1 DEF FinishIfDue
<1>2. CASE ~saved /\ EndOrSame(receipts) = end
  BY <1>2 DEF FinishIfDue
<1> QED BY <1>1, <1>2

\* Every step keeps the stored snapshot current between handlers.
LEMMA StepSnapshot == TypeInv /\ SnapshotInv /\ [Handled]_vars => SnapshotInv'
<1> SUFFICES ASSUME TypeInv, SnapshotInv, [Handled]_vars PROVE SnapshotInv'
  OBVIOUS
<1>1. CASE Tick
  BY <1>1 DEF Tick, SnapshotInv
<1>2. CASE CheckDue
  BY <1>2, FinishSnapshot DEF CheckDue, SnapshotInv
<1>3. CASE \E batch \in SUBSET Body : Ingest(batch)
  BY <1>3 DEF Ingest, Served, SnapshotInv
<1>4. CASE \E batch \in SUBSET Body : \E e \in batch : IngestConflict(batch, e)
  BY <1>4 DEF IngestConflict, SnapshotInv
<1>5. CASE \E receipts \in SUBSET CloseReceipt, frontiers \in SUBSET DecisionFrontier :
             Ack(receipts, frontiers)
  <2>1. PICK next : FinishIfDue(next, FALSE)
    BY <1>5 DEF Ack
  <2>2. settling = "idle" /\ role' = role
    BY <1>5 DEF Ack, Served
  <2> QED BY <2>1, <2>2, FinishSnapshot DEF SnapshotInv
<1>6. CASE \E i \in Ids : SettleRow(i)
  BY <1>6 DEF SettleRow, SnapshotInv
<1>7. CASE SettleDone
  <2>1. FinishIfDue(closed, settling = "changed") /\ role' = role
    BY <1>7 DEF SettleDone
  <2> QED BY <2>1, FinishSnapshot DEF SnapshotInv
<1>8. CASE UNCHANGED vars
  BY <1>8 DEF vars, SnapshotInv
<1> QED BY <1>1, <1>2, <1>3, <1>4, <1>5, <1>6, <1>7, <1>8 DEF Handled

\* Between two handlers the stored snapshot is the server's state.
THEOREM SnapshotAlwaysCurrent == Spec => []SnapshotCurrent
<1>1. Init => SnapshotInv
  BY DEF Init, SnapshotInv
<1>2. Spec => []TypeInv
  BY InitTyped, StepTyped, BoxHandled, PTL DEF Spec
<1>3. SnapshotInv => SnapshotCurrent
  BY DEF SnapshotInv, SnapshotCurrent
<1> QED BY <1>1, <1>2, <1>3, StepSnapshot, BoxHandled, PTL DEF Spec

-----------------------------------------------------------------------------
(***************************************************************************)
(* The result.  The last command sent always carries the winner last       *)
(* published; the winner itself may lag behind the roles only while        *)
(* settleEvents runs, and never once the result is final.                  *)
(***************************************************************************)
LastCommand == endCommands[Len(endCommands)]

CommandInv ==
  end.phase # "running" =>
    /\ endCommands # <<>>
    /\ LastCommand.winner = end.winner
    /\ end.phase = "final" <=> LastCommand.type = "FINAL_RESULT"

WinnerInv ==
  end.phase # "running" /\ (settling = "idle" \/ end.phase = "final") =>
    (end.winner = "Z" <=> AllInfected)

\* The last command after one or two were appended.
LEMMA LastOfConcat ==
  ASSUME NEW S, NEW s \in Seq(S), NEW c \in S
  PROVE  /\ s \o <<c>> \in Seq(S) /\ s \o <<c>> # <<>>
         /\ (s \o <<c>>)[Len(s \o <<c>>)] = c
<1>1. <<c>> \in Seq(S) /\ Len(<<c>>) = 1 /\ <<c>>[1] = c
  OBVIOUS
<1>2. Len(s) \in Nat
  BY LenProperties
<1>3. /\ s \o <<c>> \in Seq(S)
      /\ Len(s \o <<c>>) = Len(s) + 1
      /\ (s \o <<c>>)[Len(s) + 1] = <<c>>[1]
  <2> DEFINE t == <<c>>
  <2>1. t \in Seq(S) /\ Len(t) = 1
    BY <1>1
  <2> HIDE DEF t
  <2>2. /\ s \o t \in Seq(S) /\ Len(s \o t) = Len(s) + Len(t)
        /\ \A k \in 1..(Len(s) + Len(t)) :
             (s \o t)[k] = IF k <= Len(s) THEN s[k] ELSE t[k - Len(s)]
    BY <2>1, ConcatProperties
  <2>3. Len(s) + 1 \in 1..(Len(s) + Len(t)) /\ ~(Len(s) + 1 <= Len(s))
        /\ (Len(s) + 1) - Len(s) = 1
    BY <1>2, <2>1
  <2>4. (s \o t)[Len(s) + 1] = t[1]
    BY <2>2, <2>3
  <2> QED BY <2>1, <2>2, <2>4 DEF t
<1>4. s \o <<c>> # <<>>
  <2>1. Len(<<>>) = 0
    OBVIOUS
  <2> QED BY <1>2, <1>3, <2>1
<1> QED BY <1>1, <1>3, <1>4

\* finishIfDue leaves a result that agrees with the roles.
LEMMA FinishResult ==
  ASSUME TypeInv, CommandInv, end.phase = "final" => (end.winner = "Z" <=> AllInfected),
         NEW receipts, NEW saved, FinishIfDue(receipts, saved), role' = role
  PROVE  CommandInv' /\ (end'.phase # "running" => (end'.winner = "Z" <=> AllInfected'))
<1> DEFINE next == EndOrSame(receipts)
           first == IF next # end /\ (end.phase = "running" \/ next.winner # end.winner)
                    THEN <<EndRoundCommand(next)>> ELSE <<>>
           second == IF next # end /\ next.phase = "final"
                     THEN <<FinalResultCommand(next)>> ELSE <<>>
<1>1. end' = next /\ endCommands' = endCommands \o first \o second
  BY DEF FinishIfDue
<1>2. next \in End /\ endCommands \in Seq(Command)
  BY EndOrSameTyped DEF TypeInv, TypeOK
<1>3. next # end => /\ next = EndWith(receipts) /\ end.phase # "final"
  BY DEF EndOrSame
<1>4. next # end => next.phase \in {"final", "expired_pending_sync"}
  BY <1>3 DEF EndWith
<1>5. AllInfected' <=> AllInfected
  BY DEF AllInfected
<1>6. next.phase # "running" => (next.winner = "Z" <=> AllInfected)
  <2>1. CASE next = EndWith(receipts)
    BY <2>1 DEF EndWith
  <2>2. CASE next # EndWith(receipts)
    BY <1>3, <2>2 DEF EndOrSame
  <2> QED BY <2>1, <2>2
<1>7. /\ EndRoundCommand(next) \in Command /\ FinalResultCommand(next) \in Command
      /\ EndRoundCommand(next).winner = next.winner
      /\ EndRoundCommand(next).type = "END_ROUND"
      /\ FinalResultCommand(next).winner = next.winner
      /\ FinalResultCommand(next).type = "FINAL_RESULT"
  BY <1>2 DEF EndRoundCommand, FinalResultCommand, Command, End
<1>8. CommandInv'
  <2> HIDE DEF next
  <2>1. CASE next = end
    <3>1. first = <<>> /\ second = <<>>
      BY <2>1
    <3>2. endCommands' = endCommands
      BY <1>1, <1>2, <3>1, ConcatEmptySeq
    <3> QED BY <1>1, <2>1, <3>2 DEF CommandInv, LastCommand
  <2>2. CASE next # end /\ next.phase = "final"
    <3>1. first \in Seq(Command) /\ second = <<FinalResultCommand(next)>>
      BY <1>7, <2>2
    <3>2. endCommands \o first \in Seq(Command)
      <4> HIDE DEF first
      <4> QED BY <1>2, <3>1, ConcatProperties
    <3>3. /\ endCommands' = (endCommands \o first) \o <<FinalResultCommand(next)>>
      BY <1>1, <3>1
    <3>4. LastCommand' = FinalResultCommand(next) /\ endCommands' # <<>>
      <4> HIDE DEF first
      <4> QED BY <1>7, <3>2, <3>3, LastOfConcat DEF LastCommand
    <3> QED BY <1>1, <1>7, <2>2, <3>4 DEF CommandInv
  <2>3. CASE next # end /\ next.phase = "expired_pending_sync"
               /\ (end.phase = "running" \/ next.winner # end.winner)
    <3>1. first = <<EndRoundCommand(next)>> /\ second = <<>>
      BY <2>3
    <3>2. /\ endCommands \o <<EndRoundCommand(next)>> \in Seq(Command)
          /\ endCommands \o <<EndRoundCommand(next)>> # <<>>
          /\ (endCommands \o <<EndRoundCommand(next)>>)
               [Len(endCommands \o <<EndRoundCommand(next)>>)] = EndRoundCommand(next)
      BY <1>2, <1>7, LastOfConcat
    <3>3. endCommands' = endCommands \o <<EndRoundCommand(next)>>
      BY <1>1, <3>1, <3>2, ConcatEmptySeq
    <3>4. LastCommand' = EndRoundCommand(next) /\ endCommands' # <<>>
      BY <3>2, <3>3 DEF LastCommand
    <3> QED BY <1>1, <1>7, <2>3, <3>4 DEF CommandInv
  <2>4. CASE next # end /\ next.phase = "expired_pending_sync"
               /\ ~(end.phase = "running" \/ next.winner # end.winner)
    <3>1. first = <<>> /\ second = <<>>
      BY <2>4
    <3>2. endCommands' = endCommands
      BY <1>1, <1>2, <3>1, ConcatEmptySeq
    <3> QED BY <1>1, <1>3, <2>4, <3>2 DEF CommandInv, LastCommand
  <2> QED BY <1>4, <2>1, <2>2, <2>3, <2>4
<1> QED BY <1>1, <1>5, <1>6, <1>8

\* Every step keeps the result in agreement with the roles between handlers.
LEMMA StepResult ==
  ASSUME TreeInv, CommandInv, WinnerInv, [Handled]_vars
  PROVE  CommandInv' /\ WinnerInv'
<1>1. TypeInv
  BY DEF TreeInv
<1>2. ASSUME UNCHANGED <<end, endCommands>>
      PROVE  CommandInv'
  BY <1>2 DEF CommandInv, LastCommand
<1>3. ASSUME UNCHANGED <<end, endCommands, role, settling>>
      PROVE  CommandInv' /\ WinnerInv'
  BY <1>2, <1>3 DEF WinnerInv, AllInfected
<1>4. ASSUME NEW receipts, NEW saved, FinishIfDue(receipts, saved), role' = role
      PROVE  CommandInv' /\ WinnerInv'
  BY <1>1, <1>4, FinishResult DEF WinnerInv
<1>5. CASE Tick
  BY <1>3, <1>5 DEF Tick
<1>6. CASE CheckDue
  BY <1>4, <1>6 DEF CheckDue
<1>7. CASE \E batch \in SUBSET Body : Ingest(batch)
  BY <1>2, <1>7 DEF Ingest, Served, WinnerInv, AllInfected
<1>8. CASE \E batch \in SUBSET Body : \E e \in batch : IngestConflict(batch, e)
  BY <1>3, <1>8 DEF IngestConflict
<1>9. CASE \E receipts \in SUBSET CloseReceipt, frontiers \in SUBSET DecisionFrontier :
             Ack(receipts, frontiers)
  <2>1. PICK next : FinishIfDue(next, FALSE) /\ role' = role
    BY <1>9 DEF Ack
  <2> QED BY <1>4, <2>1
<1>10. CASE \E i \in Ids : SettleRow(i)
  <2>1. UNCHANGED <<end, endCommands>> /\ settling' = "changed"
    BY <1>10 DEF SettleRow
  <2>2. end.phase = "final" => \A s \in Roster : role'[s].role = role[s].role
    BY StepSticks
  <2> QED BY <1>2, <2>1, <2>2 DEF WinnerInv, AllInfected
<1>11. CASE SettleDone
  BY <1>4, <1>11 DEF SettleDone
<1>12. CASE UNCHANGED vars
  BY <1>3, <1>12 DEF vars
<1> QED BY <1>5, <1>6, <1>7, <1>8, <1>9, <1>10, <1>11, <1>12 DEF Handled

\* Once the round is over, between two handlers, the published winner is the
\* one the roles call for, and the last command sent says the same.
THEOREM ResultAlwaysAgrees == Spec => []ResultAgrees
<1>1. Init => CommandInv /\ WinnerInv
  BY DEF Init, Running, CommandInv, WinnerInv
<1>2. TreeInv /\ CommandInv /\ WinnerInv /\ [Handled]_vars => CommandInv' /\ WinnerInv'
  BY StepResult
<1>3. Spec => [](CommandInv /\ WinnerInv)
  BY <1>1, <1>2, AlwaysSafe, BoxHandled, PTL DEF Spec
<1>4. CommandInv /\ WinnerInv => ResultAgrees
  BY DEF CommandInv, WinnerInv, ResultAgrees, LastCommand
<1> QED BY <1>3, <1>4, PTL

-----------------------------------------------------------------------------
(***************************************************************************)
(* What an undecided row waits for.  Reach walks as many steps as there    *)
(* are stored rows: if it met none that is missing, it has come to an end. *)
(***************************************************************************)
Grown(X) == UNION {{i} \cup DependsOn(i) : i \in X}

\* There are finitely many rows.
LEMMA StoredFinite == IsFiniteSet(Ids) /\ IsFiniteSet(Stored) /\ Cardinality(Stored) \in Nat
<1>1. IsFiniteSet(Seqs)
  BY NumbersAssumption, FS_Interval DEF Seqs
<1>2. IsFiniteSet(Ids)
  BY <1>1, RosterAssumption, FS_Product DEF Ids
<1> QED BY <1>2, FS_Subset, FS_CardinalityType DEF Stored

\* The walk, step by step.
LEMMA ReachUnfolds ==
  ASSUME NEW from \in SUBSET Ids
  PROVE  \E upto \in [0..Cardinality(Stored) -> SUBSET Ids] :
           /\ upto[0] = from
           /\ \A n \in 1..Cardinality(Stored) : upto[n] = Grown(upto[n - 1])
           /\ Reach(from) = upto[Cardinality(Stored)]
<1> DEFINE N == Cardinality(Stored)
           F == [X \in SUBSET Ids |-> Grown(X)]
           Eq(f) == f = [n \in 0..N |-> IF n = 0 THEN from ELSE Grown(f[n - 1])]
           upto == CHOOSE f : Eq(f)
<1>1. N \in Nat
  BY StoredFinite
<1>2. \A X \in SUBSET Ids : F[X] = Grown(X) /\ Grown(X) \in SUBSET Ids
  BY DEF Grown, DependsOn
<1>3. PICK g \in [0..N -> SUBSET Ids] : Iterates(g, F, from, N)
  <2>1. F \in [SUBSET Ids -> SUBSET Ids]
    BY <1>2
  <2> HIDE DEF F, N, Eq, upto
  <2> QED BY <1>1, <2>1, Iteration
<1>4. Eq(g)
  <2>1. ASSUME NEW n \in 0..N
        PROVE  g[n] = IF n = 0 THEN from ELSE Grown(g[n - 1])
    <3>1. CASE n = 0
      BY <1>3, <3>1 DEF Iterates
    <3>2. CASE n # 0
      <4>1. n \in 1..N /\ n - 1 \in 0..N
        BY <1>1, <3>2
      <4>2. g[n - 1] \in SUBSET Ids
        BY <4>1
      <4> HIDE DEF F
      <4> QED BY <1>2, <1>3, <3>2, <4>1, <4>2 DEF Iterates
    <3> QED BY <3>1, <3>2
  <2> HIDE DEF N
  <2> QED BY <2>1
<1>5. Eq(upto)
  <2> HIDE DEF Eq
  <2> QED BY <1>4
<1>6. Reach(from) = upto[N]
  BY DEF Reach, Grown
<1>7. upto[0] = from /\ \A n \in 1..N : upto[n] = Grown(upto[n - 1])
  <2> HIDE DEF upto
  <2> QED BY <1>1, <1>5
<1>8. \A n \in 0..N : upto[n] \in SUBSET Ids
  <2> DEFINE Bad == {n \in 0..N : upto[n] \notin SUBSET Ids}
  <2> HIDE DEF upto, F, N
  <2> SUFFICES ASSUME Bad # {} PROVE FALSE
    OBVIOUS
  <2>1. PICK m \in Bad : \A k \in Bad : m <= k
    <3>1. Bad \in SUBSET Nat
      BY <1>1
    <3> HIDE DEF Bad
    <3> QED BY <3>1, LeastElement
  <2>2. m # 0
    BY <1>7, <2>1
  <2>3. m - 1 \in 0..N /\ m \in 1..N /\ m - 1 < m
    BY <1>1, <2>1, <2>2
  <2>4. upto[m - 1] \in SUBSET Ids
    BY <2>1, <2>3
  <2>5. upto[m] = Grown(upto[m - 1])
    BY <1>7, <2>3
  <2> QED BY <1>2, <2>1, <2>4, <2>5
<1>9. upto \in [0..N -> SUBSET Ids]
  <2> HIDE DEF upto, N
  <2> QED BY <1>5, <1>8
<1> HIDE DEF upto
<1> QED BY <1>6, <1>7, <1>9

\* Nothing leads out of a closed set of rows.
ClosedSet(C) == \A i \in C : DependsOn(i) \subseteq C

\* A walk that starts in a closed set stays there.
LEMMA ReachLeast ==
  ASSUME NEW C \in SUBSET Ids, ClosedSet(C), NEW from \in SUBSET C
  PROVE  Reach(from) \subseteq C
<1> DEFINE N == Cardinality(Stored)
<1>1. N \in Nat
  BY StoredFinite
<1>2. PICK upto \in [0..N -> SUBSET Ids] :
        /\ upto[0] = from /\ \A n \in 1..N : upto[n] = Grown(upto[n - 1])
        /\ Reach(from) = upto[N]
  BY ReachUnfolds
<1>3. \A X \in SUBSET C : Grown(X) \subseteq C
  BY DEF Grown, ClosedSet
<1> DEFINE Bad == {n \in 0..N : ~(upto[n] \subseteq C)}
<1> HIDE DEF N
<1>4. Bad = {}
  <2> SUFFICES ASSUME Bad # {} PROVE FALSE
    OBVIOUS
  <2>1. PICK m \in Bad : \A k \in Bad : m <= k
    <3>1. Bad \in SUBSET Nat
      BY <1>1
    <3> HIDE DEF Bad
    <3> QED BY <3>1, LeastElement
  <2>2. m # 0
    BY <1>2, <2>1
  <2>3. m - 1 \in 0..N /\ m \in 1..N /\ m - 1 < m
    BY <1>1, <2>1, <2>2
  <2>4. upto[m - 1] \subseteq C /\ upto[m] = Grown(upto[m - 1])
    BY <1>2, <2>1, <2>3
  <2> QED BY <1>3, <2>1, <2>4
<1>5. N \in 0..N
  BY <1>1
<1> QED BY <1>2, <1>4, <1>5

\* A walk that met stored rows only has come to an end: it cannot grow at each
\* of its steps, for then it would have met more rows than there are.
LEMMA ReachClosed ==
  ASSUME NEW from \in SUBSET Ids, from # {}, Reach(from) \subseteq Stored
  PROVE  /\ from \subseteq Reach(from) /\ ClosedSet(Reach(from))
         /\ Reach(from) \in SUBSET Ids /\ IsFiniteSet(Reach(from))
<1> DEFINE N == Cardinality(Stored)
<1>1. N \in Nat
  BY StoredFinite
<1>2. PICK upto \in [0..N -> SUBSET Ids] :
        /\ upto[0] = from /\ \A n \in 1..N : upto[n] = Grown(upto[n - 1])
        /\ Reach(from) = upto[N]
  BY ReachUnfolds
<1>3. \A X : X \subseteq Grown(X) /\ (Grown(X) = X => ClosedSet(X))
  BY DEF Grown, ClosedSet
<1> HIDE DEF N
<1>4. \A n \in 0..N : n \in Nat /\ n - 1 \in Int
  BY <1>1
<1>5. \A n \in 0..N : upto[n] \subseteq upto[N]
  <2> DEFINE Bad == {k \in 0..N : ~(upto[N - k] \subseteq upto[N])}
  <2> SUFFICES Bad = {}
    <3> SUFFICES ASSUME NEW n \in 0..N PROVE upto[n] \subseteq upto[N]
      OBVIOUS
    <3>1. N - n \in 0..N /\ N - (N - n) = n
      BY <1>1
    <3>2. N - n \notin Bad
      BY <3>1
    <3> QED BY <3>1, <3>2
  <2> SUFFICES ASSUME Bad # {} PROVE FALSE
    OBVIOUS
  <2>1. PICK m \in Bad : \A k \in Bad : m <= k
    <3>1. Bad \in SUBSET Nat
      BY <1>1
    <3> HIDE DEF Bad
    <3> QED BY <3>1, LeastElement
  <2>2. m # 0
    BY <1>1, <2>1
  <2>3. m - 1 \in 0..N /\ m - 1 < m /\ N - (m - 1) \in 1..N /\ (N - (m - 1)) - 1 = N - m
    BY <1>1, <2>1, <2>2
  <2>4. upto[N - (m - 1)] \subseteq upto[N]
    BY <2>1, <2>3
  <2>5. upto[N - (m - 1)] = Grown(upto[N - m])
    BY <1>2, <2>3
  <2> QED BY <1>3, <2>1, <2>4, <2>5
<1>6. PICK n \in 1..N : upto[n] = upto[n - 1]
  <2> SUFFICES ASSUME \A n \in 1..N : upto[n] # upto[n - 1] PROVE FALSE
    OBVIOUS
  <2>1. \A n \in 0..N : IsFiniteSet(upto[n]) /\ Cardinality(upto[n]) \in Nat
    BY StoredFinite, FS_Subset, FS_CardinalityType
  <2> DEFINE Bad == {k \in 0..N : ~(Cardinality(upto[k]) > k)}
  <2>2. Bad = {}
    <3> SUFFICES ASSUME Bad # {} PROVE FALSE
      OBVIOUS
    <3>1. PICK m \in Bad : \A k \in Bad : m <= k
      <4>1. Bad \in SUBSET Nat
        BY <1>1
      <4> HIDE DEF Bad
      <4> QED BY <4>1, LeastElement
    <3>2. m # 0
      <4>1. 0 \in 0..N
        BY <1>1
      <4>2. Cardinality(upto[0]) # 0
        BY <1>2, <2>1, <4>1, FS_EmptySet
      <4> QED BY <2>1, <3>1, <4>1, <4>2
    <3>3. m - 1 \in 0..N /\ m \in 1..N /\ m - 1 < m /\ m \in 0..N
      BY <1>1, <3>1, <3>2
    <3>4. Cardinality(upto[m - 1]) > m - 1
      BY <3>1, <3>3
    <3>5. upto[m - 1] \subseteq upto[m] /\ upto[m] # upto[m - 1]
      BY <1>2, <1>3, <3>3
    <3>6. /\ Cardinality(upto[m - 1]) <= Cardinality(upto[m])
          /\ Cardinality(upto[m - 1]) # Cardinality(upto[m])
      BY <2>1, <3>3, <3>5, FS_Subset
    <3>7. Cardinality(upto[m - 1]) \in Nat /\ Cardinality(upto[m]) \in Nat
      BY <2>1, <3>3
    <3> QED BY <3>1, <3>3, <3>4, <3>6, <3>7
  <2>3. N \in 0..N /\ N \notin Bad
    BY <1>1, <2>2
  <2>4. Cardinality(upto[N]) > N
    BY <2>3
  <2>5. Cardinality(upto[N]) <= N
    BY <1>2, StoredFinite, FS_Subset DEF N
  <2>6. Cardinality(upto[N]) \in Nat
    BY <2>1, <2>3
  <2> QED BY <1>1, <2>4, <2>5, <2>6
<1>7. n - 1 \in 0..N /\ n \in 0..N
  BY <1>1
<1>8. ClosedSet(upto[n - 1])
  BY <1>2, <1>3, <1>6
<1>9. upto[n - 1] \subseteq upto[N] /\ from \subseteq upto[n - 1]
  <2> DEFINE Bad == {k \in 0..N : ~(from \subseteq upto[k])}
  <2>1. Bad = {}
    <3> SUFFICES ASSUME Bad # {} PROVE FALSE
      OBVIOUS
    <3>1. PICK m \in Bad : \A k \in Bad : m <= k
      <4>1. Bad \in SUBSET Nat
        BY <1>1
      <4> HIDE DEF Bad
      <4> QED BY <4>1, LeastElement
    <3>2. m # 0
      BY <1>2, <3>1
    <3>3. m - 1 \in 0..N /\ m \in 1..N /\ m - 1 < m
      BY <1>1, <3>1, <3>2
    <3>4. from \subseteq upto[m - 1] /\ upto[m] = Grown(upto[m - 1])
      BY <1>2, <3>1, <3>3
    <3> QED BY <1>3, <3>1, <3>4
  <2> QED BY <1>5, <1>7, <2>1
<1>10. Reach(from) \subseteq upto[n - 1]
  BY <1>7, <1>8, <1>9, ReachLeast
<1>11. upto[n - 1] = Reach(from)
  BY <1>2, <1>9, <1>10
<1>12. Reach(from) \in SUBSET Ids
  BY <1>7, <1>11
<1> QED BY <1>8, <1>9, <1>11, <1>12, StoredFinite, FS_Subset

\* When the loop of settleEvents can go no further, a pending row belongs to a
\* badge of the round, and it is either the next one of its victim, which then
\* waits for a parent and is on no cycle, or comes later.
LEMMA StuckRow ==
  ASSUME TreeInv, Stuck, NEW i \in Ids, status[i] = "pending_dependency"
  PROVE  LET e == body[i] IN
         /\ e \in Body /\ EventId(e) = i /\ i = <<e.victim, e.seq>>
         /\ e.victim \in Roster
         /\ \/ role[e.victim].covered_seq + 1 < e.seq
            \/ /\ e.seq = role[e.victim].covered_seq + 1
               /\ end.phase # "final"
               /\ e.cause.seq # 0 /\ ~Decided(ParentId(e)) /\ ~Cyclic(i)
<1> DEFINE e == body[i]
<1>1. e \in Body /\ EventId(e) = i
  BY PendingRow DEF TreeInv
<1>2. Decision(e) = "pending_dependency"
  BY DEF Stuck
<1>3. i = <<e.victim, e.seq>>
  BY <1>1 DEF EventId
<1> HIDE DEF e
<1>4. e.victim \in Roster
  BY <1>2 DEF Decision
<1>5. \/ e.seq # role[e.victim].covered_seq + 1
      \/ e.seq = role[e.victim].covered_seq + 1 /\ Admissible(e) /\ ParentUndecided(e)
  BY <1>2, <1>4, Zenon DEF Decision
<1>6. e.seq \in 1..MaxSeq
  BY <1>1 DEF Body, Seqs
<1>7. role[e.victim].covered_seq \in Nat
  BY <1>4, NumbersAssumption DEF TreeInv, TypeInv, TypeOK, Role
<1>8. ~(e.seq <= role[e.victim].covered_seq)
  <2> SUFFICES ASSUME e.seq <= role[e.victim].covered_seq PROVE FALSE
    OBVIOUS
  <2>1. e.seq \in 1..role[e.victim].covered_seq
    BY <1>6, <1>7
  <2>2. Decided(i)
    BY <1>3, <1>4, <2>1 DEF TreeInv, Frontier
  <2> QED BY <2>2 DEF Decided
<1>9. CASE e.seq # role[e.victim].covered_seq + 1
  <2>1. role[e.victim].covered_seq + 1 < e.seq
    BY <1>6, <1>7, <1>8, <1>9
  <2> QED BY <1>1, <1>3, <1>4, <2>1 DEF e
<1>10. CASE e.seq = role[e.victim].covered_seq + 1 /\ Admissible(e) /\ ParentUndecided(e)
  <2>1. /\ end.phase # "final" /\ e.cause.seq # 0 /\ ~Decided(ParentId(e)) /\ ~Cyclic(i)
    BY <1>1, <1>10 DEF Admissible, InRound, ParentUndecided
  <2> QED BY <1>1, <1>3, <1>4, <1>10, <2>1 DEF e
<1> QED BY <1>5, <1>9, <1>10

\* What a stored row depends on.
LEMMA Dependencies ==
  ASSUME NEW i \in Ids, body[i] \in Body
  PROVE  /\ body[i].cause.seq # 0 => ParentId(body[i]) \in DependsOn(i)
         /\ body[i].seq > 1 => <<body[i].victim, body[i].seq - 1>> \in DependsOn(i)
<1>1. body[i] # NoBody
  BY SentinelAssumption
<1>2. /\ body[i].actor \in Slots /\ body[i].cause.seq \in 0..MaxSeq
      /\ body[i].victim \in Slots /\ body[i].seq \in 1..MaxSeq
  BY DEF Body, Seqs
<1>3. body[i].cause.seq # 0 => ParentId(body[i]) \in Ids
  BY <1>2, NumbersAssumption DEF ParentId, Ids, Seqs
<1>4. body[i].seq > 1 => <<body[i].victim, body[i].seq - 1>> \in Ids
  BY <1>2, NumbersAssumption DEF Ids, Seqs
<1> QED BY <1>1, <1>3, <1>4 DEF DependsOn

\* A row that is stored is pending unless it was decided.
LEMMA StoredRow ==
  ASSUME TreeInv, NEW i \in Stored
  PROVE  /\ i \in Ids /\ body[i] \in Body
         /\ Decided(i) \/ status[i] = "pending_dependency"
<1>1. i \in Ids /\ body[i] # NoBody
  BY DEF Stored
<1>2. body[i] \in Body /\ status[i] \in Statuses /\ status[i] # "none"
  BY <1>1 DEF TreeInv, TypeInv, TypeOK, RowsMatch
<1> QED BY <1>1, <1>2 DEF Decided, Statuses

\* If a pending row is followed through stored rows only, the earlier events of
\* its victim are pending down to the next one to be judged, or one of them came
\* too late.
LEMMA HeadWaits ==
  ASSUME TreeInv, Stuck, NEW C \in SUBSET Stored, ClosedSet(C),
         NEW i \in C, status[i] = "pending_dependency", ~OvertakenByFinal(i)
  PROVE  \E h \in C : /\ status[h] = "pending_dependency"
                      /\ body[h].seq = role[body[h].victim].covered_seq + 1
<1> DEFINE v == i[1]
           covered == role[v].covered_seq
           Down == {q \in Seqs : /\ covered < q /\ q <= i[2]
                                 /\ <<v, q>> \in C /\ status[<<v, q>>] = "pending_dependency"}
<1>1. i \in Ids /\ i = <<v, i[2]>> /\ v \in Roster /\ i[2] \in Seqs /\ covered < i[2]
  <2>1. i \in Ids
    BY DEF Stored
  <2>2. /\ i = <<body[i].victim, body[i].seq>> /\ body[i].victim \in Roster
        /\ \/ role[body[i].victim].covered_seq + 1 < body[i].seq
           \/ body[i].seq = role[body[i].victim].covered_seq + 1
    BY <2>1, StuckRow
  <2>3. body[i].victim = v /\ body[i].seq = i[2] /\ v \in Roster /\ i = <<v, i[2]>>
    BY <2>2
  <2>4. covered \in Nat
    BY <2>3, NumbersAssumption DEF TreeInv, TypeInv, TypeOK, Role
  <2>5. i[2] \in Seqs /\ i[2] \in Nat
    BY <2>1 DEF Ids, Seqs
  <2>6. covered + 1 < i[2] \/ i[2] = covered + 1
    BY <2>2, <2>3
  <2>7. covered < i[2]
    <3> HIDE DEF covered
    <3> QED BY <2>4, <2>5, <2>6
  <2> QED BY <2>1, <2>3, <2>5, <2>7
<1>2. covered \in Nat
  BY <1>1, NumbersAssumption DEF TreeInv, TypeInv, TypeOK, Role
<1>3. i[2] \in Down
  BY <1>1 DEF Seqs
<1>4. PICK m \in Down : \A k \in Down : m <= k
  <2>1. Down \in SUBSET Nat
    BY DEF Seqs
  <2> HIDE DEF Down
  <2> QED BY <1>3, <2>1, LeastElement
<1> DEFINE h == <<v, m>>
<1>5. h \in C /\ status[h] = "pending_dependency" /\ h \in Ids /\ h[1] = v /\ h[2] = m
  BY <1>4 DEF Stored
<1>6. /\ body[h] \in Body /\ body[h].victim = v /\ body[h].seq = m /\ m \in Nat
  <2>1. h = <<body[h].victim, body[h].seq>> /\ body[h] \in Body
    BY <1>5, StuckRow
  <2> QED BY <1>4, <2>1 DEF Seqs
<1>7. m = covered + 1
  <2> SUFFICES ASSUME m # covered + 1 PROVE FALSE
    OBVIOUS
  <2>1. m > covered + 1 /\ m > 1
    BY <1>2, <1>4, <1>6
  <2> DEFINE p == <<v, m - 1>>
  <2>2. p \in DependsOn(h)
    BY <1>5, <1>6, <2>1, Dependencies
  <2>3. p \in C
    BY <1>5, <2>2 DEF ClosedSet
  <2>4. m - 1 \in Seqs /\ covered < m - 1 /\ m - 1 < m /\ m - 1 < i[2]
    <3>1. m \in 1..MaxSeq /\ m <= i[2] /\ i[2] \in 1..MaxSeq
      BY <1>1, <1>4 DEF Seqs
    <3> HIDE DEF covered, Down, v
    <3> QED BY <1>2, <2>1, <3>1, NumbersAssumption DEF Seqs
  <2>5. status[p] # "pending_dependency"
    <3>1. m - 1 \notin Down
      <4> HIDE DEF Down
      <4> QED BY <1>4, <1>6, <2>4
    <3>2. m - 1 <= i[2]
      BY <1>1, <1>6, <2>4 DEF Seqs
    <3> HIDE DEF covered, v
    <3> QED BY <2>3, <2>4, <3>1, <3>2
  <2>6. Decided(p)
    BY <2>3, <2>5, StoredRow
  <2>7. m - 1 \in (covered + 1)..MaxSeq
    BY <1>2, <2>4 DEF Seqs
  <2>8. status[p] = "rejected" /\ end.phase = "final"
    BY <1>1, <2>6, <2>7 DEF TreeInv, Frontier
  <2> QED BY <2>4, <2>8 DEF OvertakenByFinal
<1> QED BY <1>5, <1>6, <1>7

\* When the loop can go no further, every pending row leads to a missing one: if
\* it did not, the next event of its victim would wait for a parent, the parent
\* for another row, and so on among finitely many rows of which none leads back
\* to itself.
LEMMA StuckMeansWaiting ==
  ASSUME TreeInv, Stuck, NEW i \in Ids, status[i] = "pending_dependency"
  PROVE  (\E j \in Reach({i}) : body[j] = NoBody) \/ OvertakenByFinal(i)
<1> SUFFICES ASSUME \A j \in Reach({i}) : body[j] # NoBody, ~OvertakenByFinal(i)
             PROVE  FALSE
  OBVIOUS
<1>1. Reach({i}) \subseteq Stored
  <2>1. ClosedSet(Ids) /\ {i} \in SUBSET Ids
    BY DEF ClosedSet, DependsOn
  <2>2. Reach({i}) \subseteq Ids
    BY <2>1, ReachLeast
  <2> QED BY <2>2 DEF Stored
<1>2. i \in Reach({i}) /\ ClosedSet(Reach({i}))
  BY <1>1, ReachClosed
<1>3. PICK h \in Reach({i}) : /\ status[h] = "pending_dependency"
                              /\ body[h].seq = role[body[h].victim].covered_seq + 1
  BY <1>1, <1>2, HeadWaits
<1>4. h \in Ids
  BY <1>1 DEF Stored
<1>5. end.phase # "final" /\ ~Cyclic(h)
  <2>1. /\ body[h].victim \in Roster
        /\ \/ role[body[h].victim].covered_seq + 1 < body[h].seq
           \/ end.phase # "final" /\ ~Cyclic(h)
    BY <1>3, <1>4, StuckRow
  <2>2. role[body[h].victim].covered_seq \in Nat
    BY <2>1, NumbersAssumption DEF TreeInv, TypeInv, TypeOK, Role
  <2> QED BY <1>3, <2>1, <2>2
<1> DEFINE C == Reach({h})
<1>6. /\ C \subseteq Stored /\ C \in SUBSET Ids /\ h \in C
      /\ ClosedSet(C)
  <2>1. C \subseteq Reach({i})
    <3>1. Reach({i}) \in SUBSET Ids /\ {h} \in SUBSET Reach({i})
      BY <1>1 DEF Stored
    <3> QED BY <1>2, <3>1, ReachLeast
  <2>2. C \subseteq Stored
    BY <1>1, <2>1
  <2> QED BY <1>4, <2>2, ReachClosed
<1>7. \A j \in C : j \notin Reach(DependsOn(j))
  BY <1>5 DEF Cyclic
<1> HIDE DEF C
<1> DEFINE P == {j \in C : status[j] = "pending_dependency"}
\* A pending row depends on a pending row.
<1>8. ASSUME NEW j \in P
      PROVE  \E k \in P : k \in DependsOn(j)
  <2>1. j \in Ids /\ j \in C /\ status[j] = "pending_dependency"
    BY <1>6
  <2>2. ~OvertakenByFinal(j)
    BY <1>5 DEF OvertakenByFinal
  <2> DEFINE e == body[j]
  <2>3. /\ e \in Body /\ e.victim \in Roster
        /\ \/ role[e.victim].covered_seq + 1 < e.seq
           \/ e.cause.seq # 0 /\ ~Decided(ParentId(e))
    BY <2>1, StuckRow
  <2> HIDE DEF e
  <2>4. role[e.victim].covered_seq \in Nat /\ e.seq \in 1..MaxSeq
    BY <2>3, NumbersAssumption DEF TreeInv, TypeInv, TypeOK, Role, Body, Seqs
  <2>5. CASE e.cause.seq # 0 /\ ~Decided(ParentId(e))
    <3>1. ParentId(e) \in DependsOn(j)
      BY <2>1, <2>3, <2>5, Dependencies DEF e
    <3>2. ParentId(e) \in C
      BY <1>6, <2>1, <3>1 DEF ClosedSet
    <3>3. status[ParentId(e)] = "pending_dependency"
      BY <1>6, <2>5, <3>2, StoredRow
    <3> QED BY <3>1, <3>2, <3>3
  <2>6. CASE role[e.victim].covered_seq + 1 < e.seq
    <3> DEFINE p == <<e.victim, e.seq - 1>>
    <3>1. e.seq > 1
      BY <2>4, <2>6
    <3>2. p \in DependsOn(j)
      BY <2>1, <2>3, <3>1, Dependencies DEF e
    <3>3. p \in C
      BY <1>6, <2>1, <3>2 DEF ClosedSet
    <3>4. e.seq - 1 \in (role[e.victim].covered_seq + 1)..MaxSeq
      BY <2>4, <2>6, NumbersAssumption
    <3>5. ~Decided(p)
      BY <1>5, <2>3, <3>4 DEF TreeInv, Frontier
    <3>6. status[p] = "pending_dependency"
      BY <1>6, <3>3, <3>5, StoredRow
    <3> QED BY <3>2, <3>3, <3>6
  <2> QED BY <2>3, <2>5, <2>6
\* Along such a dependency less can be reached.
<1>9. ASSUME NEW j \in P, NEW k \in P, k \in DependsOn(j)
      PROVE  Cardinality(Reach({k})) < Cardinality(Reach({j}))
  <2>1. j \in C /\ j \in Ids /\ k \in C /\ k \in Ids
    BY <1>6
  <2>2. Reach({j}) \subseteq Stored
    <3>1. {j} \in SUBSET C
      BY <2>1
    <3> QED BY <1>6, <3>1, ReachLeast
  <2>3. /\ j \in Reach({j}) /\ ClosedSet(Reach({j})) /\ Reach({j}) \in SUBSET Ids
        /\ IsFiniteSet(Reach({j}))
    BY <2>1, <2>2, ReachClosed
  <2>4. DependsOn(j) \subseteq Reach({j})
    BY <2>3 DEF ClosedSet
  <2>5. Reach(DependsOn(j)) \subseteq Reach({j})
    BY <2>3, <2>4, ReachLeast
  <2>6. DependsOn(j) \in SUBSET Ids
    BY DEF DependsOn
  <2>7. /\ DependsOn(j) \subseteq Reach(DependsOn(j))
        /\ ClosedSet(Reach(DependsOn(j))) /\ Reach(DependsOn(j)) \in SUBSET Ids
    BY <1>9, <2>2, <2>5, <2>6, ReachClosed
  <2>8. {k} \in SUBSET Reach(DependsOn(j))
    BY <1>9, <2>7
  <2>9. Reach({k}) \subseteq Reach(DependsOn(j))
    BY <2>7, <2>8, ReachLeast
  <2>10. j \notin Reach({k})
    BY <1>7, <2>1, <2>9
  <2>11. Reach({k}) \in SUBSET Reach({j}) /\ Reach({k}) # Reach({j})
    BY <2>3, <2>5, <2>9, <2>10
  <2>12. /\ IsFiniteSet(Reach({k}))
         /\ Cardinality(Reach({k})) <= Cardinality(Reach({j}))
         /\ Cardinality(Reach({k})) # Cardinality(Reach({j}))
    BY <2>3, <2>11, FS_Subset
  <2>13. Cardinality(Reach({k})) \in Nat /\ Cardinality(Reach({j})) \in Nat
    BY <2>3, <2>12, FS_CardinalityType
  <2> QED BY <2>12, <2>13
<1> DEFINE Sizes == {Cardinality(Reach({j})) : j \in P}
<1>10. Sizes \in SUBSET Nat /\ Sizes # {}
  <2>1. h \in P
    BY <1>3, <1>6
  <2>2. ASSUME NEW j \in P PROVE Cardinality(Reach({j})) \in Nat
    <3>1. j \in Ids /\ {j} \in SUBSET C
      BY <1>6
    <3>2. Reach({j}) \subseteq Stored
      BY <1>6, <3>1, ReachLeast
    <3>3. IsFiniteSet(Reach({j}))
      BY <3>1, <3>2, ReachClosed
    <3> QED BY <3>3, FS_CardinalityType
  <2> QED BY <2>1, <2>2
<1>11. PICK least \in Sizes : \A n \in Sizes : least <= n
  <2> HIDE DEF Sizes
  <2> QED BY <1>10, LeastElement
<1>12. PICK j \in P : least = Cardinality(Reach({j}))
  BY <1>11
<1>13. PICK k \in P : k \in DependsOn(j)
  BY <1>8
<1>14. Cardinality(Reach({k})) < least
  BY <1>9, <1>12, <1>13
<1>15. Cardinality(Reach({k})) \in Sizes
  OBVIOUS
<1>16. least <= Cardinality(Reach({k}))
  BY <1>11, <1>15
<1>17. least \in Nat /\ Cardinality(Reach({k})) \in Nat
  BY <1>10, <1>11, <1>15
<1> QED BY <1>14, <1>16, <1>17

\* What a row waits for stands while rows and roles do: a final result stays.
LEMMA StillWaits ==
  ASSUME TreeInv, [Handled]_vars, ~\E i \in Ids : SettleRow(i),
         UNCHANGED <<body, status, role>>, NEW i \in Ids,
         (\E j \in Reach({i}) : body[j] = NoBody) \/ OvertakenByFinal(i)
  PROVE  ((\E j \in Reach({i}) : body[j] = NoBody) \/ OvertakenByFinal(i))'
<1>1. end.phase = "final" => end'.phase = "final"
  BY QuietSteps DEF Quiet, TreeInv
<1>2. Reach({i})' = Reach({i})
  BY DEF Reach, Stored, DependsOn, ParentId
<1> QED BY <1>1, <1>2 DEF OvertakenByFinal

\* Whatever is undecided when the server rests waits for evidence it has not
\* got: no row waits on itself, on a cycle or on rows that were judged.  The one
\* exception is behind an event that came after the final result.
THEOREM NoNeedlessWaitAlways == Spec => []NoNeedlessWait
<1>1. Init => NoNeedlessWait
  BY DEF Init, NoNeedlessWait
<1>2. TreeInv /\ NoNeedlessWait /\ [Handled]_vars => NoNeedlessWait'
  <2> SUFFICES ASSUME TreeInv, NoNeedlessWait, [Handled]_vars,
                      settling' = "idle",
                      NEW i \in Ids, status'[i] = "pending_dependency"
               PROVE  ((\E j \in Reach({i}) : body[j] = NoBody) \/ OvertakenByFinal(i))'
    BY DEF NoNeedlessWait
  <2>1. ~\E j \in Ids : SettleRow(j)
    BY DEF SettleRow
  <2>2. ASSUME settling = "idle", UNCHANGED <<body, status, role>>
        PROVE  ((\E j \in Reach({i}) : body[j] = NoBody) \/ OvertakenByFinal(i))'
    BY <2>1, <2>2, StillWaits DEF NoNeedlessWait
  <2>3. CASE Tick
    BY <2>2, <2>3 DEF Tick, evidence
  <2>4. CASE CheckDue
    BY <2>2, <2>4 DEF CheckDue, evidence
  <2>5. CASE \E batch \in SUBSET Body : Ingest(batch)
    BY <2>5 DEF Ingest
  <2>6. CASE \E batch \in SUBSET Body : \E e \in batch : IngestConflict(batch, e)
    BY <2>2, <2>6 DEF IngestConflict, Served
  <2>7. CASE \E receipts \in SUBSET CloseReceipt, frontiers \in SUBSET DecisionFrontier :
               Ack(receipts, frontiers)
    BY <2>2, <2>7 DEF Ack, Served, evidence
  <2>8. CASE SettleDone
    <3>1. Stuck /\ UNCHANGED <<body, status, role>>
      BY <2>8 DEF SettleDone
    <3> QED BY <2>1, <3>1, StuckMeansWaiting, StillWaits
  <2>9. CASE UNCHANGED vars
    BY <2>2, <2>9 DEF vars
  <2> QED BY <2>1, <2>3, <2>4, <2>5, <2>6, <2>7, <2>8, <2>9 DEF Handled
<1> QED BY <1>1, <1>2, AlwaysSafe, BoxHandled, PTL DEF Spec

-----------------------------------------------------------------------------
\* A frontier that is believed was decided, and what was decided stays so.
LEMMA AckAcks ==
  ASSUME TypeInv, NEW receipts, NEW frontiers \in SUBSET [slot: Roster, through: 0..MaxSeq],
         Ack(receipts, frontiers), NEW s \in Roster
  PROVE  \/ decisionAcks'[s] = decisionAcks[s]
         \/ \A q \in 1..decisionAcks'[s] : Decided(<<s, q>>)
<1> DEFINE acked == {decisionAcks[s]} \cup
                    {f.through : f \in {g \in frontiers : g.slot = s}}
           most == CHOOSE n \in acked : \A k \in acked : k <= n
<1>1. decisionAcks'[s] = most
  BY DEF Ack
<1>2. acked \in SUBSET (0..MaxSeq) /\ acked # {}
  BY DEF TypeInv, TypeOK
<1>3. most \in acked
  <2> HIDE DEF acked
  <2>1. \E n \in acked : \A k \in acked : k <= n
    BY <1>2, NumbersAssumption, GreatestElement
  <2> QED BY <2>1
<1>4. most = decisionAcks[s] \/ \E f \in frontiers : f.slot = s /\ f.through = most
  <2> HIDE DEF most
  <2> QED BY <1>3
<1>5. \A f \in frontiers : \A q \in 1..f.through : Decided(<<f.slot, q>>)
  BY DEF Ack
<1> HIDE DEF most
<1> QED BY <1>1, <1>4, <1>5

\* Whatever a badge is counted to have received was decided, for all frontiers
\* a host may forward, and stays decided: replay never skips what is to come.
THEOREM AckedIsDecided == Spec => []AckedDecided
<1>1. Init => AckedDecided
  BY DEF Init, AckedDecided
<1>2. TreeInv /\ TreeInv' /\ AckedDecided /\ [Handled]_vars => AckedDecided'
  <2> SUFFICES ASSUME TreeInv, TreeInv', AckedDecided, [Handled]_vars,
                      NEW s \in Roster, NEW q \in 1..decisionAcks'[s]
               PROVE  Decided(<<s, q>>)'
    BY DEF AckedDecided, Decided
  <2>1. <<s, q>> \in Ids
    <3>1. decisionAcks'[s] \in 0..MaxSeq
      BY DEF TreeInv, TypeInv, TypeOK
    <3> QED BY <3>1, RosterAssumption, NumbersAssumption DEF Ids, Seqs
  <2>2. Decided(<<s, q>>) => Decided(<<s, q>>)'
    BY <2>1, StepSticks DEF Decided
  <2>3. ASSUME decisionAcks'[s] = decisionAcks[s]
        PROVE  Decided(<<s, q>>)
    BY <2>3 DEF AckedDecided
  <2>4. CASE \E receipts \in SUBSET CloseReceipt, frontiers \in SUBSET DecisionFrontier :
               Ack(receipts, frontiers)
    <3>1. PICK receipts \in SUBSET CloseReceipt,
               frontiers \in SUBSET [slot: Roster, through: 0..MaxSeq] : Ack(receipts, frontiers)
      BY <2>4 DEF DecisionFrontier
    <3>2. \/ decisionAcks'[s] = decisionAcks[s]
          \/ \A k \in 1..decisionAcks'[s] : Decided(<<s, k>>)
      BY <3>1, AckAcks DEF TreeInv
    <3> QED BY <2>2, <2>3, <3>2
  <2>5. CASE UNCHANGED decisionAcks
    BY <2>2, <2>3, <2>5
  <2>6. \/ UNCHANGED decisionAcks
        \/ \E receipts \in SUBSET CloseReceipt, frontiers \in SUBSET DecisionFrontier :
             Ack(receipts, frontiers)
    BY DEF Handled, vars, Tick, CheckDue, Ingest, IngestConflict, SettleRow, SettleDone
  <2> QED BY <2>4, <2>5, <2>6
<1> QED BY <1>1, <1>2, AlwaysSafe, BoxHandled, PTL DEF Spec
=============================================================================
