-------------------------- MODULE InfectionProofs --------------------------
(***************************************************************************)
(* Evidence implements Infection, for every roster, every set of uploads   *)
(* and every value of the bounds: the adjudication of late, repeated and   *)
(* contradictory evidence looks to the players like a game in which one    *)
(* badge after the other is infected by an infected one.                   *)
(***************************************************************************)
EXTENDS EvidenceProofs

Tagger == [s \in Roster |-> TaggerOf(s)]
Verdict == [phase |-> end.phase, winner |-> end.winner]

\* A badge counts as infected in the abstract game exactly when it is a zombie:
\* the event that made it one is there and names a slot.
LEMMA InfectedIsZombie ==
  ASSUME TreeInv, NEW s \in Roster
  PROVE  /\ role[s].role \in {"H", "Z"}
         /\ TaggerOf(s) # NoBody <=> role[s].role = "Z"
         /\ role[s].role = "Z" /\ s # PatientZero =>
              /\ <<s, role[s].cause>> \in Ids
              /\ body[<<s, role[s].cause>>] # NoBody
<1> USE RosterAssumption, SentinelAssumption
<1>1. role[s].role \in {"H", "Z"}
  BY DEF TreeInv, TypeInv, TypeOK, Role
<1>2. CASE role[s].role = "H"
  BY <1>2 DEF TaggerOf
<1>3. CASE role[s].role = "Z" /\ s = PatientZero
  BY <1>3 DEF TaggerOf
<1>4. CASE role[s].role = "Z" /\ s # PatientZero
  <2> DEFINE i == <<s, role[s].cause>>
  <2>1. i \in Accepted
    BY <1>4 DEF TreeInv, InfectionTree
  <2>2. i \in Ids /\ body[i] # NoBody
    BY <2>1 DEF Accepted, TreeInv, TypeInv, RowsMatch
  <2>3. body[i] \in Body
    BY <2>2 DEF TreeInv, TypeInv, TypeOK
  <2>4. body[i].actor \in Slots
    BY <2>3 DEF Body
  <2> QED BY <1>1, <1>4, <2>2, <2>4 DEF TaggerOf
<1> QED BY <1>1, <1>2, <1>3, <1>4

\* The winner of the abstract game is the one finishIfDue writes.
LEMMA SameWinner ==
  ASSUME TreeInv
  PROVE  Game!Winner = IF AllInfected THEN "Z" ELSE "H"
<1>1. \A s \in Roster : Tagger[s] # NoBody <=> role[s].role = "Z"
  BY InfectedIsZombie DEF Tagger
<1> QED BY <1>1 DEF Game!Winner, Game!Infected, AllInfected, Tagger

\* startRound starts the abstract game.
LEMMA InitImplements == Init => Game!Init
<1> SUFFICES ASSUME Init PROVE Game!Init
  OBVIOUS
<1>1. \A s \in Roster : TaggerOf(s) = IF s = PatientZero THEN s ELSE NoBody
  BY DEF Init, FirstRole, TaggerOf
<1>2. Verdict = [phase |-> "running", winner |-> "H"]
  BY DEF Init, Running, Verdict
<1> QED BY <1>1, <1>2 DEF Game!Init, Verdict

\* A row that is accepted is an infection by an infected badge, and one that is
\* rejected is no move at all.
LEMMA SettleRowImplements ==
  ASSUME TreeInv, TreeInv', NEW i \in Ids, SettleRow(i)
  PROVE  (\E by, victim \in Roster : Game!Infect(by, victim)) \/ UNCHANGED <<Tagger, Verdict>>
<1> USE RosterAssumption
<1>0. PICK e : e = body[i]
  OBVIOUS
<1>1. TypeInv
  BY DEF TreeInv
<1>2. /\ e \in Body /\ EventId(e) = i
      /\ body' = body /\ end' = end
      /\ status'[i] \in {"accepted", "rejected"}
      /\ status'[i] = "accepted" => e.victim \in Roster /\ Admissible(e) /\ ParentHolds(e)
      /\ \A s \in Roster \ {e.victim} : role'[s] = role[s]
      /\ e.victim \in Roster => role'[e.victim] = RoleAfter(e, status'[i])
  BY <1>1, <1>0, SettleRowEffect
<1>3. UNCHANGED Verdict
  BY <1>2 DEF Verdict
<1>4. \A s \in Roster \ {e.victim} : TaggerOf(s)' = TaggerOf(s)
  BY <1>2 DEF TaggerOf
<1>5. CASE status'[i] = "rejected"
  <2>1. e.victim \in Roster => /\ role'[e.victim].role = role[e.victim].role
                               /\ role'[e.victim].cause = role[e.victim].cause
    BY <1>2, <1>5 DEF RoleAfter
  <2>2. \A s \in Roster : TaggerOf(s)' = TaggerOf(s)
    BY <1>2, <1>4, <2>1 DEF TaggerOf
  <2> QED BY <1>3, <2>2 DEF Tagger
<1>6. CASE status'[i] = "accepted"
  <2>1. e.victim \in Roster /\ e.actor \in Roster /\ role[e.victim].role = "H"
        /\ end.phase # "final"
    BY <1>2, <1>6 DEF Admissible, InRound, VictimWasHuman
  <2>2. role[e.actor].role = "Z"
    <3>1. CASE e.cause.seq = 0
      BY <1>2, <1>6, <3>1 DEF Admissible, TreeInv, PatientZeroStays
    <3>2. CASE e.cause.seq # 0
      <4>1. ParentId(e) \in Accepted
        BY <1>2, <1>6, <3>2 DEF ParentHolds, ParentId, Accepted, Ids, Seqs, Body
      <4>2. EventId(body[ParentId(e)]) = ParentId(e)
            /\ role[body[ParentId(e)].victim].role = "Z"
        BY <4>1 DEF TreeInv, InfectionTree
      <4> QED BY <4>2 DEF EventId, ParentId
    <3> QED BY <3>1, <3>2
  <2>3. role'[e.victim].role = "Z" /\ role'[e.victim].cause = e.seq
    BY <1>2, <1>6, <2>1 DEF RoleAfter
  <2>4. e.victim # PatientZero
    BY <2>1 DEF TreeInv, PatientZeroStays
  <2>5. TaggerOf(e.victim)' = e.actor
    <3>1. body'[<<e.victim, e.seq>>] = e
      BY <1>0, <1>2 DEF EventId
    <3> QED BY <2>3, <2>4, <3>1 DEF TaggerOf
  <2>6. Tagger' = [Tagger EXCEPT ![e.victim] = e.actor]
    BY <1>4, <2>1, <2>5 DEF Tagger
  <2>7. Tagger[e.actor] # NoBody /\ Tagger[e.victim] = NoBody
    BY <2>1, <2>2, InfectedIsZombie DEF Tagger
  <2>8. Game!Infect(e.actor, e.victim)
    BY <1>3, <2>1, <2>6, <2>7 DEF Game!Infect, Game!Infected, Tagger, Verdict
  <2> QED BY <2>1, <2>8
<1> QED BY <1>2, <1>5, <1>6

\* Only finishIfDue writes the end of the round.
LEMMA EndSteps ==
  ASSUME [Handled]_vars, ~\E i \in Ids : SettleRow(i)
  PROVE  end' = end \/ \E receipts : end.phase # "final" /\ end' = EndWith(receipts)
<1>1. ASSUME NEW receipts, NEW saved, FinishIfDue(receipts, saved)
      PROVE  end' = end \/ (end.phase # "final" /\ end' = EndWith(receipts))
  BY <1>1 DEF FinishIfDue, EndOrSame
<1>2. CASE Tick
  BY <1>2 DEF Tick
<1>3. CASE CheckDue
  BY <1>1, <1>3 DEF CheckDue
<1>4. CASE \E batch \in SUBSET Body : Ingest(batch)
  BY <1>4 DEF Ingest
<1>5. CASE \E batch \in SUBSET Body : \E e \in batch : IngestConflict(batch, e)
  BY <1>5 DEF IngestConflict
<1>6. CASE \E receipts \in SUBSET CloseReceipt, frontiers \in SUBSET DecisionFrontier :
             Ack(receipts, frontiers)
  <2>1. \E next : FinishIfDue(next, FALSE)
    BY <1>6 DEF Ack
  <2> QED BY <1>1, <2>1
<1>7. CASE SettleDone
  BY <1>1, <1>7 DEF SettleDone
<1>8. CASE UNCHANGED vars
  BY <1>8 DEF vars
<1> QED BY <1>2, <1>3, <1>4, <1>5, <1>6, <1>7, <1>8 DEF Handled

\* Every other step ends the round, judges its end again, or does not show.
LEMMA QuietImplements ==
  ASSUME TreeInv, [Handled]_vars, ~\E i \in Ids : SettleRow(i)
  PROVE  Game!Close \/ UNCHANGED <<Tagger, Verdict>>
<1>1. Quiet
  BY QuietSteps DEF TreeInv
<1>2. \A s \in Roster : TaggerOf(s)' = TaggerOf(s)
  <2> SUFFICES ASSUME NEW s \in Roster PROVE TaggerOf(s)' = TaggerOf(s)
    OBVIOUS
  <2>1. role' = role
    BY <1>1 DEF Quiet
  <2>2. CASE role[s].role = "Z" /\ s # PatientZero
    <3>1. body'[<<s, role[s].cause>>] = body[<<s, role[s].cause>>]
      BY <1>1, <2>2, InfectedIsZombie DEF Quiet
    <3> QED BY <2>1, <2>2, <3>1 DEF TaggerOf
  <2>3. CASE role[s].role = "H" \/ s = PatientZero
    BY <2>1, <2>3 DEF TaggerOf
  <2> QED BY <2>2, <2>3, InfectedIsZombie
<1>3. UNCHANGED Tagger
  BY <1>2 DEF Tagger
<1>4. CASE end' = end
  BY <1>3, <1>4 DEF Verdict
<1>5. CASE \E receipts : end.phase # "final" /\ end' = EndWith(receipts)
  <2>1. /\ end.phase # "final"
        /\ end'.phase \in {"expired_pending_sync", "final"}
        /\ end'.winner = Game!Winner
    BY <1>5, SameWinner DEF EndWith
  <2> QED BY <1>3, <2>1 DEF Game!Close, Verdict, Tagger
<1> QED BY <1>4, <1>5, EndSteps

\* Every step of the server, whatever was uploaded, is a step of the game.
LEMMA HandledImplements ==
  TreeInv /\ TreeInv' /\ [Handled]_vars
    => [Game!Next]_<<[s \in Roster |-> TaggerOf(s)], [phase |-> end.phase, winner |-> end.winner]>>
<1>1. TreeInv /\ TreeInv' /\ [Handled]_vars => [Game!Next]_<<Tagger, Verdict>>
  <2> SUFFICES ASSUME TreeInv, TreeInv', [Handled]_vars
               PROVE  Game!Next \/ UNCHANGED <<Tagger, Verdict>>
    OBVIOUS
  <2>1. CASE \E i \in Ids : SettleRow(i)
    BY <2>1, SettleRowImplements DEF Game!Next
  <2>2. CASE ~\E i \in Ids : SettleRow(i)
    BY <2>2, QuietImplements DEF Game!Next
  <2> QED BY <2>1, <2>2
<1> QED BY <1>1 DEF Tagger, Verdict

\* The server's adjudication implements the game its players were promised,
\* however uploads are ordered, repeated, contradicted and delayed.
THEOREM EvidenceImplements == Spec => Infections
  BY HandledImplements, InitImplements, AlwaysSafe, BoxHandled, PTL DEF Spec, Infections, Game!Spec

-----------------------------------------------------------------------------
(***************************************************************************)
(* The line of infections.  That going from victim to actor ends with      *)
(* patient zero is not inductive: what is, is that the infected can be     *)
(* numbered below their count so that every badge comes after its tagger.  *)
(***************************************************************************)
Infecteds == {s \in Roster : Tagger[s] # NoBody}
Ranks(rank) ==
  \A s \in Infecteds :
    /\ rank[s] < Cardinality(Infecteds)
    /\ s # PatientZero => Tagger[s] \in Infecteds /\ rank[Tagger[s]] < rank[s]
Lineage == \E rank \in [Roster -> Nat] : Ranks(rank)

\* Climbing from victim to actor within a set of badges.
LEMMA ForefatherUnfolds ==
  ASSUME NEW S, NEW s \in S, PatientZero \in S,
         \A t \in S \ {PatientZero} : ActorOf(t) \in S
  PROVE  \E up \in [0..Cardinality(Roster) -> S] :
           /\ up[0] = s
           /\ \A n \in 1..Cardinality(Roster) :
                up[n] = IF up[n - 1] = PatientZero THEN PatientZero
                        ELSE ActorOf(up[n - 1])
           /\ Forefather(s) = up[Cardinality(Roster)]
<1> DEFINE N == Cardinality(Roster)
           Climb(t) == IF t = PatientZero THEN PatientZero ELSE ActorOf(t)
           F == [t \in S |-> Climb(t)]
           Eq(f) == f = [n \in 0..N |-> IF n = 0 THEN s ELSE Climb(f[n - 1])]
           up == CHOOSE f : Eq(f)
<1>1. N \in Nat
  BY RosterFinite
<1>2. \A t \in S : F[t] = Climb(t)
  OBVIOUS
<1>3. PICK g \in [0..N -> S] : Iterates(g, F, s, N)
  <2>1. F \in [S -> S]
    OBVIOUS
  <2> HIDE DEF F, N, Climb, Eq, up
  <2> QED BY <1>1, <2>1, Iteration
<1>4. Eq(g)
  <2>1. ASSUME NEW n \in 0..N
        PROVE  g[n] = IF n = 0 THEN s ELSE Climb(g[n - 1])
    <3>1. CASE n = 0
      BY <1>3, <3>1 DEF Iterates
    <3>2. CASE n # 0
      <4>1. n \in 1..N /\ n - 1 \in 0..N
        BY <1>1, <3>2
      <4>2. g[n - 1] \in S
        BY <4>1
      <4> HIDE DEF F, Climb
      <4> QED BY <1>2, <1>3, <3>2, <4>1, <4>2 DEF Iterates
    <3> QED BY <3>1, <3>2
  <2> HIDE DEF Climb, N
  <2> QED BY <2>1
<1>5. Eq(up)
  <2> HIDE DEF Eq
  <2> QED BY <1>4
<1>6. Forefather(s) = up[N]
  BY DEF Forefather
<1>7. up[0] = s /\ \A n \in 1..N : up[n] = Climb(up[n - 1])
  <2> HIDE DEF Climb, up
  <2> QED BY <1>1, <1>5
<1>8. \A n \in 0..N : up[n] \in S
  <2> DEFINE Bad == {n \in 0..N : up[n] \notin S}
  <2> HIDE DEF up, Climb, F, N
  <2> SUFFICES ASSUME Bad # {} PROVE FALSE
    OBVIOUS
  <2>1. PICK m \in Bad : \A k \in Bad : m <= k
    <3>1. Bad \in SUBSET Nat
      BY <1>1
    <3> HIDE DEF Bad
    <3> QED BY <3>1, LeastElement
  <2>2. m # 0
    BY <1>7, <2>1
  <2>3. m - 1 \in 0..N /\ m \in 1..N /\ m - 1 < m
    BY <1>1, <2>1, <2>2
  <2>4. up[m - 1] \in S
    BY <2>1, <2>3
  <2>5. up[m] = Climb(up[m - 1])
    BY <1>7, <2>3
  <2>6. Climb(up[m - 1]) \in S
    BY <2>4 DEF Climb
  <2> QED BY <2>1, <2>5, <2>6
<1>9. up \in [0..N -> S]
  <2> HIDE DEF Climb, up, N
  <2> QED BY <1>5, <1>8
<1> HIDE DEF up
<1> QED BY <1>6, <1>7, <1>9

\* At the start only patient zero is infected.
LEMMA InitLineage == Init => Lineage
<1> SUFFICES ASSUME Init PROVE Lineage
  OBVIOUS
<1> USE RosterAssumption, SentinelAssumption
<1> DEFINE rank == [s \in Roster |-> 0]
<1>1. Game!Init
  BY InitImplements
<1>2. Tagger = [s \in Roster |-> IF s = PatientZero THEN s ELSE NoBody]
  BY <1>1 DEF Game!Init, Tagger
<1>3. PatientZero # NoBody
  OBVIOUS
<1>4. Infecteds = {PatientZero}
  BY <1>2, <1>3 DEF Infecteds
<1>5. Cardinality(Infecteds) = 1
  BY <1>4, FS_Singleton
<1>6. rank \in [Roster -> Nat] /\ Ranks(rank)
  BY <1>4, <1>5 DEF Ranks
<1> QED BY <1>6 DEF Lineage

\* Whoever is infected next is numbered last.
LEMMA InfectLineage ==
  ASSUME Lineage, NEW by \in Roster, NEW victim \in Roster, Game!Infect(by, victim)
  PROVE  Lineage'
<1>1. PICK rank \in [Roster -> Nat] : Ranks(rank)
  BY DEF Lineage
<1>2. /\ Tagger[by] # NoBody /\ Tagger[victim] = NoBody
      /\ Tagger' = [Tagger EXCEPT ![victim] = by]
  BY DEF Game!Infect, Game!Infected, Tagger
<1>3. by # NoBody
  BY RosterAssumption, SentinelAssumption
<1>4. Tagger'[victim] = by /\ \A s \in Roster \ {victim} : Tagger'[s] = Tagger[s]
  <2>1. DOMAIN Tagger = Roster
    BY DEF Tagger
  <2> QED BY <1>2, <2>1
<1>5. Infecteds' = Infecteds \cup {victim} /\ victim \notin Infecteds /\ by \in Infecteds
  BY <1>2, <1>3, <1>4 DEF Infecteds
<1>6. IsFiniteSet(Infecteds) /\ Cardinality(Infecteds) \in Nat
  BY RosterFinite, FS_Subset, FS_CardinalityType DEF Infecteds
<1>7. Cardinality(Infecteds') = Cardinality(Infecteds) + 1
  BY <1>5, <1>6, FS_AddElement
<1> DEFINE next == [rank EXCEPT ![victim] = Cardinality(Infecteds)]
<1>8. /\ next \in [Roster -> Nat] /\ next[victim] = Cardinality(Infecteds)
      /\ \A s \in Roster \ {victim} : next[s] = rank[s]
  BY <1>6
<1>9. ASSUME NEW s \in Infecteds'
      PROVE  /\ next[s] < Cardinality(Infecteds')
             /\ s # PatientZero => /\ Tagger'[s] \in Infecteds'
                                   /\ next[Tagger'[s]] < next[s]
  <2> HIDE DEF next
  <2>1. CASE s = victim
    <3>1. rank[by] < Cardinality(Infecteds) /\ by # victim
      BY <1>1, <1>5 DEF Ranks
    <3> QED BY <1>4, <1>5, <1>6, <1>7, <1>8, <2>1, <3>1
  <2>2. CASE s # victim
    <3>1. s \in Infecteds /\ s \in Roster
      BY <1>5, <2>2 DEF Infecteds
    <3>2. /\ rank[s] < Cardinality(Infecteds)
          /\ s # PatientZero => Tagger[s] \in Infecteds /\ rank[Tagger[s]] < rank[s]
      BY <1>1, <3>1 DEF Ranks
    <3>3. \A t \in Infecteds : t \in Roster /\ t # victim
      BY <1>5 DEF Infecteds
    <3>4. next[s] = rank[s] /\ Tagger'[s] = Tagger[s]
      BY <1>4, <1>8, <2>2, <3>1
    <3>5. next[s] < Cardinality(Infecteds')
      BY <1>6, <1>7, <3>1, <3>2, <3>4
    <3> QED BY <1>5, <1>8, <3>2, <3>3, <3>4, <3>5
  <2> QED BY <2>1, <2>2
<1> HIDE DEF next
<1> QED BY <1>8, <1>9 DEF Lineage, Ranks

\* In a numbered round the way from victim to actor reaches patient zero.
LEMMA LineageMeansAncestry == TreeInv /\ Lineage => Ancestry
<1> SUFFICES ASSUME TreeInv, Lineage, NEW s \in Roster, role[s].role = "Z"
             PROVE  Forefather(s) = PatientZero
  BY DEF Ancestry
<1> DEFINE N == Cardinality(Roster)
<1>1. PICK rank \in [Roster -> Nat] : Ranks(rank)
  BY DEF Lineage
<1>2. \A t \in Roster : t \in Infecteds <=> role[t].role = "Z"
  BY InfectedIsZombie DEF Infecteds, Tagger
<1>3. \A t \in Infecteds \ {PatientZero} : ActorOf(t) = Tagger[t]
  BY <1>2 DEF Infecteds, Tagger, TaggerOf, ActorOf
<1>4. PatientZero \in Infecteds
  BY <1>2, RosterAssumption DEF TreeInv, PatientZeroStays
<1>5. \A t \in Infecteds \ {PatientZero} :
        ActorOf(t) \in Infecteds /\ rank[ActorOf(t)] < rank[t]
  BY <1>1, <1>3 DEF Ranks
<1>6. N \in Nat /\ Cardinality(Infecteds) <= N
  BY RosterFinite, FS_Subset DEF Infecteds
<1>7. rank[s] < N /\ rank[s] \in Nat /\ s \in Infecteds
  <2>1. s \in Infecteds /\ rank[s] < Cardinality(Infecteds)
    BY <1>1, <1>2 DEF Ranks
  <2>2. Cardinality(Infecteds) \in Nat
    BY RosterFinite, FS_Subset, FS_CardinalityType DEF Infecteds
  <2> QED BY <1>6, <2>1, <2>2
<1>8. PICK up \in [0..N -> Infecteds] :
        /\ up[0] = s
        /\ \A n \in 1..N : up[n] = IF up[n - 1] = PatientZero THEN PatientZero
                                   ELSE ActorOf(up[n - 1])
        /\ Forefather(s) = up[N]
  <2>1. \A t \in Infecteds \ {PatientZero} : ActorOf(t) \in Infecteds
    BY <1>5
  <2> QED BY <1>4, <1>7, <2>1, ForefatherUnfolds
<1> DEFINE Off == {n \in 0..N : up[n] # PatientZero /\ rank[up[n]] + n > rank[s]}
<1>9. Off = {}
  <2> SUFFICES ASSUME Off # {} PROVE FALSE
    OBVIOUS
  <2> HIDE DEF N
  <2>1. PICK m \in Off : \A k \in Off : m <= k
    <3>1. Off \in SUBSET Nat
      BY <1>6
    <3> HIDE DEF Off
    <3> QED BY <3>1, LeastElement
  <2>2. m # 0
    BY <1>7, <1>8, <2>1
  <2>3. m - 1 \in 0..N /\ m \in 1..N /\ m - 1 < m
    BY <1>6, <2>1, <2>2
  <2>4. m - 1 \notin Off
    BY <1>6, <2>1, <2>3
  <2>5. up[m - 1] # PatientZero /\ up[m] = ActorOf(up[m - 1])
    BY <1>8, <2>1, <2>3
  <2>6. up[m - 1] \in Infecteds /\ up[m] \in Infecteds
    BY <2>3
  <2>7. rank[up[m]] < rank[up[m - 1]]
    BY <1>5, <2>5, <2>6
  <2>8. rank[up[m - 1]] + (m - 1) <= rank[s]
    <3>1. rank[up[m - 1]] \in Nat
      BY <2>6 DEF Infecteds
    <3> QED BY <1>6, <1>7, <2>3, <2>4, <2>5, <3>1
  <2>9. rank[up[m]] \in Nat /\ rank[up[m - 1]] \in Nat /\ m \in Nat
    BY <1>6, <2>3, <2>6 DEF Infecteds
  <2> QED BY <1>7, <2>1, <2>7, <2>8, <2>9
<1>10. up[N] = PatientZero
  <2>1. N \in 0..N /\ N \notin Off
    BY <1>6, <1>9
  <2>2. rank[up[N]] \in Nat
    BY <2>1 DEF Infecteds
  <2> HIDE DEF N
  <2> QED BY <1>6, <1>7, <2>1, <2>2
<1> QED BY <1>8, <1>10

LEMMA HandledLineage ==
  ASSUME TreeInv, TreeInv', Lineage, [Handled]_vars
  PROVE  Lineage'
<1>1. CASE Tagger' = Tagger
  BY <1>1 DEF Lineage, Ranks, Infecteds
<1>2. CASE \E by, victim \in Roster : Game!Infect(by, victim)
  BY <1>2, InfectLineage
<1>3. Game!Close => Tagger' = Tagger
  BY DEF Game!Close, Tagger
<1>4. CASE \E i \in Ids : SettleRow(i)
  BY <1>1, <1>2, <1>4, SettleRowImplements
<1>5. CASE ~\E i \in Ids : SettleRow(i)
  BY <1>1, <1>3, <1>5, QuietImplements
<1> QED BY <1>4, <1>5

\* From every zombie the way from victim to actor reaches patient zero: no
\* cycle that the uploads draw is ever accepted, however long.
THEOREM AncestryAlways == Spec => []Ancestry
<1>1. Spec => []Lineage
  BY HandledLineage, InitLineage, AlwaysSafe, BoxHandled, PTL DEF Spec
<1> QED BY <1>1, AlwaysSafe, LineageMeansAncestry, PTL
=============================================================================
