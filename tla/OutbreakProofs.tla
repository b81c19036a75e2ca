--------------------------- MODULE OutbreakProofs ---------------------------
(***************************************************************************)
(* Theorems about module Outbreak, for every roster and every value of the *)
(* bounds: badges that play without the server, and are told much later    *)
(* and in any order what it made of their evidence, never come to disagree *)
(* with it for good.                                                       *)
(*                                                                         *)
(* What the server does is known from EvidenceProofs and InfectionProofs,  *)
(* whose steps hold of any uploads.  Here follow what it remembers of each *)
(* badge, what a badge wrote down and what it shows (OutbreakInv); that    *)
(* nothing is lost before a reboot (Closings); and that honest clocks are  *)
(* honoured (HonestInv).                                                   *)
(***************************************************************************)
EXTENDS Outbreak, InfectionProofs

-----------------------------------------------------------------------------
(***************************************************************************)
(* The server: the record it keeps of the roles, and the results it sends. *)
(***************************************************************************)
\* Revisions are numbered by the events they cover; a slot is recorded as a
\* zombie by one cause only, and as a human only before it was infected.
Recorded ==
  /\ \A h \in history[PatientZero] : h.role = "Z" /\ h.cause = 0
  /\ \A s \in Roster :
       /\ role[s] \in history[s]
       /\ \A h \in history[s] :
            /\ h.role_rev = h.covered_seq + 1 /\ h.covered_seq <= role[s].covered_seq
            /\ h.role = "Z" => /\ role[s].role = "Z" /\ h.cause = role[s].cause
                               /\ h.cause <= h.covered_seq
            /\ h.role = "H" => \A q \in 1..h.covered_seq : status[<<s, q>>] # "accepted"

FinalsAgree ==
  \A k \in 1..Len(endCommands) :
    endCommands[k].type = "FINAL_RESULT" => end.phase = "final" /\ endCommands[k].winner = end.winner

ServerInv == TreeInv /\ SnapshotInv /\ Recorded /\ FinalsAgree

\* The steps that settle no row leave the record alone and accept nothing.
LEMMA QuietRecorded ==
  ASSUME TreeInv, TreeInv', Recorded, [Handled]_vars, ~\E i \in Ids : SettleRow(i)
  PROVE  Recorded'
<1>1. history' = history
  BY DEF Handled, vars, Tick, CheckDue, Ingest, IngestConflict, Ack, SettleDone
<1>2. TypeInv /\ Quiet
  BY QuietSteps DEF TreeInv
<1>3. role' = role
  BY <1>2 DEF Quiet
<1>4. \A i \in Ids : status'[i] = "accepted" => status[i] = "accepted"
  BY <1>2 DEF Quiet
<1>5. \A s \in Roster : \A h \in history[s] : \A q \in 1..h.covered_seq : <<s, q>> \in Ids
  <2> SUFFICES ASSUME NEW s \in Roster, NEW h \in history[s], NEW q \in 1..h.covered_seq
               PROVE  <<s, q>> \in Ids
    OBVIOUS
  <2>1. h.covered_seq \in 0..MaxSeq /\ s \in Slots
    BY <1>2, RosterAssumption DEF TypeInv, TypeOK, Role
  <2> QED BY <2>1, NumbersAssumption DEF Ids, Seqs
<1> QED BY <1>1, <1>3, <1>4, <1>5 DEF Recorded

\* A row that is settled adds one revision, a zombie's only if its victim was
\* on record as a human all along.
LEMMA SettleRecorded ==
  ASSUME TreeInv, TreeInv', Recorded, NEW i \in Ids, SettleRow(i)
  PROVE  Recorded'
<1> DEFINE e == body[i]
           v == e.victim
           r == RoleAfter(e, status'[i])
<1> USE RosterAssumption, NumbersAssumption
<1>1. TypeInv /\ TypeInv'
  BY DEF TreeInv
<1>2. /\ e \in Body /\ EventId(e) = i /\ status[i] = "pending_dependency"
      /\ status'[i] \in {"accepted", "rejected"}
      /\ \A j \in Ids \ {i} : status'[j] = status[j]
      /\ status'[i] = "accepted" => v \in Roster /\ Admissible(e)
      /\ \A s \in Roster \ {v} : role'[s] = role[s]
      /\ v \in Roster => e.seq = role[v].covered_seq + 1 /\ role'[v] = r
  BY <1>1, SettleRowEffect
<1>3. \A s \in Roster : /\ role[s] \in Role /\ role'[s] \in Role
                        /\ history[s] \subseteq Role
                        /\ role[s].role_rev = role[s].covered_seq + 1
  BY <1>1 DEF TypeInv, TypeOK, TreeInv, Frontier
<1>4. i = <<v, e.seq>> /\ e.seq \in 1..MaxSeq
  BY <1>2 DEF EventId, Body, Seqs
<1>5. v \notin Roster => history' = history /\ status'[i] = "rejected"
  BY <1>2 DEF SettleRow
<1>6. v \in Roster => \A s \in Roster : history'[s] = IF s = v THEN history[v] \cup {r} ELSE history[s]
  <2> SUFFICES ASSUME v \in Roster
               PROVE  \A s \in Roster : history'[s] = IF s = v THEN history[v] \cup {r} ELSE history[s]
    OBVIOUS
  <2>1. r.role_rev = role[v].role_rev + 1
    BY <1>2 DEF RoleAfter
  <2>2. ~\E h \in history[v] : h.role_rev = r.role_rev
    BY <1>3, <2>1 DEF Recorded, Role
  <2>3. status'[i] = Decision(e)
    BY <1>1 DEF SettleRow, TypeInv, TypeOK
  <2>4. history' = [history EXCEPT ![v] = IF \E h \in @ : h.role_rev = r.role_rev THEN @ ELSE @ \cup {r}]
    BY <2>3 DEF SettleRow, SaveRole
  <2> HIDE DEF e, v, r
  <2> QED BY <1>1, <2>2, <2>4 DEF TypeInv, TypeOK
<1> DEFINE Fits(s, h) ==
      /\ h.role_rev = h.covered_seq + 1 /\ h.covered_seq <= role'[s].covered_seq
      /\ h.role = "Z" => /\ role'[s].role = "Z" /\ h.cause = role'[s].cause
                         /\ h.cause <= h.covered_seq
      /\ h.role = "H" => \A q \in 1..h.covered_seq : status'[<<s, q>>] # "accepted"
<1>7. ASSUME NEW s \in Roster, s # v, NEW h \in history[s] PROVE Fits(s, h)
  <2>1. \A q \in 1..h.covered_seq : <<s, q>> \in Ids \ {i}
    BY <1>3, <1>4, <1>7 DEF Ids, Seqs, Role
  <2> HIDE DEF e, v, r
  <2> QED BY <1>2, <1>7, <2>1 DEF Recorded
<1>8. ASSUME v \in Roster, NEW h \in history[v] PROVE Fits(v, h)
  <2> USE <1>8
  <2>1. /\ h \in Role /\ h.role_rev = h.covered_seq + 1 /\ h.covered_seq <= role[v].covered_seq
        /\ role[v].covered_seq \in Nat /\ h.covered_seq \in 0..MaxSeq
    BY <1>3 DEF Recorded, Role
  <2>2. r.covered_seq = role[v].covered_seq + 1 /\ e.seq = role[v].covered_seq + 1
    BY <1>2 DEF RoleAfter
  <2>3. \A q \in 1..h.covered_seq : <<v, q>> \in Ids \ {i}
    <3> TAKE q \in 1..h.covered_seq
    <3>1. q \in Seqs /\ q < e.seq /\ v \in Slots
      BY <2>1, <2>2 DEF Seqs
    <3> HIDE DEF e, v
    <3> QED BY <1>4, <3>1 DEF Ids
  <2>4. h.role = "Z" => role[v].role = "Z" /\ h.cause = role[v].cause /\ h.cause <= h.covered_seq
    BY DEF Recorded
  <2>5. role[v].role = "Z" => r.role = "Z" /\ r.cause = role[v].cause
    BY <1>2 DEF RoleAfter, Admissible, VictimWasHuman
  <2>6. h.role = "H" => \A q \in 1..h.covered_seq : status[<<v, q>>] # "accepted"
    BY DEF Recorded
  <2> HIDE DEF e, v, r
  <2> QED BY <1>2, <2>1, <2>2, <2>3, <2>4, <2>5, <2>6
<1>9. v \in Roster => Fits(v, r)
  <2> SUFFICES ASSUME v \in Roster PROVE Fits(v, r)
    OBVIOUS
  <2>1. r.role_rev = r.covered_seq + 1 /\ r.covered_seq = role[v].covered_seq + 1
    BY <1>2, <1>3 DEF RoleAfter
  <2>2. role'[v] = r /\ r \in Role
    BY <1>2, <1>3
  <2>3. r.role = "Z" => r.cause <= r.covered_seq
    <3>1. role[v].role = "Z" => role[v].cause <= role[v].covered_seq /\ role[v].cause \in -1..MaxSeq
      BY <1>3 DEF Recorded, Role
    <3> QED BY <1>2, <1>3, <1>4, <2>1, <3>1 DEF RoleAfter, Role
  <2>4. ASSUME r.role = "H", NEW q \in 1..r.covered_seq PROVE status'[<<v, q>>] # "accepted"
    <3>1. role[v].role = "H" /\ status'[i] = "rejected"
      BY <1>2, <2>4 DEF RoleAfter
    <3>2. CASE q = e.seq
      BY <1>4, <3>1, <3>2
    <3>3. CASE q # e.seq
      <4>1. q \in 1..role[v].covered_seq
        BY <1>2, <1>3, <2>1, <2>2, <2>4, <3>3 DEF Role
      <4>2. status[<<v, q>>] # "accepted"
        BY <3>1, <4>1 DEF Recorded
      <4>3. <<v, q>> \in Ids \ {i}
        <5>1. q \in 1..MaxSeq /\ v \in Slots
          BY <1>3, <4>1 DEF Role
        <5> HIDE DEF e, v
        <5> QED BY <1>4, <3>3, <5>1 DEF Ids, Seqs
      <4> QED BY <1>2, <4>2, <4>3
    <3> QED BY <3>2, <3>3
  <2> HIDE DEF e, v, r
  <2> QED BY <2>1, <2>2, <2>3, <2>4 DEF Role
<1>10. \A s \in Roster : role'[s] \in history'[s] /\ \A h \in history'[s] : Fits(s, h)
  <2> HIDE DEF e, v, r, Fits
  <2> QED BY <1>2, <1>5, <1>6, <1>7, <1>8, <1>9 DEF Recorded
<1>11. \A h \in history'[PatientZero] : h.role = "Z" /\ h.cause = 0
  <2>1. role[PatientZero].role = "Z" /\ role[PatientZero].cause = 0
    BY DEF Recorded
  <2>2. v = PatientZero => r.role = "Z" /\ r.cause = 0
    BY <1>2, <2>1 DEF RoleAfter, Admissible, VictimWasHuman
  <2> HIDE DEF e, v, r
  <2> QED BY <1>5, <1>6, <2>2 DEF Recorded
<1> HIDE DEF e, v, r
<1> QED BY <1>10, <1>11 DEF Recorded

\* A final result, once sent, is the server's; no other follows it.
LEMMA FinishAgrees ==
  ASSUME TypeInv, FinalsAgree, NEW receipts, NEW saved, FinishIfDue(receipts, saved)
  PROVE  FinalsAgree'
<1> DEFINE next == EndOrSame(receipts)
           first == IF next # end /\ (end.phase = "running" \/ next.winner # end.winner)
                    THEN <<EndRoundCommand(next)>> ELSE <<>>
           second == IF next # end /\ next.phase = "final"
                     THEN <<FinalResultCommand(next)>> ELSE <<>>
<1>1. CASE end.phase = "final"
  BY <1>1, FinalStays DEF FinalsAgree
<1>2. CASE end.phase # "final"
  <2>1. end' = next /\ endCommands' = endCommands \o first \o second
    BY DEF FinishIfDue
  <2>2. next.winner \in {"H", "Z"}
    BY EndOrSameTyped DEF End
  <2>3. first \in Seq(Command) /\ \A k \in 1..Len(first) : first[k].type = "END_ROUND"
    <3>1. EndRoundCommand(next) \in Command /\ EndRoundCommand(next).type = "END_ROUND"
      BY <2>2 DEF EndRoundCommand, Command
    <3> HIDE DEF next
    <3> QED BY <3>1
  <2>4. second \in Seq(Command) /\ \A k \in 1..Len(second) :
          second[k].winner = next.winner /\ next.phase = "final"
    <3>1. FinalResultCommand(next) \in Command /\ FinalResultCommand(next).winner = next.winner
      BY <2>2 DEF FinalResultCommand, Command
    <3> HIDE DEF next
    <3> QED BY <3>1
  <2>5. endCommands \in Seq(Command)
    BY DEF TypeInv, TypeOK
  <2> HIDE DEF first, second, next
  <2>6. ASSUME NEW k \in 1..Len(endCommands'), endCommands'[k].type = "FINAL_RESULT"
        PROVE  next.phase = "final" /\ endCommands'[k].winner = next.winner
    <3>1. endCommands \o first \in Seq(Command)
      BY <2>3, <2>5
    <3>2. Len(endCommands \o first) = Len(endCommands) + Len(first)
      BY <2>3, <2>5
    <3>3. Len(endCommands') = Len(endCommands) + Len(first) + Len(second)
      BY <2>1, <2>4, <3>1, <3>2
    <3>4. CASE k <= Len(endCommands)
      <4>1. endCommands'[k] = endCommands[k]
        BY <2>1, <2>3, <2>4, <2>5, <2>6, <3>1, <3>2, <3>4
      <4> QED BY <1>2, <2>5, <2>6, <3>4, <4>1 DEF FinalsAgree
    <3>5. CASE Len(endCommands) < k /\ k <= Len(endCommands) + Len(first)
      <4>1. endCommands'[k] = first[k - Len(endCommands)] /\ k - Len(endCommands) \in 1..Len(first)
        BY <2>1, <2>3, <2>4, <2>5, <2>6, <3>1, <3>2, <3>5
      <4> QED BY <2>3, <2>6, <4>1
    <3>6. CASE Len(endCommands) + Len(first) < k
      <4> DEFINE j == k - (Len(endCommands) + Len(first))
      <4>1. endCommands'[k] = second[j] /\ j \in 1..Len(second)
        BY <2>1, <2>3, <2>4, <2>5, <2>6, <3>1, <3>2, <3>3, <3>6
      <4> HIDE DEF j
      <4> QED BY <2>4, <4>1
    <3> QED BY <2>3, <2>5, <2>6, <3>4, <3>5, <3>6
  <2> QED BY <2>1, <2>6 DEF FinalsAgree
<1> QED BY <1>1, <1>2

LEMMA StepFinals ==
  ASSUME TypeInv, FinalsAgree, [Handled]_vars
  PROVE  FinalsAgree'
<1>1. UNCHANGED <<end, endCommands>> \/ \E receipts, saved : FinishIfDue(receipts, saved)
  BY DEF Handled, vars, Tick, CheckDue, Ingest, IngestConflict, Ack, SettleRow, SettleDone
<1> QED BY <1>1, FinishAgrees DEF FinalsAgree

LEMMA StepServer ==
  ASSUME ServerInv, [Handled]_vars
  PROVE  ServerInv'
<1>1. TreeInv /\ TreeInv' /\ TypeInv
  BY StepSafe DEF ServerInv, TreeInv
<1>2. Recorded'
  BY <1>1, QuietRecorded, SettleRecorded DEF ServerInv
<1> QED BY <1>1, <1>2, StepSnapshot, StepFinals DEF ServerInv

LEMMA InitServer == Init => ServerInv
<1> SUFFICES ASSUME Init PROVE ServerInv
  OBVIOUS
<1>1. TreeInv
  BY InitSafe
<1>2. SnapshotInv /\ FinalsAgree
  BY DEF Init, SnapshotInv, FinalsAgree
<1>3. \A s \in Roster : role[s] = FirstRole(s) /\ history[s] = {FirstRole(s)}
  BY DEF Init
<1>4. \A s \in Roster : /\ FirstRole(s).role_rev = 1 /\ FirstRole(s).covered_seq = 0
                        /\ FirstRole(s).role = (IF s = PatientZero THEN "Z" ELSE "H")
                        /\ s = PatientZero => FirstRole(s).cause = 0
  BY DEF FirstRole
<1>5. Recorded
  BY <1>3, <1>4, RosterAssumption DEF Recorded
<1> QED BY <1>1, <1>2, <1>5 DEF ServerInv

-----------------------------------------------------------------------------
BadgeTypes ==
  /\ card \in [Roster -> Card] /\ held \in [Roster -> Card]
  /\ log \in [Roster -> Seq(Body)] /\ \A b \in Roster : Len(log[b]) <= MaxSeq
  /\ writing \in [Roster -> Body \cup {NoBody}]
  /\ phase \in [Roster -> Phases] /\ closing \in [Roster -> BOOLEAN]
  /\ result \in [Roster -> [winner: {"H", "Z"}, final: BOOLEAN, command: Nat, shown: BOOLEAN]]
  /\ requests \subseteq Request /\ flooded \subseteq Body
  /\ attempts \in [Roster -> Nat] /\ reboots \in Seq(Roster)

\* A badge that has forgotten nothing.
Steady(b) == \A i \in DOMAIN reboots : reboots[i] # b

\* What a badge wrote is numbered as it stands in its journal, and is all that
\* was ever flooded in its name, unless it forgot some.
Journals ==
  /\ \A b \in Roster : \A n \in 1..Produced(b) :
       log[b][n] \in flooded /\ log[b][n].victim = b /\ log[b][n].seq = n
  /\ \A e \in flooded : /\ e.victim \in Roster
                        /\ Steady(e.victim) => e.seq <= Produced(e.victim) /\ log[e.victim][e.seq] = e
  /\ \A i \in Ids : body[i] # NoBody => body[i] \in flooded
  /\ \A b \in Roster : writing[b] # NoBody =>
       writing[b].victim = b /\ writing[b].seq = Produced(b) + 1 /\ card[b].role = "H"

\* A card c of a badge with n events in its journal: a zombie is confirmed, and
\* no role on record that this badge may still take cures it, or it waits for
\* the verdict on one of those events; all the others were rejected.
Fits(b, c, n) ==
  /\ b = PatientZero => c.role = "Z" /\ ~c.provisional /\ c.cause = 0
  /\ c.role = "Z" /\ ~c.provisional =>
       /\ role[b].role = "Z" /\ role[b].cause = c.cause
       /\ \A r \in history[b] : r.role = "H" /\ r.role_rev > c.role_rev => r.covered_seq < n
  /\ c.role = "Z" /\ c.provisional => c.cause \in 1..n
  /\ Steady(b) => \A q \in 1..n : status[<<b, q>>] = "rejected" \/ (c.role = "Z" /\ c.cause = q)

Cards ==
  \A b \in Roster :
    /\ Fits(b, card[b], Produced(b))
    /\ held[b].role_rev > 0 => \E h \in history[b] : held[b] = CardOf(h)

Shows ==
  \A b \in Roster :
    /\ closing[b] => phase[b] # "running" /\ writing[b] = NoBody
    /\ result[b].final => /\ phase[b] = "final"
                          /\ end.phase = "final" /\ result[b].winner = end.winner

OutbreakInv == ServerInv /\ BadgeTypes /\ Journals /\ Cards /\ Shows

-----------------------------------------------------------------------------
(***************************************************************************)
(* The server's steps, with what the badges gave it.                       *)
(***************************************************************************)
Serves ==
  \/ Tick /\ UNCHANGED badges
  \/ Serve
  \/ \E e \in flooded : Upload(e) \/ UploadConflict(e)
  \/ \E b \in Roster : Report(b)

LEMMA SettledTyped == NumbersAssumption => \A b : Settled(b) \in 0..MaxSeq
<1> SUFFICES ASSUME NumbersAssumption, NEW b PROVE Settled(b) \in 0..MaxSeq
  OBVIOUS
<1> DEFINE gapless == {n \in 0..MaxSeq : \A q \in 1..n : q \in verdicts[b]}
<1>1. MaxSeq \in Nat
  BY NumbersAssumption
<1>2. gapless \in SUBSET (0..MaxSeq) /\ 0 \in gapless
  BY <1>1
<1>3. \E m \in gapless : \A k \in gapless : k <= m
  <2> HIDE DEF gapless
  <2> QED BY <1>1, <1>2, GreatestElement
<1> QED BY <1>2, <1>3 DEF Settled

LEMMA ServesHandled ==
  ASSUME BadgeTypes, Serves
  PROVE  Handled /\ UNCHANGED badges
<1>1. CASE Tick /\ UNCHANGED badges
  BY <1>1 DEF Handled
<1>2. CASE Serve
  BY <1>2 DEF Serve, Handled
<1>3. ASSUME NEW e \in flooded, Upload(e) \/ UploadConflict(e)
      PROVE  Handled /\ UNCHANGED badges
  <2>1. {e} \in SUBSET Body /\ e \in {e}
    BY DEF BadgeTypes
  <2> QED BY <1>3, <2>1 DEF Upload, UploadConflict, Handled
<1>4. ASSUME NEW b \in Roster, Report(b)
      PROVE  Handled /\ UNCHANGED badges
  <2>1. Produced(b) \in 0..MaxSeq
    <3>1. log[b] \in Seq(Body) /\ Len(log[b]) <= MaxSeq
      BY DEF BadgeTypes
    <3> QED BY <3>1, NumbersAssumption DEF Produced
  <2>2. /\ {[slot |-> b, produced |-> Produced(b)]} \in SUBSET CloseReceipt
        /\ {[slot |-> b, through |-> Settled(b)]} \in SUBSET DecisionFrontier
    BY <2>1, SettledTyped, NumbersAssumption DEF CloseReceipt, DecisionFrontier
  <2>3. Ack({[slot |-> b, produced |-> Produced(b)]}, {[slot |-> b, through |-> Settled(b)]})
    BY <1>4 DEF Report
  <2> HIDE DEF CloseReceipt, DecisionFrontier
  <2> QED BY <1>4, <2>2, <2>3 DEF Report, Handled
<1> QED BY <1>1, <1>2, <1>3, <1>4 DEF Serves

\* Only what a badge flooded is ever stored.
LEMMA StoredFlooded ==
  ASSUME TypeInv, BadgeTypes, Serves, \A i \in Ids : body[i] # NoBody => body[i] \in flooded,
         NEW i \in Ids, body'[i] # NoBody
  PROVE  body'[i] \in flooded
<1>1. ASSUME NEW e \in flooded, Upload(e) PROVE body'[i] \in flooded
  <2>1. {e} \in SUBSET Body /\ Ingest({e})
    BY <1>1 DEF BadgeTypes, Upload
  <2> QED BY <2>1, IngestRows
<1>2. body' = body \/ \E e \in flooded : Upload(e)
  BY DEF Serves, Serve, UploadConflict, Report, Tick, CheckDue, SettleDone, SettleRow, IngestConflict,
         Ack, evidence
<1> QED BY <1>1, <1>2

\* The record only grows, by the role a slot has now, and a zombie stays one
\* by the same cause.
LEMMA ServerGrows ==
  ASSUME TreeInv, Recorded, [Handled]_vars, NEW s \in Roster
  PROVE  /\ history[s] \subseteq history'[s] /\ history'[s] \subseteq history[s] \cup {role'[s]}
         /\ role[s].role = "Z" => role'[s].role = "Z" /\ role'[s].cause = role[s].cause
<1>1. TypeInv
  BY DEF TreeInv
<1>2. CASE ~\E i \in Ids : SettleRow(i)
  <2>1. history' = history
    BY <1>2 DEF Handled, vars, Tick, CheckDue, Ingest, IngestConflict, Ack, SettleDone
  <2> QED BY <1>1, <1>2, <2>1, QuietSteps DEF Quiet
<1>3. ASSUME NEW i \in Ids, SettleRow(i)
      PROVE  /\ history[s] \subseteq history'[s] /\ history'[s] \subseteq history[s] \cup {role'[s]}
             /\ role[s].role = "Z" => role'[s].role = "Z" /\ role'[s].cause = role[s].cause
  <2> DEFINE e == body[i]
             r == RoleAfter(e, Decision(e))
  <2>1. /\ status'[i] = "accepted" => Admissible(e)
        /\ status'[i] \in {"accepted", "rejected"}
        /\ \A t \in Roster \ {e.victim} : role'[t] = role[t]
        /\ e.victim \in Roster => role'[e.victim] = RoleAfter(e, status'[i])
    BY <1>1, <1>3, SettleRowEffect
  <2>2. status'[i] = Decision(e)
    BY <1>1, <1>3 DEF SettleRow, TypeInv, TypeOK
  <2>3. \/ history' = history
        \/ /\ e.victim \in Roster
           /\ \/ history' = [history EXCEPT ![e.victim] = @]
              \/ history' = [history EXCEPT ![e.victim] = @ \cup {r}]
    BY <1>3 DEF SettleRow, SaveRole
  <2>4. e.victim \in Roster /\ role[e.victim].role = "Z" =>
          role'[e.victim].role = "Z" /\ role'[e.victim].cause = role[e.victim].cause
    BY <2>1 DEF Admissible, VictimWasHuman, RoleAfter
  <2> HIDE DEF e, r
  <2>5. e.victim \in Roster => role'[e.victim] = r
    BY <2>1, <2>2 DEF r
  <2>6. history \in [Roster -> SUBSET Role]
    BY <1>1 DEF TypeInv, TypeOK
  <2>7. CASE s = e.victim
    <3>1. history[s] \subseteq history'[s] /\ history'[s] \subseteq history[s] \cup {r}
      BY <2>3, <2>6, <2>7
    <3> QED BY <2>4, <2>5, <2>7, <3>1
  <2>8. CASE s # e.victim
    BY <2>1, <2>3, <2>6, <2>8
  <2> QED BY <2>7, <2>8
<1> QED BY <1>2, <1>3

\* What the server learns leaves every card as fitting as it was.
LEMMA ServesKeep ==
  ASSUME OutbreakInv, Serves
  PROVE  OutbreakInv'
<1>1. Handled /\ UNCHANGED badges /\ TreeInv /\ Recorded /\ TypeInv
  BY ServesHandled DEF OutbreakInv, ServerInv, TreeInv
<1>2. ServerInv'
  BY <1>1, StepServer DEF OutbreakInv
<1>3. BadgeTypes'
  BY <1>1 DEF badges, BadgeTypes, OutbreakInv
<1>4. Journals'
  <2>1. \A i \in Ids : body'[i] # NoBody => body'[i] \in flooded
    BY <1>1, StoredFlooded DEF OutbreakInv, Journals
  <2> QED BY <1>1, <2>1 DEF badges, Journals, OutbreakInv, Produced, Steady
<1>5. /\ \A i \in Ids : status[i] = "rejected" => status'[i] = "rejected"
      /\ end.phase = "final" => end' = end
  BY <1>1, StepSticks DEF Decided
<1>6. ASSUME NEW b \in Roster, NEW n \in 0..MaxSeq, NEW c, Fits(b, c, n)
      PROVE  Fits(b, c, n)'
  <2>1. \A q \in 1..n : <<b, q>> \in Ids
    BY RosterAssumption, NumbersAssumption DEF Ids, Seqs
  <2>2. /\ history'[b] \subseteq history[b] \cup {role'[b]}
        /\ role[b].role = "Z" => role'[b].role = "Z" /\ role'[b].cause = role[b].cause
    BY <1>1, ServerGrows
  <2>3. reboots' = reboots
    BY <1>1 DEF badges
  <2> QED BY <1>5, <1>6, <2>1, <2>2, <2>3 DEF Fits, Steady
<1>7. Cards'
  <2> SUFFICES ASSUME NEW b \in Roster
               PROVE  /\ Fits(b, card[b], Produced(b))'
                      /\ held'[b].role_rev > 0 => \E h \in history'[b] : held'[b] = CardOf(h)
    BY DEF Cards
  <2>1. Produced(b) \in 0..MaxSeq
    BY NumbersAssumption DEF OutbreakInv, BadgeTypes, Produced
  <2>2. PICK c : c = card[b]
    OBVIOUS
  <2>3. PICK n \in 0..MaxSeq : n = Produced(b)
    BY <2>1
  <2>4. card'[b] = c /\ Produced(b)' = n /\ Fits(b, c, n)'
    BY <1>1, <1>6, <2>2, <2>3 DEF badges, Produced, OutbreakInv, Cards
  <2>5. held'[b].role_rev > 0 => \E h \in history'[b] : held'[b] = CardOf(h)
    BY <1>1, ServerGrows DEF badges, OutbreakInv, Cards
  <2> QED BY <2>4, <2>5 DEF Fits
<1>8. Shows'
  BY <1>1, <1>5 DEF badges, OutbreakInv, Shows
<1> QED BY <1>2, <1>3, <1>4, <1>7, <1>8 DEF OutbreakInv

-----------------------------------------------------------------------------
(***************************************************************************)
(* The badges' steps.                                                      *)
(***************************************************************************)
Tags ==
  \/ \E b, v \in Roster : Offer(b, v)
  \/ \E r \in requests : AcceptRequest(r)
  \/ \E b \in Roster : EventWritten(b) \/ WriteFailed(b)
Learns(b) ==
  \/ \E q \in Seqs : TakeDecision(b, q)
  \/ \E r \in history[b] : TakeRole(b, r)
Finishes(b) ==
  \/ \E k \in Results : TakeEnd(b, k) \/ TakeFinal(b, k)
  \/ Expire(b) \/ Close(b)

LEMMA NextSplits ==
  ASSUME OutbreakNext
  PROVE  Serves \/ Tags \/ \E b \in Roster : Learns(b) \/ Finishes(b) \/ Reboot(b)
  BY DEF OutbreakNext, Serves, Tags, Learns, Finishes

\* The fields of a card and of a role on record.
LEMMA CardTyped ==
  ASSUME NEW h \in Role
  PROVE  /\ CardOf(h) \in Card
         /\ CardOf(h).role = h.role /\ CardOf(h).role_rev = h.role_rev /\ CardOf(h).cause = h.cause
         /\ CardOf(h).covered_seq = h.covered_seq /\ ~CardOf(h).provisional
  BY DEF CardOf, Card, Role

\* The server decided what a role on record covers; it holds what it accepted
\* against that slot.
LEMMA CoveredDecided ==
  ASSUME ServerInv, NEW b \in Roster, NEW h \in history[b], NEW q \in 1..h.covered_seq
  PROVE  /\ <<b, q>> \in Ids
         /\ \/ status[<<b, q>>] = "rejected"
            \/ /\ status[<<b, q>>] = "accepted" /\ h.role = "Z" /\ h.cause = q
               /\ role[b].role = "Z" /\ role[b].cause = q
<1>1. /\ h \in Role /\ role[b] \in Role /\ h.covered_seq <= role[b].covered_seq
  BY DEF ServerInv, Recorded, TreeInv, TypeInv, TypeOK
<1>2. q \in 1..role[b].covered_seq /\ q \in 1..MaxSeq
  BY <1>1, NumbersAssumption DEF Role
<1>3. <<b, q>> \in Ids
  BY <1>2, RosterAssumption DEF Ids, Seqs
<1>4. status[<<b, q>>] \in {"accepted", "rejected"}
  BY <1>2 DEF ServerInv, TreeInv, Frontier, Decided
<1>5. ASSUME status[<<b, q>>] = "accepted"
      PROVE  h.role = "Z" /\ h.cause = q /\ role[b].role = "Z" /\ role[b].cause = q
  <2> DEFINE e == body[<<b, q>>]
  <2>1. /\ EventId(e) = <<b, q>> /\ role[e.victim].role = "Z" /\ role[e.victim].cause = e.seq
    BY <1>3, <1>5 DEF ServerInv, TreeInv, InfectionTree, Accepted
  <2>2. e.victim = b /\ e.seq = q
    BY <2>1 DEF EventId
  <2>3. h.role # "H" /\ h.role \in {"H", "Z"}
    BY <1>1, <1>5 DEF ServerInv, Recorded, Role
  <2> QED BY <2>1, <2>2, <2>3 DEF ServerInv, Recorded
<1> QED BY <1>3, <1>4, <1>5

\* A slot that is a zombie on record was infected by an accepted event that
\* every later record covers.
LEMMA ZombieForGood ==
  ASSUME ServerInv, NEW b \in Roster, NEW h \in history[b], h.role = "Z",
         NEW r \in history[b], r.role_rev > h.role_rev
  PROVE  r.role = "Z"
<1>1. /\ h \in Role /\ r \in Role /\ h.role_rev = h.covered_seq + 1 /\ r.role_rev = r.covered_seq + 1
      /\ role[b].role = "Z" /\ h.cause = role[b].cause /\ h.cause <= h.covered_seq
  BY DEF ServerInv, Recorded, TreeInv, TypeInv, TypeOK
<1>2. CASE b = PatientZero
  BY <1>2 DEF ServerInv, Recorded
<1>3. CASE b # PatientZero
  <2>1. <<b, h.cause>> \in Ids /\ status[<<b, h.cause>>] = "accepted"
    BY <1>1, <1>3 DEF ServerInv, TreeInv, InfectionTree, Accepted
  <2>2. h.cause \in 1..r.covered_seq
    BY <1>1, <2>1 DEF Role, Ids, Seqs
  <2> QED BY <1>1, <2>1, <2>2 DEF ServerInv, Recorded, Role
<1> QED BY <1>2, <1>3

\* A role on record fits a badge whose events it covers.
LEMMA RecordFits ==
  ASSUME ServerInv, NEW b \in Roster, NEW h \in history[b], NEW n \in 0..MaxSeq, n <= h.covered_seq
  PROVE  Fits(b, CardOf(h), n)
<1>1. /\ h \in Role
      /\ h.role = "Z" => role[b].role = "Z" /\ h.cause = role[b].cause
      /\ b = PatientZero => h.role = "Z" /\ h.cause = 0
  BY DEF ServerInv, Recorded, TreeInv, TypeInv, TypeOK
<1>2. /\ CardOf(h).role = h.role /\ CardOf(h).role_rev = h.role_rev /\ CardOf(h).cause = h.cause
      /\ CardOf(h).provisional = FALSE
  BY <1>1, CardTyped
<1>3. h.role = "Z" => \A r \in history[b] : r.role_rev > h.role_rev => r.role = "Z"
  BY ZombieForGood
<1>4. \A q \in 1..n : status[<<b, q>>] = "rejected" \/ (h.role = "Z" /\ h.cause = q)
  <2> TAKE q \in 1..n
  <2>1. q \in 1..h.covered_seq
    BY <1>1, NumbersAssumption DEF Role
  <2> QED BY <2>1, CoveredDecided
<1> QED BY <1>1, <1>2, <1>3, <1>4 DEF Fits

\* A badge that is offered a later role on record takes one that fits.
LEMMA HeldFits ==
  ASSUME OutbreakInv, NEW b \in Roster, NEW n \in Nat, held[b].role_rev > n,
         held[b].covered_seq >= Produced(b)
  PROVE  /\ Fits(b, held[b], Produced(b)) /\ \E h \in history[b] : held[b] = CardOf(h)
<1>1. held[b].role_rev > 0 /\ held[b].covered_seq \in Nat /\ Produced(b) \in 0..MaxSeq
  BY NumbersAssumption DEF OutbreakInv, BadgeTypes, Card, Produced
<1>2. PICK h \in history[b] : held[b] = CardOf(h)
  BY <1>1 DEF OutbreakInv, Cards
<1>3. h \in Role
  BY DEF OutbreakInv, ServerInv, TreeInv, TypeInv, TypeOK
<1>4. Produced(b) <= h.covered_seq
  BY <1>1, <1>2, <1>3, CardTyped
<1> QED BY <1>1, <1>2, <1>4, RecordFits DEF OutbreakInv

\* What a decision makes of the card it decides (TakeDecision).
Judged(b, q) ==
  IF ~(card[b].cause = q /\ card[b].provisional) THEN card[b]
  ELSE LET c == [card[b] EXCEPT !.provisional = FALSE, !.covered_seq = IF @ < q THEN q ELSE @]
       IN  IF status[<<b, q>>] = "rejected" THEN [c EXCEPT !.role = "H", !.cause = NoCause] ELSE c

LEMMA JudgedCard ==
  ASSUME OutbreakInv, NEW b \in Roster, NEW q \in Seqs, Decided(<<b, q>>)
  PROVE  /\ Judged(b, q) \in Card /\ Judged(b, q).role_rev = card[b].role_rev
         /\ \/ Judged(b, q) = card[b]
            \/ /\ card[b].cause = q /\ card[b].provisional /\ status[<<b, q>>] = "rejected"
               /\ Judged(b, q).role = "H"
            \/ /\ card[b].cause = q /\ card[b].provisional /\ status[<<b, q>>] = "accepted"
               /\ Judged(b, q).role = card[b].role /\ Judged(b, q).cause = q
               /\ ~Judged(b, q).provisional
<1> DEFINE old == card[b]
           new == [old EXCEPT !.provisional = FALSE, !.covered_seq = IF @ < q THEN q ELSE @]
           cured == [new EXCEPT !.role = "H", !.cause = NoCause]
<1>1. old \in Card /\ q \in 1..MaxSeq
  BY DEF OutbreakInv, BadgeTypes, Seqs
<1>2. PICK m : m = IF old.covered_seq < q THEN q ELSE old.covered_seq
  OBVIOUS
<1>3. m \in 0..MaxSeq
  BY <1>1, <1>2, NumbersAssumption DEF Card
<1>4. new = [old EXCEPT !.provisional = FALSE, !.covered_seq = m]
  BY <1>2
<1>5. /\ new \in Card /\ new.role_rev = old.role_rev /\ new.role = old.role
      /\ new.cause = old.cause /\ ~new.provisional
  <2> HIDE DEF old, new
  <2> QED BY <1>1, <1>3, <1>4 DEF Card
<1>6. cured = [new EXCEPT !.role = "H", !.cause = NoCause]
  OBVIOUS
<1>7. NoCause \in -1..MaxSeq
  BY NumbersAssumption DEF NoCause
<1>8. cured \in Card /\ cured.role_rev = old.role_rev /\ cured.role = "H"
  <2> HIDE DEF new, old, cured
  <2> QED BY <1>5, <1>6, <1>7 DEF Card
<1>9. Judged(b, q) = IF ~(old.cause = q /\ old.provisional) THEN old
                     ELSE IF status[<<b, q>>] = "rejected" THEN cured ELSE new
  BY DEF Judged
<1>10. status[<<b, q>>] \in {"accepted", "rejected"}
  BY DEF Decided
<1>11. CASE ~(old.cause = q /\ old.provisional)
  <2>1. Judged(b, q) = old
    BY <1>9, <1>11
  <2> QED BY <1>1, <2>1
<1>12. CASE old.cause = q /\ old.provisional /\ status[<<b, q>>] = "rejected"
  <2>1. Judged(b, q) = cured
    BY <1>9, <1>12
  <2> HIDE DEF cured
  <2> QED BY <1>8, <1>12, <2>1
<1>13. CASE old.cause = q /\ old.provisional /\ status[<<b, q>>] = "accepted"
  <2>1. Judged(b, q) = new
    BY <1>9, <1>13
  <2> HIDE DEF new
  <2> QED BY <1>5, <1>13, <2>1
<1> QED BY <1>10, <1>11, <1>12, <1>13

LEMMA JudgedFits ==
  ASSUME OutbreakInv, NEW b \in Roster, NEW q \in Seqs, Decided(<<b, q>>)
  PROVE  Fits(b, Judged(b, q), Produced(b))
<1>1. PICK c : c = Judged(b, q)
  OBVIOUS
<1>2. PICK n : n = Produced(b)
  OBVIOUS
<1>3. Fits(b, card[b], n) /\ card[b] \in Card /\ n \in 0..MaxSeq
  BY <1>2, NumbersAssumption DEF OutbreakInv, Cards, BadgeTypes, Produced
<1>4. card[b].provisional \in BOOLEAN
  BY <1>3 DEF Card
<1>5. <<b, q>> \in Ids /\ q \in 1..MaxSeq /\ ServerInv
  BY RosterAssumption DEF Ids, Seqs, OutbreakInv
<1>6. CASE c = card[b]
  BY <1>1, <1>2, <1>3, <1>6
<1>7. CASE /\ card[b].cause = q /\ card[b].provisional /\ status[<<b, q>>] = "rejected"
           /\ c.role = "H"
  <2>1. b # PatientZero
    BY <1>3, <1>7 DEF Fits
  <2>2. Steady(b) => \A k \in 1..n : status[<<b, k>>] = "rejected"
    BY <1>3, <1>7 DEF Fits
  <2>3. Fits(b, c, n)
    BY <1>7, <2>1, <2>2 DEF Fits
  <2> QED BY <1>1, <1>2, <2>3
<1>8. CASE /\ card[b].cause = q /\ card[b].provisional /\ status[<<b, q>>] = "accepted"
           /\ c.role = card[b].role /\ c.cause = q /\ ~c.provisional
  <2>1. b # PatientZero
    BY <1>3, <1>8 DEF Fits
  <2> DEFINE e == body[<<b, q>>]
  <2>2. EventId(e) = <<b, q>> /\ role[e.victim].role = "Z" /\ role[e.victim].cause = e.seq
    BY <1>5, <1>8 DEF ServerInv, TreeInv, InfectionTree, Accepted
  <2>3. role[b].role = "Z" /\ role[b].cause = q
    BY <2>2 DEF EventId
  <2>4. ASSUME c.role = "Z", NEW r \in history[b], r.role = "H" PROVE r.covered_seq < n
    <3>1. q \in 1..n
      BY <1>3, <1>8, <2>4 DEF Fits
    <3>2. r \in Role /\ ~(q \in 1..r.covered_seq)
      BY <1>5, <1>8, <2>4 DEF ServerInv, Recorded, TreeInv, TypeInv, TypeOK
    <3> QED BY <1>3, <3>1, <3>2, NumbersAssumption DEF Role
  <2>5. Steady(b) => \A k \in 1..n : status[<<b, k>>] = "rejected" \/ (c.role = "Z" /\ c.cause = k)
    BY <1>3, <1>8 DEF Fits
  <2>6. Fits(b, c, n)
    BY <1>8, <2>1, <2>3, <2>4, <2>5 DEF Fits
  <2> QED BY <1>1, <1>2, <2>6
<1> QED BY <1>1, <1>6, <1>7, <1>8, JudgedCard

-----------------------------------------------------------------------------
(***************************************************************************)
(* Every step of a badge keeps what is known of all of them.               *)
(***************************************************************************)
LEMMA ServerKept ==
  ASSUME ServerInv, UNCHANGED vars
  PROVE  ServerInv'
  BY StepServer

\* Only b's card, journal or held role changed: it is enough to look at b.
LEMMA CardsKept ==
  ASSUME Cards, UNCHANGED <<vars, reboots>>, NEW b \in Roster,
         \A a \in Roster \ {b} : card'[a] = card[a] /\ held'[a] = held[a] /\ log'[a] = log[a],
         Fits(b, card'[b], Len(log'[b])),
         held'[b].role_rev > 0 => \E h \in history[b] : held'[b] = CardOf(h)
  PROVE  Cards'
<1>1. /\ role' = role /\ history' = history /\ status' = status /\ reboots' = reboots
  BY DEF vars
<1>2. ASSUME NEW a \in Roster, NEW c, NEW n, Fits(a, c, n) PROVE Fits(a, c, n)'
  BY <1>1, <1>2 DEF Fits, Steady
<1>3. ASSUME NEW a \in Roster
      PROVE  /\ Fits(a, card'[a], Len(log'[a]))
             /\ held'[a].role_rev > 0 => \E h \in history'[a] : held'[a] = CardOf(h)
  <2>1. CASE a = b
    BY <1>1, <2>1
  <2>2. CASE a # b
    BY <1>1, <2>2 DEF Cards, Produced
  <2> QED BY <2>1, <2>2
<1>4. ASSUME NEW a \in Roster PROVE Fits(a, card[a], Produced(a))'
  <2>1. PICK c : c = card'[a]
    OBVIOUS
  <2>2. PICK n : n = Len(log'[a])
    OBVIOUS
  <2>3. Fits(a, c, n)'
    BY <1>2, <1>3, <2>1, <2>2
  <2> QED BY <2>1, <2>2, <2>3 DEF Fits, Produced
<1> QED BY <1>3, <1>4 DEF Cards

LEMMA CardsStill ==
  ASSUME Cards, UNCHANGED <<vars, reboots, card, held, log>>
  PROVE  Cards'
  BY DEF Cards, Fits, Steady, Produced, vars

LEMMA OfferKeeps ==
  ASSUME OutbreakInv, NEW a \in Roster, NEW v \in Roster, Offer(a, v)
  PROVE  OutbreakInv'
<1>1. /\ UNCHANGED <<vars, card, held, log, writing, verdicts, phase, closing, result, reboots, flooded>>
      /\ card[a].cause # NoCause
      /\ attempts' = [attempts EXCEPT ![a] = @ + 1]
  BY DEF Offer
<1>2. ServerInv'
  BY <1>1, ServerKept DEF OutbreakInv
<1>3. Cards'
  BY <1>1, CardsStill DEF OutbreakInv
<1>4. BadgeTypes'
  <2>1. BadgeTypes
    BY DEF OutbreakInv
  <2>2. attempts[a] \in Nat /\ attempts' \in [Roster -> Nat]
    BY <1>1, <2>1 DEF BadgeTypes
  <2>3. /\ card[a].cause \in 0..MaxSeq /\ card[a].role_rev \in Nat /\ card[v].role_rev \in Nat
    <3>1. card[a] \in Card /\ card[v] \in Card
      BY <2>1 DEF BadgeTypes
    <3>2. card[a].cause # -1
      BY <1>1 DEF NoCause
    <3> QED BY <3>1, <3>2, NumbersAssumption DEF Card
  <2>4. requests' \subseteq Request
    BY <2>1, <2>2, <2>3 DEF Offer, BadgeTypes, Request
  <2> QED BY <1>1, <2>1, <2>2, <2>4 DEF BadgeTypes
<1>5. Journals' /\ Shows'
  BY <1>1 DEF vars, OutbreakInv, Journals, Shows, Produced, Steady
<1> QED BY <1>2, <1>3, <1>4, <1>5 DEF OutbreakInv

LEMMA AcceptKeeps ==
  ASSUME OutbreakInv, NEW r \in requests, AcceptRequest(r)
  PROVE  OutbreakInv'
<1> DEFINE v == r.victim
<1>1. /\ UNCHANGED <<vars, card, held, log, verdicts, phase, closing, result, requests, attempts,
                     reboots, flooded>>
      /\ card[v].role = "H" /\ Produced(v) < MaxSeq
  BY DEF AcceptRequest
<1>2. PICK t \in Readings(v) :
        writing' = [writing EXCEPT ![v] =
          [victim |-> v, seq |-> Produced(v) + 1, actor |-> r.actor,
           cause |-> [slot |-> r.actor, seq |-> r.cause],
           actor_role_rev |-> r.actor_role_rev, victim_role_rev |-> r.victim_role_rev,
           attempt |-> r.attempt, elapsed |-> t, uncertainty |-> Uncertainty,
           heard |-> TRUE]]
  BY DEF AcceptRequest
<1>3. BadgeTypes /\ r \in Request /\ v \in Roster
  BY DEF OutbreakInv, BadgeTypes, Request
<1>4. ServerInv'
  BY <1>1, ServerKept DEF OutbreakInv
<1>5. Cards'
  BY <1>1, CardsStill DEF OutbreakInv
<1> DEFINE w == [victim |-> v, seq |-> Produced(v) + 1, actor |-> r.actor,
                 cause |-> [slot |-> r.actor, seq |-> r.cause],
                 actor_role_rev |-> r.actor_role_rev, victim_role_rev |-> r.victim_role_rev,
                 attempt |-> r.attempt, elapsed |-> t, uncertainty |-> Uncertainty,
                 heard |-> TRUE]
<1>6. w \in Body
  <2>1. t \in Nat /\ Uncertainty \in Nat
    BY NumbersAssumption, BadgeAssumption DEF Readings
  <2>2. Produced(v) \in Nat
    BY <1>3 DEF BadgeTypes, Produced
  <2>3. Produced(v) + 1 \in Seqs
    BY <1>1, <2>2, NumbersAssumption DEF Seqs
  <2>4. /\ v \in Slots /\ r.actor \in Slots /\ r.cause \in 0..MaxSeq
        /\ r.actor_role_rev \in Nat /\ r.victim_role_rev \in Nat /\ r.attempt \in Nat
    BY <1>3, RosterAssumption DEF Request
  <2> HIDE DEF v
  <2> QED BY <2>1, <2>3, <2>4 DEF Body
<1>7. /\ w.victim = v /\ w.seq = Produced(v) + 1
  OBVIOUS
<1>8. writing' = [writing EXCEPT ![v] = w]
  BY <1>2
<1> HIDE DEF w, v
<1>9. BadgeTypes'
  BY <1>1, <1>3, <1>6, <1>8 DEF BadgeTypes
<1>10. Journals'
  <2>1. \A b \in Roster : writing'[b] # NoBody =>
          writing'[b].victim = b /\ writing'[b].seq = Produced(b) + 1 /\ card[b].role = "H"
    BY <1>1, <1>3, <1>7, <1>8 DEF OutbreakInv, Journals, BadgeTypes
  <2> QED BY <1>1, <2>1 DEF vars, OutbreakInv, Journals, Produced, Steady
<1>11. Shows'
  <2>1. ~closing[v]
    BY <1>2, <1>3 DEF Readings, OutbreakInv, Shows
  <2>2. \A b \in Roster : closing[b] => writing'[b] = NoBody
    BY <1>3, <1>8, <2>1 DEF OutbreakInv, Shows, BadgeTypes
  <2> QED BY <1>1, <2>2 DEF vars, OutbreakInv, Shows
<1> QED BY <1>4, <1>5, <1>9, <1>10, <1>11 DEF OutbreakInv

LEMMA FailKeeps ==
  ASSUME OutbreakInv, NEW b \in Roster, WriteFailed(b)
  PROVE  OutbreakInv'
<1>1. /\ UNCHANGED <<vars, card, held, log, verdicts, phase, closing, result, requests, attempts,
                     reboots, flooded>>
      /\ writing' = [writing EXCEPT ![b] = NoBody]
  BY DEF WriteFailed
<1>2. ServerInv'
  BY <1>1, ServerKept DEF OutbreakInv
<1>3. Cards'
  BY <1>1, CardsStill DEF OutbreakInv
<1>4. BadgeTypes'
  BY <1>1 DEF OutbreakInv, BadgeTypes
<1>5. \A a \in Roster : writing'[a] \in {writing[a], NoBody}
  BY <1>1 DEF OutbreakInv, BadgeTypes
<1>6. Journals'
  <2>1. \A a \in Roster : writing'[a] # NoBody =>
          writing'[a].victim = a /\ writing'[a].seq = Produced(a) + 1 /\ card[a].role = "H"
    BY <1>5 DEF OutbreakInv, Journals
  <2> QED BY <1>1, <2>1 DEF vars, OutbreakInv, Journals, Produced, Steady
<1>7. Shows'
  BY <1>1, <1>5 DEF vars, OutbreakInv, Shows
<1> QED BY <1>2, <1>3, <1>4, <1>6, <1>7 DEF OutbreakInv

\* The journal grows by the infection; all that was in it had been rejected,
\* for the badge had become human again.
LEMMA WrittenKeeps ==
  ASSUME OutbreakInv, NEW b \in Roster, EventWritten(b)
  PROVE  OutbreakInv'
<1>1. /\ UNCHANGED <<vars, held, verdicts, phase, closing, result, requests, attempts, reboots>>
      /\ writing[b] # NoBody
      /\ log' = [log EXCEPT ![b] = Append(@, writing[b])]
      /\ flooded' = flooded \cup {writing[b]}
      /\ card' = [card EXCEPT ![b].role = "Z", ![b].cause = writing[b].seq, ![b].provisional = TRUE]
      /\ writing' = [writing EXCEPT ![b] = NoBody]
  BY DEF EventWritten
<1>2. BadgeTypes /\ Journals
  BY DEF OutbreakInv
<1>3. PICK w \in Body : w = writing[b]
  BY <1>1, <1>2 DEF BadgeTypes
<1>4. PICK n \in 0..MaxSeq : n = Produced(b)
  BY <1>2, NumbersAssumption DEF BadgeTypes, Produced
<1>5. /\ w.victim = b /\ w.seq = n + 1 /\ card[b].role = "H" /\ n + 1 \in 1..MaxSeq
  BY <1>1, <1>2, <1>3, <1>4, NumbersAssumption DEF Journals, Body, Seqs
<1>6. /\ log'[b] = Append(log[b], w) /\ log'[b] \in Seq(Body) /\ Len(log'[b]) = n + 1
      /\ \A k \in 1..n : log'[b][k] = log[b][k]
      /\ log'[b][n + 1] = w
      /\ \A a \in Roster \ {b} : log'[a] = log[a]
      /\ log' \in [Roster -> Seq(Body)]
  BY <1>1, <1>2, <1>3, <1>4 DEF BadgeTypes, Produced
<1>7. PICK old : old = card[b]
  OBVIOUS
<1>8. PICK new : new = [old EXCEPT !.role = "Z", !.cause = n + 1, !.provisional = TRUE]
  OBVIOUS
<1>9. /\ card' = [card EXCEPT ![b] = new]
  BY <1>1, <1>2, <1>3, <1>5, <1>7, <1>8 DEF BadgeTypes, Card
<1>10. new \in Card /\ new.role = "Z" /\ new.cause = n + 1 /\ new.provisional
  <2>1. old \in Card
    BY <1>2, <1>7 DEF BadgeTypes
  <2>2. n + 1 \in -1..MaxSeq
    BY <1>5, NumbersAssumption
  <2> QED BY <1>8, <2>1, <2>2 DEF Card
<1>11. ServerInv'
  BY <1>1, ServerKept DEF OutbreakInv
<1>12. BadgeTypes'
  <2>1. card' \in [Roster -> Card]
    BY <1>2, <1>9, <1>10 DEF BadgeTypes
  <2>2. writing' \in [Roster -> Body \cup {NoBody}]
    BY <1>1, <1>2 DEF BadgeTypes
  <2>3. ASSUME NEW a \in Roster PROVE Len(log'[a]) <= MaxSeq
    <3>1. CASE a = b
      BY <1>5, <1>6, <3>1, NumbersAssumption
    <3>2. CASE a # b
      BY <1>2, <1>6, <3>2 DEF BadgeTypes
    <3> QED BY <3>1, <3>2
  <2>4. flooded' \subseteq Body
    BY <1>1, <1>2, <1>3 DEF BadgeTypes
  <2> QED BY <1>1, <1>2, <1>6, <2>1, <2>2, <2>3, <2>4 DEF BadgeTypes
<1>13. Cards'
  <2>1. Fits(b, old, n)
    BY <1>4, <1>7 DEF OutbreakInv, Cards
  <2>2. Fits(b, new, n + 1)
    <3>1. b # PatientZero
      BY <1>5, <1>7, <2>1 DEF Fits
    <3>2. Steady(b) => \A q \in 1..n : status[<<b, q>>] = "rejected"
      BY <1>5, <1>7, <2>1 DEF Fits
    <3>3. \A q \in 1..(n + 1) : q \in 1..n \/ q = n + 1
      OBVIOUS
    <3> QED BY <1>5, <1>10, <3>1, <3>2, <3>3 DEF Fits
  <2>3. /\ \A a \in Roster \ {b} : card'[a] = card[a]
        /\ card'[b] = new
    BY <1>2, <1>9 DEF BadgeTypes
  <2>4. held' = held /\ (held[b].role_rev > 0 => \E h \in history[b] : held[b] = CardOf(h))
    BY <1>1 DEF OutbreakInv, Cards
  <2> QED BY <1>1, <1>6, <2>2, <2>3, <2>4, CardsKept DEF OutbreakInv
<1>14. Journals'
  <2>1. \A a \in Roster : \A k \in 1..Len(log'[a]) :
          log'[a][k] \in flooded' /\ log'[a][k].victim = a /\ log'[a][k].seq = k
    <3> SUFFICES ASSUME NEW a \in Roster, NEW k \in 1..Len(log'[a])
                 PROVE  log'[a][k] \in flooded' /\ log'[a][k].victim = a /\ log'[a][k].seq = k
      OBVIOUS
    <3>1. CASE a = b /\ k = n + 1
      BY <1>1, <1>3, <1>5, <1>6, <3>1
    <3>2. CASE ~(a = b /\ k = n + 1)
      <4>1. k \in 1..Produced(a) /\ log'[a][k] = log[a][k]
        BY <1>4, <1>6, <3>2 DEF Produced
      <4> QED BY <1>1, <1>2, <4>1 DEF Journals
    <3> QED BY <3>1, <3>2
  <2>2. \A e \in flooded' : /\ e.victim \in Roster
                            /\ Steady(e.victim) => e.seq <= Len(log'[e.victim]) /\ log'[e.victim][e.seq] = e
    <3> SUFFICES ASSUME NEW e \in flooded'
                 PROVE  /\ e.victim \in Roster
                        /\ Steady(e.victim) => e.seq <= Len(log'[e.victim]) /\ log'[e.victim][e.seq] = e
      OBVIOUS
    <3>1. CASE e = w
      BY <1>5, <1>6, <3>1
    <3>2. CASE e \in flooded
      <4>1. /\ e.victim \in Roster /\ e.seq \in Seqs
            /\ Steady(e.victim) => e.seq <= Produced(e.victim) /\ log[e.victim][e.seq] = e
        BY <1>2, <3>2 DEF Journals, BadgeTypes, Body
      <4>2. CASE e.victim = b
        BY <1>4, <1>6, <4>1, <4>2 DEF Seqs
      <4>3. CASE e.victim # b
        BY <1>6, <4>1, <4>3 DEF Produced
      <4> QED BY <4>2, <4>3
    <3> QED BY <1>1, <1>3, <3>1, <3>2
  <2>3. \A i \in Ids : body[i] # NoBody => body[i] \in flooded'
    BY <1>1, <1>2 DEF Journals
  <2>4. \A a \in Roster : writing'[a] # NoBody =>
          writing'[a].victim = a /\ writing'[a].seq = Len(log'[a]) + 1 /\ card'[a].role = "H"
    <3> SUFFICES ASSUME NEW a \in Roster, writing'[a] # NoBody
                 PROVE  writing'[a].victim = a /\ writing'[a].seq = Len(log'[a]) + 1 /\ card'[a].role = "H"
      OBVIOUS
    <3>1. a # b /\ writing'[a] = writing[a] /\ card'[a] = card[a] /\ log'[a] = log[a]
      BY <1>1, <1>2, <1>6, <1>9 DEF BadgeTypes
    <3> QED BY <1>2, <3>1 DEF Journals, Produced
  <2>5. reboots' = reboots /\ body' = body
    BY <1>1 DEF vars
  <2> QED BY <2>1, <2>2, <2>3, <2>4, <2>5 DEF Journals, Produced, Steady
<1>15. Shows'
  <2>1. \A a \in Roster : writing'[a] \in {writing[a], NoBody}
    BY <1>1, <1>2 DEF BadgeTypes
  <2> QED BY <1>1, <2>1 DEF vars, OutbreakInv, Shows
<1> QED BY <1>11, <1>12, <1>13, <1>14, <1>15 DEF OutbreakInv

LEMMA TagsKeep ==
  ASSUME OutbreakInv, Tags
  PROVE  OutbreakInv'
  BY OfferKeeps, AcceptKeeps, FailKeeps, WrittenKeeps DEF Tags

\* A new card for one badge, with everything but the cards held still.
LEMMA LearnKeeps ==
  ASSUME OutbreakInv, NEW b \in Roster, writing[b] = NoBody,
         UNCHANGED <<vars, log, writing, phase, closing, result, requests, attempts, reboots, flooded>>,
         card' \in [Roster -> Card], held' \in [Roster -> Card],
         \A a \in Roster \ {b} : card'[a] = card[a] /\ held'[a] = held[a],
         Fits(b, card'[b], Produced(b)),
         held'[b].role_rev > 0 => \E h \in history[b] : held'[b] = CardOf(h)
  PROVE  OutbreakInv'
<1>1. ServerInv'
  BY ServerKept DEF OutbreakInv
<1>2. BadgeTypes'
  BY DEF OutbreakInv, BadgeTypes
<1>3. Cards'
  BY CardsKept DEF OutbreakInv, Produced
<1>4. Journals'
  <2>1. \A a \in Roster : writing[a] # NoBody => card'[a].role = "H"
    BY DEF OutbreakInv, Journals
  <2> QED BY <2>1 DEF vars, OutbreakInv, Journals, Produced, Steady
<1>5. Shows'
  BY DEF vars, OutbreakInv, Shows
<1> QED BY <1>1, <1>2, <1>3, <1>4, <1>5 DEF OutbreakInv

LEMMA DecisionCard ==
  ASSUME OutbreakInv, NEW b \in Roster, NEW q \in Seqs, TakeDecision(b, q)
  PROVE  /\ Decided(<<b, q>>) /\ writing[b] = NoBody
         /\ UNCHANGED <<vars, held, log, writing, phase, closing, result, requests, attempts, reboots,
                        flooded>>
         /\ card' = [card EXCEPT ![b] =
              IF held[b].role_rev > Judged(b, q).role_rev /\ held[b].covered_seq >= Produced(b)
              THEN held[b] ELSE Judged(b, q)]
  BY DEF TakeDecision, Judged

LEMMA DecisionKeeps ==
  ASSUME OutbreakInv, NEW b \in Roster, NEW q \in Seqs, TakeDecision(b, q)
  PROVE  OutbreakInv'
<1>1. PICK c : c = Judged(b, q)
  OBVIOUS
<1>2. /\ Decided(<<b, q>>) /\ writing[b] = NoBody
      /\ UNCHANGED <<vars, held, log, writing, phase, closing, result, requests, attempts, reboots,
                     flooded>>
      /\ card' = [card EXCEPT ![b] =
           IF held[b].role_rev > c.role_rev /\ held[b].covered_seq >= Produced(b) THEN held[b] ELSE c]
  BY <1>1, DecisionCard
<1>3. BadgeTypes
  BY DEF OutbreakInv
<1>4. c \in Card /\ c.role_rev = card[b].role_rev /\ Fits(b, c, Produced(b))
  BY <1>1, <1>2, JudgedCard, JudgedFits
<1>5. c.role_rev \in Nat
  BY <1>4 DEF Card
<1>6. card' \in [Roster -> Card] /\ held' \in [Roster -> Card]
  BY <1>2, <1>3, <1>4 DEF BadgeTypes
<1>7. \A a \in Roster \ {b} : card'[a] = card[a] /\ held'[a] = held[a]
  BY <1>2, <1>3 DEF BadgeTypes
<1>8. card'[b] = IF held[b].role_rev > c.role_rev /\ held[b].covered_seq >= Produced(b)
                 THEN held[b] ELSE c
  BY <1>2, <1>3 DEF BadgeTypes
<1>9. Fits(b, card'[b], Produced(b))
  <2>1. CASE held[b].role_rev > c.role_rev /\ held[b].covered_seq >= Produced(b)
    <3>1. Fits(b, held[b], Produced(b))
      BY <1>5, <2>1, HeldFits
    <3> QED BY <1>8, <2>1, <3>1
  <2>2. CASE ~(held[b].role_rev > c.role_rev /\ held[b].covered_seq >= Produced(b))
    BY <1>4, <1>8, <2>2
  <2> QED BY <2>1, <2>2
<1>10. held' = held /\ (held[b].role_rev > 0 => \E h \in history[b] : held[b] = CardOf(h))
  BY <1>2 DEF OutbreakInv, Cards
<1> QED BY <1>2, <1>6, <1>7, <1>9, <1>10, LearnKeeps

LEMMA RoleKeeps ==
  ASSUME OutbreakInv, NEW b \in Roster, NEW r \in history[b], TakeRole(b, r)
  PROVE  OutbreakInv'
<1>1. /\ writing[b] = NoBody
      /\ UNCHANGED <<vars, log, writing, phase, closing, result, requests, attempts, reboots, flooded>>
  BY DEF TakeRole
<1>2. BadgeTypes /\ r \in Role
  BY DEF OutbreakInv, ServerInv, TreeInv, TypeInv, TypeOK
<1>3. CardOf(r) \in Card /\ r.covered_seq \in 0..MaxSeq /\ Produced(b) \in 0..MaxSeq
  BY <1>2, CardTyped, NumbersAssumption DEF Role, BadgeTypes, Produced
<1>4. CASE r.covered_seq < Produced(b)
  <2>1. held' = [held EXCEPT ![b] = CardOf(r)] /\ card' = card
    BY <1>4 DEF TakeRole
  <2>2. /\ card' \in [Roster -> Card] /\ held' \in [Roster -> Card] /\ held'[b] = CardOf(r)
        /\ \A a \in Roster \ {b} : card'[a] = card[a] /\ held'[a] = held[a]
    BY <1>2, <1>3, <2>1 DEF BadgeTypes
  <2>3. Fits(b, card'[b], Produced(b))
    BY <2>1 DEF OutbreakInv, Cards
  <2> QED BY <1>1, <2>2, <2>3, LearnKeeps
<1>5. CASE ~(r.covered_seq < Produced(b))
  <2>1. card' = [card EXCEPT ![b] = CardOf(r)] /\ held' = held
    BY <1>5 DEF TakeRole
  <2>2. /\ card' \in [Roster -> Card] /\ held' \in [Roster -> Card] /\ card'[b] = CardOf(r)
        /\ \A a \in Roster \ {b} : card'[a] = card[a] /\ held'[a] = held[a]
    BY <1>2, <1>3, <2>1 DEF BadgeTypes
  <2>3. Produced(b) <= r.covered_seq
    BY <1>3, <1>5
  <2>4. Fits(b, card'[b], Produced(b))
    BY <1>3, <2>2, <2>3, RecordFits DEF OutbreakInv
  <2>5. held'[b].role_rev > 0 => \E h \in history[b] : held'[b] = CardOf(h)
    BY <2>1 DEF OutbreakInv, Cards
  <2> QED BY <1>1, <2>2, <2>4, <2>5, LearnKeeps
<1> QED BY <1>4, <1>5

\* The steps that end the round for a badge: what it shows as final is taken
\* from a FINAL_RESULT.
LEMMA FinishKeeps ==
  ASSUME OutbreakInv, NEW b \in Roster, Finishes(b)
  PROVE  OutbreakInv'
<1>1. BadgeTypes /\ Shows /\ ServerInv
  BY DEF OutbreakInv
<1>2. /\ UNCHANGED <<vars, card, held, log, writing, requests, attempts, reboots, flooded>>
      /\ \A a \in Roster \ {b} : /\ phase'[a] = phase[a] /\ closing'[a] = closing[a]
                                 /\ result'[a] = result[a]
  BY <1>1 DEF Finishes, TakeEnd, TakeFinal, Expire, Close, BadgeTypes
<1>3. result[b] \in [winner: {"H", "Z"}, final: BOOLEAN, command: Nat, shown: BOOLEAN]
  BY <1>1 DEF BadgeTypes
<1> DEFINE Ended ==
      /\ phase' \in [Roster -> Phases] /\ closing' \in [Roster -> BOOLEAN]
      /\ result' \in [Roster -> [winner: {"H", "Z"}, final: BOOLEAN, command: Nat, shown: BOOLEAN]]
      /\ closing'[b] => phase'[b] # "running" /\ writing[b] = NoBody
      /\ result'[b].final => /\ phase'[b] = "final"
                             /\ end.phase = "final" /\ result'[b].winner = end.winner
<1>4. ASSUME NEW k \in Results
      PROVE  /\ endCommands[k].winner \in {"H", "Z"} /\ k \in Nat
             /\ endCommands[k].type = "FINAL_RESULT" =>
                  end.phase = "final" /\ endCommands[k].winner = end.winner
  <2>1. endCommands \in Seq(Command)
    BY <1>1 DEF ServerInv, TreeInv, TypeInv, TypeOK
  <2>2. k \in 1..Len(endCommands)
    BY <2>1 DEF Results
  <2>3. endCommands[k] \in Command
    BY <2>1, <2>2
  <2> QED BY <1>1, <2>2, <2>3 DEF Command, ServerInv, FinalsAgree
<1>5. ASSUME NEW k \in Results, TakeEnd(b, k) PROVE Ended
  <2>1. PICK x : x = [winner |-> endCommands[k].winner, final |-> FALSE, command |-> k, shown |-> TRUE]
    OBVIOUS
  <2>2. /\ phase' = [phase EXCEPT ![b] = "expired_pending_sync"]
        /\ result' = [result EXCEPT ![b] = x]
        /\ closing' = closing /\ writing[b] = NoBody
    BY <1>5, <2>1 DEF TakeEnd
  <2>3. /\ x \in [winner: {"H", "Z"}, final: BOOLEAN, command: Nat, shown: BOOLEAN] /\ ~x.final
    BY <1>4, <2>1
  <2> QED BY <1>1, <2>2, <2>3 DEF BadgeTypes, Phases
<1>6. ASSUME NEW k \in Results, TakeFinal(b, k) PROVE Ended
  <2>1. PICK x : x = [winner |-> endCommands[k].winner, final |-> closing[b], command |-> k, shown |-> TRUE]
    OBVIOUS
  <2>2. /\ phase' = [phase EXCEPT ![b] = IF closing[b] THEN "final" ELSE "expired_pending_sync"]
        /\ result' = [result EXCEPT ![b] = x]
        /\ closing' = closing /\ writing[b] = NoBody /\ endCommands[k].type = "FINAL_RESULT"
    BY <1>6, <2>1 DEF TakeFinal
  <2>3. closing[b] \in BOOLEAN
    BY <1>1 DEF BadgeTypes
  <2>4. /\ x \in [winner: {"H", "Z"}, final: BOOLEAN, command: Nat, shown: BOOLEAN]
        /\ x.final = closing[b] /\ x.winner = endCommands[k].winner
    BY <1>4, <2>1, <2>3
  <2>5. phase'[b] = (IF closing[b] THEN "final" ELSE "expired_pending_sync") /\ result'[b] = x
    BY <1>1, <2>2 DEF BadgeTypes
  <2>6. /\ phase' \in [Roster -> Phases] /\ closing' \in [Roster -> BOOLEAN]
        /\ result' \in [Roster -> [winner: {"H", "Z"}, final: BOOLEAN, command: Nat, shown: BOOLEAN]]
    BY <1>1, <2>2, <2>4 DEF BadgeTypes, Phases
  <2>7. CASE closing[b]
    BY <1>4, <2>2, <2>4, <2>5, <2>6, <2>7
  <2>8. CASE ~closing[b]
    BY <2>2, <2>4, <2>5, <2>6, <2>8
  <2> QED BY <2>7, <2>8
<1>7. ASSUME Expire(b) PROVE Ended
  <2>1. PICK x : x = [result[b] EXCEPT !.shown = TRUE, !.winner = "H"]
    OBVIOUS
  <2>2. /\ phase' = [phase EXCEPT ![b] = "expired_pending_sync"] /\ phase[b] = "running"
        /\ result' = [result EXCEPT ![b] = x] /\ closing' = closing
    BY <1>1, <1>7, <2>1 DEF Expire, BadgeTypes
  <2>3. ~result[b].final /\ ~closing[b]
    BY <1>1, <2>2 DEF Shows
  <2>4. /\ x \in [winner: {"H", "Z"}, final: BOOLEAN, command: Nat, shown: BOOLEAN] /\ ~x.final
    BY <1>3, <2>1, <2>3
  <2> QED BY <1>1, <2>2, <2>3, <2>4 DEF BadgeTypes, Phases
<1>8. ASSUME Close(b) PROVE Ended
  BY <1>1, <1>8 DEF Close, BadgeTypes, Shows
<1>9. Ended
  BY <1>5, <1>6, <1>7, <1>8 DEF Finishes
<1>10. ServerInv'
  BY <1>1, <1>2, ServerKept
<1>11. Cards'
  BY <1>2, CardsStill DEF OutbreakInv
<1>12. BadgeTypes'
  BY <1>1, <1>2, <1>9 DEF BadgeTypes
<1>13. Journals'
  BY <1>2 DEF vars, OutbreakInv, Journals, Produced, Steady
<1>14. Shows'
  <2>1. ASSUME NEW a \in Roster
        PROVE  /\ closing'[a] => phase'[a] # "running" /\ writing[a] = NoBody
               /\ result'[a].final => /\ phase'[a] = "final"
                                      /\ end.phase = "final" /\ result'[a].winner = end.winner
    <3>1. CASE a = b
      BY <1>9, <3>1
    <3>2. CASE a # b
      BY <1>1, <1>2, <3>2 DEF Shows
    <3> QED BY <3>1, <3>2
  <2> QED BY <1>2, <2>1 DEF Shows, vars
<1> QED BY <1>10, <1>11, <1>12, <1>13, <1>14 DEF OutbreakInv

\* A badge that comes back starts from the server's roles, and has forgotten
\* what it wrote.
LEMMA RebootKeeps ==
  ASSUME OutbreakInv, NEW b \in Roster, Reboot(b)
  PROVE  OutbreakInv'
<1>1. BadgeTypes /\ Shows /\ ServerInv /\ Journals
  BY DEF OutbreakInv
<1>2. /\ UNCHANGED <<vars, requests, attempts, flooded>> /\ settling = "idle"
      /\ reboots' = Append(reboots, b)
      /\ log' = [log EXCEPT ![b] = <<>>] /\ writing' = [writing EXCEPT ![b] = NoBody]
      /\ held' = [held EXCEPT ![b] = NothingHeld]
      /\ phase' = [phase EXCEPT ![b] = IF snapshot.end.phase = "running" THEN "running"
                                       ELSE "expired_pending_sync"]
      /\ closing' = [closing EXCEPT ![b] = FALSE]
      /\ result' = [result EXCEPT ![b] = NoResult]
  BY DEF Reboot
<1>3. card' = [card EXCEPT ![b] = CardOf(role[b])]
  <2>1. snapshot.role = role
    BY <1>1, <1>2 DEF ServerInv, SnapshotInv
  <2> QED BY <2>1 DEF Reboot
<1>4. role[b] \in history[b] /\ role[b] \in Role
  BY <1>1 DEF ServerInv, Recorded, TreeInv, TypeInv, TypeOK
<1>5. CardOf(role[b]) \in Card /\ NothingHeld \in Card /\ NothingHeld.role_rev = 0
  BY <1>4, CardTyped, NumbersAssumption DEF NothingHeld, Card, NoCause
<1>6. /\ reboots' \in Seq(Roster)
      /\ ~Steady(b)'
      /\ \A a : Steady(a)' => a # b /\ Steady(a)
  <2>1. /\ reboots \in Seq(Roster) /\ reboots' \in Seq(Roster)
        /\ Len(reboots') = Len(reboots) + 1 /\ reboots'[Len(reboots) + 1] = b
        /\ \A i \in 1..Len(reboots) : reboots'[i] = reboots[i]
    BY <1>1, <1>2 DEF BadgeTypes
  <2>2. DOMAIN reboots = 1..Len(reboots) /\ DOMAIN reboots' = 1..(Len(reboots) + 1) /\ Len(reboots) \in Nat
    BY <2>1
  <2> QED BY <2>1, <2>2 DEF Steady
<1>7. ServerInv'
  BY <1>1, <1>2, ServerKept
<1>8. /\ \A a \in Roster \ {b} :
           /\ card'[a] = card[a] /\ held'[a] = held[a] /\ log'[a] = log[a] /\ writing'[a] = writing[a]
           /\ phase'[a] = phase[a] /\ closing'[a] = closing[a] /\ result'[a] = result[a]
      /\ card'[b] = CardOf(role[b]) /\ held'[b] = NothingHeld /\ log'[b] = <<>>
      /\ writing'[b] = NoBody /\ closing'[b] = FALSE /\ result'[b] = NoResult
  BY <1>1, <1>2, <1>3 DEF BadgeTypes
<1>9. BadgeTypes'
  <2>1. /\ card' \in [Roster -> Card] /\ held' \in [Roster -> Card]
        /\ writing' \in [Roster -> Body \cup {NoBody}]
    BY <1>1, <1>2, <1>3, <1>5 DEF BadgeTypes
  <2>2. /\ phase' \in [Roster -> Phases] /\ closing' \in [Roster -> BOOLEAN]
    BY <1>1, <1>2 DEF BadgeTypes, Phases
  <2>3. result' \in [Roster -> [winner: {"H", "Z"}, final: BOOLEAN, command: Nat, shown: BOOLEAN]]
    <3>1. NoResult \in [winner: {"H", "Z"}, final: BOOLEAN, command: Nat, shown: BOOLEAN]
      BY DEF NoResult
    <3> QED BY <1>1, <1>2, <3>1 DEF BadgeTypes
  <2>4. log' \in [Roster -> Seq(Body)]
    BY <1>1, <1>2 DEF BadgeTypes
  <2>5. ASSUME NEW a \in Roster PROVE Len(log'[a]) <= MaxSeq
    <3>1. CASE a = b
      BY <1>8, <3>1, NumbersAssumption
    <3>2. CASE a # b
      BY <1>1, <1>8, <3>2 DEF BadgeTypes
    <3> QED BY <3>1, <3>2
  <2> QED BY <1>1, <1>2, <1>6, <2>1, <2>2, <2>3, <2>4, <2>5 DEF BadgeTypes
<1>10. Cards'
  <2>1. /\ role' = role /\ history' = history /\ status' = status
    BY <1>2 DEF vars
  <2>2. ASSUME NEW a \in Roster, NEW c, NEW n, Fits(a, c, n) PROVE Fits(a, c, n)'
    BY <1>6, <2>1, <2>2 DEF Fits
  <2>3. ASSUME NEW a \in Roster
        PROVE  /\ Fits(a, card'[a], Len(log'[a]))
               /\ held'[a].role_rev > 0 => \E h \in history'[a] : held'[a] = CardOf(h)
    <3>1. CASE a = b
      <4>1. 0 \in 0..MaxSeq /\ 0 <= role[b].covered_seq
        BY <1>4, NumbersAssumption DEF Role
      <4>2. Fits(b, CardOf(role[b]), 0)
        BY <1>1, <1>4, <4>1, RecordFits
      <4> QED BY <1>5, <1>8, <3>1, <4>2
    <3>2. CASE a # b
      BY <1>8, <2>1, <3>2 DEF OutbreakInv, Cards, Produced
    <3> QED BY <3>1, <3>2
  <2>4. ASSUME NEW a \in Roster PROVE Fits(a, card[a], Produced(a))'
    <3>1. PICK c : c = card'[a]
      OBVIOUS
    <3>2. PICK n : n = Len(log'[a])
      OBVIOUS
    <3>3. Fits(a, c, n)'
      BY <2>2, <2>3, <3>1, <3>2
    <3> QED BY <3>1, <3>2, <3>3 DEF Fits, Produced
  <2> QED BY <2>3, <2>4 DEF Cards
<1>11. Journals'
  <2>1. \A a \in Roster : \A n \in 1..Len(log'[a]) :
          log'[a][n] \in flooded /\ log'[a][n].victim = a /\ log'[a][n].seq = n
    <3> SUFFICES ASSUME NEW a \in Roster, NEW n \in 1..Len(log'[a])
                 PROVE  log'[a][n] \in flooded /\ log'[a][n].victim = a /\ log'[a][n].seq = n
      OBVIOUS
    <3>1. a # b
      BY <1>8
    <3> QED BY <1>1, <1>8, <3>1 DEF Journals, Produced
  <2>2. \A e \in flooded :
          /\ e.victim \in Roster
          /\ Steady(e.victim)' => e.seq <= Len(log'[e.victim]) /\ log'[e.victim][e.seq] = e
    BY <1>1, <1>6, <1>8 DEF Journals, Produced
  <2>3. \A a \in Roster : writing'[a] # NoBody =>
          writing'[a].victim = a /\ writing'[a].seq = Len(log'[a]) + 1 /\ card'[a].role = "H"
    <3> SUFFICES ASSUME NEW a \in Roster, writing'[a] # NoBody
                 PROVE  writing'[a].victim = a /\ writing'[a].seq = Len(log'[a]) + 1 /\ card'[a].role = "H"
      OBVIOUS
    <3>1. /\ a # b /\ writing[a] # NoBody /\ writing'[a] = writing[a] /\ log'[a] = log[a]
          /\ card'[a] = card[a]
      BY <1>8
    <3> QED BY <1>1, <3>1 DEF Journals, Produced
  <2>4. \A i \in Ids : body'[i] # NoBody => body'[i] \in flooded
    BY <1>1, <1>2 DEF Journals, vars
  <2> QED BY <1>2, <2>1, <2>2, <2>3, <2>4 DEF Journals, Produced, Steady
<1>12. Shows'
  <2>1. ~NoResult.final
    BY DEF NoResult
  <2> QED BY <1>1, <1>2, <1>8, <2>1 DEF Shows, vars
<1> QED BY <1>7, <1>9, <1>10, <1>11, <1>12 DEF OutbreakInv

LEMMA StepOutbreak == OutbreakInv /\ [OutbreakNext]_allVars => OutbreakInv'
<1> SUFFICES ASSUME OutbreakInv, [OutbreakNext]_allVars PROVE OutbreakInv'
  OBVIOUS
<1>1. CASE Serves
  BY <1>1, ServesKeep
<1>2. CASE Tags
  BY <1>2, TagsKeep
<1>3. ASSUME NEW b \in Roster, Learns(b) PROVE OutbreakInv'
  BY <1>3, DecisionKeeps, RoleKeeps DEF Learns
<1>4. ASSUME NEW b \in Roster, Finishes(b) PROVE OutbreakInv'
  BY <1>4, FinishKeeps
<1>5. ASSUME NEW b \in Roster, Reboot(b) PROVE OutbreakInv'
  BY <1>5, RebootKeeps
<1>6. CASE UNCHANGED allVars
  <2>1. UNCHANGED vars /\ UNCHANGED badges
    BY <1>6 DEF allVars
  <2>2. ServerInv'
    BY <2>1, ServerKept DEF OutbreakInv
  <2>3. Cards'
    BY <2>1, CardsStill DEF OutbreakInv, badges
  <2>4. BadgeTypes' /\ Journals' /\ Shows'
    BY <2>1 DEF OutbreakInv, badges, vars, BadgeTypes, Journals, Shows, Produced, Steady
  <2> QED BY <2>2, <2>3, <2>4 DEF OutbreakInv
<1> QED BY <1>1, <1>2, <1>3, <1>4, <1>5, <1>6, NextSplits

LEMMA InitOutbreak == OutbreakInit => OutbreakInv
<1> SUFFICES ASSUME OutbreakInit PROVE OutbreakInv
  OBVIOUS
<1>1. Init
  BY DEF OutbreakInit
<1>2. ServerInv /\ TypeInv
  BY <1>1, InitServer DEF ServerInv, TreeInv
<1>3. \A b \in Roster : role[b] = FirstRole(b) /\ role[b] \in Role /\ role[b] \in history[b]
  BY <1>1, <1>2 DEF Init, ServerInv, Recorded, TreeInv, TypeInv, TypeOK
<1>4. \A b \in Roster : /\ card[b] = CardOf(role[b]) /\ held[b] = NothingHeld /\ log[b] = <<>>
                        /\ writing[b] = NoBody /\ phase[b] = "running" /\ closing[b] = FALSE
                        /\ result[b] = NoResult
  BY <1>3 DEF OutbreakInit
<1>5. \A b \in Roster : CardOf(role[b]) \in Card
  BY <1>3, CardTyped
<1>6. NothingHeld \in Card /\ NothingHeld.role_rev = 0
  BY NumbersAssumption DEF NothingHeld, Card, NoCause
<1>7. NoResult \in [winner: {"H", "Z"}, final: BOOLEAN, command: Nat, shown: BOOLEAN] /\ ~NoResult.final
  BY DEF NoResult
<1>8. BadgeTypes
  <2>1. card \in [Roster -> Card] /\ held \in [Roster -> Card]
    <3>1. card \in [Roster -> Card]
      BY <1>4, <1>5 DEF OutbreakInit
    <3> QED BY <1>6, <3>1 DEF OutbreakInit
  <2>2. /\ log \in [Roster -> Seq(Body)] /\ \A b \in Roster : Len(log[b]) <= MaxSeq
    BY <1>4, NumbersAssumption DEF OutbreakInit
  <2>3. /\ phase \in [Roster -> Phases] /\ closing \in [Roster -> BOOLEAN]
        /\ writing \in [Roster -> Body \cup {NoBody}]
        /\ requests \subseteq Request /\ flooded \subseteq Body
        /\ attempts \in [Roster -> Nat] /\ reboots \in Seq(Roster)
    BY DEF OutbreakInit, Phases
  <2>4. result \in [Roster -> [winner: {"H", "Z"}, final: BOOLEAN, command: Nat, shown: BOOLEAN]]
    BY <1>7 DEF OutbreakInit
  <2> QED BY <2>1, <2>2, <2>3, <2>4 DEF BadgeTypes
<1>9. Cards
  <2>1. ASSUME NEW b \in Roster PROVE Fits(b, card[b], Produced(b))
    <3>1. 0 \in 0..MaxSeq /\ 0 <= role[b].covered_seq /\ Produced(b) = 0
      BY <1>3, <1>4, NumbersAssumption DEF Role, Produced
    <3> QED BY <1>2, <1>3, <1>4, <3>1, RecordFits
  <2> QED BY <1>4, <1>6, <2>1 DEF Cards
<1>10. Journals
  <2>1. flooded = {} /\ \A i \in Ids : body[i] = NoBody
    BY <1>1 DEF OutbreakInit, Init
  <2> QED BY <1>4, <2>1 DEF Journals, Produced
<1>11. Shows
  BY <1>4, <1>7 DEF Shows
<1> QED BY <1>2, <1>8, <1>9, <1>10, <1>11 DEF OutbreakInv

LEMMA OutbreakAlways == OutbreakSpec => []OutbreakInv
<1>1. OutbreakInit => OutbreakInv
  BY InitOutbreak
<1>2. OutbreakInv /\ [OutbreakNext]_allVars => OutbreakInv'
  BY StepOutbreak
<1> QED BY <1>1, <1>2, PTL DEF OutbreakSpec

-----------------------------------------------------------------------------
(***************************************************************************)
(* What the badges show.                                                   *)
(***************************************************************************)

\* A result shown as final is the server's: a badge takes it only from a
\* FINAL_RESULT and after it has closed (TakeFinal; FinalsAgree, Shows).
THEOREM FinalIsTheServers == OutbreakSpec => []FinalShown
<1>1. OutbreakInv => FinalShown
  BY DEF OutbreakInv, Shows, FinalShown
<1> QED BY <1>1, OutbreakAlways, PTL

\* A badge that shows a human and forgot nothing has had every infection it
\* wrote rejected, so the server cannot have accepted one.
LEMMA HumanAgrees ==
  ASSUME OutbreakInv, NEW b \in Roster, card[b].role = "H", Steady(b)
  PROVE  role[b].role = "H"
<1> SUFFICES ASSUME role[b].role = "Z" PROVE FALSE
  BY DEF OutbreakInv, ServerInv, TreeInv, TypeInv, TypeOK, Role
<1>1. TypeInv /\ InfectionTree /\ Fits(b, card[b], Produced(b)) /\ Journals
  BY DEF OutbreakInv, ServerInv, TreeInv, Cards
<1>2. b # PatientZero
  BY <1>1 DEF Fits
<1>3. PICK q : q = role[b].cause
  OBVIOUS
<1>4. <<b, q>> \in Ids /\ status[<<b, q>>] = "accepted"
  BY <1>1, <1>2, <1>3 DEF InfectionTree, Accepted
<1>5. PICK e : e = body[<<b, q>>]
  OBVIOUS
<1>6. EventId(e) = <<b, q>> /\ e # NoBody
  <2>1. EventId(e) = <<b, q>>
    BY <1>1, <1>4, <1>5 DEF InfectionTree, Accepted
  <2>2. e # NoBody
    BY <1>1, <1>4, <1>5 DEF TypeInv, RowsMatch
  <2> QED BY <2>1, <2>2
<1>7. e \in flooded /\ e.victim = b /\ e.seq = q
  BY <1>1, <1>4, <1>5, <1>6 DEF Journals, EventId
<1>8. q <= Produced(b) /\ q \in 1..MaxSeq
  BY <1>1, <1>4, <1>7 DEF Journals, Ids, Seqs
<1>9. Produced(b) \in Nat
  BY DEF OutbreakInv, BadgeTypes, Produced
<1>10. q \in 1..Produced(b)
  BY <1>8, <1>9, NumbersAssumption
<1> QED BY <1>1, <1>4, <1>10 DEF Fits

\* Whoever is confirmed or human on its badge is so to the server
\* (merge_role, apply_decision): the roles on record keep one cause per slot,
\* and a card fits them.
THEOREM CardsAlwaysAgree == OutbreakSpec => []CardAgrees
<1>1. OutbreakInv => CardAgrees
  BY HumanAgrees DEF OutbreakInv, Cards, Fits, CardAgrees, Steady
<1> QED BY <1>1, OutbreakAlways, PTL

\* Only a rejection turns a zombie back: a role that does, held or just taken,
\* covers every event of the badge, so the one that made it a zombie was judged.
LEMMA CureCovers ==
  ASSUME OutbreakInv, NEW b \in Roster, card[b].role = "Z", NEW h \in history[b], h.role = "H",
         h.role_rev > card[b].role_rev, Produced(b) <= h.covered_seq
  PROVE  status[<<b, card[b].cause>>] = "rejected"
<1>1. /\ ServerInv /\ Fits(b, card[b], Produced(b)) /\ h \in Role /\ Produced(b) \in 0..MaxSeq
      /\ card[b] \in Card
  BY NumbersAssumption
  DEF OutbreakInv, ServerInv, TreeInv, TypeInv, TypeOK, Cards, BadgeTypes, Produced
<1>2. card[b].provisional
  BY <1>1, NumbersAssumption DEF Fits, Role, Card
<1>3. card[b].cause \in 1..h.covered_seq
  BY <1>1, <1>2, NumbersAssumption DEF Fits, Role
<1> QED BY <1>1, <1>3, CoveredDecided

\* No role that was under way while a badge was infected turns it back
\* (merge_role holds it, apply_decision takes it up once nothing is left to
\* judge).
LEMMA CureNeedsRejection ==
  ASSUME OutbreakInv, [OutbreakNext]_allVars, NEW b \in Roster,
         card[b].role = "Z", card'[b].role = "H", reboots' = reboots
  PROVE  status[<<b, card[b].cause>>] = "rejected"
<1>1. BadgeTypes /\ Cards
  BY DEF OutbreakInv
<1>2. PICK a \in Roster : EventWritten(a) \/ Learns(a)
  <2>1. Serves => card' = card
    BY <1>1, ServesHandled DEF badges
  <2>2. UNCHANGED allVars => card' = card
    BY DEF allVars, badges
  <2>3. ASSUME NEW c \in Roster, Finishes(c) PROVE card' = card
    BY <2>3 DEF Finishes, TakeEnd, TakeFinal, Expire, Close
  <2>4. ASSUME NEW c \in Roster, Reboot(c) PROVE FALSE
    <3>1. reboots' = Append(reboots, c) /\ reboots \in Seq(Roster)
      BY <1>1, <2>4 DEF Reboot, BadgeTypes
    <3>2. Len(reboots') = Len(reboots) + 1 /\ Len(reboots) \in Nat
      BY <3>1
    <3> QED BY <3>2
  <2>5. Tags => card' = card \/ \E c \in Roster : EventWritten(c)
    BY DEF Tags, Offer, AcceptRequest, WriteFailed
  <2>6. card' # card
    OBVIOUS
  <2> QED BY <2>1, <2>2, <2>3, <2>4, <2>5, <2>6, NextSplits
<1>3. CASE EventWritten(a)
  <2>1. writing[a] # NoBody /\ card[a].role = "H"
    BY <1>3 DEF EventWritten, OutbreakInv, Journals
  <2>2. a # b
    BY <2>1
  <2>3. card'[b] = card[b]
    BY <1>1, <1>3, <2>2 DEF EventWritten, BadgeTypes
  <2> QED BY <2>3
<1>4. ASSUME NEW q \in Seqs, TakeDecision(a, q)
      PROVE  status[<<b, card[b].cause>>] = "rejected"
  <2>1. PICK c : c = Judged(a, q)
    OBVIOUS
  <2>2. /\ Decided(<<a, q>>)
        /\ card' = [card EXCEPT ![a] =
             IF held[a].role_rev > c.role_rev /\ held[a].covered_seq >= Produced(a) THEN held[a] ELSE c]
    BY <1>4, <2>1, DecisionCard
  <2>3. a = b
    BY <1>1, <2>2 DEF BadgeTypes
  <2>4. card'[b] = IF held[b].role_rev > c.role_rev /\ held[b].covered_seq >= Produced(b) THEN held[b] ELSE c
    BY <1>1, <2>2, <2>3 DEF BadgeTypes
  <2>5. /\ c \in Card /\ c.role_rev = card[b].role_rev
        /\ \/ c = card[b]
           \/ /\ card[b].cause = q /\ card[b].provisional /\ status[<<b, q>>] = "rejected"
              /\ c.role = "H"
           \/ /\ card[b].cause = q /\ card[b].provisional /\ status[<<b, q>>] = "accepted"
              /\ c.role = card[b].role /\ c.cause = q /\ ~c.provisional
    BY <2>1, <2>2, <2>3, JudgedCard
  <2>6. CASE held[b].role_rev > c.role_rev /\ held[b].covered_seq >= Produced(b)
    <3>1. c.role_rev \in Nat
      BY <2>5 DEF Card
    <3>2. PICK h \in history[b] : held[b] = CardOf(h)
      BY <2>6, <3>1, HeldFits
    <3>3. h \in Role
      BY DEF OutbreakInv, ServerInv, TreeInv, TypeInv, TypeOK
    <3>4. /\ h.role = "H" /\ h.role_rev > card[b].role_rev /\ h.covered_seq >= Produced(b)
      BY <2>4, <2>5, <2>6, <3>2, <3>3, CardTyped
    <3>5. h.covered_seq \in Nat /\ Produced(b) \in Nat
      BY <1>1, <3>3, NumbersAssumption DEF Role, BadgeTypes, Produced
    <3> QED BY <3>4, <3>5, CureCovers
  <2>7. CASE ~(held[b].role_rev > c.role_rev /\ held[b].covered_seq >= Produced(b))
    BY <2>4, <2>5, <2>7
  <2> QED BY <2>6, <2>7
<1>5. ASSUME NEW r \in history[a], TakeRole(a, r)
      PROVE  status[<<b, card[b].cause>>] = "rejected"
  <2>1. /\ r \in Role /\ r.role_rev > card[a].role_rev
        /\ \/ r.covered_seq < Produced(a) /\ card' = card
           \/ ~(r.covered_seq < Produced(a)) /\ card' = [card EXCEPT ![a] = CardOf(r)]
    BY <1>5 DEF TakeRole, OutbreakInv, ServerInv, TreeInv, TypeInv, TypeOK
  <2>2. a = b /\ card'[b] = CardOf(r) /\ ~(r.covered_seq < Produced(b))
    BY <1>1, <2>1 DEF BadgeTypes
  <2>3. r.role = "H" /\ r.role_rev > card[b].role_rev
    BY <2>1, <2>2, CardTyped
  <2>4. r.covered_seq \in Nat /\ Produced(b) \in Nat
    BY <1>1, <2>1, NumbersAssumption DEF Role, BadgeTypes, Produced
  <2>5. r \in history[b] /\ Produced(b) <= r.covered_seq
    BY <2>2, <2>4
  <2> QED BY <2>3, <2>5, CureCovers
<1> QED BY <1>2, <1>3, <1>4, <1>5 DEF Learns

THEOREM InfectionsAreKept == OutbreakSpec => InfectionKept
<1>1. OutbreakInv /\ [OutbreakNext]_allVars =>
        [\A b \in Roster : card[b].role = "Z" /\ card'[b].role = "H" /\ reboots' = reboots =>
           status[<<b, card[b].cause>>] = "rejected"]_allVars
  BY CureNeedsRejection
<1> QED BY <1>1, OutbreakAlways, PTL DEF OutbreakSpec, InfectionKept

-----------------------------------------------------------------------------
(***************************************************************************)
(* Nothing is lost: a close receipt counts all its badge ever wrote.       *)
(***************************************************************************)
\* While no badge rebooted, a badge that has closed was counted to the end, and
\* the round is final only when every count was covered.
Closings ==
  reboots = <<>> =>
    /\ \A b \in Roster : closed[b] # NotClosed => closing[b] /\ closed[b] = Produced(b)
    /\ end.phase = "final" => \A b \in Roster : closed[b] # NotClosed /\ closed[b] <= role[b].covered_seq

\* finishIfDue calls the round final only when nothing is missing.
LEMMA FinalMissesNothing ==
  ASSUME TypeInv, NEW receipts, NEW saved, FinishIfDue(receipts, saved),
         end.phase # "final", end'.phase = "final"
  PROVE  \A b \in Roster : receipts[b] # NotClosed /\ ~(role[b].covered_seq < receipts[b])
<1>1. end' = EndWith(receipts)
  BY DEF FinishIfDue, EndOrSame
<1>2. Missing(receipts) = {}
  BY <1>1 DEF EndWith
<1> QED BY <1>2 DEF Missing

\* Reporting a closed badge leaves every other receipt alone, and its own at
\* what it produced.
LEMMA ReportCloses ==
  ASSUME OutbreakInv, Closings, reboots = <<>>, NEW b \in Roster, Report(b)
  PROVE  /\ \A s \in Roster \ {b} : closed'[s] = closed[s]
         /\ closed'[b] = Produced(b) /\ closing[b]
         /\ FinishIfDue(closed', FALSE) /\ role' = role
<1>1. closing[b] /\ Ack({[slot |-> b, produced |-> Produced(b)]}, {[slot |-> b, through |-> Settled(b)]})
  BY DEF Report
<1>2. closed \in [Roster -> (0..MaxSeq) \cup {NotClosed}]
  BY DEF OutbreakInv, ServerInv, TreeInv, TypeInv, TypeOK
<1>3. Produced(b) \in 0..MaxSeq
  BY NumbersAssumption DEF OutbreakInv, BadgeTypes, Produced
<1> DEFINE receipts == {[slot |-> b, produced |-> Produced(b)]}
           produced(s) == {r.produced : r \in {q \in receipts : q.slot = s}} \cup
                          (IF closed[s] = NotClosed THEN {} ELSE {closed[s]})
           next == [s \in Roster |-> IF produced(s) = {} THEN NotClosed
                                     ELSE CHOOSE n \in produced(s) : \A k \in produced(s) : k <= n]
<1>4. closed' = next /\ FinishIfDue(next, FALSE) /\ role' = role
  BY <1>1 DEF Ack
<1>5. ASSUME NEW s \in Roster, s # b PROVE next[s] = closed[s]
  <2>1. {r.produced : r \in {q \in receipts : q.slot = s}} = {}
    BY <1>5
  <2>2. CASE closed[s] = NotClosed
    <3>1. produced(s) = {}
      BY <2>1, <2>2
    <3> QED BY <2>2, <3>1
  <2>3. CASE closed[s] # NotClosed
    <3>1. produced(s) = {closed[s]} /\ closed[s] \in Int
      BY <1>2, <2>1, <2>3, NumbersAssumption
    <3> HIDE DEF produced
    <3> QED BY <3>1
  <2> QED BY <2>2, <2>3
<1>6. next[b] = Produced(b)
  <2>1. {r.produced : r \in {q \in receipts : q.slot = b}} = {Produced(b)}
    <3>1. PICK x : x = [slot |-> b, produced |-> Produced(b)]
      OBVIOUS
    <3>2. x.slot = b /\ x.produced = Produced(b)
      BY <3>1
    <3>3. {q \in receipts : q.slot = b} = {x}
      BY <3>1, <3>2
    <3> HIDE DEF receipts
    <3> QED BY <3>2, <3>3
  <2>2. closed[b] # NotClosed => closed[b] = Produced(b)
    BY DEF Closings
  <2>3. produced(b) = {Produced(b)}
    BY <2>1, <2>2
  <2> HIDE DEF produced
  <2> QED BY <1>3, <2>3
<1> HIDE DEF next
<1> QED BY <1>1, <1>4, <1>5, <1>6

LEMMA ServesCloses ==
  ASSUME OutbreakInv, Closings, reboots = <<>>, Serves
  PROVE  Closings'
<1>1. /\ Handled /\ UNCHANGED badges /\ TreeInv /\ TypeInv /\ TreeInv' /\ Frontier /\ Frontier'
  BY ServesHandled, StepSafe DEF OutbreakInv, ServerInv, TreeInv
<1>2. /\ closing' = closing /\ log' = log
  BY <1>1 DEF badges
<1>3. \A b \in Roster : closed'[b] # NotClosed => closing[b] /\ closed'[b] = Produced(b)
  <2>1. CASE \E b \in Roster : Report(b)
    <3>1. PICK b \in Roster : Report(b)
      BY <2>1
    <3>2. /\ \A s \in Roster \ {b} : closed'[s] = closed[s]
          /\ closed'[b] = Produced(b) /\ closing[b]
      BY <3>1, ReportCloses
    <3> QED BY <3>2 DEF Closings
  <2>2. CASE ~\E b \in Roster : Report(b)
    <3>1. closed' = closed
      BY <2>2 DEF Serves, Serve, Upload, UploadConflict, Tick, CheckDue, SettleDone, SettleRow, Ingest,
                  IngestConflict
    <3> QED BY <3>1 DEF Closings
  <2> QED BY <2>1, <2>2
<1>4. \A b \in Roster : /\ role[b] \in Role /\ role'[b] \in Role
                        /\ role[b].covered_seq <= role'[b].covered_seq
  <2>1. \A b \in Roster : role'[b] # role[b] => role'[b].role_rev > role[b].role_rev
    BY <1>1, StepSticks
  <2>2. \A b \in Roster : /\ role[b] \in Role /\ role'[b] \in Role
                          /\ role[b].role_rev = role[b].covered_seq + 1
                          /\ role'[b].role_rev = role'[b].covered_seq + 1
    BY <1>1 DEF Frontier, TreeInv, TypeInv, TypeOK
  <2>3. \A b \in Roster : role[b].covered_seq \in Int /\ role'[b].covered_seq \in Int
    BY <2>2, NumbersAssumption DEF Role
  <2> QED BY <2>1, <2>2, <2>3
<1>5. ASSUME end'.phase = "final", NEW b \in Roster
      PROVE  closed'[b] # NotClosed /\ closed'[b] <= role'[b].covered_seq
  <2>1. CASE end.phase = "final"
    <3>1. closed[b] # NotClosed /\ closed[b] <= role[b].covered_seq /\ closed[b] = Produced(b)
      BY <2>1 DEF Closings
    <3>2. closed'[b] = Produced(b)
      <4>1. CASE \E c \in Roster : Report(c)
        BY <3>1, <4>1, ReportCloses
      <4>2. CASE ~\E c \in Roster : Report(c)
        <5>1. closed' = closed
          BY <4>2 DEF Serves, Serve, Upload, UploadConflict, Tick, CheckDue, SettleDone, SettleRow,
                      Ingest, IngestConflict
        <5> QED BY <3>1, <5>1
      <4> QED BY <4>1, <4>2
    <3>3. Produced(b) \in Int /\ Produced(b) # NotClosed
      BY SentinelAssumption DEF OutbreakInv, BadgeTypes, Produced
    <3>4. role[b].covered_seq \in Int /\ role'[b].covered_seq \in Int
      BY <1>4, NumbersAssumption DEF Role
    <3> QED BY <1>4, <3>1, <3>2, <3>3, <3>4
  <2>2. CASE end.phase # "final"
    <3>1. end' # end
      BY <1>5, <2>2
    <3>2. \E saved : FinishIfDue(closed', saved) /\ role' = role
      <4>1. CASE \E c \in Roster : Report(c)
        BY <4>1, ReportCloses
      <4>2. CASE ~\E c \in Roster : Report(c)
        BY <3>1, <4>2 DEF Serves, Serve, Upload, UploadConflict, Tick, CheckDue, SettleDone, SettleRow,
                          Ingest, IngestConflict
      <4> QED BY <4>1, <4>2
    <3>3. closed'[b] # NotClosed /\ ~(role[b].covered_seq < closed'[b]) /\ role' = role
      BY <1>1, <1>5, <2>2, <3>2, FinalMissesNothing
    <3>4. closed'[b] = Produced(b) /\ Produced(b) \in Int /\ role[b].covered_seq \in Int
      BY <1>3, <1>4, <3>3, NumbersAssumption DEF Role, OutbreakInv, BadgeTypes, Produced
    <3> QED BY <3>3, <3>4
  <2> QED BY <2>1, <2>2
<1> QED BY <1>2, <1>3, <1>5 DEF Closings, Produced

LEMMA StepCloses ==
  ASSUME OutbreakInv, Closings, [OutbreakNext]_allVars
  PROVE  Closings'
<1> SUFFICES ASSUME reboots' = <<>> PROVE Closings'
  BY DEF Closings
<1>1. BadgeTypes /\ Shows
  BY DEF OutbreakInv
<1>2. CASE Serves
  <2>1. reboots = <<>>
    BY <1>1, <1>2, ServesHandled DEF badges
  <2> QED BY <1>2, <2>1, ServesCloses
<1>3. CASE ~Serves
  <2>1. UNCHANGED vars
    BY <1>3, NextSplits DEF Tags, Learns, Finishes, Offer, AcceptRequest, EventWritten, WriteFailed,
          TakeDecision, TakeRole, TakeEnd, TakeFinal, Expire, Close, Reboot, allVars
  <2>2. ASSUME NEW c \in Roster, Reboot(c) PROVE FALSE
    <3>1. reboots' = Append(reboots, c) /\ reboots \in Seq(Roster)
      BY <1>1, <2>2 DEF Reboot, BadgeTypes
    <3>2. Len(reboots') = Len(reboots) + 1 /\ Len(reboots) \in Nat
      BY <3>1
    <3> QED BY <3>2
  <2>3. reboots = <<>>
    BY <1>3, <2>2, NextSplits DEF Tags, Learns, Finishes, Offer, AcceptRequest, EventWritten, WriteFailed,
          TakeDecision, TakeRole, TakeEnd, TakeFinal, Expire, Close, allVars, badges
  <2>4. \A b \in Roster : closing[b] => closing'[b]
    BY <1>1, <1>3, <2>2, NextSplits DEF Tags, Learns, Finishes, Offer, AcceptRequest, EventWritten,
          WriteFailed, TakeDecision, TakeRole, TakeEnd, TakeFinal, Expire, Close, allVars, badges, BadgeTypes
  <2>5. \A b \in Roster : closing[b] => log'[b] = log[b]
    <3>1. log' = log \/ \E a \in Roster : EventWritten(a)
      BY <1>3, <2>2, NextSplits DEF Tags, Learns, Finishes, Offer, AcceptRequest, WriteFailed,
            TakeDecision, TakeRole, TakeEnd, TakeFinal, Expire, Close, allVars, badges
    <3>2. ASSUME NEW a \in Roster, EventWritten(a), NEW b \in Roster, closing[b] PROVE log'[b] = log[b]
      <4>1. a # b
        BY <1>1, <3>2 DEF EventWritten, Shows
      <4> QED BY <1>1, <3>2, <4>1 DEF EventWritten, BadgeTypes
    <3> QED BY <3>1, <3>2
  <2>6. closed' = closed /\ end' = end /\ role' = role
    BY <2>1 DEF vars
  <2> QED BY <2>3, <2>4, <2>5, <2>6 DEF Closings, Produced
<1> QED BY <1>2, <1>3

LEMMA ClosingsAlways == OutbreakSpec => []Closings
<1>1. OutbreakInit => Closings
  BY DEF OutbreakInit, Init, Closings, Running
<1>2. OutbreakInv /\ Closings /\ [OutbreakNext]_allVars => Closings'
  BY StepCloses
<1> QED BY <1>1, <1>2, OutbreakAlways, PTL DEF OutbreakSpec

LEMMA NothingLostNow ==
  ASSUME OutbreakInv, Closings, reboots = <<>>
  PROVE  NothingLost
<1> SUFFICES ASSUME end.phase = "final"
             PROVE  /\ \A e \in flooded : e.seq <= role[e.victim].covered_seq
                    /\ \A b \in Roster : writing[b] = NoBody
  BY DEF NothingLost
<1>1. \A b \in Roster : closing[b] /\ closed[b] = Produced(b) /\ Produced(b) <= role[b].covered_seq
  BY DEF Closings
<1>2. \A b \in Roster : Steady(b)
  BY DEF Steady
<1>3. \A e \in flooded : e.victim \in Roster /\ e.seq <= Produced(e.victim) /\ e.seq \in Nat
  BY <1>2, NumbersAssumption DEF OutbreakInv, Journals, BadgeTypes, Body, Seqs
<1>4. \A b \in Roster : Produced(b) \in Nat /\ role[b].covered_seq \in Nat
  BY NumbersAssumption
  DEF OutbreakInv, BadgeTypes, Produced, ServerInv, TreeInv, TypeInv, TypeOK, Role
<1> QED BY <1>1, <1>3, <1>4 DEF OutbreakInv, Shows

\* Until a badge reboots, the final result is given only when every infection
\* ever written was judged and none is being written (timers: close_committed
\* waits for the pending write, and the receipt counts after it).
THEOREM NothingIsLost == OutbreakSpec => [](reboots = <<>> => NothingLost)
<1>1. OutbreakInv /\ Closings => (reboots = <<>> => NothingLost)
  BY NothingLostNow
<1> QED BY <1>1, OutbreakAlways, ClosingsAlways, PTL

-----------------------------------------------------------------------------
(***************************************************************************)
(* Honest clocks: the rules a badge applies off line are at least as       *)
(* strict as the ones the server applies to its evidence.                  *)
(***************************************************************************)
\* The revision a zombie names is its first or one at which it was recorded a
\* zombie by the same cause.
Names(a, cause, rev) ==
  rev = 1 \/ \E h \in history[a] : h.role_rev = rev /\ h.role = "Z" /\ h.cause = cause

\* What made a badge a zombie: the draw, or an infection it flooded.
Caused(a, cause) ==
  IF cause = 0 THEN a = PatientZero
  ELSE cause = 1 /\ \E p \in flooded : EventId(p) = <<a, 1>>

Asked(r) ==
  /\ r.actor # r.victim /\ r.victim_role_rev = 1 /\ r.attempt \in 1..attempts[r.actor]
  /\ Caused(r.actor, r.cause) /\ Names(r.actor, r.cause, r.actor_role_rev)

\* An infection as badges agree on it: of a human by a zombie that asked for
\* it, in time, and not before that zombie was infected itself.
Honest(e) ==
  /\ e.victim # PatientZero /\ e.seq = 1 /\ e.actor # e.victim /\ e.cause.slot = e.actor
  /\ e.actor \in Roster
  /\ e.heard /\ e.victim_role_rev = 1 /\ e.uncertainty = Uncertainty
  /\ e.elapsed + Uncertainty < Duration /\ StartTime + e.elapsed <= now + Skew
  /\ Caused(e.actor, e.cause.seq) /\ Names(e.actor, e.cause.seq, e.actor_role_rev)
  /\ e.cause.seq # 0 => \A p \in flooded : EventId(p) = <<e.actor, 1>> =>
       p.elapsed - Uncertainty <= e.elapsed + Uncertainty
  /\ \E r \in requests : r.victim = e.victim /\ r.actor = e.actor /\ r.attempt = e.attempt

\* The infections can be put in an order in which every cause comes first.
Ranked ==
  \E rank \in [Ids -> Nat] :
    \A e \in flooded : e.cause.seq # 0 => rank[ParentId(e)] < rank[EventId(e)]

Shown(b) ==
  IF card[b].role = "H" THEN card[b].role_rev = 1 ELSE Names(b, card[b].cause, card[b].role_rev)

HonestInv ==
  /\ HonestEventsHold
  /\ end.elapsed = Duration \/ AllInfected
  /\ \A b \in Roster : Shown(b)
  /\ \A r \in requests : Asked(r)
  /\ \A r \in requests : \A q \in requests : r.actor = q.actor /\ r.attempt = q.attempt => r = q
  /\ \A e \in flooded : Honest(e)
  /\ \A b \in Roster : writing[b] # NoBody => Honest(writing[b])
  /\ Ranked

TrueClocks == Skew <= Uncertainty /\ Uncertainty <= MaxUncertainty

\* What was honest stays so, as the record grows and new infections come.
LEMMA HonestStays ==
  ASSUME BadgeTypes, BadgeTypes', \A s \in Roster : history[s] \subseteq history'[s],
         now \in Nat, now' \in Nat, now <= now',
         requests \subseteq requests', flooded \subseteq flooded',
         \A p \in flooded' \ flooded : \A f \in flooded : EventId(p) # EventId(f),
         \A b \in Roster : attempts[b] <= attempts'[b]
  PROVE  /\ \A e \in Body : Honest(e) => Honest(e)'
         /\ \A r \in requests : Asked(r) => Asked(r)'
         /\ \A b \in Roster : \A cause, rev : Names(b, cause, rev) => Names(b, cause, rev)'
<1>1. ASSUME NEW b \in Roster, NEW cause, NEW rev, Names(b, cause, rev) PROVE Names(b, cause, rev)'
  BY <1>1 DEF Names
<1>2. ASSUME NEW b, NEW cause, Caused(b, cause) PROVE Caused(b, cause)'
  BY <1>2 DEF Caused, EventId
<1>3. ASSUME NEW r \in requests, Asked(r) PROVE Asked(r)'
  <2>1. r.actor \in Roster /\ r.attempt \in Nat
    BY DEF BadgeTypes, Request
  <2>2. Caused(r.actor, r.cause)' /\ Names(r.actor, r.cause, r.actor_role_rev)'
    BY <1>1, <1>2, <1>3, <2>1 DEF Asked
  <2>3. attempts[r.actor] \in Nat /\ attempts'[r.actor] \in Nat /\ attempts[r.actor] <= attempts'[r.actor]
    BY <2>1 DEF BadgeTypes
  <2>4. r.attempt \in 1..attempts'[r.actor]
    BY <1>3, <2>1, <2>3 DEF Asked
  <2> QED BY <1>3, <2>2, <2>4 DEF Asked
<1>4. ASSUME NEW e \in Body, Honest(e) PROVE Honest(e)'
  <2>1. Caused(e.actor, e.cause.seq)' /\ Names(e.actor, e.cause.seq, e.actor_role_rev)'
    BY <1>1, <1>2, <1>4 DEF Honest
  <2>2. e.cause.seq # 0 => \A p \in flooded' : EventId(p) = <<e.actor, 1>> =>
          p.elapsed - Uncertainty <= e.elapsed + Uncertainty
    <3> SUFFICES ASSUME e.cause.seq # 0, NEW p \in flooded', EventId(p) = <<e.actor, 1>>
                 PROVE  p.elapsed - Uncertainty <= e.elapsed + Uncertainty
      OBVIOUS
    <3>1. PICK f \in flooded : EventId(f) = <<e.actor, 1>>
      BY <1>4 DEF Honest, Caused
    <3>2. p \in flooded
      BY <3>1
    <3> QED BY <1>4, <3>2 DEF Honest
  <2>3. StartTime + e.elapsed <= now' + Skew
    BY <1>4, NumbersAssumption, BadgeAssumption DEF Honest, Body
  <2>4. \E r \in requests' : r.victim = e.victim /\ r.actor = e.actor /\ r.attempt = e.attempt
    BY <1>4 DEF Honest
  <2> QED BY <1>4, <2>1, <2>2, <2>3, <2>4 DEF Honest, EventId
<1> QED BY <1>1, <1>3, <1>4

\* With nothing rejected, a human's role on record is the first; a zombie's is
\* one its badge may name.
LEMMA RoleOnRecord ==
  ASSUME ServerInv, HonestEventsHold, NEW b \in Roster, NEW h \in history[b]
  PROVE  IF h.role = "H" THEN h.role_rev = 1 ELSE Names(b, h.cause, h.role_rev)
<1>1. h \in Role /\ h.role_rev = h.covered_seq + 1 /\ h.covered_seq \in 0..MaxSeq
  BY DEF ServerInv, Recorded, TreeInv, TypeInv, TypeOK, Role
<1>2. ASSUME h.role = "H", h.covered_seq # 0 PROVE FALSE
  <2>1. 1 \in 1..h.covered_seq
    BY <1>1, <1>2, NumbersAssumption
  <2>2. <<b, 1>> \in Ids /\ status[<<b, 1>>] = "rejected"
    BY <1>2, <2>1, CoveredDecided
  <2> QED BY <2>2 DEF HonestEventsHold
<1>3. h.role # "H" => h.role = "Z"
  BY <1>1 DEF Role
<1> QED BY <1>1, <1>2, <1>3 DEF Names

\* No infection a badge wrote was rejected, so one that shows a human wrote none.
LEMMA HumanWroteNothing ==
  ASSUME OutbreakInv, reboots = <<>>, HonestEventsHold, NEW b \in Roster, card[b].role = "H"
  PROVE  Produced(b) = 0 /\ b # PatientZero
<1>1. Fits(b, card[b], Produced(b)) /\ Produced(b) \in 0..MaxSeq
  BY NumbersAssumption DEF OutbreakInv, Cards, BadgeTypes, Produced
<1>2. Steady(b)
  BY DEF Steady
<1>3. ASSUME Produced(b) # 0 PROVE FALSE
  <2>1. 1 \in 1..Produced(b) /\ 1 \in 1..MaxSeq
    BY <1>1, <1>3, NumbersAssumption
  <2>2. status[<<b, 1>>] = "rejected"
    BY <1>1, <1>2, <2>1 DEF Fits
  <2>3. <<b, 1>> \in Ids
    BY <2>1, RosterAssumption DEF Ids, Seqs
  <2> QED BY <2>2, <2>3 DEF HonestEventsHold
<1> QED BY <1>1, <1>3 DEF Fits

\* What made a badge that shows a zombie one.
LEMMA ZombieCaused ==
  ASSUME OutbreakInv, HonestInv, NEW a \in Roster, card[a].role = "Z"
  PROVE  Caused(a, card[a].cause)
<1>1. /\ Fits(a, card[a], Produced(a)) /\ InfectionTree /\ TypeInv /\ Journals
  BY DEF OutbreakInv, Cards, ServerInv, TreeInv
<1>2. CASE card[a].provisional
  <2>1. card[a].cause \in 1..Produced(a)
    BY <1>1, <1>2 DEF Fits
  <2>2. PICK p \in flooded : p.victim = a /\ p.seq = card[a].cause
    BY <1>1, <2>1 DEF Journals
  <2>3. p.seq = 1
    BY <2>2 DEF HonestInv, Honest
  <2> QED BY <2>2, <2>3 DEF Caused, EventId
<1>3. CASE ~card[a].provisional
  <2>1. role[a].role = "Z" /\ role[a].cause = card[a].cause
    BY <1>1, <1>3 DEF Fits
  <2>2. CASE a = PatientZero /\ role[a].cause = 0
    BY <2>1, <2>2 DEF Caused
  <2>3. CASE a # PatientZero /\ <<a, role[a].cause>> \in Accepted
    <3>1. PICK k : k = role[a].cause
      OBVIOUS
    <3>2. <<a, k>> \in Ids /\ <<a, k>> \in Accepted
      BY <2>3, <3>1 DEF Accepted
    <3>3. PICK p : p = body[<<a, k>>]
      OBVIOUS
    <3>4. EventId(p) = <<a, k>> /\ p # NoBody
      BY <1>1, <3>2, <3>3 DEF InfectionTree, TypeInv, RowsMatch, Accepted
    <3>5. p \in flooded /\ p.seq = 1
      BY <1>1, <3>2, <3>3, <3>4 DEF Journals, HonestInv, Honest
    <3>6. k = 1
      BY <3>4, <3>5 DEF EventId
    <3> QED BY <2>1, <3>1, <3>4, <3>5, <3>6 DEF Caused
  <2> QED BY <1>1, <2>1, <2>2, <2>3 DEF InfectionTree
<1> QED BY <1>2, <1>3

-----------------------------------------------------------------------------
\* The server's verdict on an honest infection.
LEMMA HonestAcyclic ==
  ASSUME OutbreakInv, HonestInv, NEW i \in Ids
  PROVE  ~Cyclic(i)
<1>1. PICK rank \in [Ids -> Nat] :
        \A e \in flooded : e.cause.seq # 0 => rank[ParentId(e)] < rank[EventId(e)]
  BY DEF HonestInv, Ranked
<1>2. TypeInv /\ \A j \in Ids : body[j] # NoBody => body[j] \in flooded /\ EventId(body[j]) = j
  BY DEF OutbreakInv, ServerInv, TreeInv, TypeInv, RowsMatch, Journals
<1>3. ASSUME NEW j \in Ids, NEW m \in DependsOn(j) PROVE m \in Ids /\ rank[m] < rank[j]
  <2>1. PICK e : e = body[j]
    OBVIOUS
  <2>2. e # NoBody /\ m \in Ids /\ ((e.cause.seq # 0 /\ m = ParentId(e)) \/ m = <<e.victim, e.seq - 1>>)
    BY <1>3, <2>1 DEF DependsOn
  <2>3. e \in flooded /\ EventId(e) = j /\ e.seq = 1
    BY <1>2, <2>1, <2>2 DEF HonestInv, Honest
  <2>4. m # <<e.victim, e.seq - 1>>
    BY <2>2, <2>3 DEF Ids, Seqs
  <2> QED BY <1>1, <2>2, <2>3, <2>4
<1>4. ASSUME NEW j \in Ids PROVE j \notin Reach(DependsOn(j))
  <2> DEFINE C == {k \in Ids : rank[k] < rank[j]}
  <2>1. ClosedSet(C)
    <3>1. \A k \in C : \A m \in DependsOn(k) : m \in C
      BY <1>1, <1>3
    <3> QED BY <3>1 DEF ClosedSet
  <2>2. DependsOn(j) \in SUBSET C
    BY <1>3
  <2>3. C \in SUBSET Ids /\ j \notin C
    BY <1>1
  <2> HIDE DEF C
  <2>4. Reach(DependsOn(j)) \subseteq C
    BY <2>1, <2>2, <2>3, ReachLeast
  <2> QED BY <2>3, <2>4
<1>5. Reach({i}) \subseteq Ids
  <2>1. ClosedSet(Ids)
    BY <1>3 DEF ClosedSet
  <2>2. Ids \in SUBSET Ids /\ {i} \in SUBSET Ids
    OBVIOUS
  <2> QED BY <2>1, <2>2, ReachLeast
<1> QED BY <1>4, <1>5 DEF Cyclic

\* A row that is settled was in time, its parent is accepted and recorded as
\* what infected its actor, and no other row used its attempt.
LEMMA HonestAccepted ==
  ASSUME TrueClocks, OutbreakInv, Closings, reboots = <<>>, HonestInv, NEW i \in Ids, SettleRow(i)
  PROVE  status'[i] # "rejected"
<1>1. /\ TypeInv /\ TreeInv /\ InfectionTree /\ Frontier /\ ServerInv /\ Recorded /\ BadgeTypes
      /\ HonestEventsHold /\ NothingLost
  BY NothingLostNow DEF OutbreakInv, ServerInv, TreeInv, HonestInv
<1>2. PICK e : e = body[i]
  OBVIOUS
<1>3. /\ e \in Body /\ EventId(e) = i /\ status[i] = "pending_dependency"
      /\ e.victim \in Roster => e.seq = role[e.victim].covered_seq + 1
      /\ Decision(e) # "pending_dependency" /\ status'[i] = Decision(e)
  <2>1. /\ e \in Body /\ EventId(e) = i /\ status[i] = "pending_dependency"
        /\ e.victim \in Roster => e.seq = role[e.victim].covered_seq + 1
    BY <1>1, <1>2, SettleRowEffect
  <2>2. Decision(e) # "pending_dependency" /\ status'[i] = Decision(e)
    BY <1>1, <1>2 DEF SettleRow, TypeInv, TypeOK
  <2> QED BY <2>1, <2>2
<1>4. e \in flooded /\ Honest(e)
  BY <1>1, <1>2, <1>3 DEF TypeInv, RowsMatch, OutbreakInv, Journals, HonestInv
<1>5. e.victim \in Roster /\ e.seq = 1
  BY <1>4 DEF OutbreakInv, Journals, Honest
<1>6. role[e.victim] \in Role /\ role[e.victim].covered_seq = 0 /\ role[e.victim].role_rev = 1
  BY <1>1, <1>3, <1>5 DEF TypeInv, TypeOK, Role, Frontier
<1>7. end.phase # "final"
  BY <1>1, <1>4, <1>5, <1>6 DEF NothingLost
<1>8. role[e.victim].role = "H"
  <2> SUFFICES ASSUME role[e.victim].role = "Z" PROVE FALSE
    BY <1>6 DEF Role
  <2>1. e.victim # PatientZero
    BY <1>4 DEF Honest
  <2>2. <<e.victim, role[e.victim].cause>> \in Ids
    BY <1>1, <1>5, <2>1 DEF InfectionTree, Accepted
  <2>3. role[e.victim].cause \in 1..MaxSeq /\ role[e.victim].cause <= 0
    BY <1>1, <1>5, <1>6, <2>2 DEF Ids, Seqs, Recorded
  <2> QED BY <2>3
<1>9. Admissible(e)
  <2>1. end.elapsed = Duration
    BY <1>5, <1>8 DEF HonestInv, AllInfected
  <2>2. e.elapsed \in Nat /\ e.uncertainty = Uncertainty /\ now \in Nat
    BY <1>1, <1>3, <1>4 DEF Body, Honest, TypeInv, TypeOK
  <2>3. InRound(e)
    BY <1>4, <1>7, <2>1, <2>2, BadgeAssumption, NumbersAssumption DEF InRound, Honest, TrueClocks
  <2>4. VictimWasHuman(e)
    BY <1>4, <1>6, <1>8 DEF VictimWasHuman, Honest
  <2>5. e.cause.seq = 0 => e.actor = PatientZero
    BY <1>4 DEF Honest, Caused
  <2>6. ~Cyclic(EventId(e))
    BY <1>3, HonestAcyclic
  <2> QED BY <1>4, <2>3, <2>4, <2>5, <2>6 DEF Admissible, Honest
<1>10. ~ParentUndecided(e)
  BY <1>3, <1>5, <1>9 DEF Decision
<1>11. ASSUME e.cause.seq # 0
       PROVE  /\ ParentId(e) = <<e.actor, 1>> /\ ParentId(e) \in Accepted
              /\ body[ParentId(e)] \in flooded /\ EventId(body[ParentId(e)]) = <<e.actor, 1>>
              /\ Honest(body[ParentId(e)])
  <2>1. e.cause.seq = 1 /\ ParentId(e) = <<e.actor, 1>> /\ e.actor \in Roster
    BY <1>4, <1>11 DEF Honest, Caused, ParentId
  <2>2. 1 \in Seqs
    BY <1>3, <1>5 DEF Body
  <2>3. ParentId(e) \in Ids
    BY <2>1, <2>2, RosterAssumption DEF Ids
  <2>4. status[ParentId(e)] = "accepted"
    BY <1>1, <1>10, <1>11, <2>3 DEF ParentUndecided, Decided, HonestEventsHold
  <2>5. body[ParentId(e)] # NoBody /\ EventId(body[ParentId(e)]) = <<e.actor, 1>>
    BY <1>1, <2>1, <2>3, <2>4 DEF TypeInv, RowsMatch
  <2> QED BY <2>1, <2>3, <2>4, <2>5 DEF Accepted, OutbreakInv, Journals, HonestInv
<1>12. ParentHolds(e)
  <2> SUFFICES ASSUME e.cause.seq # 0 PROVE ParentHolds(e)
    BY DEF ParentHolds
  <2>1. PICK p \in flooded : p = body[ParentId(e)]
    BY <1>11
  <2>2. p \in Body /\ p.uncertainty = Uncertainty /\ e.uncertainty = Uncertainty
    BY <1>1, <1>4, <1>11, <2>1 DEF BadgeTypes, Honest
  <2>3. p.elapsed - Uncertainty <= e.elapsed + Uncertainty
    BY <1>4, <1>11, <2>1 DEF Honest
  <2>4. p.elapsed \in Nat /\ e.elapsed \in Nat
    BY <1>3, <2>2 DEF Body
  <2>5. e.elapsed + e.uncertainty >= p.elapsed - p.uncertainty
    BY <2>2, <2>3, <2>4, BadgeAssumption
  <2> QED BY <1>11, <2>1, <2>5 DEF ParentHolds, Accepted
<1>13. ActorWasZombie(e)
  <2>1. /\ e.actor \in Roster /\ Names(e.actor, e.cause.seq, e.actor_role_rev)
        /\ e.cause.seq = 0 => e.actor = PatientZero
    BY <1>4 DEF Honest, Caused
  <2>2. role[e.actor].role = "Z" /\ role[e.actor].cause = e.cause.seq
    <3>1. CASE e.cause.seq = 0
      BY <1>1, <2>1, <3>1, RosterAssumption DEF Recorded
    <3>2. CASE e.cause.seq # 0
      <4>1. PICK p : p = body[ParentId(e)]
        OBVIOUS
      <4>2. role[p.victim].role = "Z" /\ role[p.victim].cause = p.seq
        BY <1>1, <1>11, <3>2, <4>1 DEF InfectionTree
      <4>3. p.victim = e.actor /\ p.seq = 1 /\ e.cause.seq = 1
        BY <1>4, <1>11, <3>2, <4>1 DEF EventId, Honest, Caused
      <4> QED BY <4>2, <4>3
    <3> QED BY <3>1, <3>2
  <2>3. (IF e.cause.seq = 0 THEN 1 ELSE body[ParentId(e)].victim_role_rev) = 1
    BY <1>11 DEF Honest
  <2> QED BY <2>1, <2>2, <2>3 DEF ActorWasZombie, Names
<1>14. ~AttemptUsed(e)
  <2> SUFFICES ASSUME NEW j \in Ids \ {i}, status[j] = "accepted",
                      body[j].actor = e.actor, body[j].attempt = e.attempt
               PROVE  FALSE
    BY <1>3 DEF AttemptUsed
  <2>1. PICK f : f = body[j]
    OBVIOUS
  <2>2. f # NoBody /\ EventId(f) = j
    BY <1>1, <2>1 DEF TypeInv, RowsMatch
  <2>3. Honest(f)
    BY <2>1, <2>2 DEF OutbreakInv, Journals, HonestInv
  <2>4. PICK r \in requests : r.victim = e.victim /\ r.actor = e.actor /\ r.attempt = e.attempt
    BY <1>4 DEF Honest
  <2>5. PICK q \in requests : q.victim = f.victim /\ q.actor = f.actor /\ q.attempt = f.attempt
    BY <2>3 DEF Honest
  <2>6. f.victim = e.victim
    BY <2>1, <2>4, <2>5 DEF HonestInv
  <2>7. f.seq = e.seq
    BY <1>5, <2>3 DEF Honest
  <2> QED BY <1>3, <2>2, <2>6, <2>7 DEF EventId
<1>15. Decision(e) = "accepted"
  BY <1>3, <1>5, <1>9, <1>10, <1>12, <1>13, <1>14 DEF Decision
<1> QED BY <1>3, <1>15

\* The server's steps reject nothing: what is uploaded after the final result
\* it already has.
LEMMA ServesHonest ==
  ASSUME TrueClocks, OutbreakInv, OutbreakInv', Closings, reboots = <<>>, HonestInv, Serves
  PROVE  HonestInv'
<1>1. /\ Handled /\ UNCHANGED badges /\ TreeInv /\ TypeInv /\ TypeInv' /\ Recorded /\ ServerInv
      /\ BadgeTypes /\ BadgeTypes' /\ NothingLost
  BY ServesHandled, NothingLostNow DEF OutbreakInv, ServerInv, TreeInv
<1>2. /\ requests' = requests /\ flooded' = flooded /\ attempts' = attempts /\ card' = card
      /\ writing' = writing
  BY <1>1 DEF badges
<1>3. HonestEventsHold'
  <2> SUFFICES ASSUME NEW i \in Ids, status'[i] = "rejected" PROVE FALSE
    BY DEF HonestEventsHold
  <2>1. status[i] # "rejected"
    BY DEF HonestInv, HonestEventsHold
  <2>2. CASE \E j \in Ids : SettleRow(j)
    <3>1. PICK j \in Ids : SettleRow(j)
      BY <2>2
    <3>2. i = j
      BY <1>1, <2>1, <3>1, SettleRowEffect
    <3> QED BY <3>1, <3>2, HonestAccepted
  <2>3. CASE ~\E j \in Ids : SettleRow(j)
    <3>1. Quiet
      BY <1>1, <2>3, QuietSteps
    <3>2. body[i] = NoBody /\ end.phase = "final"
      BY <2>1, <3>1 DEF Quiet
    <3>3. body'[i] # NoBody /\ EventId(body'[i]) = i
      BY <1>1 DEF TypeInv, RowsMatch
    <3>4. PICK e \in flooded : e = body'[i]
      BY <1>1, <3>3, StoredFlooded DEF OutbreakInv, Journals
    <3>5. e.victim \in Roster /\ e \in Body /\ e.seq <= role[e.victim].covered_seq
      BY <1>1, <3>2 DEF OutbreakInv, Journals, BadgeTypes, NothingLost
    <3>6. e.seq \in 1..role[e.victim].covered_seq
      BY <1>1, <3>5, NumbersAssumption DEF TypeInv, TypeOK, Role, Body, Seqs
    <3>7. Decided(i)
      BY <1>1, <3>3, <3>4, <3>5, <3>6 DEF TreeInv, Frontier, EventId
    <3> QED BY <1>1, <3>2, <3>7 DEF TypeInv, RowsMatch, Decided
  <2> QED BY <2>2, <2>3
<1>4. end'.elapsed = Duration \/ AllInfected'
  <2>1. AllInfected => AllInfected'
    BY <1>1, StepSticks DEF AllInfected
  <2>2. end' = end \/ \E receipts : end' = EndWith(receipts)
    BY <1>1 DEF Handled, Tick, CheckDue, Ingest, IngestConflict, Ack, SettleRow, SettleDone, FinishIfDue,
                EndOrSame
  <2>3. ASSUME NEW receipts
        PROVE  EndWith(receipts).elapsed = end.elapsed \/ EndWith(receipts).elapsed = Duration \/ AllInfected
    BY DEF EndWith
  <2> QED BY <2>1, <2>2, <2>3 DEF HonestInv
<1>5. now \in Nat /\ now' \in Nat /\ now <= now'
  <2>1. now' = now \/ now' = now + 1
    BY <1>1 DEF Handled, Tick, CheckDue, Ingest, IngestConflict, Ack, SettleRow, SettleDone
  <2>2. now \in Nat
    BY <1>1 DEF TypeInv, TypeOK
  <2> QED BY <2>1, <2>2
<1>6. \A s \in Roster : history[s] \subseteq history'[s]
  BY <1>1, ServerGrows
<1>7. \A b \in Roster : attempts[b] <= attempts'[b]
  BY <1>1, <1>2 DEF BadgeTypes
<1>8. /\ \A e \in Body : Honest(e) => Honest(e)'
      /\ \A r \in requests : Asked(r) => Asked(r)'
      /\ \A b \in Roster : \A cause, rev : Names(b, cause, rev) => Names(b, cause, rev)'
  BY <1>1, <1>2, <1>5, <1>6, <1>7, HonestStays
<1>9. ASSUME NEW b \in Roster PROVE Shown(b)'
  <2>1. PICK c : c = card[b]
    OBVIOUS
  <2>2. IF c.role = "H" THEN c.role_rev = 1 ELSE Names(b, c.cause, c.role_rev)'
    BY <1>8, <2>1 DEF HonestInv, Shown
  <2>3. card'[b] = c
    BY <1>2, <2>1
  <2> QED BY <2>2, <2>3 DEF Shown, Names
<1>10. ASSUME NEW b \in Roster, writing'[b] # NoBody PROVE Honest(writing[b])'
  <2>1. PICK w : w = writing[b]
    OBVIOUS
  <2>2. w \in Body /\ Honest(w)' /\ writing'[b] = w
    BY <1>1, <1>2, <1>8, <1>10, <2>1 DEF BadgeTypes, HonestInv
  <2> QED BY <2>2 DEF Honest, Caused, Names, EventId
<1>11. \A e \in flooded : Honest(e)'
  BY <1>1, <1>8 DEF BadgeTypes, HonestInv
<1>12. Ranked'
  BY <1>2 DEF HonestInv, Ranked, ParentId, EventId
<1>13. \A r \in requests : Asked(r)'
  BY <1>8 DEF HonestInv
<1>14. \A r \in requests : \A q \in requests : r.actor = q.actor /\ r.attempt = q.attempt => r = q
  BY DEF HonestInv
<1> QED BY <1>2, <1>3, <1>4, <1>9, <1>10, <1>11, <1>12, <1>13, <1>14 DEF HonestInv

-----------------------------------------------------------------------------
\* What the badges' steps leave alone.
LEMMA BadgesHonest ==
  ASSUME OutbreakInv, OutbreakInv', UNCHANGED vars, HonestInv,
         requests \subseteq requests', flooded \subseteq flooded',
         \A p \in flooded' \ flooded : \A f \in flooded : EventId(p) # EventId(f),
         \A b \in Roster : attempts[b] <= attempts'[b]
  PROVE  /\ HonestEventsHold' /\ (end'.elapsed = Duration \/ AllInfected')
         /\ \A e \in Body : Honest(e) => Honest(e)'
         /\ \A r \in requests : Asked(r) => Asked(r)'
         /\ \A b \in Roster : \A cause, rev : Names(b, cause, rev) => Names(b, cause, rev)'
<1>1. BadgeTypes /\ BadgeTypes' /\ now \in Nat
  BY DEF OutbreakInv, ServerInv, TreeInv, TypeInv, TypeOK
<1>2. /\ now' = now /\ history' = history /\ status' = status /\ end' = end /\ role' = role
  BY DEF vars
<1>3. now' \in Nat /\ now <= now' /\ \A s \in Roster : history[s] \subseteq history'[s]
  BY <1>1, <1>2
<1>4. /\ \A e \in Body : Honest(e) => Honest(e)'
      /\ \A r \in requests : Asked(r) => Asked(r)'
      /\ \A b \in Roster : \A cause, rev : Names(b, cause, rev) => Names(b, cause, rev)'
  BY <1>1, <1>3, HonestStays
<1> QED BY <1>2, <1>4 DEF HonestInv, HonestEventsHold, AllInfected

\* The badges' parts of HonestInv, for steps that flood nothing.
LEMMA QuietHonest ==
  ASSUME OutbreakInv, OutbreakInv', UNCHANGED <<vars, flooded>>, HonestInv,
         requests \subseteq requests', \A b \in Roster : attempts[b] <= attempts'[b],
         \A b \in Roster : card'[b] = card[b] \/ (IF card'[b].role = "H" THEN card'[b].role_rev = 1
                              ELSE Names(b, card'[b].cause, card'[b].role_rev)),
         \A b \in Roster : writing'[b] \in {writing[b], NoBody}
                           \/ (writing'[b] \in Body /\ Honest(writing'[b])),
         \A r \in requests' \ requests : Asked(r)',
         \A r \in requests' : \A q \in requests' :
           r.actor = q.actor /\ r.attempt = q.attempt => r = q
  PROVE  HonestInv'
<1>1. /\ HonestEventsHold' /\ (end'.elapsed = Duration \/ AllInfected')
      /\ \A e \in Body : Honest(e) => Honest(e)'
      /\ \A r \in requests : Asked(r) => Asked(r)'
      /\ \A b \in Roster : \A cause, rev : Names(b, cause, rev) => Names(b, cause, rev)'
  BY BadgesHonest
<1>2. BadgeTypes /\ flooded' = flooded
  BY DEF OutbreakInv
<1>3. ASSUME NEW b \in Roster PROVE Shown(b)'
  <2>1. PICK c : c = card'[b]
    OBVIOUS
  <2>2. IF c.role = "H" THEN c.role_rev = 1 ELSE Names(b, c.cause, c.role_rev)
    BY <2>1 DEF HonestInv, Shown
  <2>3. IF c.role = "H" THEN c.role_rev = 1 ELSE Names(b, c.cause, c.role_rev)'
    BY <1>1, <2>2
  <2> QED BY <2>1, <2>3 DEF Shown, Names
<1>4. ASSUME NEW b \in Roster, writing'[b] # NoBody PROVE Honest(writing[b])'
  <2>1. PICK w : w = writing'[b]
    OBVIOUS
  <2>2. w \in Body /\ Honest(w)
    BY <1>2, <1>4, <2>1 DEF HonestInv, BadgeTypes
  <2>3. Honest(w)'
    BY <1>1, <2>2
  <2> QED BY <2>1, <2>3 DEF Honest, Caused, Names, EventId
<1>5. \A e \in flooded : Honest(e)'
  BY <1>1, <1>2 DEF BadgeTypes, HonestInv
<1>6. Ranked'
  BY <1>2 DEF HonestInv, Ranked, ParentId, EventId
<1>7. \A r \in requests' : Asked(r)'
  BY <1>1 DEF HonestInv
<1> QED BY <1>1, <1>2, <1>3, <1>4, <1>5, <1>6, <1>7 DEF HonestInv

LEMMA OfferHonest ==
  ASSUME OutbreakInv, OutbreakInv', HonestInv, NEW a \in Roster, NEW v \in Roster, Offer(a, v)
  PROVE  HonestInv'
<1> DEFINE r == [victim |-> v, actor |-> a, cause |-> card[a].cause,
                 actor_role_rev |-> card[a].role_rev, victim_role_rev |-> card[v].role_rev,
                 attempt |-> attempts[a] + 1]
<1>1. /\ UNCHANGED <<vars, card, held, log, writing, verdicts, phase, closing, result, reboots, flooded>>
      /\ a # v /\ card[a].role = "Z" /\ card[v].role = "H"
      /\ attempts' = [attempts EXCEPT ![a] = @ + 1] /\ requests' = requests \cup {r}
  BY DEF Offer
<1>2. BadgeTypes /\ attempts[a] \in Nat /\ BadgeTypes'
  BY DEF OutbreakInv, BadgeTypes
<1>3. /\ r.victim = v /\ r.actor = a /\ r.cause = card[a].cause /\ r.actor_role_rev = card[a].role_rev
      /\ r.victim_role_rev = card[v].role_rev /\ r.attempt = attempts[a] + 1
  OBVIOUS
<1> HIDE DEF r
<1>4. PICK x : x = r
  OBVIOUS
<1>5. attempts'[a] = attempts[a] + 1 /\ \A b \in Roster : attempts[b] <= attempts'[b]
  BY <1>1, <1>2 DEF BadgeTypes
<1>6. x.victim_role_rev = 1
  BY <1>1, <1>3, <1>4 DEF HonestInv, Shown
<1>7. /\ Caused(x.actor, x.cause)
      /\ Names(x.actor, x.cause, x.actor_role_rev)
  <2>1. Caused(x.actor, x.cause)
    BY <1>1, <1>3, <1>4, ZombieCaused
  <2>2. Names(x.actor, x.cause, x.actor_role_rev)
    BY <1>1, <1>3, <1>4 DEF HonestInv, Shown
  <2> QED BY <2>1, <2>2
<1>8. Asked(x)'
  <2>1. x.attempt \in 1..attempts'[a]
    BY <1>2, <1>3, <1>4, <1>5
  <2>2. history' = history /\ flooded' = flooded
    BY <1>1 DEF vars
  <2> QED BY <1>1, <1>3, <1>4, <1>6, <1>7, <2>1, <2>2 DEF Asked, Caused, Names, EventId
<1>9. \A q \in requests : q.actor = a => q.attempt \in 1..attempts[a]
  BY DEF HonestInv, Asked
<1>10. \A q \in requests : q.actor = x.actor => q.attempt # x.attempt
  BY <1>2, <1>3, <1>4, <1>9
<1>11. \A q, z \in requests' : q.actor = z.actor /\ q.attempt = z.attempt => q = z
  BY <1>1, <1>4, <1>10 DEF HonestInv
<1>12. requests' \ requests \subseteq {x} /\ requests \subseteq requests'
  BY <1>1, <1>4
<1>13. \A q \in requests' \ requests : Asked(q)'
  BY <1>8, <1>12
<1> QED BY <1>1, <1>5, <1>11, <1>12, <1>13, QuietHonest

\* A badge accepts a request only if the infection it makes is honest.
LEMMA AcceptHonest ==
  ASSUME TrueClocks, OutbreakInv, OutbreakInv', reboots = <<>>, HonestInv,
         NEW r \in requests, AcceptRequest(r)
  PROVE  HonestInv'
<1>1. PICK v : v = r.victim
  OBVIOUS
<1>2. /\ UNCHANGED <<vars, card, held, log, verdicts, phase, closing, result, requests, attempts,
                     reboots, flooded>>
      /\ card[v].role = "H"
  BY <1>1 DEF AcceptRequest
<1>3. PICK t \in Readings(v) :
        writing' = [writing EXCEPT ![v] =
          [victim |-> v, seq |-> Produced(v) + 1, actor |-> r.actor,
           cause |-> [slot |-> r.actor, seq |-> r.cause],
           actor_role_rev |-> r.actor_role_rev, victim_role_rev |-> r.victim_role_rev,
           attempt |-> r.attempt, elapsed |-> t, uncertainty |-> Uncertainty,
           heard |-> TRUE]]
  BY <1>1 DEF AcceptRequest
<1>4. BadgeTypes /\ BadgeTypes' /\ r \in Request /\ v \in Roster /\ now \in Nat
  BY <1>1 DEF OutbreakInv, BadgeTypes, Request, ServerInv, TreeInv, TypeInv, TypeOK
<1>5. Produced(v) = 0 /\ v # PatientZero
  BY <1>2, <1>4, HumanWroteNothing DEF HonestInv
<1>6. PICK w : w = [victim |-> v, seq |-> 1, actor |-> r.actor,
                    cause |-> [slot |-> r.actor, seq |-> r.cause],
                    actor_role_rev |-> r.actor_role_rev, victim_role_rev |-> r.victim_role_rev,
                    attempt |-> r.attempt, elapsed |-> t, uncertainty |-> Uncertainty,
                    heard |-> TRUE]
  OBVIOUS
<1>7. /\ w.victim = v /\ w.seq = 1 /\ w.actor = r.actor /\ w.cause.slot = r.actor /\ w.cause.seq = r.cause
      /\ w.actor_role_rev = r.actor_role_rev /\ w.victim_role_rev = r.victim_role_rev
      /\ w.attempt = r.attempt /\ w.elapsed = t /\ w.uncertainty = Uncertainty /\ w.heard = TRUE
  BY <1>6
<1>8. writing' = [writing EXCEPT ![v] = w]
  BY <1>3, <1>5, <1>6
<1>9. w \in Body
  <2>1. t \in Nat /\ Uncertainty \in Nat
    BY NumbersAssumption, BadgeAssumption DEF Readings
  <2>2. Produced(v) < MaxSeq
    BY <1>1 DEF AcceptRequest
  <2>3. 1 \in Seqs
    BY <1>5, <2>2, NumbersAssumption DEF Seqs
  <2>4. /\ v \in Slots /\ r.actor \in Slots /\ r.cause \in 0..MaxSeq
        /\ r.actor_role_rev \in Nat /\ r.victim_role_rev \in Nat /\ r.attempt \in Nat
    BY <1>1, <1>4, RosterAssumption DEF Request
  <2> QED BY <1>6, <2>1, <2>3, <2>4 DEF Body
<1>10. Asked(r) /\ r.victim = v /\ r.actor \in Roster
  BY <1>1, <1>4 DEF HonestInv, Request
<1>11. /\ t \in Int /\ t + Uncertainty < Duration /\ -Skew <= t - (now - StartTime)
       /\ t - (now - StartTime) <= Skew
  BY <1>4, NumbersAssumption, BadgeAssumption DEF Readings
<1>12. StartTime + t <= now + Skew
  BY <1>4, <1>11, NumbersAssumption, BadgeAssumption
<1>13. ASSUME NEW p \in flooded
       PROVE  p.elapsed - Uncertainty <= t + Uncertainty
  <2>1. p.elapsed \in Nat /\ StartTime + p.elapsed <= now + Skew
    BY <1>4 DEF HonestInv, Honest, BadgeTypes, Body
  <2> QED BY <1>4, <1>11, <2>1, NumbersAssumption, BadgeAssumption DEF TrueClocks
<1>14. Honest(w)
  BY <1>5, <1>7, <1>10, <1>11, <1>12, <1>13 DEF Honest, Asked
<1>15. \A b \in Roster : writing'[b] \in {writing[b], NoBody} \/ (writing'[b] \in Body /\ Honest(writing'[b]))
  <2> SUFFICES ASSUME NEW b \in Roster
               PROVE  writing'[b] \in {writing[b], NoBody} \/ (writing'[b] \in Body /\ Honest(writing'[b]))
    OBVIOUS
  <2>1. CASE b = v
    <3>1. writing'[b] = w
      BY <1>4, <1>8, <2>1 DEF BadgeTypes
    <3> QED BY <1>9, <1>14, <3>1
  <2>2. CASE b # v
    BY <1>4, <1>8, <2>2 DEF BadgeTypes
  <2> QED BY <2>1, <2>2
<1>16. \A b \in Roster : attempts[b] <= attempts'[b]
  BY <1>2, <1>4 DEF BadgeTypes
<1> QED BY <1>2, <1>15, <1>16, QuietHonest DEF HonestInv

\* What is written was asked for before, and nothing flooded names it yet.
LEMMA WrittenHonest ==
  ASSUME OutbreakInv, OutbreakInv', reboots = <<>>, HonestInv, NEW b \in Roster, EventWritten(b)
  PROVE  HonestInv'
<1>1. PICK w : w = writing[b]
  OBVIOUS
<1>2. /\ UNCHANGED <<vars, held, verdicts, phase, closing, result, requests, attempts, reboots>>
      /\ w # NoBody
      /\ flooded' = flooded \cup {w}
      /\ card' = [card EXCEPT ![b].role = "Z", ![b].cause = w.seq, ![b].provisional = TRUE]
      /\ writing' = [writing EXCEPT ![b] = NoBody]
  BY <1>1 DEF EventWritten
<1>3. BadgeTypes /\ BadgeTypes' /\ w \in Body
  BY <1>1, <1>2 DEF OutbreakInv, BadgeTypes
<1>4. w.victim = b /\ card[b].role = "H" /\ Honest(w) /\ w.seq = 1 /\ w.actor # b /\ w.actor \in Roster
  BY <1>1, <1>2 DEF OutbreakInv, Journals, HonestInv, Honest
<1>5. Produced(b) = 0 /\ Steady(b)
  BY <1>4, HumanWroteNothing DEF HonestInv, Steady
<1>6. EventId(w) = <<b, 1>> /\ \A f \in flooded : EventId(f) # <<b, 1>>
  <2>1. ASSUME NEW f \in flooded, EventId(f) = <<b, 1>> PROVE FALSE
    <3>1. f.victim = b /\ f.seq = 1
      BY <2>1 DEF EventId
    <3>2. f.seq <= Produced(b)
      BY <1>5, <3>1 DEF OutbreakInv, Journals
    <3> QED BY <1>5, <3>1, <3>2
  <2> QED BY <1>4, <2>1 DEF EventId
<1>7. \A a \in Roster : attempts[a] <= attempts'[a]
  BY <1>2, <1>3 DEF BadgeTypes
<1>8. \A p \in flooded' \ flooded : \A f \in flooded : EventId(p) # EventId(f)
  BY <1>2, <1>6
<1>9. /\ HonestEventsHold' /\ (end'.elapsed = Duration \/ AllInfected')
      /\ \A e \in Body : Honest(e) => Honest(e)'
      /\ \A r \in requests : Asked(r) => Asked(r)'
      /\ \A a \in Roster : \A cause, rev : Names(a, cause, rev) => Names(a, cause, rev)'
  <2>1. requests \subseteq requests' /\ flooded \subseteq flooded' /\ UNCHANGED vars
    BY <1>2
  <2> QED BY <1>7, <1>8, <2>1, BadgesHonest
<1>10. ASSUME NEW a \in Roster PROVE Shown(a)'
  <2>1. PICK c : c = card'[a]
    OBVIOUS
  <2>2. CASE a = b
    <3>1. card[b] \in Card /\ card[b].role_rev = 1
      BY <1>3, <1>4 DEF BadgeTypes, HonestInv, Shown
    <3>2. c.role_rev = 1
      <4>1. PICK old : old = card[b]
        OBVIOUS
      <4>2. c = [old EXCEPT !.role = "Z", !.cause = w.seq, !.provisional = TRUE]
        BY <1>2, <1>3, <2>1, <2>2, <4>1 DEF BadgeTypes, Card
      <4> QED BY <3>1, <4>1, <4>2 DEF Card
    <3> QED BY <2>1, <3>2 DEF Shown, Names
  <2>3. CASE a # b
    <3>1. c = card[a]
      BY <1>2, <1>3, <2>1, <2>3 DEF BadgeTypes
    <3>2. IF c.role = "H" THEN c.role_rev = 1 ELSE Names(a, c.cause, c.role_rev)'
      BY <1>9, <3>1 DEF HonestInv, Shown
    <3> QED BY <2>1, <3>2 DEF Shown, Names
  <2> QED BY <2>2, <2>3
<1>11. ASSUME NEW a \in Roster, writing'[a] # NoBody PROVE Honest(writing[a])'
  <2>1. PICK x : x = writing'[a]
    OBVIOUS
  <2>2. x = writing[a]
    BY <1>2, <1>3, <1>11, <2>1 DEF BadgeTypes
  <2>3. x \in Body /\ Honest(x)
    BY <1>3, <1>11, <2>1, <2>2 DEF HonestInv, BadgeTypes
  <2>4. Honest(x)'
    BY <1>9, <2>3
  <2> QED BY <2>1, <2>4 DEF Honest, Caused, Names, EventId
<1>12. \A e \in flooded' : Honest(e)'
  BY <1>2, <1>3, <1>4, <1>9 DEF BadgeTypes, HonestInv
<1>13. Ranked'
  <2>1. PICK rank \in [Ids -> Nat] :
          \A e \in flooded : e.cause.seq # 0 => rank[ParentId(e)] < rank[EventId(e)]
    BY DEF HonestInv, Ranked
  <2>2. EventId(w) \in Ids
    BY <1>3 DEF EventId, Body, Ids
  <2>3. w.cause.seq # 0 => ParentId(w) \in Ids /\ ParentId(w) # EventId(w)
    <3>1. w.cause.seq # 0 => w.cause.seq = 1
      BY <1>4 DEF Honest, Caused
    <3> QED BY <1>3, <1>4, <3>1 DEF ParentId, EventId, Ids, Body
  <2>4. PICK m \in Nat : w.cause.seq # 0 => m = rank[ParentId(w)] + 1
    <3>1. CASE w.cause.seq # 0
      <4>1. rank[ParentId(w)] + 1 \in Nat
        BY <2>1, <2>3, <3>1
      <4> QED BY <4>1
    <3>2. CASE w.cause.seq = 0
      <4>1. 0 \in Nat
        OBVIOUS
      <4> QED BY <3>2, <4>1
    <3> QED BY <3>1, <3>2
  <2> DEFINE new == [rank EXCEPT ![EventId(w)] = m]
  <2>5. /\ new \in [Ids -> Nat] /\ new[EventId(w)] = m
        /\ \A j \in Ids : j # EventId(w) => new[j] = rank[j]
    BY <2>1, <2>2, <2>4
  <2> HIDE DEF new
  <2>6. ASSUME NEW e \in flooded', e.cause.seq # 0 PROVE new[ParentId(e)] < new[EventId(e)]
    <3>1. CASE e = w
      <4>1. new[ParentId(w)] = rank[ParentId(w)] /\ rank[ParentId(w)] \in Nat
        BY <2>1, <2>3, <2>5, <2>6, <3>1
      <4> QED BY <2>4, <2>5, <2>6, <3>1, <4>1
    <3>2. CASE e \in flooded
      <4>1. e \in Body /\ Honest(e)
        BY <1>3, <3>2 DEF BadgeTypes, HonestInv
      <4>2. e.cause.seq = 1 /\ \E p \in flooded : EventId(p) = <<e.actor, 1>>
        BY <2>6, <4>1 DEF Honest, Caused
      <4>3. ParentId(e) = <<e.actor, 1>>
        BY <4>2 DEF ParentId
      <4>4. ParentId(e) # EventId(w) /\ EventId(e) # EventId(w)
        BY <1>6, <3>2, <4>2, <4>3
      <4>5. ParentId(e) \in Ids /\ EventId(e) \in Ids
        BY <4>1, <4>2 DEF ParentId, EventId, Ids, Body, Seqs
      <4>6. new[ParentId(e)] = rank[ParentId(e)] /\ new[EventId(e)] = rank[EventId(e)]
        BY <2>5, <4>4, <4>5
      <4> QED BY <2>1, <2>6, <3>2, <4>6
    <3> QED BY <1>2, <3>1, <3>2
  <2> QED BY <2>5, <2>6 DEF Ranked, ParentId, EventId
<1>14. requests' = requests
  BY <1>2
<1>15. \A r \in requests : Asked(r)'
  BY <1>9 DEF HonestInv
<1>16. \A r \in requests : \A q \in requests : r.actor = q.actor /\ r.attempt = q.attempt => r = q
  BY DEF HonestInv
<1> QED BY <1>9, <1>10, <1>11, <1>12, <1>13, <1>14, <1>15, <1>16 DEF HonestInv

\* A verdict is an acceptance, and a role is one on record.
LEMMA LearnHonest ==
  ASSUME OutbreakInv, OutbreakInv', HonestInv, NEW b \in Roster, Learns(b)
  PROVE  HonestInv'
<1>1. /\ UNCHANGED <<vars, log, writing, requests, attempts, flooded>>
  BY DEF Learns, TakeDecision, TakeRole
<1>2. BadgeTypes /\ ServerInv /\ HonestEventsHold
  BY DEF OutbreakInv, HonestInv
<1> DEFINE Known(c) == IF c.role = "H" THEN c.role_rev = 1 ELSE Names(b, c.cause, c.role_rev)
<1>3. ASSUME NEW h \in history[b] PROVE Known(CardOf(h))
  <2>1. h \in Role
    BY <1>2 DEF ServerInv, TreeInv, TypeInv, TypeOK
  <2>2. /\ CardOf(h).role = h.role /\ CardOf(h).role_rev = h.role_rev /\ CardOf(h).cause = h.cause
    BY <2>1, CardTyped
  <2>3. IF h.role = "H" THEN h.role_rev = 1 ELSE Names(b, h.cause, h.role_rev)
    BY <1>2, RoleOnRecord
  <2> QED BY <2>2, <2>3
<1>4. Known(card[b])
  BY DEF HonestInv, Shown
<1>5. ASSUME NEW q \in Seqs, TakeDecision(b, q)
      PROVE  Known(card'[b]) /\ \A a \in Roster \ {b} : card'[a] = card[a]
  <2>1. PICK c : c = Judged(b, q)
    OBVIOUS
  <2>2. /\ Decided(<<b, q>>)
        /\ card' = [card EXCEPT ![b] =
             IF held[b].role_rev > c.role_rev /\ held[b].covered_seq >= Produced(b) THEN held[b] ELSE c]
    BY <1>5, <2>1, DecisionCard
  <2>3. status[<<b, q>>] # "rejected"
    <3>1. <<b, q>> \in Ids
      BY RosterAssumption DEF Ids
    <3> QED BY <1>2, <3>1 DEF HonestEventsHold
  <2>4. /\ c \in Card /\ c.role_rev = card[b].role_rev
        /\ c = card[b] \/ (c.role = card[b].role /\ c.cause = q /\ card[b].cause = q)
    BY <2>1, <2>2, <2>3, JudgedCard
  <2>5. Known(c)
    BY <1>4, <2>4
  <2>6. held[b].role_rev > c.role_rev /\ held[b].covered_seq >= Produced(b) => Known(held[b])
    <3> SUFFICES ASSUME held[b].role_rev > c.role_rev, held[b].covered_seq >= Produced(b)
                 PROVE  Known(held[b])
      OBVIOUS
    <3>1. c.role_rev \in Nat
      BY <2>4 DEF Card
    <3>2. PICK h \in history[b] : held[b] = CardOf(h)
      BY <3>1, HeldFits
    <3> HIDE DEF Known
    <3> QED BY <1>3, <3>2
  <2> HIDE DEF Known
  <2>7. card'[b] \in {held[b], c} /\ (card'[b] = c \/ Known(held[b]))
    BY <1>2, <2>2, <2>6 DEF BadgeTypes
  <2>8. \A a \in Roster \ {b} : card'[a] = card[a]
    BY <1>2, <2>2 DEF BadgeTypes
  <2> QED BY <2>5, <2>7, <2>8
<1>6. ASSUME NEW r \in history[b], TakeRole(b, r)
      PROVE  Known(card'[b]) /\ \A a \in Roster \ {b} : card'[a] = card[a]
  <2>1. card' = card \/ card' = [card EXCEPT ![b] = CardOf(r)]
    BY <1>6 DEF TakeRole
  <2>2. card'[b] \in {card[b], CardOf(r)} /\ \A a \in Roster \ {b} : card'[a] = card[a]
    BY <1>2, <2>1 DEF BadgeTypes
  <2> HIDE DEF Known
  <2> QED BY <1>3, <1>4, <2>2
<1>7. Known(card'[b]) /\ \A a \in Roster \ {b} : card'[a] = card[a]
  <2> HIDE DEF Known
  <2> QED BY <1>5, <1>6 DEF Learns
<1>8. \A a \in Roster : card'[a] = card[a] \/ (IF card'[a].role = "H" THEN card'[a].role_rev = 1
                              ELSE Names(a, card'[a].cause, card'[a].role_rev))
  BY <1>7
<1>9. \A a \in Roster : attempts[a] <= attempts'[a]
  BY <1>1, <1>2 DEF BadgeTypes
<1> QED BY <1>1, <1>8, <1>9, QuietHonest DEF HonestInv

LEMMA StepHonest ==
  ASSUME TrueClocks, OutbreakInv, Closings, reboots = <<>> => HonestInv, [OutbreakNext]_allVars
  PROVE  reboots' = <<>> => HonestInv'
<1> SUFFICES ASSUME reboots' = <<>> PROVE HonestInv'
  OBVIOUS
<1>1. OutbreakInv' /\ BadgeTypes
  BY StepOutbreak DEF OutbreakInv
<1>2. ASSUME NEW c \in Roster, Reboot(c) PROVE FALSE
  <2>1. reboots' = Append(reboots, c) /\ reboots \in Seq(Roster)
    BY <1>1, <1>2 DEF Reboot, BadgeTypes
  <2>2. Len(reboots') = Len(reboots) + 1 /\ Len(reboots) \in Nat
    BY <2>1
  <2> QED BY <2>2
<1>3. reboots = <<>>
  <2>1. Serves => reboots' = reboots
    BY <1>1, ServesHandled DEF badges
  <2>2. ~Serves => reboots' = reboots
    BY <1>2, NextSplits DEF Tags, Learns, Finishes, Offer, AcceptRequest, EventWritten, WriteFailed,
          TakeDecision, TakeRole, TakeEnd, TakeFinal, Expire, Close, allVars, badges
  <2> QED BY <2>1, <2>2
<1>4. HonestInv
  BY <1>3
<1>5. CASE Serves
  BY <1>1, <1>3, <1>4, <1>5, ServesHonest
<1>6. ASSUME UNCHANGED <<vars, card, requests, attempts, flooded>>,
             \A b \in Roster : writing'[b] \in {writing[b], NoBody}
      PROVE  HonestInv'
  <2>1. \A a \in Roster : attempts[a] <= attempts'[a]
    BY <1>1, <1>6 DEF BadgeTypes
  <2> QED BY <1>1, <1>4, <1>6, <2>1, QuietHonest DEF HonestInv
<1>7. CASE Tags
  <2>1. ASSUME NEW b \in Roster, WriteFailed(b) PROVE HonestInv'
    <3>1. \A a \in Roster : writing'[a] \in {writing[a], NoBody}
      BY <1>1, <2>1 DEF WriteFailed, BadgeTypes
    <3>2. UNCHANGED <<vars, card, requests, attempts, flooded>>
      BY <2>1 DEF WriteFailed
    <3> QED BY <1>6, <3>1, <3>2
  <2> QED BY <1>1, <1>3, <1>4, <1>7, <2>1, OfferHonest, AcceptHonest, WrittenHonest DEF Tags
<1>8. ASSUME NEW b \in Roster, Learns(b) PROVE HonestInv'
  BY <1>1, <1>4, <1>8, LearnHonest
<1>9. ASSUME NEW b \in Roster, Finishes(b) PROVE HonestInv'
  BY <1>6, <1>9 DEF Finishes, TakeEnd, TakeFinal, Expire, Close
<1>10. CASE UNCHANGED allVars
  BY <1>6, <1>10 DEF allVars, badges
<1> QED BY <1>2, <1>5, <1>7, <1>8, <1>9, <1>10, NextSplits

LEMMA InitHonest == OutbreakInit => HonestInv
<1> SUFFICES ASSUME OutbreakInit PROVE HonestInv
  OBVIOUS
<1>1. Init
  BY DEF OutbreakInit
<1>2. HonestEventsHold
  BY <1>1 DEF Init, HonestEventsHold
<1>3. end.elapsed = Duration
  BY <1>1 DEF Init, Running
<1>4. \A b \in Roster : card[b] = CardOf(FirstRole(b)) /\ writing[b] = NoBody
  BY DEF OutbreakInit
<1>5. \A b \in Roster : CardOf(FirstRole(b)).role_rev = 1
  BY DEF CardOf, FirstRole
<1>6. \A b \in Roster : Shown(b)
  BY <1>4, <1>5 DEF Shown, Names
<1>7. requests = {} /\ flooded = {}
  BY DEF OutbreakInit
<1>8. Ranked
  <2>1. [i \in Ids |-> 0] \in [Ids -> Nat]
    OBVIOUS
  <2> QED BY <1>7, <2>1 DEF Ranked
<1> QED BY <1>2, <1>3, <1>4, <1>6, <1>7, <1>8 DEF HonestInv

\* With clocks as good as the badges say, and until a badge reboots, the server
\* rejects no infection the badges agreed on (accept_request and clock_running
\* against eventDecision), in whatever order the evidence came.
THEOREM HonestAlwaysHold ==
  ASSUME TrueClocks
  PROVE  OutbreakSpec => [](reboots = <<>> => HonestEventsHold)
<1> DEFINE Kept == reboots = <<>> => HonestInv
<1>1. OutbreakInit => Kept
  BY InitHonest
<1>2. OutbreakInv /\ Closings /\ Kept /\ [OutbreakNext]_allVars => Kept'
  BY StepHonest
<1>3. Kept => (reboots = <<>> => HonestEventsHold)
  BY DEF HonestInv
<1> QED BY <1>1, <1>2, <1>3, OutbreakAlways, ClosingsAlways, PTL DEF OutbreakSpec

-----------------------------------------------------------------------------
\* Attempts are counted by the requests on the air, and verdicts are of
\* sequence numbers.
Counted ==
  /\ IsFiniteSet(requests) /\ Cardinality(requests) <= MaxAttempts
  /\ \A b \in Roster : attempts[b] <= Cardinality(requests)
  /\ \A r \in requests : r.attempt <= attempts[r.actor]
  /\ verdicts \in [Roster -> SUBSET Seqs]

LEMMA OfferCounts ==
  ASSUME OutbreakInv, Counted, NEW a \in Roster, NEW v \in Roster, Offer(a, v)
  PROVE  Counted'
<1> DEFINE r == [victim |-> v, actor |-> a, cause |-> card[a].cause,
                 actor_role_rev |-> card[a].role_rev, victim_role_rev |-> card[v].role_rev,
                 attempt |-> attempts[a] + 1]
<1>1. /\ r.actor = a /\ r.attempt = attempts[a] + 1 /\ requests' = requests \cup {r}
      /\ attempts' = [attempts EXCEPT ![a] = @ + 1] /\ verdicts' = verdicts
      /\ Cardinality(requests) < MaxAttempts
  BY DEF Offer
<1> HIDE DEF r
<1>2. attempts \in [Roster -> Nat] /\ \A q \in requests : q.actor \in Roster /\ q.attempt \in Nat
  BY DEF OutbreakInv, BadgeTypes, Request
<1>3. r \notin requests
  BY <1>1, <1>2 DEF Counted
<1>4. PICK S, n : S = requests /\ n = Cardinality(S)
  OBVIOUS
<1>5. n \in Nat /\ IsFiniteSet(S \cup {r}) /\ Cardinality(S \cup {r}) = n + 1
  BY <1>3, <1>4, FS_AddElement, FS_CardinalityType DEF Counted
<1>6. IsFiniteSet(requests') /\ Cardinality(requests') = n + 1
  BY <1>1, <1>4, <1>5
<1>7. n + 1 <= MaxAttempts
  BY <1>1, <1>4, <1>5, BadgeAssumption
<1>8. attempts'[a] = attempts[a] + 1 /\ \A b \in Roster \ {a} : attempts'[b] = attempts[b]
  BY <1>1, <1>2
<1>9. \A b \in Roster : attempts[b] \in Nat /\ attempts[b] <= n
  BY <1>2, <1>4 DEF Counted
<1>10. \A b \in Roster : attempts'[b] <= n + 1
  BY <1>5, <1>8, <1>9
<1>11. \A q \in requests' : q.attempt <= attempts'[q.actor]
  BY <1>1, <1>2, <1>8 DEF Counted
<1> QED BY <1>1, <1>6, <1>7, <1>10, <1>11 DEF Counted

LEMMA StepCounts ==
  ASSUME OutbreakInv, Counted, [OutbreakNext]_allVars
  PROVE  Counted'
<1>1. Serves => UNCHANGED badges
  BY ServesHandled DEF OutbreakInv
<1>2. ASSUME NEW b \in Roster, Reboot(b) PROVE Counted'
  BY <1>2 DEF Reboot, Counted
<1>3. ASSUME NEW b \in Roster, NEW q \in Seqs, TakeDecision(b, q) PROVE Counted'
  BY <1>3 DEF TakeDecision, Counted
<1>4. ASSUME UNCHANGED <<requests, attempts, verdicts>> PROVE Counted'
  BY <1>4 DEF Counted
<1>5. Tags => UNCHANGED <<requests, attempts, verdicts>> \/ \E b, v \in Roster : Offer(b, v)
  BY DEF Tags, AcceptRequest, EventWritten, WriteFailed
<1>6. ASSUME NEW b \in Roster, Finishes(b) PROVE Counted'
  BY <1>4, <1>6 DEF Finishes, TakeEnd, TakeFinal, Expire, Close
<1>7. ASSUME NEW b \in Roster, Learns(b) PROVE Counted'
  BY <1>3, <1>4, <1>7 DEF Learns, TakeRole
<1> QED BY <1>1, <1>2, <1>4, <1>5, <1>6, <1>7, NextSplits, OfferCounts DEF badges, allVars

\* Every variable of the badges keeps its type, and the bound on attempts holds
\* (the type invariant of Outbreak.tla).
THEOREM OutbreakTypes == OutbreakSpec => []OutbreakTypeOK
<1>1. OutbreakInit => Counted
  <2>1. IsFiniteSet({}) /\ Cardinality({}) = 0
    BY FS_EmptySet
  <2> QED BY <2>1, BadgeAssumption DEF OutbreakInit, Counted
<1>2. OutbreakInv /\ Counted /\ [OutbreakNext]_allVars => Counted'
  BY StepCounts
<1>3. OutbreakInv /\ Counted => OutbreakTypeOK
  <2> SUFFICES ASSUME OutbreakInv, Counted PROVE OutbreakTypeOK
    OBVIOUS
  <2>1. TypeOK /\ BadgeTypes
    BY DEF OutbreakInv, ServerInv, TreeInv, TypeInv
  <2>2. Cardinality(requests) \in Nat
    BY FS_CardinalityType DEF Counted
  <2>3. attempts \in [Roster -> 0..MaxAttempts]
    BY <2>1, <2>2, BadgeAssumption DEF Counted, BadgeTypes
  <2> QED BY <2>1, <2>3 DEF OutbreakTypeOK, BadgeTypes, Counted
<1> QED BY <1>1, <1>2, <1>3, OutbreakAlways, PTL DEF OutbreakSpec

-----------------------------------------------------------------------------
(***************************************************************************)
(* The game as a whole: badges, host and server.                           *)
(***************************************************************************)
\* To the server the badges are a host that uploads and reports.
LEMMA SeenByServer ==
  ASSUME OutbreakInv, [OutbreakNext]_allVars
  PROVE  [Handled]_vars
<1>1. Serves => Handled
  BY ServesHandled DEF OutbreakInv
<1>2. ~Serves => UNCHANGED vars
  BY NextSplits DEF Tags, Learns, Finishes, Offer, AcceptRequest, EventWritten, WriteFailed,
     TakeDecision, TakeRole, TakeEnd, TakeFinal, Expire, Close, Reboot, allVars
<1> QED BY <1>1, <1>2

\* The badges that play off line, the host and the server together implement
\* the game of module Infection, with reboots and whatever clocks: all that a
\* badge believed meanwhile was provisional.
THEOREM OutbreakImplements == OutbreakSpec => Infections
<1>1. OutbreakInit => Game!Init
  BY InitImplements DEF OutbreakInit
<1>2. OutbreakInv /\ OutbreakInv' /\ [OutbreakNext]_allVars
        => [Game!Next]_<<[s \in Roster |-> TaggerOf(s)], [phase |-> end.phase, winner |-> end.winner]>>
  BY SeenByServer, HandledImplements DEF OutbreakInv, ServerInv
<1> QED BY <1>1, <1>2, OutbreakAlways, PTL DEF OutbreakSpec, Infections, Game!Spec

\* What badges, rebooted or with wrong clocks, make the host upload never
\* leads the server astray: one tree of infections rooted in patient zero, a
\* decided prefix per slot, and a current snapshot between handlers.
THEOREM ServerStaysRight ==
  OutbreakSpec => [](InfectionTree /\ Ancestry /\ OneInfectionEach /\ Frontier /\ SnapshotCurrent)
<1>1. OutbreakInit => Lineage
  BY InitLineage DEF OutbreakInit
<1>2. OutbreakInv /\ OutbreakInv' /\ Lineage /\ [OutbreakNext]_allVars => Lineage'
  BY SeenByServer, HandledLineage DEF OutbreakInv, ServerInv
<1>3. OutbreakSpec => []Lineage
  BY <1>1, <1>2, OutbreakAlways, PTL DEF OutbreakSpec
<1>4. OutbreakInv /\ Lineage
        => InfectionTree /\ Ancestry /\ OneInfectionEach /\ Frontier /\ SnapshotCurrent
  BY LineageMeansAncestry DEF OutbreakInv, ServerInv, TreeInv, SnapshotInv, SnapshotCurrent
<1> QED BY <1>3, <1>4, OutbreakAlways, PTL
=============================================================================
