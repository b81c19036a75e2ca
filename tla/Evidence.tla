------------------------------ MODULE Evidence ------------------------------
(***************************************************************************)
(* The server's adjudication of infection evidence during one started      *)
(* round: backend/src/gateway.ts, ingest, eventDecision, settleEvents,     *)
(* finishIfDue and the receipt half of message("ack").                     *)
(*                                                                         *)
(* A badge that is tagged writes an event of its own, numbered 1, 2, ...   *)
(* per victim.  The host uploads events in any order, in batches, more     *)
(* than once, and late.  The server keeps each event, decides it once its  *)
(* victim's earlier events and its causal parent are decided, and derives  *)
(* the canonical roles, the winner and the final result from the accepted  *)
(* ones.                                                                   *)
(*                                                                         *)
(* A Durable Object runs one handler at a time and each handler below has  *)
(* no await before its commit, so a handler is one step, except that the   *)
(* loop of settleEvents is unrolled: `settling' is set while the loop      *)
(* runs, and nothing but the loop is enabled then.  The code visits        *)
(* pending rows by victim and sequence; here they are visited in any       *)
(* order.                                                                  *)
(***************************************************************************)
EXTENDS Integers, Sequences, FiniteSets

CONSTANTS
  Slots,            \* badge slots an event may name (0..19 in the code)
  Roster,           \* the slots frozen into the round
  PatientZero,      \* the slot startRound drew
  MaxSeq,           \* last event sequence a badge can number (65535)
  Bodies,           \* the event bodies that can be uploaded
  StartTime,        \* m.startTime: the countdown ends here
  Duration,         \* RULES.duration_ms
  MaxUncertainty,   \* the 2000 ms limit on a badge's clock error
  Capacity,         \* evidence rows a round may hold (2560)
  BatchLimit,       \* entries in one message array (8)
  CloseReceipts,    \* the round-close receipts the host can forward
  Frontiers,        \* the decision frontiers it can forward
  MaxNow,           \* bound on the clock
  NoBody,           \* no row under this identity; no tagger
  NotClosed         \* no round-close receipt from this slot

Seqs == 1..MaxSeq
Ids  == Slots \X Seqs

\* An event body.  `heard' stands for both signal strengths lying in range
\* and the attempt naming a real boot nonce; `attempt' is that nonce with the
\* tagger's attempt number.
Body == [victim: Slots, seq: Seqs, actor: Slots,
         cause: [slot: Slots, seq: 0..MaxSeq],
         actor_role_rev: Nat, victim_role_rev: Nat, attempt: Nat,
         elapsed: Nat, uncertainty: Nat, heard: BOOLEAN]

ASSUME RosterAssumption ==
  IsFiniteSet(Slots) /\ Roster \subseteq Slots /\ PatientZero \in Roster
ASSUME BodiesAssumption == Bodies \subseteq Body
ASSUME NumbersAssumption ==
  /\ MaxSeq \in Nat /\ StartTime \in Nat /\ Duration \in Nat
  /\ MaxUncertainty \in Nat /\ Capacity \in Nat /\ BatchLimit \in Nat
  /\ MaxNow \in Nat
ASSUME ReceiptsAssumption ==
  /\ CloseReceipts \subseteq [slot: Roster, produced: 0..MaxSeq]
  /\ Frontiers \subseteq [slot: Roster, through: 0..MaxSeq]
ASSUME SentinelAssumption == NoBody \notin Body \cup Slots /\ NotClosed \notin Nat

EventId(e)  == <<e.victim, e.seq>>
ParentId(e) == <<e.actor, e.cause.seq>>

VARIABLES
  body,          \* gateway_events.body, by identity
  status,        \* gateway_events.status, by identity
  role,          \* gateway_roles, by slot
  history,       \* gateway_role_history, by slot: every revision ever saved
  end,           \* m.phase and m.end
  closed,        \* m.closed: produced_seq of each slot's close receipt
  decisionAcks,  \* gateway_decision_acks
  conflicts,     \* gateway_conflicts
  revision,      \* m.revision
  snapshot,      \* what saveSnapshot and syncPopulation last wrote
  endCommands,   \* the END_ROUND and FINAL_RESULT commands, in order
  now,           \* the server's clock
  settling       \* the loop of settleEvents: not running, or has it changed a row

evidence == <<body, status, conflicts>>
vars == <<body, status, role, history, end, closed, decisionAcks, conflicts,
          revision, snapshot, endCommands, now, settling>>

Phases   == {"running", "expired_pending_sync", "final"}
Statuses == {"none", "pending_dependency", "accepted", "rejected"}
Role == [role: {"H", "Z"}, role_rev: Nat, cause: -1..MaxSeq,
         covered_seq: 0..MaxSeq, infected_elapsed: Nat]
End  == [phase: Phases, winner: {"H", "Z"}, elapsed: Nat,
         missing: SUBSET Roster]

Command == [type: {"END_ROUND", "FINAL_RESULT"}, winner: {"H", "Z"}]

NoCause == -1
Running == [phase |-> "running", winner |-> "H", elapsed |-> Duration, missing |-> {}]

-----------------------------------------------------------------------------
\* startRound has just saved revision 1 of every role and the first snapshot.

FirstRole(s) ==
  [role             |-> IF s = PatientZero THEN "Z" ELSE "H",
   role_rev         |-> 1,
   cause            |-> IF s = PatientZero THEN 0 ELSE NoCause,
   covered_seq      |-> 0,
   infected_elapsed |-> 0]

Init ==
  /\ body = [i \in Ids |-> NoBody]
  /\ status = [i \in Ids |-> "none"]
  /\ role = [s \in Roster |-> FirstRole(s)]
  /\ history = [s \in Roster |-> {FirstRole(s)}]
  /\ end = Running
  /\ closed = [s \in Roster |-> NotClosed]
  /\ decisionAcks = [s \in Roster |-> 0]
  /\ conflicts = {}
  /\ revision = 1
  /\ snapshot = [role |-> role, end |-> Running, revision |-> 1]
  /\ endCommands = <<>>
  /\ now = 0
  /\ settling = "idle"

-----------------------------------------------------------------------------
\* finishIfDue.

Overdue     == now >= StartTime + Duration
AllInfected == \A s \in Roster : role[s].role = "Z"

LastInfection ==
  CHOOSE t \in {role[s].infected_elapsed : s \in Roster} :
    \A s \in Roster : role[s].infected_elapsed <= t

\* Mutant: off by one against covered_seq.
MissingAtLimit(receipts) ==
  {s \in Roster : receipts[s] = NotClosed \/ role[s].covered_seq <= receipts[s]}

Missing(receipts) ==
  {s \in Roster : receipts[s] = NotClosed \/ role[s].covered_seq < receipts[s]}

\* Mutant: the winner is settled when the round first ends.
EndWithFirstWinner(receipts) ==
  [phase   |-> IF Missing(receipts) = {} THEN "final" ELSE "expired_pending_sync",
   winner  |-> CASE end.phase # "running" -> end.winner
                 [] OTHER -> IF AllInfected THEN "Z" ELSE "H",
   elapsed |-> IF end.phase = "running" THEN Duration ELSE end.elapsed,
   missing |-> Missing(receipts)]

EndWith(receipts) ==
  [phase   |-> IF Missing(receipts) = {} THEN "final" ELSE "expired_pending_sync",
   winner  |-> IF AllInfected THEN "Z" ELSE "H",
   elapsed |-> CASE end.phase # "running" -> end.elapsed
                 [] end.phase = "running" /\ AllInfected ->
                      IF LastInfection < Duration THEN LastInfection ELSE Duration
                 [] OTHER -> Duration,
   missing |-> Missing(receipts)]

\* Mutant: the end of the countdown is not looked at.
EndOrSameUntimed(receipts) ==
  IF end.phase = "final" \/ ~AllInfected THEN end ELSE EndWith(receipts)

EndOrSame(receipts) ==
  IF end.phase = "final" \/ (end.phase = "running" /\ ~AllInfected /\ ~Overdue)
  THEN end
  ELSE EndWith(receipts)

EndRoundCommand(e)    == [type |-> "END_ROUND", winner |-> e.winner]
FinalResultCommand(e) == [type |-> "FINAL_RESULT", winner |-> e.winner]

\* Mutant: roles that changed without ending the round are not written.
FinishOnlyEnds(receipts, saved) ==
  LET next == EndOrSame(receipts) IN
  /\ end' = next
  /\ revision' = IF next = end THEN revision ELSE revision + 1
  /\ endCommands' = endCommands
       \o (IF next # end /\ (end.phase = "running" \/ next.winner # end.winner)
           THEN <<EndRoundCommand(next)>> ELSE <<>>)
       \o (IF next # end /\ next.phase = "final"
           THEN <<FinalResultCommand(next)>> ELSE <<>>)
  /\ snapshot' = IF next # end THEN [role |-> role, end |-> next, revision |-> revision']
                 ELSE snapshot

\* `saved' says that the caller has already written a snapshot of its own.
FinishIfDue(receipts, saved) ==
  LET next == EndOrSame(receipts) IN
  /\ end' = next
  /\ revision' = IF next = end THEN revision ELSE revision + 1
  /\ endCommands' = endCommands
       \o (IF next # end /\ (end.phase = "running" \/ next.winner # end.winner)
           THEN <<EndRoundCommand(next)>> ELSE <<>>)
       \o (IF next # end /\ next.phase = "final"
           THEN <<FinalResultCommand(next)>> ELSE <<>>)
  /\ snapshot' = IF saved \/ next # end
                 THEN [role |-> role, end |-> next, revision |-> revision']
                 ELSE snapshot

-----------------------------------------------------------------------------
\* eventDecision.  Reasons are not kept: no other code reads them.

Decided(i) == status[i] \in {"accepted", "rejected"}

\* The stack walk over stored rows: a row depends on its causal parent and on
\* its victim's previous event.
DependsOn(i) ==
  IF body[i] = NoBody THEN {}
  ELSE {j \in Ids : \/ body[i].cause.seq # 0 /\ j = ParentId(body[i])
                    \/ j = <<body[i].victim, body[i].seq - 1>>}

Stored == {i \in Ids : body[i] # NoBody}

\* Everything the identities in `from' reach, themselves included: the way to
\* each leads through stored rows.
Reach(from) ==
  LET upto[n \in 0..Cardinality(Stored)] ==
        IF n = 0 THEN from ELSE UNION {{i} \cup DependsOn(i) : i \in upto[n - 1]}
  IN  upto[Cardinality(Stored)]

\* Mutant: nothing is recognised as a cycle.
CyclicUnseen(i) == FALSE

Cyclic(i) == \E j \in Reach({i}) : j \in Reach(DependsOn(j))

InRound(e) ==
  /\ end.phase # "final"
  /\ e.uncertainty <= MaxUncertainty
  /\ e.elapsed + e.uncertainty < end.elapsed
  /\ now + e.uncertainty >= StartTime + e.elapsed

\* Mutant: the revision the event names is believed.
VictimAsNamed(e) ==
  \/ e.victim_role_rev = role[e.victim].role_rev
  \/ e.victim_role_rev = 1 /\ e.victim # PatientZero
  \/ \E h \in history[e.victim] : h.role_rev = e.victim_role_rev /\ h.role = "H"

\* The victim is canonically human and the event names a revision at which it
\* was: the current one, the initial one, or one kept in the history.
VictimWasHuman(e) ==
  /\ role[e.victim].role = "H"
  /\ \/ e.victim_role_rev = role[e.victim].role_rev
     \/ e.victim_role_rev = 1 /\ e.victim # PatientZero
     \/ \E h \in history[e.victim] : h.role_rev = e.victim_role_rev /\ h.role = "H"

Admissible(e) ==
  /\ e.actor \in Roster
  /\ InRound(e)
  /\ e.actor # e.victim /\ e.cause.slot = e.actor
  /\ e.heard
  /\ VictimWasHuman(e)
  /\ IF e.cause.seq = 0 THEN e.actor = PatientZero ELSE ~Cyclic(EventId(e))

ParentUndecided(e) == e.cause.seq # 0 /\ ~Decided(ParentId(e))

\* The parent was accepted and did not happen after its child.
ParentHolds(e) ==
  e.cause.seq = 0 \/
    LET p == body[ParentId(e)] IN
      /\ status[ParentId(e)] = "accepted"
      /\ e.elapsed + e.uncertainty >= p.elapsed - p.uncertainty

\* Mutant: the actor must name the revision the server has.
ActorWasZombieNow(e) ==
  /\ role[e.actor].role = "Z"
  /\ role[e.actor].cause = e.cause.seq
  /\ e.actor_role_rev = role[e.actor].role_rev

\* A zombie infected off line keeps the revision it had as a human until its
\* ROLE_SET arrives; afterwards it names a canonical one.
ActorWasZombie(e) ==
  LET provisional == IF e.cause.seq = 0 THEN 1
                     ELSE body[ParentId(e)].victim_role_rev
  IN  /\ role[e.actor].role = "Z"
      /\ role[e.actor].cause = e.cause.seq
      /\ \/ e.actor_role_rev = provisional
         \/ e.actor_role_rev = role[e.actor].role_rev
         \/ \E h \in history[e.actor] :
              h.role_rev = e.actor_role_rev /\ h.role = "Z" /\ h.cause = e.cause.seq

\* Mutant: an attempt is remembered for each victim apart.
AttemptUsedByVictim(e) ==
  \E i \in Ids \ {EventId(e)} :
    /\ status[i] = "accepted" /\ body[i].victim = e.victim
    /\ body[i].actor = e.actor /\ body[i].attempt = e.attempt

AttemptUsed(e) ==
  \E i \in Ids \ {EventId(e)} :
    /\ status[i] = "accepted"
    /\ body[i].actor = e.actor /\ body[i].attempt = e.attempt

Decision(e) ==
  CASE e.victim \notin Roster                          -> "rejected"
    [] e.victim \in Roster
       /\ e.seq # role[e.victim].covered_seq + 1       -> "pending_dependency"
    [] e.victim \in Roster
       /\ e.seq = role[e.victim].covered_seq + 1
       /\ Admissible(e) /\ ParentUndecided(e)          -> "pending_dependency"
    [] e.victim \in Roster
       /\ e.seq = role[e.victim].covered_seq + 1
       /\ Admissible(e) /\ ~ParentUndecided(e)
       /\ ParentHolds(e) /\ ActorWasZombie(e)
       /\ ~AttemptUsed(e)                              -> "accepted"
    [] OTHER                                           -> "rejected"

-----------------------------------------------------------------------------
\* settleEvents, one pending row at a time.

\* Mutant: a rejected event does not count.
RoleAfterAccepted(e, decision) ==
  IF decision = "accepted"
  THEN [role[e.victim] EXCEPT !.role = "Z", !.role_rev = @ + 1, !.cause = e.seq,
                              !.covered_seq = e.seq, !.infected_elapsed = e.elapsed]
  ELSE [role[e.victim] EXCEPT !.role_rev = @ + 1]

RoleAfter(e, decision) ==
  LET old == role[e.victim]
      infects == decision = "accepted"
  IN  [role             |-> IF infects THEN "Z" ELSE old.role,
       role_rev         |-> old.role_rev + 1,
       cause            |-> IF infects THEN e.seq ELSE old.cause,
       covered_seq      |-> e.seq,
       infected_elapsed |-> IF infects THEN e.elapsed ELSE old.infected_elapsed]

\* saveRole overwrites the role and keeps the first record of a revision.
SaveRole(s, r) ==
  /\ role' = [role EXCEPT ![s] = r]
  /\ history' = [history EXCEPT ![s] =
       IF \E h \in @ : h.role_rev = r.role_rev THEN @ ELSE @ \cup {r}]

SettleRow(i) ==
  LET e == body[i]
      decision == Decision(e)
  IN  /\ settling # "idle"
      /\ status[i] = "pending_dependency"
      /\ settling' = "changed"
      /\ decision # "pending_dependency"
      /\ status' = [status EXCEPT ![i] = decision]
      /\ IF e.victim \in Roster
         THEN SaveRole(e.victim, RoleAfter(e, decision)) /\ revision' = revision + 1
         ELSE UNCHANGED <<role, history, revision>>
      /\ UNCHANGED <<body, end, closed, decisionAcks, conflicts, snapshot,
                     endCommands, now>>

Stuck == \A i \in Ids : status[i] = "pending_dependency"
                        => Decision(body[i]) = "pending_dependency"

\* No pass made progress: save the snapshot if a row changed, then finish.
SettleDone ==
  /\ settling # "idle"
  /\ settling' = "idle"
  /\ Stuck
  /\ FinishIfDue(closed, settling = "changed")
  /\ UNCHANGED <<body, status, role, history, closed, decisionAcks, conflicts, now>>

-----------------------------------------------------------------------------
\* The handlers.  message() ends an overdue round before it looks at any
\* other message, so the others wait for CheckDue.

Served == settling = "idle" /\ ~(end.phase = "running" /\ Overdue)

\* alarm(), recoverAlarm() after a restart, and the head of message().
CheckDue ==
  /\ settling = "idle"
  /\ FinishIfDue(closed, FALSE)
  /\ UNCHANGED <<evidence, role, history, closed, decisionAcks, now, settling>>

Conflicting(batch, e) ==
  \/ body[EventId(e)] \notin {NoBody, e}
  \/ \E f \in batch : EventId(f) = EventId(e) /\ f # e

StoredWith(batch) == Stored \cup {EventId(e) : e \in batch}

\* Mutant: a repeated event is stored afresh.
IngestAfresh(batch) ==
  /\ Served
  /\ ~\E e \in batch : Conflicting(batch, e)
  /\ Cardinality(StoredWith(batch)) <= Capacity
  /\ body' = [i \in Ids |-> IF \E e \in batch : EventId(e) = i
                            THEN CHOOSE e \in batch : EventId(e) = i
                            ELSE body[i]]
  /\ status' = [i \in Ids |-> IF \E e \in batch : EventId(e) = i
                              THEN "pending_dependency" ELSE status[i]]
  /\ settling' = "scan"
  /\ UNCHANGED <<role, history, end, closed, decisionAcks, conflicts, revision,
                 snapshot, endCommands, now>>

\* ingest: store the new events of a batch and start to settle.
Ingest(batch) ==
  /\ Served
  /\ ~\E e \in batch : Conflicting(batch, e)
  /\ Cardinality(StoredWith(batch)) <= Capacity
  /\ LET new == {e \in batch : body[EventId(e)] = NoBody} IN
       /\ body' = [i \in Ids |-> IF \E e \in new : EventId(e) = i
                                 THEN CHOOSE e \in new : EventId(e) = i
                                 ELSE body[i]]
       /\ status' = [i \in Ids |-> IF \E e \in new : EventId(e) = i
                                   THEN IF end.phase = "final" THEN "rejected"
                                        ELSE "pending_dependency"
                                   ELSE status[i]]
  /\ settling' = "scan"
  /\ UNCHANGED <<role, history, end, closed, decisionAcks, conflicts, revision,
                 snapshot, endCommands, now>>

\* ingest of a batch with two bodies for one identity: both are kept as
\* evidence of the conflict, nothing of the batch is stored.
IngestConflict(batch, e) ==
  /\ Served
  /\ Conflicting(batch, e)
  /\ \E f \in batch \cup {body[EventId(e)]} :
       /\ f \notin {NoBody, e} /\ EventId(f) = EventId(e)
       /\ conflicts' = conflicts \cup {e, f}
  /\ UNCHANGED <<body, status, role, history, end, closed, decisionAcks,
                 revision, snapshot, endCommands, now, settling>>

\* Mutant: a frontier is believed.
AckBelieved(receipts, frontiers) ==
  /\ Served
  /\ decisionAcks' = [s \in Roster |->
       LET acked == {decisionAcks[s]} \cup {f.through : f \in {g \in frontiers : g.slot = s}}
       IN  CHOOSE n \in acked : \A k \in acked : k <= n]
  /\ FinishIfDue(closed, FALSE)
  /\ UNCHANGED <<evidence, role, history, closed, now, settling>>

\* message("ack"): the decision frontiers and close receipts of a batch.
Ack(receipts, frontiers) ==
  /\ Served
  /\ \A f \in frontiers : \A q \in 1..f.through : Decided(<<f.slot, q>>)
  /\ decisionAcks' = [s \in Roster |->
       LET acked == {decisionAcks[s]} \cup {f.through : f \in {g \in frontiers : g.slot = s}}
       IN  CHOOSE n \in acked : \A k \in acked : k <= n]
  /\ LET produced(s) == {r.produced : r \in {q \in receipts : q.slot = s}} \cup
                        (IF closed[s] = NotClosed THEN {} ELSE {closed[s]})
         next == [s \in Roster |-> IF produced(s) = {} THEN NotClosed
                                   ELSE CHOOSE n \in produced(s) :
                                          \A k \in produced(s) : k <= n]
     IN  closed' = next /\ FinishIfDue(next, FALSE)
  /\ UNCHANGED <<evidence, role, history, now, settling>>

Tick ==
  /\ settling = "idle" /\ now < MaxNow
  /\ now' = now + 1
  /\ UNCHANGED <<evidence, role, history, end, closed, decisionAcks, revision,
                 snapshot, endCommands, settling>>

-----------------------------------------------------------------------------
Batches(S) == {b \in SUBSET S : Cardinality(b) <= BatchLimit}

Next ==
  \/ Tick
  \/ CheckDue
  \/ \E batch \in Batches(Bodies) \ {{}} : Ingest(batch)
  \/ \E batch \in Batches(Bodies) : \E e \in batch : IngestConflict(batch, e)
  \/ \E receipts \in Batches(CloseReceipts), frontiers \in Batches(Frontiers) :
       Ack(receipts, frontiers)
  \/ \E i \in Ids : SettleRow(i)
  \/ SettleDone

\* What the code itself makes happen: a handler that has begun runs to its
\* end (while settling, a row can be decided or the loop ends), the alarm of
\* startRound fires, and the clock advances, however many messages arrive (it
\* stands still during a handler, hence SF).
Fairness ==
  /\ []<>(settling = "idle")
  /\ SF_vars(Tick)
  /\ WF_vars(CheckDue)

Spec == Init /\ [][Next]_vars
FairSpec == Spec /\ Fairness

-----------------------------------------------------------------------------
TypeOK ==
  /\ body \in [Ids -> Body \cup {NoBody}]
  /\ status \in [Ids -> Statuses]
  /\ role \in [Roster -> Role]
  /\ history \in [Roster -> SUBSET Role]
  /\ end \in End
  /\ closed \in [Roster -> (0..MaxSeq) \cup {NotClosed}]
  /\ decisionAcks \in [Roster -> 0..MaxSeq]
  /\ conflicts \subseteq Body
  /\ revision \in Nat
  /\ snapshot \in [role: [Roster -> Role], end: End, revision: Nat]
  /\ endCommands \in Seq(Command)
  /\ now \in Nat
  /\ settling \in {"idle", "scan", "changed"}

Accepted == {i \in Ids : status[i] = "accepted"}

\* Every row sits under its own identity, a slot is a zombie exactly when one
\* accepted event infected it (or it is patient zero), and the event names as
\* its actor a slot that the same rule made a zombie, by the cause it states.
\* However the uploads are ordered, the infections form one tree rooted in
\* patient zero: settleEvents may never infect from a parent that was
\* rejected, undecided or overtaken.
InfectionTree ==
  /\ \A i \in Accepted :
       LET e == body[i] IN
         /\ EventId(e) = i /\ e.victim \in Roster
         /\ role[e.victim].role = "Z" /\ role[e.victim].cause = e.seq
         /\ IF e.cause.seq = 0 THEN e.actor = PatientZero
            ELSE ParentId(e) \in Accepted
         /\ e.actor # e.victim
  /\ \A s \in Roster : role[s].role = "Z" =>
       \/ s = PatientZero /\ role[s].cause = 0
       \/ s # PatientZero /\ <<s, role[s].cause>> \in Accepted

\* Going from victim to actor reaches patient zero from every zombie: no two
\* slots infect each other, whatever cycle the uploaded events draw.
ActorOf(s) == body[<<s, role[s].cause>>].actor
Forefather(s) ==
  LET up[n \in 0..Cardinality(Roster)] ==
        IF n = 0 THEN s
        ELSE IF up[n - 1] = PatientZero THEN PatientZero ELSE ActorOf(up[n - 1])
  IN  up[Cardinality(Roster)]
Ancestry == \A s \in Roster : role[s].role = "Z" => Forefather(s) = PatientZero

\* One tag attempt infects one victim, and one victim is infected once, even
\* when the same attempt reaches two badges or a badge reports two events.
OneInfectionEach ==
  \A i, j \in Accepted : i # j =>
    /\ body[i].victim # body[j].victim
    /\ ~(body[i].actor = body[j].actor /\ body[i].attempt = body[j].attempt)

\* covered_seq is exactly the decided prefix of a victim's events, and every
\* decision moved the role one revision on: this is what lets a badge treat
\* "covered_seq >= produced" as "everything I reported has been judged".
\* Rows that arrive after the final result are rejected where they are and
\* move nothing.
Frontier ==
  \A s \in Roster :
    /\ role[s].role_rev = role[s].covered_seq + 1
    /\ \A q \in 1..role[s].covered_seq : Decided(<<s, q>>)
    /\ \A q \in (role[s].covered_seq + 1)..MaxSeq :
         Decided(<<s, q>>) => status[<<s, q>>] = "rejected" /\ end.phase = "final"

\* An event that stays undecided waits for evidence that really is missing:
\* following its parents and its victim's earlier events leads to an identity
\* the server has no row for.  Nothing waits on itself or on a decided row, but
\* for one case: an earlier event of the same victim came after the final
\* result and was rejected where it was.
OvertakenByFinal(i) ==
  /\ end.phase = "final"
  /\ \E q \in Seqs : /\ role[i[1]].covered_seq < q /\ q < i[2]
                    /\ status[<<i[1], q>>] = "rejected"
NoNeedlessWait ==
  settling = "idle" =>
    \A i \in Ids : status[i] = "pending_dependency" =>
      (\E j \in Reach({i}) : body[j] = NoBody) \/ OvertakenByFinal(i)

\* When no handler is running, what dashboards and badges can read (the stored
\* snapshot and the population tables) is the server's current state, although
\* three code paths write it and each writes only when it thinks something
\* changed.
SnapshotCurrent ==
  settling = "idle" =>
    snapshot = [role |-> role, end |-> end, revision |-> revision]

\* Once the round has ended, the result shown and the last END_ROUND command
\* agree with the roles, although late evidence may still turn a human win
\* into a zombie win.  A FINAL_RESULT is the last word and has the same winner.
ResultAgrees ==
  settling = "idle" /\ end.phase # "running" =>
    /\ end.winner = "Z" <=> AllInfected
    /\ endCommands # <<>>
    /\ endCommands[Len(endCommands)].winner = end.winner
    /\ end.phase = "final" <=> endCommands[Len(endCommands)].type = "FINAL_RESULT"

\* A decision, once stored, is never revised and its body never replaced, and
\* a canonical zombie never becomes human: receipts already sent stay true.
DecisionsStick ==
  [][/\ \A i \in Ids : Decided(i) => status'[i] = status[i]
     /\ \A i \in Ids : body[i] # NoBody => body'[i] = body[i]
     /\ \A s \in Roster : role[s].role = "Z" => role'[s].role = "Z"]_vars

\* After the final result nothing that arrives late changes who won, who is a
\* zombie, or what was accepted, and no further result is announced.
FinalIsFinal ==
  [][end.phase = "final" =>
       /\ end' = end /\ endCommands' = endCommands
       /\ Accepted' = Accepted
       /\ \A s \in Roster : role'[s].role = role[s].role]_vars

\* A badge keeps the role with the higher revision, so the server never
\* publishes two different roles under one revision and never goes back.
RevisionsIdentifyRoles ==
  [][\A s \in Roster : role'[s] # role[s] => role'[s].role_rev > role[s].role_rev]_vars

\* Seen from the players (module Infection), every upload either infects one
\* human, by a badge that was already infected and in a round that is not yet
\* final, or changes nothing; and whatever is judged late, the winner stands by
\* the infections each time the end of the round is written.
TaggerOf(s) ==
  CASE role[s].role = "H"                      -> NoBody
    [] role[s].role # "H" /\ s = PatientZero  -> s
    [] role[s].role # "H" /\ s # PatientZero  -> body[<<s, role[s].cause>>].actor
Game == INSTANCE Infection WITH
  Players <- Roster, Nobody <- NoBody, tagger <- [s \in Roster |-> TaggerOf(s)],
  verdict <- [phase |-> end.phase, winner |-> end.winner]
Infections == Game!Spec

\* What a badge was counted to have received was decided: replay, which skips
\* decisions up to the acknowledged one, never skips one that is still to come.
AckedDecided ==
  \A s \in Roster : \A q \in 1..decisionAcks[s] : Decided(<<s, q>>)

\* The round ends even if no host ever connects again.
EventuallyEnds == <>(end.phase # "running")
=============================================================================
