------------------------------ MODULE Outbreak ------------------------------
(***************************************************************************)
(* Badges playing one started round against the server of module Evidence. *)
(*                                                                         *)
(* A badge (firmware/components/zt_game/game.c) tags and is tagged with no *)
(* server in reach: the victim writes the infection to its journal, turns  *)
(* zombie provisionally and tags on.  Its events reach the server through  *)
(* the mesh and the host, and decisions, role commands and results come    *)
(* back the same way: every one of them late, repeated, reordered or not   *)
(* at all.  Radio custody is not modelled: an event once written may be    *)
(* uploaded at any later time, and anything the server has decided may be  *)
(* delivered to its badge at any later time, so what a relay holds at a    *)
(* given moment makes no difference.                                       *)
(*                                                                         *)
(* The persistence task of a badge holds one request at a time; while an   *)
(* infection is being written (`writing') every other durable input waits. *)
(***************************************************************************)
EXTENDS Evidence

CONSTANTS
  Uncertainty,   \* the clock error a badge reports with an event
  Skew,          \* the clock error it really has
  MaxAttempts,   \* bound on tag attempts in all
  MaxReboots     \* bound on reboots in all

ASSUME BadgeAssumption ==
  Uncertainty \in Nat /\ Skew \in Nat /\ MaxAttempts \in Nat /\ MaxReboots \in Nat

VARIABLES
  card,       \* self_role(): the role entry a badge holds for itself
  held,       \* pending_roles[self]: an update that does not cover its events
  log,        \* its event journal; produced[self] and local_event_seq
  writing,    \* pending.event: the infection being persisted
  verdicts,   \* decisions stored, by sequence of the decided event
  phase,      \* current.phase
  closing,    \* close_committed
  result,     \* the result shown: winner, final, result_command_seq
  requests,   \* tag requests on the air
  attempts,   \* attempts made: boot nonce and attempt_seq
  reboots,    \* the badges that rebooted, in order
  flooded     \* every event ever emitted

badges == <<card, held, log, writing, verdicts, phase, closing, result,
            requests, attempts, reboots, flooded>>
allVars == <<vars, badges>>

Card == [role: {"H", "Z"}, role_rev: Nat, cause: -1..MaxSeq,
         covered_seq: 0..MaxSeq, provisional: BOOLEAN]
Request == [victim: Roster, actor: Roster, cause: 0..MaxSeq,
            actor_role_rev: Nat, victim_role_rev: Nat, attempt: Nat]

\* A role as the server sends it, in a ROLE_SET or a snapshot page.
CardOf(r) == [role |-> r.role, role_rev |-> r.role_rev, cause |-> r.cause,
              covered_seq |-> r.covered_seq, provisional |-> FALSE]
NothingHeld == [role |-> "H", role_rev |-> 0, cause |-> NoCause,
                covered_seq |-> 0, provisional |-> FALSE]
NoResult == [winner |-> "H", final |-> FALSE, command |-> 0, shown |-> FALSE]

OutbreakInit ==
  /\ Init
  /\ card = [b \in Roster |-> CardOf(FirstRole(b))]
  /\ held = [b \in Roster |-> NothingHeld]
  /\ log = [b \in Roster |-> <<>>]
  /\ writing = [b \in Roster |-> NoBody]
  /\ verdicts = [b \in Roster |-> {}]
  /\ phase = [b \in Roster |-> "running"]
  /\ closing = [b \in Roster |-> FALSE]
  /\ result = [b \in Roster |-> NoResult]
  /\ requests = {}
  /\ attempts = [b \in Roster |-> 0]
  /\ reboots = <<>>
  /\ flooded = {}

Produced(b) == Len(log[b])

\* zt_store_decision_frontier: decided without a gap.
Settled(b) ==
  LET gapless == {n \in 0..MaxSeq : \A q \in 1..n : q \in verdicts[b]}
  IN  CHOOSE n \in gapless : \A k \in gapless : k <= n

-----------------------------------------------------------------------------
\* Tagging.

\* clock_running: what a badge's clock may read, if it shows a running round.
Readings(b) ==
  {t \in 0..(Duration - 1) :
     /\ phase[b] = "running"
     /\ t + Uncertainty < Duration
     /\ now >= StartTime
     /\ t - (now - StartTime) \in -Skew..Skew}

\* attempt: a zombie with a cause of its own asks the human it has selected.
Offer(a, v) ==
  /\ a # v /\ Readings(a) # {}
  /\ card[a].role = "Z" /\ card[a].cause # NoCause
  /\ card[v].role = "H" /\ writing[a] = NoBody
  /\ Cardinality(requests) < MaxAttempts                                 \* bound
  /\ attempts' = [attempts EXCEPT ![a] = @ + 1]
  /\ requests' = requests \cup
       {[victim |-> v, actor |-> a, cause |-> card[a].cause,
         actor_role_rev |-> card[a].role_rev, victim_role_rev |-> card[v].role_rev,
         attempt |-> attempts[a] + 1]}
  /\ UNCHANGED <<vars, card, held, log, writing, verdicts, phase, closing, result,
                 reboots, flooded>>

\* accept_request: the victim starts to write the infection.  A request it
\* has already written, or one that no longer fits its role, changes nothing.
AcceptRequest(r) ==
  LET v == r.victim IN
  /\ writing[v] = NoBody
  /\ card[v].role = "H" /\ card[v].role_rev = r.victim_role_rev
  /\ ~\E n \in DOMAIN log[v] : log[v][n].actor = r.actor /\ log[v][n].attempt = r.attempt
  /\ Produced(v) < MaxSeq
  /\ \E t \in Readings(v) :
       writing' = [writing EXCEPT ![v] =
         [victim |-> v, seq |-> Produced(v) + 1, actor |-> r.actor,
          cause |-> [slot |-> r.actor, seq |-> r.cause],
          actor_role_rev |-> r.actor_role_rev, victim_role_rev |-> r.victim_role_rev,
          attempt |-> r.attempt, elapsed |-> t, uncertainty |-> Uncertainty,
          heard |-> TRUE]]
  /\ UNCHANGED <<vars, card, held, log, verdicts, phase, closing, result, requests,
                 attempts, reboots, flooded>>

\* completed(APPLY_EVENT): written; the badge turns zombie and floods it.
EventWritten(b) ==
  /\ writing[b] # NoBody
  /\ log' = [log EXCEPT ![b] = Append(@, writing[b])]
  /\ flooded' = flooded \cup {writing[b]}
  /\ card' = [card EXCEPT ![b].role = "Z", ![b].cause = writing[b].seq,
                          ![b].provisional = TRUE]
  /\ writing' = [writing EXCEPT ![b] = NoBody]
  /\ UNCHANGED <<vars, held, verdicts, phase, closing, result, requests, attempts,
                 reboots>>

\* completed(APPLY_EVENT) with an error: BUSY, and the victim stays human.
WriteFailed(b) ==
  /\ writing[b] # NoBody
  /\ writing' = [writing EXCEPT ![b] = NoBody]
  /\ UNCHANGED <<vars, card, held, log, verdicts, phase, closing, result, requests,
                 attempts, reboots, flooded>>

-----------------------------------------------------------------------------
\* What comes back from the server.

\* decision and completed(APPLY_DECISION), for an event of its own.
TakeDecision(b, q) ==
  LET applies == card[b].cause = q /\ card[b].provisional
      judged == IF ~applies THEN card[b]
                ELSE LET c == [card[b] EXCEPT !.provisional = FALSE,
                                 !.covered_seq = IF @ < q THEN q ELSE @]
                     IN  IF status[<<b, q>>] = "rejected"
                         THEN [c EXCEPT !.role = "H", !.cause = NoCause]
                         ELSE c
  IN  /\ Decided(<<b, q>>) /\ writing[b] = NoBody
      /\ verdicts' = [verdicts EXCEPT ![b] = @ \cup {q}]
      /\ card' = [card EXCEPT ![b] =
           IF held[b].role_rev > judged.role_rev /\ held[b].covered_seq >= Produced(b)
           THEN held[b] ELSE judged]
      /\ UNCHANGED <<vars, held, log, writing, phase, closing, result, requests,
                     attempts, reboots, flooded>>

\* Mutant: a role is taken although it knows nothing of a new infection.
TakeRoleUnheld(b, r) ==
  /\ writing[b] = NoBody
  /\ r.role_rev > card[b].role_rev
  /\ card' = [card EXCEPT ![b] = CardOf(r)]
  /\ UNCHANGED <<vars, held, log, writing, verdicts, phase, closing, result, requests,
                 attempts, reboots, flooded>>

\* merge_role, reached from a ROLE_SET or a snapshot page: an older revision
\* is ignored, and one that does not cover every event of this badge is held.
TakeRole(b, r) ==
  /\ writing[b] = NoBody
  /\ r.role_rev > card[b].role_rev
  /\ IF r.covered_seq < Produced(b)
     THEN held' = [held EXCEPT ![b] = CardOf(r)] /\ UNCHANGED card
     ELSE card' = [card EXCEPT ![b] = CardOf(r)] /\ UNCHANGED held
  /\ UNCHANGED <<vars, log, writing, verdicts, phase, closing, result, requests,
                 attempts, reboots, flooded>>

\* timers: the badge's own clock reaches the end of the round.
Expire(b) ==
  /\ phase[b] = "running" /\ now + Skew >= StartTime + Duration
  /\ phase' = [phase EXCEPT ![b] = "expired_pending_sync"]
  /\ result' = [result EXCEPT ![b].shown = TRUE, ![b].winner = "H"]
  /\ UNCHANGED <<vars, card, held, log, writing, verdicts, closing, requests,
                 attempts, reboots, flooded>>

\* Mutant: an END_ROUND that comes late is taken too.
TakeEndLate(b, k) ==
  /\ writing[b] = NoBody
  /\ endCommands[k].type = "END_ROUND"
  /\ result' = [result EXCEPT ![b].winner = endCommands[k].winner, ![b].shown = TRUE]
  /\ phase' = [phase EXCEPT ![b] = IF @ = "running" THEN "expired_pending_sync" ELSE @]
  /\ UNCHANGED <<vars, card, held, log, writing, verdicts, closing, requests,
                 attempts, reboots, flooded>>

\* END_ROUND, dropped when a newer result command has been seen.
TakeEnd(b, k) ==
  /\ writing[b] = NoBody
  /\ endCommands[k].type = "END_ROUND"
  /\ phase[b] # "final" /\ k >= result[b].command
  /\ phase' = [phase EXCEPT ![b] = "expired_pending_sync"]
  /\ result' = [result EXCEPT ![b] =
       [winner |-> endCommands[k].winner, final |-> FALSE, command |-> k, shown |-> TRUE]]
  /\ UNCHANGED <<vars, card, held, log, writing, verdicts, closing, requests,
                 attempts, reboots, flooded>>

\* FINAL_RESULT before the badge has closed stops play and waits; afterwards
\* it is persisted.
TakeFinal(b, k) ==
  /\ writing[b] = NoBody
  /\ endCommands[k].type = "FINAL_RESULT"
  /\ phase[b] # "final"
  /\ phase' = [phase EXCEPT ![b] = IF closing[b] THEN "final" ELSE "expired_pending_sync"]
  /\ result' = [result EXCEPT ![b] =
       [winner |-> endCommands[k].winner, final |-> closing[b], command |-> k,
        shown |-> TRUE]]
  /\ UNCHANGED <<vars, card, held, log, writing, verdicts, closing, requests,
                 attempts, reboots, flooded>>

\* Mutant: the count is taken while an infection is being written.
CloseWhileWriting(b) ==
  /\ phase[b] # "running" /\ ~closing[b]
  /\ closing' = [closing EXCEPT ![b] = TRUE]
  /\ UNCHANGED <<vars, card, held, log, writing, verdicts, phase, result, requests,
                 attempts, reboots, flooded>>

\* timers and completed(APPLY_CLOSE): the round is over here and nothing is
\* being written, so the number of events produced is final.
Close(b) ==
  /\ phase[b] # "running" /\ ~closing[b] /\ writing[b] = NoBody
  /\ closing' = [closing EXCEPT ![b] = TRUE]
  /\ UNCHANGED <<vars, card, held, log, writing, verdicts, phase, result, requests,
                 attempts, reboots, flooded>>

\* A reboot forgets the round (forget_game_on_boot); pressing A joins it again
\* under the same slot with the roles of the server's snapshot.
Reboot(b) ==
  /\ Len(reboots) < MaxReboots /\ settling = "idle"                      \* bound
  /\ reboots' = Append(reboots, b)
  /\ log' = [log EXCEPT ![b] = <<>>]
  /\ writing' = [writing EXCEPT ![b] = NoBody]
  /\ verdicts' = [verdicts EXCEPT ![b] = {}]
  /\ held' = [held EXCEPT ![b] = NothingHeld]
  /\ card' = [card EXCEPT ![b] = CardOf(snapshot.role[b])]
  /\ phase' = [phase EXCEPT ![b] = IF snapshot.end.phase = "running" THEN "running"
                                   ELSE "expired_pending_sync"]
  /\ closing' = [closing EXCEPT ![b] = FALSE]
  /\ result' = [result EXCEPT ![b] = NoResult]
  /\ UNCHANGED <<vars, requests, attempts, flooded>>

-----------------------------------------------------------------------------
\* The host carries evidence and receipts to the server.

Upload(e) == Ingest({e}) /\ UNCHANGED badges

UploadConflict(e) == IngestConflict({e}, e) /\ UNCHANGED badges

Report(b) ==
  /\ closing[b]
  /\ Ack({[slot |-> b, produced |-> Produced(b)]}, {[slot |-> b, through |-> Settled(b)]})
  /\ UNCHANGED badges

Serve == (CheckDue \/ SettleDone \/ \E i \in Ids : SettleRow(i)) /\ UNCHANGED badges

Results == DOMAIN endCommands

OutbreakNext ==
  \/ Tick /\ UNCHANGED badges
  \/ Serve
  \/ \E e \in flooded : Upload(e) \/ UploadConflict(e)
  \/ \E b \in Roster :
       \/ Report(b)
       \/ \E v \in Roster : Offer(b, v)
       \/ EventWritten(b) \/ WriteFailed(b)
       \/ \E q \in Seqs : TakeDecision(b, q)
       \/ \E r \in history[b] : TakeRole(b, r)
       \/ \E k \in Results : TakeEnd(b, k) \/ TakeFinal(b, k)
       \/ Expire(b) \/ Close(b) \/ Reboot(b)
  \/ \E r \in requests : AcceptRequest(r)

OutbreakSpec == OutbreakInit /\ [][OutbreakNext]_allVars

\* Every badge keeps playing its part and everything sent is let through in
\* the end: the host uploads what is undecided again (event_service), replay
\* repeats every command and decision until its receipt, and timers run.  A
\* message waits while a handler runs and is served when its turn comes, so
\* deliveries to the server, and the clock, need strong fairness.
Delivery ==
  /\ SF_allVars(Tick /\ UNCHANGED badges)
  /\ WF_allVars(Serve)
  /\ SF_allVars(\E e \in flooded : Upload(e) /\ status[EventId(e)] = "none")
  /\ \A b \in Roster :
       /\ WF_allVars(EventWritten(b))
       /\ WF_allVars(Expire(b)) /\ WF_allVars(Close(b)) /\ SF_allVars(Report(b))
       /\ \A q \in Seqs : SF_allVars(TakeDecision(b, q))
       /\ SF_allVars(TakeRole(b, role[b]))
       /\ SF_allVars(\E k \in Results : TakeFinal(b, k))

FairOutbreakSpec == OutbreakSpec /\ Delivery

-----------------------------------------------------------------------------
OutbreakTypeOK ==
  /\ TypeOK
  /\ card \in [Roster -> Card] /\ held \in [Roster -> Card]
  /\ \A b \in Roster : log[b] \in Seq(Body) /\ Len(log[b]) <= MaxSeq
  /\ writing \in [Roster -> Body \cup {NoBody}]
  /\ verdicts \in [Roster -> SUBSET Seqs]
  /\ phase \in [Roster -> Phases] /\ closing \in [Roster -> BOOLEAN]
  /\ result \in [Roster -> [winner: {"H", "Z"}, final: BOOLEAN, command: Nat,
                            shown: BOOLEAN]]
  /\ requests \subseteq Request /\ flooded \subseteq Body
  /\ attempts \in [Roster -> 0..MaxAttempts] /\ reboots \in Seq(Roster)

\* While the clocks are as good as the badges say and no badge reboots, the
\* server accepts every infection the badges agreed on among themselves: the
\* rules a badge applies off line (accept_request, clock_running) are at least
\* as strict as the ones eventDecision applies to it much later, in whatever
\* order the evidence came.
HonestEventsHold == \A i \in Ids : status[i] # "rejected"

\* One identity, one body: (round, victim, sequence) names one infection for
\* good, so that whoever holds it may forward it and nobody needs to compare.
OneBodyPerIdentity == \A e, f \in flooded : EventId(e) = EventId(f) => e = f

\* The final result is given only after every infection any badge ever wrote
\* down was judged, and none is being written any more: a badge's receipt
\* counts its events after it stopped taking new ones.
NothingLost ==
  end.phase = "final" =>
    /\ \A e \in flooded : e.seq <= role[e.victim].covered_seq
    /\ \A b \in Roster : writing[b] = NoBody

\* A badge that shows a confirmed zombie is one to the server, by the same
\* cause; and one that shows a human, and has forgotten no event in a reboot,
\* is a human to the server, even before it heard all its verdicts.
\* Decisions and role commands reach a badge in any order, many times, and while
\* it is being infected again.
CardAgrees ==
  \A b \in Roster :
    /\ card[b].role = "Z" /\ ~card[b].provisional =>
         role[b].role = "Z" /\ role[b].cause = card[b].cause
    /\ card[b].role = "H" /\ (\A i \in DOMAIN reboots : reboots[i] # b) =>
         role[b].role = "H"

\* A badge stays a zombie for as long as the server has not rejected its
\* infection: no role that was under way while it was infected, and knows
\* nothing of it, turns it back.
InfectionKept ==
  [][\A b \in Roster :
       card[b].role = "Z" /\ card'[b].role = "H" /\ reboots' = reboots =>
         status[<<b, card[b].cause>>] = "rejected"]_allVars

\* A result a badge shows as final is the server's final one, although the
\* result commands come in any order and an earlier END_ROUND may name the
\* other winner; and once shown it never changes.
FinalShown ==
  \A b \in Roster : result[b].final => end.phase = "final" /\ result[b].winner = end.winner

\* With every message eventually let through and no badge lost, the round
\* reaches its final result everywhere and every badge ends in the role the
\* server gave it.
Converges ==
  <>[](\A b \in Roster : /\ result[b].final /\ result[b].winner = end.winner
                         /\ card[b].role = role[b].role)
=============================================================================
