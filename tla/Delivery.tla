------------------------------ MODULE Delivery ------------------------------
(***************************************************************************)
(* How what the server has decided gets to the badges                      *)
(* (backend/src/gateway.ts: replay, the acks and hellos of message, the    *)
(* director's announcements and the cleanup of a reset round).             *)
(*                                                                         *)
(* The host has one request under way at a time and gets one frame for it: *)
(* commands, decisions on events, or requests for events that the server   *)
(* lacks, in turn.  What is repeated and when is a matter of the session   *)
(* (the attachment of the host's socket), which ends with the connection.  *)
(* After Reset Game the host reconnects with its old round and is led      *)
(* through a session that only delivers the resets of that round.          *)
(*                                                                         *)
(* What there is to deliver is Evidence's business; here it is appended as *)
(* it may be.  The host keeps what it received and relays it to the badges *)
(* that can hear it (`offline' ones cannot, once the round is under way);  *)
(* each reports what it applied.  A second is the end of a rest: things    *)
(* that were sent rest, first in, first out, before they are sent again.   *)
(* Batches are smaller than the code's, and a request carries one receipt. *)
(***************************************************************************)
EXTENDS Integers, Sequences, FiniteSets, SequencesExt, FiniteSetsExt

CONSTANTS
  Slots,          \* slots of a roster, 0..n-1
  HostSlot,       \* the host's
  MaxSeq,         \* infections of a badge
  Actions,        \* identities of the director's announcements
  CommandBatch,   \* COMMAND_BATCH_SIZE (4)
  EventBatch,     \* decisions or requests in a frame (8)
  None,           \* no session; no command
  All,            \* the target of a command to everyone (255)
  Refused,        \* an announcement that was rejected
  MaxLog,         \* bound on commands
  MaxDrops        \* bound on connections lost

ASSUME DeliveryAssumption ==
  /\ HostSlot \in Slots /\ Slots \subseteq Nat
  /\ {None, All, Refused} \cap Nat = {} /\ None # Refused
  /\ CommandBatch \in Nat /\ EventBatch \in Nat \ {0} /\ {MaxSeq, MaxLog, MaxDrops} \subseteq Nat

VARIABLES
  roster,         \* the frozen roster
  round,          \* the commands' log, the phase, the events, decision acks and lapsed announcements
  actions,        \* what became of each announcement: None, Refused or its command
  archive,        \* the resets of a round that was reset
  session,        \* the attachment of the host's welcomed socket
  held,           \* host: commands it has received
  told,           \* host: decisions it has received
  asked,          \* host: events it was asked for
  resets,         \* host: the slots whose reset it has received
  knows,          \* host: its checkpoint names the round
  offline,        \* badges that hear nothing any more
  drops           \* connections lost

vars == <<roster, round, actions, archive, session, held, told, asked, resets, knows, offline, drops>>
hostVars == <<held, told, asked, resets, knows>>
fixed == <<roster, offline>>

Ids == 1..(Cardinality(Slots) * MaxSeq)
Owner(e) == (e - 1) \div MaxSeq
Upto(s, n) == {s * MaxSeq + q : q \in 1..n}

Command(type, target) == [type |-> type, target |-> target, acked |-> {}]
Targets(c) == IF c.target = All THEN roster ELSE {c.target}
Appended(w, c) == [w EXCEPT !.log = Append(@, c)]
Full(w) == Len(w.log) >= MaxLog

Session(kind) ==
  [kind |-> kind, turn |-> 0, cursor |-> 0, resting |-> <<>>, decision |-> 0, decisionsRest |-> FALSE,
   need |-> 0, needsRest |-> FALSE, seeded |-> FALSE, shown |-> {}]

NoArchive == [reset |-> FALSE, acked |-> {}, offered |-> {}, cursor |-> -1, window |-> "unset", finished |-> FALSE]

\* A roster has just been frozen, and the host's socket is there.
Init ==
  /\ round = [log |-> <<Command("PREPARE_ROUND", All)>>, phase |-> "prepared",
              events |-> [e \in Ids |-> "unknown"], frontier |-> [s \in Slots |-> 0], lapsed |-> {}]
  /\ actions = [a \in Actions |-> None]
  /\ archive = NoArchive
  /\ session = Session("live")
  /\ held = {} /\ told = {} /\ asked = {} /\ resets = {} /\ knows = TRUE
  /\ roster \in SUBSET Slots /\ HostSlot \in roster
  /\ offline \in SUBSET (roster \ {HostSlot})
  /\ drops = 0

-----------------------------------------------------------------------------
\* replay: what is due in the session s.

Started(w) == w.phase \in {"running", "ended", "final"}
Latest(w, c) == Max({i \in DOMAIN w.log : w.log[i].type = c.type /\ w.log[i].target = c.target})

\* Of roles, ends and final results only the latest; announcements while they
\* are valid; the frozen PREPARE, once the round has started, until the host
\* has shown in this session that it holds it.
Due(w, s) ==
  {i \in DOMAIN w.log : LET c == w.log[i] IN
     /\ w.phase # "lobby"
     /\ c.type = "ANNOUNCE" => w.phase = "running" /\ i \notin w.lapsed
     /\ c.type \in {"ROLE_SET", "END_ROUND", "FINAL_RESULT"} => i = Latest(w, c)
     /\ IF c.type = "PREPARE_ROUND" /\ Started(w) THEN ~s.seeded ELSE ~(Targets(c) \subseteq c.acked)}

Terminal(w) == {i \in DOMAIN w.log : w.log[i].type \in {"END_ROUND", "FINAL_RESULT"}}
Decisions(w) == {e \in Ids : w.events[e] = "here" /\ e \notin Upto(Owner(e), w.frontier[Owner(e)])}
Missing(w) == {e \in Ids : w.events[e] = "lacked"}

Sorted(S) == SetToSortSeq(S, <)
Least(m, n) == IF m < n THEN m ELSE n
Batch(seq, n) == SubSeq(seq, 1, Least(Len(seq), n))
Rotated(seq, n) == SubSeq(seq, n + 1, Len(seq)) \o SubSeq(seq, 1, n)
\* Those after the cursor, then those up to it.
From(S, cursor) == Sorted({i \in S : i > cursor}) \o Sorted({i \in S : i <= cursor})

\* A result that is new to the session is sent at once.
News(w, s) == {i \in Due(w, s) \cap Terminal(w) : i \notin s.shown}

\* Results first, then the others in rotation.
CommandBatchOf(w, s) ==
  LET ready == Due(w, s) \ ToSet(s.resting)
  IN  Batch(Sorted(ready \cap Terminal(w)) \o From(ready \ Terminal(w), s.cursor), CommandBatch)

DecisionBatchOf(w, s) ==
  LET after == {e \in Decisions(w) : e > s.decision}
  IN  Batch(Sorted(IF after # {} THEN after ELSE Decisions(w)), EventBatch)

\* Requests go round by place, in a list that changes.
NeedBatchOf(w, s) == LET ids == Sorted(Missing(w)) IN Batch(Rotated(ids, s.need % Len(ids)), EventBatch)
NextNeed(w, s) == ((s.need % Cardinality(Missing(w))) + Least(EventBatch, Cardinality(Missing(w)))) % Cardinality(Missing(w))

\* The kinds that have something to send now.
Sendable(w, s) ==
  {k \in 0..2 :
     CASE k = 0 -> ~(Due(w, s) \subseteq ToSet(s.resting))
       [] k = 1 -> \E e \in Decisions(w) : e > s.decision \/ ~s.decisionsRest
       [] k = 2 -> Missing(w) # {} /\ ~s.needsRest}

\* Mutant: commands come first.
InTurnFirst(w, s) == {k \in Sendable(w, s) : \A j \in Sendable(w, s) : k <= j}

\* The first of them from the one whose turn it is.
InTurn(w, s) == {k \in Sendable(w, s) : \A j \in Sendable(w, s) : (k - s.turn) % 3 <= (j - s.turn) % 3}

BatchOf(w, s, k) ==
  CASE k = 0 -> CommandBatchOf(w, s)
    [] k = 1 -> DecisionBatchOf(w, s)
    [] k = 2 -> NeedBatchOf(w, s)

\* The attachment after a batch b of kind k, and the frame.
After(w, s, k, b) ==
  CASE k = 0 -> [s EXCEPT !.turn = 1, !.cursor = Last(b), !.resting = @ \o b]
    [] k = 1 -> [s EXCEPT !.turn = 2, !.decision = Last(b), !.decisionsRest = TRUE]
    [] k = 2 -> [s EXCEPT !.turn = 0, !.need = NextNeed(w, s), !.needsRest = @ \/ NextNeed(w, s) = 0]
Frame(k, b) == [kind |-> k, items |-> b]
Nothing == Frame(0, <<>>)

\* What was due when it was sent and no longer is, rests no longer.
Woken(w, s) == [s EXCEPT !.resting = SelectSeq(@, LAMBDA i : i \in Due(w, s))]

\* The one answer of replay, with the attachment it leaves.
Replays(w, s) ==
  IF News(w, s) # {}
  THEN {[session |-> [s EXCEPT !.shown = @ \cup ToSet(b), !.resting = @ \o b], frame |-> Frame(0, b)] :
          b \in {Sorted(News(w, s))}}
  ELSE IF Sendable(w, s) = {} THEN {[session |-> s, frame |-> Nothing]}
  ELSE UNION {{[session |-> After(w, s, k, b), frame |-> Frame(k, b)] : b \in {BatchOf(w, s, k)}} :
                k \in InTurn(w, s)}

-----------------------------------------------------------------------------
\* Frames on their way to the host.

Linked(kind) == session # None /\ session.kind = kind

Gets(frame) ==
  /\ held'  = held  \cup (IF frame.kind = 0 THEN ToSet(frame.items) ELSE {})
  /\ told'  = told  \cup (IF frame.kind = 1 THEN ToSet(frame.items) ELSE {})
  /\ asked' = asked \cup (IF frame.kind = 2 THEN ToSet(frame.items) ELSE {})

\* The answer to a request arrives, or its connection is lost with it.
Answered(w, given) ==
  \E s \in {Woken(w, given)} : \E r \in Replays(w, s) :
    \/ session' = r.session /\ Gets(r.frame) /\ UNCHANGED drops
    \/ drops < MaxDrops /\ drops' = drops + 1 /\ session' = None /\ UNCHANGED <<held, told, asked>>

\* A frame nobody asked for may find the host's only buffer occupied.
Pushed(w) ==
  IF Linked("live")
  THEN \E s \in {Woken(w, session)} : \E r \in Replays(w, s) :
         session' = r.session /\ (Gets(r.frame) \/ UNCHANGED <<held, told, asked>>)
  ELSE UNCHANGED <<session, held, told, asked>>

-----------------------------------------------------------------------------
\* Messages of a live session.

\* An ack without receipts; in the lobby its answer is empty.
Poll ==
  /\ Linked("live")
  /\ Answered(round, session)
  /\ UNCHANGED <<round, actions, archive, resets, knows, fixed>>

\* maybeStart, when the last badge is ready.
Begun(w) ==
  IF w.phase = "prepared" /\ w.log[1].acked = roster
  THEN [Appended(w, Command("START_ROUND", All)) EXCEPT !.phase = "running"] ELSE w

Hears(s) == s \notin offline \/ round.phase = "prepared"

\* The host's receipt for PREPARE seeds the session.
Seeds(i, s) == i = 1 /\ s = HostSlot

Receipt(i, s) ==
  /\ Linked("live") /\ round.phase # "lobby"
  /\ i \in held /\ s \in Targets(round.log[i]) /\ Hears(s)
  /\ s \notin round.log[i].acked \/ (Seeds(i, s) /\ ~session.seeded)
  /\ round' = Begun([round EXCEPT !.log[i].acked = @ \cup {s}])
  /\ Answered(round', [session EXCEPT !.seeded = @ \/ Seeds(i, s)])
  /\ UNCHANGED <<actions, archive, resets, knows, fixed>>

\* decision_applied, as far as the badge has the decisions on its own events.
DecisionReceipt(s, n) ==
  /\ Linked("live") /\ round.phase # "lobby"
  /\ s \notin offline /\ n > round.frontier[s] /\ Upto(s, n) \subseteq told
  /\ round' = [round EXCEPT !.frontier[s] = n]
  /\ Answered(round', session)
  /\ UNCHANGED <<actions, archive, resets, knows, fixed>>

\* An event that was asked for; the answer is its receipt alone.
Upload(e) ==
  /\ Linked("live") /\ round.phase # "lobby"
  /\ e \in asked /\ Owner(e) \notin offline /\ round.events[e] = "lacked"
  /\ round' = [round EXCEPT !.events[e] = "here"]
  /\ UNCHANGED <<actions, archive, session, hostVars, fixed, drops>>

-----------------------------------------------------------------------------
\* What there is to deliver.

Plays == round.phase \in {"running", "ended"}

\* Evidence is uploaded unasked, or a close receipt or a pending event shows
\* that it is missing.
EventComes(e, how) ==
  /\ Plays /\ Owner(e) \in roster /\ round.events[e] = "unknown"
  /\ round' = [round EXCEPT !.events[e] = how]
  /\ UNCHANGED <<actions, archive, session, hostVars, fixed, drops>>

NewRole(s) ==
  /\ Plays /\ s \in roster /\ ~Full(round)
  /\ round' = Appended(round, Command("ROLE_SET", s))
  /\ UNCHANGED <<actions, archive, session, hostVars, fixed, drops>>

\* By the clock (alarm, which pushes) or by evidence; in an ended round late
\* evidence may change the winner.
Ends(pushed) ==
  /\ Plays /\ ~Full(round)
  /\ round' = [Appended(round, Command("END_ROUND", All)) EXCEPT !.phase = "ended"]
  /\ pushed => round.phase = "running"
  /\ IF pushed THEN Pushed(round') ELSE UNCHANGED <<session, held, told, asked>>
  /\ UNCHANGED <<actions, archive, resets, knows, fixed, drops>>

Finals ==
  /\ round.phase = "ended" /\ Missing(round) = {} /\ ~Full(round)
  /\ round' = [Appended(round, Command("FINAL_RESULT", All)) EXCEPT !.phase = "final"]
  /\ UNCHANGED <<actions, archive, session, hostVars, fixed, drops>>

\* sendDirectorAnnouncement; it may be refused for its text, its spacing or a
\* stale revision as well.  The answer to a repeated call is directorAnnouncementResult.
Announce(a) ==
  /\ actions[a] = None
  /\ \/ /\ round.phase = "running" /\ Linked("live") /\ ~Full(round)
        /\ round' = Appended(round, Command("ANNOUNCE", All))
        /\ actions' = [actions EXCEPT ![a] = Len(round'.log)]
        /\ Pushed(round')
     \/ /\ actions' = [actions EXCEPT ![a] = Refused]
        /\ UNCHANGED <<round, session, held, told, asked>>
  /\ UNCHANGED <<archive, resets, knows, fixed, drops>>

\* Mutant: only the live round is looked at.
RosterOfLive == IF round.phase # "lobby" THEN roster ELSE {}
\* The announcement's roster: the live round's or its archive's.
RosterOf == IF round.phase # "lobby" \/ archive.reset THEN roster ELSE {}

\* What an announcement has come to (directorAnnouncementResult).
Status(a) ==
  LET i == actions[a] IN
  CASE i = None -> "unknown"
    [] i = Refused -> "rejected"
    [] i \notin {None, Refused} ->
         IF RosterOf # {} /\ RosterOf \subseteq round.log[i].acked THEN "applied"
         ELSE IF i \in round.lapsed \/ round.phase # "running" THEN "expired" ELSE "queued"

Lapse(a) ==
  /\ actions[a] \in DOMAIN round.log \ round.lapsed
  /\ round' = [round EXCEPT !.lapsed = @ \cup {actions[a]}]
  /\ UNCHANGED <<actions, archive, session, hostVars, fixed, drops>>

\* A second is over.
CommandRested ==
  /\ Linked("live") /\ session.resting # <<>>
  /\ session' = [session EXCEPT !.resting = Tail(@)]
  /\ UNCHANGED <<round, actions, archive, hostVars, fixed, drops>>

DecisionsRested ==
  /\ Linked("live") /\ session.decisionsRest
  /\ session' = [session EXCEPT !.decisionsRest = FALSE]
  /\ UNCHANGED <<round, actions, archive, hostVars, fixed, drops>>

NeedsRested ==
  /\ Linked("live") /\ session.needsRest
  /\ session' = [session EXCEPT !.needsRest = FALSE]
  /\ UNCHANGED <<round, actions, archive, hostVars, fixed, drops>>

-----------------------------------------------------------------------------
\* Connections.

\* The host or its network fails; a host that restarts has lost what it held.
Drop ==
  /\ session # None /\ drops < MaxDrops
  /\ session' = None /\ drops' = drops + 1
  /\ \/ UNCHANGED <<held, told, asked, resets>>
     \/ held' = {} /\ told' = {} /\ asked' = {} /\ resets' = {}
  /\ UNCHANGED <<round, actions, archive, knows, fixed>>

\* hello: a host that names an archived round enters its cleanup, and drops
\* the rest of its work for the round.
Hello ==
  /\ session = None
  /\ session' = Session(IF knows /\ archive.reset THEN "cleanup" ELSE "live")
  /\ IF archive.reset THEN held' = {} /\ told' = {} /\ asked' = {} ELSE UNCHANGED <<held, told, asked>>
  /\ UNCHANGED <<round, actions, archive, resets, knows, fixed, drops>>

\* resetLobby archives the round and closes the sockets.
Reset ==
  /\ round.phase # "lobby"
  /\ round' = [round EXCEPT !.phase = "lobby", !.events = [e \in Ids |-> "unknown"],
                            !.frontier = [s \in Slots |-> 0]]
  /\ archive' = [NoArchive EXCEPT !.reset = TRUE]
  /\ session' = None
  /\ UNCHANGED <<actions, hostVars, fixed, drops>>

-----------------------------------------------------------------------------
\* archivedResetMessage, with the slots whose resets are reported applied.

\* Mutant: the window starts with each message.
WindowAnew(x) == "open"
\* The window opens with the first message.
Window(x) == IF x.window = "unset" THEN "open" ELSE x.window

\* Mutant: who was not yet offered its reset does not count.
PeersDueUnoffered(x, w) == w = "open"
\* There are peers to offer: one that never was, or any within the window.
PeersDue(x, w) == ~(roster \ {HostSlot} \subseteq x.offered \cup x.acked) \/ w = "open"

\* The first n of S, and those after the cursor before those up to it.
Leading(S, n) == {i \in S : Cardinality({j \in S : j < i}) < n}
Ahead(S, cursor, n) ==
  LET after == {i \in S : i > cursor}
  IN  Leading(after, n) \cup Leading(S \ after, n - Cardinality(after))
\* The last of them, in that order.
LastOf(S, cursor) == Max(IF \E i \in S : i <= cursor THEN {i \in S : i <= cursor} ELSE S)

\* Peers that were never offered their reset come before the rotation.
Cleanup(applied) ==
  LET acked == [archive EXCEPT !.acked = @ \cup applied]
      peers == roster \ ({HostSlot} \cup acked.acked)
      window == Window(archive)
      unoffered == peers \ archive.offered
      cursor == IF unoffered # {} THEN -1 ELSE archive.cursor
      offers == Ahead(IF unoffered # {} THEN unoffered ELSE peers, cursor, CommandBatch)
      toPeers == peers # {} /\ PeersDue(acked, window)
  IN  /\ Linked("cleanup")
      /\ IF HostSlot \in applied
         THEN /\ archive' = [acked EXCEPT !.window = window, !.finished = TRUE]
              /\ session' = None
              /\ UNCHANGED <<resets, drops>>
         ELSE /\ archive' = IF toPeers
                THEN [acked EXCEPT !.window = window, !.offered = @ \cup offers, !.cursor = LastOf(offers, cursor)]
                ELSE [acked EXCEPT !.window = window]
              /\ \/ /\ resets' = resets \cup (IF toPeers THEN offers ELSE {HostSlot})
                    /\ UNCHANGED <<session, drops>>
                 \/ /\ drops < MaxDrops /\ drops' = drops + 1
                    /\ session' = None /\ UNCHANGED resets
      /\ UNCHANGED <<round, actions, held, told, asked, knows, fixed>>

CleanupPoll == Cleanup({})
ResetApplied(s) ==
  /\ s \in resets \ archive.acked
  /\ IF s = HostSlot THEN ~knows ELSE s \notin offline
  /\ Cleanup({s})

\* The host applies its own reset and forgets the round.
HostResets ==
  /\ HostSlot \in resets /\ knows
  /\ knows' = FALSE
  /\ UNCHANGED <<round, actions, archive, session, held, told, asked, resets, fixed, drops>>

WindowCloses ==
  /\ archive.window = "open"
  /\ archive' = [archive EXCEPT !.window = "over"]
  /\ UNCHANGED <<round, actions, session, hostVars, fixed, drops>>

-----------------------------------------------------------------------------
Reports ==
  \/ \E i \in DOMAIN round.log, s \in Slots : Receipt(i, s)
  \/ \E s \in Slots, n \in 1..MaxSeq : DecisionReceipt(s, n)
  \/ \E e \in Ids : Upload(e)
Publishes ==
  \/ \E e \in Ids, how \in {"here", "lacked"} : EventComes(e, how)
  \/ \E s \in Slots : NewRole(s)
  \/ \E pushed \in BOOLEAN : Ends(pushed)
  \/ Finals \/ \E a \in Actions : Announce(a) \/ Lapse(a)
Cleans == HostResets \/ \E s \in Slots : ResetApplied(s)

Next ==
  \/ Poll \/ Reports \/ Publishes
  \/ CommandRested \/ DecisionsRested \/ NeedsRested
  \/ Drop \/ Hello \/ Reset
  \/ CleanupPoll \/ Cleans \/ WindowCloses

Spec == Init /\ [][Next]_vars

\* The host polls and reconnects, badges in reach report, seconds pass.
Fairness ==
  /\ WF_vars(Poll) /\ WF_vars(Reports) /\ WF_vars(Hello)
  /\ WF_vars(CommandRested) /\ WF_vars(DecisionsRested) /\ WF_vars(NeedsRested)
  /\ WF_vars(CleanupPoll) /\ WF_vars(Cleans) /\ WF_vars(WindowCloses)

FairSpec == Spec /\ Fairness

-----------------------------------------------------------------------------
\* Properties.

\* What the server still has to deliver to badges that can hear, and to the
\* session itself.
Owed ==
  \/ \E i \in Due(round, IF session = None THEN Session("live") ELSE session) :
       \/ i = 1 /\ Started(round)
       \/ ~(Targets(round.log[i]) \ offline \subseteq round.log[i].acked)
  \/ \E e \in Decisions(round) : Owner(e) \notin offline /\ Upto(Owner(e), MaxSeq) \subseteq Decisions(round)
  \/ \E e \in Missing(round) : Owner(e) \notin offline

\* A badge that hears nothing, with its commands, its decisions and the events
\* it owes, starves none of the others, and every session gets the frozen
\* PREPARE (backend/README.md: "rotating command, decision and missing-event
\* replay so an offline badge cannot starve others"; "Each host connection
\* replays the frozen PREPARE until that session receives the host's
\* readiness/application receipt").
NobodyStarves == []<>~Owed

\* The answers to a repeated announcement only move on: it is not queued again
\* after it expired, and what all badges have applied stays applied through
\* the end of the round and its reset.
StatusMovesOn ==
  [][\A a \in Actions :
       CASE Status(a) \in {"applied", "rejected"} -> Status(a)' = Status(a)
         [] Status(a) = "expired" -> Status(a)' \in {"expired", "applied"}
         [] OTHER -> TRUE]_vars

\* The host gives up its round only after every other badge applied its reset
\* or was sent it and had the time of the window, over lost frames and
\* reconnections ("Give every peer a send opportunity, then allow a bounded
\* retry window").
HostLast ==
  ~knows => \A s \in roster \ {HostSlot} :
              s \in archive.acked \/ (s \in archive.offered /\ archive.window = "over")

\* Badges that never answer do not keep the host from the new lobby ("missing
\* peers cannot hold it or the host's own reset indefinitely").
CleanupEnds == []<>(archive.reset => Linked("live"))
=============================================================================
