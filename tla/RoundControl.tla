---------------------------- MODULE RoundControl ----------------------------
(***************************************************************************)
(* How a round comes to exist and to an end: registration, the freezing of *)
(* the roster, the start of the round and Reset Game.                      *)
(* backend/src/gateway.ts: register, control, prepareImpl, maybeStart,     *)
(* resetLobby; firmware/components/zt_game/game.c: button, host_join,      *)
(* apply_join_result, PREPARE_ROUND and RESET_GAME of process_command;     *)
(* firmware/components/zt_gateway/bridge.c: joins and control.             *)
(*                                                                         *)
(* Pressing A gives a badge a new registration identity (a key).  Its host *)
(* forwards the key to the server by HTTPS and retries until an answer     *)
(* comes; a badge the host already has in its round is answered by the     *)
(* host itself.  Start takes two steps of the server, since the digest of  *)
(* the roster is awaited between reading the lobby and freezing it; every  *)
(* other handler is one step.                                              *)
(*                                                                         *)
(* What was sent is kept: a request, an answer or a command may arrive     *)
(* late, again, or never.  A badge persists a reset before it acts on it;  *)
(* it does nothing else in between, so that is one step here.              *)
(***************************************************************************)
EXTENDS Integers, Sequences, FiniteSets

CONSTANTS
  Badges,
  Host,           \* ZT_HOST_MAC, a badge that plays as well
  Handlers,       \* prepare calls that can be waiting for a digest at once
  MaxPlayers,     \* 20
  HistoryLimit,   \* CONTROL_HISTORY_LIMIT, 512
  MaxKeys,        \* bound on presses of A
  MaxControls,    \* bound on presses of B
  MaxRounds       \* bound on round identities

ASSUME ControlAssumption ==
  /\ Host \in Badges /\ MaxPlayers \in Nat /\ HistoryLimit \in Nat
  /\ MaxKeys \in Nat /\ MaxControls \in Nat /\ MaxRounds \in Nat

Keys     == 1..MaxKeys
Controls == 1..MaxControls
Rounds   == 1..MaxRounds
NoKey     == 0
NoControl == 0
NoRound   == 0
NoSlot    == 0     \* slots are counted from 1 here

VARIABLES
  \* The server.
  meta,           \* gateway_meta
  registrations,  \* gateway_registrations: the slot answered, by key
  archives,       \* gateway_archives
  history,        \* gateway_controls, oldest first
  flights,        \* prepareImpl between its two reads of the lobby
  \* Between badges, host and server.
  owner,          \* the badge that made each key, in order
  joins,          \* keys in the bridge's table that have no answer yet
  replies,        \* answers to keys that reached the host: a slot or none
  presses,        \* host controls requested, in order
  answers,        \* answers to host controls
  receipts,       \* PREPARED_READY receipts
  \* Badges.
  key,            \* join_nonce with the boot nonce: registration_id()
  slot,           \* view.self_slot; NoSlot while not registered
  round,          \* current.round_id
  retired,        \* reset_record.round_id
  halted,         \* A and B do nothing any more: NEXT_ROUND or an error
  asking,         \* the host control that is pending
  \* What happened.
  effects,        \* which controls changed the game, in order
  enlisted        \* which keys were registered, in which lobby

serverVars == <<meta, registrations, archives, history, flights>>
badgeVars == <<key, slot, round, retired, halted, asking>>
controlVars == <<serverVars, owner, joins, replies, presses, answers, receipts,
                 badgeVars, effects, enlisted>>

Slots == 1..MaxPlayers
NoKeys == [b \in Badges |-> NoKey]
Lobby(revision, lobby) ==
  [roster |-> <<>>, ids |-> NoKeys, round |-> NoRound, hash |-> <<>>, ready |-> {},
   started |-> FALSE, ended |-> FALSE, revision |-> revision, lobby |-> lobby]

Idle == [by |-> NoControl, roster |-> <<>>, revision |-> -1]

Init ==
  /\ meta = Lobby(0, 1)
  /\ registrations = [k \in Keys |-> NoSlot]
  /\ archives = {} /\ history = <<>>
  /\ flights = [h \in Handlers |-> Idle]
  /\ owner = <<>> /\ joins = {} /\ replies = {} /\ presses = <<>> /\ answers = {}
  /\ receipts = {}
  /\ key = NoKeys /\ slot = [b \in Badges |-> NoSlot]
  /\ round = [b \in Badges |-> NoRound] /\ retired = [b \in Badges |-> NoRound]
  /\ halted = {} /\ asking = NoControl
  /\ effects = <<>> /\ enlisted = {}

Members(roster) == {roster[i] : i \in DOMAIN roster}
SlotIn(roster, b) == CHOOSE i \in DOMAIN roster : roster[i] = b

\* Round identities are drawn at random; here they are numbered.
UsedRounds == {a.round : a \in archives} \cup ({meta.round} \ {NoRound})
FreshRound == Cardinality(UsedRounds) + 1

-----------------------------------------------------------------------------
\* Registration.

\* button(A) in the lobby.
Press(b) ==
  /\ key[b] = NoKey /\ round[b] = NoRound /\ b \notin halted
  /\ Len(owner) < MaxKeys
  /\ owner' = Append(owner, b)
  /\ key' = [key EXCEPT ![b] = Len(owner) + 1]
  /\ UNCHANGED <<serverVars, joins, replies, presses, answers, receipts, slot, round,
                 retired, halted, asking, effects, enlisted>>

\* join_service and host_join: the host answers a badge of its own round from
\* the roster it has and asks the server about the others and itself, unless
\* the bridge has the answer to that key already.
HostRoster == IF round[Host] = NoRound THEN <<>>
              ELSE IF round[Host] = meta.round THEN meta.roster
              ELSE (CHOOSE a \in archives : a.round = round[Host]).roster

Join(b) ==
  /\ key[b] # NoKey /\ slot[b] = NoSlot
  /\ ~\E r \in replies : r.key = key[b]
  /\ IF b # Host /\ b \in Members(HostRoster)
     THEN /\ replies' = replies \cup {[key |-> key[b], slot |-> SlotIn(HostRoster, b)]}
          /\ UNCHANGED joins
     ELSE joins' = joins \cup {key[b]} /\ UNCHANGED replies
  /\ UNCHANGED <<serverVars, owner, presses, answers, receipts, badgeVars, effects, enlisted>>

Retired(k) == \E a \in archives : a.ids[owner[k]] = k

\* Mutant: a badge already in the lobby is given a second slot.
EnlistTwice(k) ==
  LET b == owner[k]
      roster == Append(meta.roster, b)
  IN  /\ registrations[k] = NoSlot /\ ~Retired(k)
      /\ meta.round = NoRound /\ Len(meta.roster) < MaxPlayers
      /\ meta' = [meta EXCEPT !.roster = roster, !.ids[b] = k, !.revision = @ + 1]
      /\ registrations' = [registrations EXCEPT ![k] = Len(roster)]
      /\ enlisted' = enlisted \cup {[key |-> k, lobby |-> meta.lobby]}

\* register, of a key never seen in this lobby.
Enlist(k) ==
  LET b == owner[k]
      known == b \in Members(meta.roster)
      roster == IF known THEN meta.roster ELSE Append(meta.roster, b)
  IN  /\ registrations[k] = NoSlot
      /\ ~Retired(k)
      /\ known \/ (meta.round = NoRound /\ Len(meta.roster) < MaxPlayers)
      /\ meta' = [meta EXCEPT !.roster = roster, !.ids[b] = k,
                              !.revision = IF known THEN @ ELSE @ + 1]
      /\ registrations' = [registrations EXCEPT ![k] = SlotIn(roster, b)]
      /\ enlisted' = enlisted \cup {[key |-> k, lobby |-> meta.lobby]}

\* register, of a key it has answered already.
Repeat(k) ==
  /\ registrations[k] # NoSlot
  /\ UNCHANGED <<meta, registrations, enlisted>>

\* register: BAD_CONFIGURATION, REGISTRATION_CLOSED or ROOM_FULL.
Refuse(k) ==
  /\ registrations[k] = NoSlot
  /\ \/ Retired(k)
     \/ /\ owner[k] \notin Members(meta.roster)
        /\ meta.round # NoRound \/ Len(meta.roster) >= MaxPlayers
  /\ UNCHANGED <<meta, registrations, enlisted>>

\* joins_service: a lost answer leaves the key in the table, to be sent again.
Register(k, lost) ==
  /\ k \in joins
  /\ Enlist(k) \/ Repeat(k) \/ Refuse(k)
  /\ IF lost THEN UNCHANGED <<joins, replies>>
     ELSE /\ joins' = joins \ {k}
          /\ replies' = replies \cup {[key |-> k, slot |-> registrations'[k]]}
  /\ UNCHANGED <<archives, history, flights, owner, presses, answers, receipts,
                 badgeVars, effects>>

\* apply_join_result.
TakeReply(b, r) ==
  /\ key[b] # NoKey /\ r.key = key[b]
  /\ LET moved == slot[b] # NoSlot /\ round[b] # NoRound /\ r.slot # slot[b] IN
       IF r.slot = NoSlot
       THEN key' = [key EXCEPT ![b] = NoKey] /\ halted' = halted \cup {b} /\ UNCHANGED slot
       ELSE /\ slot' = IF moved THEN slot ELSE [slot EXCEPT ![b] = r.slot]
            /\ halted' = IF moved THEN halted \cup {b} ELSE halted
            /\ UNCHANGED key
  /\ UNCHANGED <<serverVars, owner, joins, replies, presses, answers, receipts, round,
                 retired, asking, effects, enlisted>>

\* The boot policy: a badge that restarts keeps nothing of its game.
Reboot(b) ==
  /\ key[b] # NoKey \/ b \in halted
  /\ Len(owner) < MaxKeys   \* bound
  /\ key' = [key EXCEPT ![b] = NoKey]
  /\ slot' = [slot EXCEPT ![b] = NoSlot]
  /\ round' = [round EXCEPT ![b] = NoRound]
  /\ retired' = [retired EXCEPT ![b] = NoRound]
  /\ halted' = halted \ {b}
  /\ asking' = IF b = Host THEN NoControl ELSE asking
  /\ UNCHANGED <<serverVars, owner, joins, replies, presses, answers, receipts, effects, enlisted>>

-----------------------------------------------------------------------------
\* Reset Game.

ResetLobby ==
  /\ meta.roster # <<>>       \* resetting an empty lobby only moves revision on
  /\ LET r == IF meta.round = NoRound THEN FreshRound ELSE meta.round IN
       /\ r \in Rounds
       /\ archives' = archives \cup
            {[round |-> r, roster |-> meta.roster, ids |-> meta.ids, ended |-> meta.ended,
              frozen |-> meta.round # NoRound]}
  /\ meta' = Lobby(meta.revision + 1, meta.lobby + 1)
  /\ registrations' = [k \in Keys |-> NoSlot]

DashboardReset ==
  /\ ResetLobby
  /\ UNCHANGED <<history, flights, owner, joins, replies, presses, answers, receipts,
                 badgeVars, effects, enlisted>>

\* The RESET_GAME commands an archive keeps for its badges.
ResetCommands ==
  UNION {{[round |-> a.round, badge |-> a.roster[i], slot |-> i, key |-> a.ids[a.roster[i]],
           frozen |-> a.frozen] : i \in DOMAIN a.roster} : a \in archives}

\* Mutant: the command is matched by slot alone.
AppliesBySlot(c, b) ==
  /\ c.badge = b /\ c.round # retired[b]
  /\ key[b] # NoKey /\ slot[b] = c.slot
  /\ round[b] \in {NoRound, c.round}

\* process_command(RESET_GAME), completed(APPLY_RESET) and reset_to_lobby.
Applies(c, b) ==
  /\ c.badge = b /\ c.round # retired[b]
  /\ key[b] # NoKey /\ slot[b] = c.slot
  /\ round[b] \in {NoRound, c.round}
  /\ key[b] = c.key

TakeReset(b, c) ==
  /\ Applies(c, b)
  /\ key' = [key EXCEPT ![b] = NoKey]
  /\ slot' = [slot EXCEPT ![b] = NoSlot]
  /\ round' = [round EXCEPT ![b] = NoRound]
  /\ retired' = [retired EXCEPT ![b] = c.round]
  /\ asking' = IF b = Host THEN NoControl ELSE asking
  /\ UNCHANGED <<serverVars, owner, joins, replies, presses, answers, receipts, halted,
                 effects, enlisted>>

-----------------------------------------------------------------------------
\* Host controls.

Over(r) == (r = meta.round /\ meta.ended) \/ \E a \in archives : a.round = r /\ a.ended

\* button(B) on the host.
PressB ==
  /\ asking = NoControl /\ Host \notin halted /\ Len(presses) < MaxControls
  /\ key[Host] # NoKey /\ slot[Host] # NoSlot
  /\ round[Host] = NoRound \/ Over(round[Host])
  /\ presses' = Append(presses,
       [action |-> IF round[Host] = NoRound THEN "start" ELSE "reset",
        key |-> key[Host], round |-> round[Host], lobby |-> meta.lobby])
  /\ asking' = Len(presses) + 1
  /\ UNCHANGED <<serverVars, owner, joins, replies, answers, receipts, key, slot, round,
                 retired, halted, effects, enlisted>>

Saved(c) == \E i \in DOMAIN history : history[i].id = c
Answer(c, result) == answers' = answers \cup {[id |-> c, result |-> result]}
AnswerSaved(c) == \E i \in DOMAIN history : history[i].id = c /\ Answer(c, history[i].result)

\* saveControl: keep the newest.
Save(c, result) ==
  history' = LET all == Append(history, [id |-> c, result |-> result])
             IN  IF Len(all) > HistoryLimit THEN Tail(all) ELSE all

\* control: a request answered before is answered the same way again.
ControlAgain(c) ==
  /\ Saved(c) /\ AnswerSaved(c)
  /\ UNCHANGED <<serverVars, owner, joins, replies, presses, receipts, badgeVars, effects, enlisted>>

\* Mutant: any registration of the host will do.
HostIsListed(k) == Host \in Members(meta.roster)

HostKeyIs(k) == Host \in Members(meta.roster) /\ meta.ids[Host] = k

\* STALE_REGISTRATION, or any other semantic error.
Refusal(k) == IF HostKeyIs(k) THEN "refused" ELSE "stale"

\* control: refused on the first look at the lobby.
ControlRefused(c) ==
  LET p == presses[c] IN
  /\ ~Saved(c)
  /\ \/ ~HostKeyIs(p.key)
     \/ p.action = "reset" /\ (meta.round # p.round \/ ~meta.ended)
     \/ p.action = "start" /\ (meta.round # NoRound \/ Len(meta.roster) < 2)
  /\ Save(c, Refusal(p.key)) /\ Answer(c, Refusal(p.key))
  /\ UNCHANGED <<meta, registrations, archives, flights, owner, joins, replies, presses,
                 receipts, badgeVars, effects, enlisted>>

ControlReset(c) ==
  LET p == presses[c] IN
  /\ ~Saved(c) /\ p.action = "reset"
  /\ HostKeyIs(p.key) /\ meta.round = p.round /\ meta.ended
  /\ ResetLobby
  /\ Save(c, "accepted") /\ Answer(c, "accepted")
  /\ effects' = Append(effects, [id |-> c, lobby |-> meta.lobby])
  /\ UNCHANGED <<flights, owner, joins, replies, presses, receipts, badgeVars, enlisted>>

\* prepareImpl up to the await, for a host control or the dashboard.  (The host
\* being off line is a 503, which is not saved: as if the request were lost.)
Begin(h, c) ==
  /\ flights[h] = Idle
  /\ meta.round = NoRound
  /\ Len(meta.roster) >= 2 /\ Host \in Members(meta.roster)
  /\ c # NoControl => /\ ~Saved(c) /\ presses[c].action = "start"
                      /\ HostKeyIs(presses[c].key)
  /\ flights' = [flights EXCEPT ![h] =
       [by |-> c, roster |-> meta.roster, revision |-> meta.revision]]
  /\ UNCHANGED <<meta, registrations, archives, history, owner, joins, replies, presses,
                 answers, receipts, badgeVars, effects, enlisted>>

\* Mutant: the lobby may have changed.
FitsAnyRevision(f) ==
  /\ f.by # NoControl => HostKeyIs(presses[f.by].key)
  /\ meta.round = NoRound

Fits(f) ==
  /\ f.by # NoControl => HostKeyIs(presses[f.by].key)
  /\ meta.round = NoRound
  /\ meta.revision = f.revision

Landed(h) == flights' = [flights EXCEPT ![h] = Idle]

\* After the await: freeze the lobby and save the answer in one transaction.
\* A control saved meanwhile makes the transaction fail.
Prepare(h) ==
  LET f == flights[h] IN
  /\ f # Idle /\ Fits(f) /\ ~Saved(f.by)
  /\ FreshRound \in Rounds
  /\ meta' = [meta EXCEPT !.round = FreshRound, !.hash = f.roster, !.revision = @ + 1]
  /\ IF f.by = NoControl THEN UNCHANGED <<history, answers, effects>>
     ELSE /\ Save(f.by, "accepted") /\ Answer(f.by, "accepted")
          /\ effects' = Append(effects, [id |-> f.by, lobby |-> meta.lobby])
  /\ Landed(h)
  /\ UNCHANGED <<registrations, archives, owner, joins, replies, presses, receipts,
                 badgeVars, enlisted>>

\* Mutant: a repeated control is answered without a second look at history.
PrepareFailsBlind(h) ==
  LET f == flights[h] IN
  /\ f # Idle /\ ~Fits(f)
  /\ IF f.by = NoControl THEN UNCHANGED <<history, answers>>
     ELSE LET result == Refusal(presses[f.by].key)
          IN  Save(f.by, result) /\ Answer(f.by, result)
  /\ Landed(h)
  /\ UNCHANGED <<meta, registrations, archives, owner, joins, replies, presses, receipts,
                 badgeVars, effects, enlisted>>

\* After the await: the lobby is no longer the one that was digested.
PrepareFails(h) ==
  LET f == flights[h] IN
  /\ f # Idle /\ (~Fits(f) \/ Saved(f.by))
  /\ CASE f.by = NoControl -> UNCHANGED <<history, answers>>
       [] f.by # NoControl /\ Saved(f.by) -> AnswerSaved(f.by) /\ UNCHANGED history
       [] OTHER -> LET result == Refusal(presses[f.by].key)
                   IN  Save(f.by, result) /\ Answer(f.by, result)
  /\ Landed(h)
  /\ UNCHANGED <<meta, registrations, archives, owner, joins, replies, presses, receipts,
                 badgeVars, effects, enlisted>>

\* process_input(IN_CONTROL_RESULT): a refused host in the lobby starts over.
TakeAnswer(a) ==
  /\ asking = a.id /\ a.result # "accepted"
  /\ asking' = NoControl
  /\ IF a.result = "stale" /\ round[Host] = NoRound
     THEN key' = [key EXCEPT ![Host] = NoKey] /\ slot' = [slot EXCEPT ![Host] = NoSlot]
     ELSE UNCHANGED <<key, slot>>
  /\ UNCHANGED <<serverVars, owner, joins, replies, presses, answers, receipts, round,
                 retired, halted, effects, enlisted>>

-----------------------------------------------------------------------------
\* The round.

\* A round as the badges learn of it: PREPARE_ROUND and its snapshot.
Published ==
  {[round |-> a.round, roster |-> a.roster] : a \in {x \in archives : x.frozen}}
  \cup (IF meta.round = NoRound THEN {}
        ELSE {[round |-> meta.round, roster |-> meta.roster]})

\* process_command(PREPARE_ROUND), completed(APPLY_CHECKPOINT).
TakePrepare(b, p) ==
  /\ key[b] # NoKey /\ slot[b] \in DOMAIN p.roster /\ p.roster[slot[b]] = b
  /\ p.round # retired[b]
  /\ round[b] \in {NoRound, p.round} \/ Over(round[b])
  /\ round' = [round EXCEPT ![b] = p.round]
  /\ receipts' = receipts \cup {[round |-> p.round, slot |-> slot[b], badge |-> b]}
  /\ asking' = IF b = Host /\ asking # NoControl /\ presses[asking].action = "start"
               THEN NoControl ELSE asking
  /\ UNCHANGED <<serverVars, owner, joins, replies, presses, answers, key, slot, retired,
                 halted, effects, enlisted>>

\* Mutant: the first badge that is ready starts the round.
AckReadyAlone(r) ==
  /\ meta.round # NoRound /\ r.round = meta.round /\ r.slot \notin meta.ready
  /\ meta' = [meta EXCEPT !.ready = @ \cup {r.slot}, !.started = TRUE]
  /\ UNCHANGED <<registrations, archives, history, flights, owner, joins, replies, presses,
                 answers, receipts, badgeVars, effects, enlisted>>

\* Mutant: the last receipt does not start it.
AckReadyOnly(r) ==
  /\ meta.round # NoRound /\ r.round = meta.round /\ r.slot \notin meta.ready
  /\ meta' = [meta EXCEPT !.ready = @ \cup {r.slot}]
  /\ UNCHANGED <<registrations, archives, history, flights, owner, joins, replies, presses,
                 answers, receipts, badgeVars, effects, enlisted>>

\* message("ack") with a PREPARED_READY receipt, and maybeStart.
AckReady(r) ==
  /\ meta.round # NoRound /\ r.round = meta.round /\ r.slot \notin meta.ready
  /\ LET ready == meta.ready \cup {r.slot} IN
       meta' = [meta EXCEPT !.ready = ready,
                  !.started = @ \/ DOMAIN meta.roster \subseteq ready,
                  !.revision = IF ~meta.started /\ DOMAIN meta.roster \subseteq ready
                               THEN @ + 1 ELSE @]
  /\ UNCHANGED <<registrations, archives, history, flights, owner, joins, replies, presses,
                 answers, receipts, badgeVars, effects, enlisted>>

\* finishIfDue (module Evidence): the round has a winner.
Finish ==
  /\ meta.started /\ ~meta.ended
  /\ meta' = [meta EXCEPT !.ended = TRUE, !.revision = @ + 1]
  /\ UNCHANGED <<registrations, archives, history, flights, owner, joins, replies, presses,
                 answers, receipts, badgeVars, effects, enlisted>>

-----------------------------------------------------------------------------
Requested == DOMAIN presses

Next ==
  \/ \E b \in Badges :
       \/ Press(b) \/ Join(b) \/ Reboot(b)
       \/ \E r \in replies : TakeReply(b, r)
       \/ \E c \in ResetCommands : TakeReset(b, c)
       \/ \E p \in Published : TakePrepare(b, p)
  \/ \E k \in Keys, lost \in BOOLEAN : Register(k, lost)
  \/ PressB \/ DashboardReset \/ Finish
  \/ \E c \in Requested : ControlAgain(c) \/ ControlRefused(c) \/ ControlReset(c)
  \/ \E h \in Handlers :
       \/ \E c \in Requested \cup {NoControl} : Begin(h, c)
       \/ Prepare(h) \/ PrepareFails(h)
  \/ \E a \in answers : TakeAnswer(a)
  \/ \E r \in receipts : AckReady(r)

Spec == Init /\ [][Next]_controlVars

\* Players who restarted press A again, the bridge and the badges retry until
\* they are answered, replay repeats PREPARE_ROUND, and a digest completes.
Retries ==
  /\ \A b \in Badges :
       /\ WF_controlVars(Press(b)) /\ WF_controlVars(Join(b))
       /\ WF_controlVars(\E r \in replies : r.slot # slot[b] /\ TakeReply(b, r))
       /\ WF_controlVars(\E p \in Published : p.round # round[b] /\ TakePrepare(b, p))
  /\ \A k \in Keys : WF_controlVars(Register(k, FALSE))
  /\ \A h \in Handlers : WF_controlVars(Prepare(h) \/ PrepareFails(h))
  /\ WF_controlVars(\E r \in receipts : AckReady(r))

FairSpec == Spec /\ Retries

-----------------------------------------------------------------------------
TypeOK ==
  /\ meta \in [roster: Seq(Badges), ids: [Badges -> {NoKey} \cup Keys],
               round: {NoRound} \cup Rounds, hash: Seq(Badges), ready: SUBSET Slots,
               started: BOOLEAN, ended: BOOLEAN, revision: Nat, lobby: Nat]
  /\ Len(meta.roster) <= MaxPlayers
  /\ registrations \in [Keys -> {NoSlot} \cup Slots]
  /\ \A a \in archives : a.round \in Rounds /\ a.roster \in Seq(Badges)
  /\ Len(history) <= HistoryLimit
  /\ owner \in Seq(Badges) /\ joins \subseteq Keys
  /\ key \in [Badges -> {NoKey} \cup Keys] /\ slot \in [Badges -> {NoSlot} \cup Slots]
  /\ round \in [Badges -> {NoRound} \cup Rounds]
  /\ retired \in [Badges -> {NoRound} \cup Rounds]
  /\ halted \subseteq Badges /\ asking \in {NoControl} \cup Controls

\* The roster a round is played with is the one whose digest the badges are
\* given, although the lobby may change while the digest is computed and two
\* calls may be computing it at once.
DigestIsRoster == meta.round # NoRound => meta.hash = meta.roster

\* No badge has two slots, and the slot a badge was given is its slot in the
\* roster for as long as that lobby lasts.
SlotsStand ==
  /\ \A i, j \in DOMAIN meta.roster : meta.roster[i] = meta.roster[j] => i = j
  /\ \A k \in Keys : registrations[k] # NoSlot =>
       /\ registrations[k] \in DOMAIN meta.roster
       /\ meta.roster[registrations[k]] = owner[k]

\* The round starts only when each badge of the roster, itself, has reported
\* from its own slot that it holds this round.
StartsTogether ==
  meta.started => \A i \in DOMAIN meta.roster :
    [round |-> meta.round, slot |-> i, badge |-> meta.roster[i]] \in receipts

\* A host control is told the truth, however often it is repeated and whatever
\* ran during its digest: it is answered "accepted" if and only if it changed
\* the game.  The history must have room for every control there was: one whose
\* answer was dropped is judged again, and its answer is another.
Told ==
  Len(presses) <= HistoryLimit =>
    \A a \in answers :
      a.result = "accepted" <=> \E i \in DOMAIN effects : effects[i].id = a.id

\* A host control changes the game at most once, and only in the lobby it was
\* pressed in, also after its answer has left the bounded history.
ActsOnce ==
  /\ \A i, j \in DOMAIN effects : effects[i].id = effects[j].id => i = j
  /\ \A i \in DOMAIN effects : effects[i].lobby = presses[effects[i].id].lobby

\* A cleanup command that comes late never clears a badge that has registered
\* again: no badge is reset that the lobby of the moment knows by its key.
ResetSparesNewcomers ==
  [][\A b \in Badges : retired'[b] \notin {retired[b], NoRound} =>
       ~(b \in Members(meta.roster) /\ meta.ids[b] = key[b])]_controlVars

\* A key that was registered in one lobby is never accepted in a later one.
NoGhost == \A e, f \in enlisted : e.key = f.key => e.lobby = f.lobby

\* The reset of a round applies to every badge that still is in that round.
ResetReaches ==
  \A c \in ResetCommands :
    c.frozen /\ round[c.badge] = c.round => Applies(c, c.badge)

\* A frozen lobby always gets under way: each badge of its roster ends up in the
\* round, whoever restarts before it was ready, unless the game is reset.
Starts == meta.round # NoRound ~> meta.started \/ meta.round = NoRound
=============================================================================
