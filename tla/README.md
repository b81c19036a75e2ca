# Trojan Badge: a TLA+ verification project

The repository is a game of zombie tag played with radio badges.  A round is
prepared and started by a server (a Cloudflare Durable Object); the badges play
it among themselves with no server in reach, writing each infection to flash;
the evidence travels by radio mesh to one badge, the host, which has a network,
and from there to the server, which decides afterwards who was really infected
and who won.  Almost everything that is difficult follows from that: the badges
act first and the server judges later, on evidence that arrives late, out of
order, more than once, and from badges that restart; what it decided has to find
its way back; and people watch all of it on a live page that must not lie.

This directory holds TLA+ models of the parts where that matters, the TLC
configurations that check them on small instances, and proofs that the TLA+
proof system checks for every instance.  `PROJECT.json` lists the components,
runs, mutants, hazards, findings and theorems, and maps every definition to the
source lines it translates.

## The system

| Component | Source | State | Operations |
|---|---|---|---|
| Evidence adjudication | `backend/src/gateway.ts` `ingest`, `eventDecision`, `settleEvents`, `finishIfDue`, `message("ack")` | event rows, roles, role history, the round's end, close receipts, decision frontiers, the published snapshot | store a batch, settle rows, finish the round, take receipts |
| Lobby, registration, controls | `gateway.ts` `register`, `control`, `prepareImpl`, `maybeStart`, `resetLobby` | roster, registration answers, control history, archives | enlist, freeze, start, reset |
| Command replay | `gateway.ts` `replay`, `message` (acks, hellos) | the attachment of the host's socket: cursors, rests, turn; command rows and who acknowledged them | send commands, decisions and requests for events in turn |
| Announcements | `gateway.ts` `sendDirectorAnnouncement`, `directorAnnouncementResult` | action rows | queue once, expire, answer |
| Reset cleanup | `gateway.ts` `archivedResetMessage` | the archive's receipts, offers, cursor and window | offer, acknowledge, give up |
| Director | `backend/src/outbreak-director.ts` | latest observation, pending wake-up, active run, follow-ups, budgets | observe, wake, run, call a tool, switch off |
| Game room | `backend/src/game-room.ts`, `index.ts` | population, game record, players, sockets, alarm | routes, device and dashboard sockets, alarm, constructor, reset |
| Live page | `frontend/src/App.tsx`, `components/PopulationState.tsx` | socket, poll, timers, the state on display, the connection mark | connect, receive, poll, reset |
| Director panel | `frontend/src/components/OutbreakDirector.tsx` | the poll chain, the switch, the status on display | poll, switch, give up |
| Badge game engine | `firmware/components/zt_game/game.c` | role entries, journal counters, the pending write, phase, result, host tables | tag, be tagged, take commands and decisions, close |
| Store | `firmware/components/zt_store/store.c` | two flash regions: checkpoint, journal, decisions, reset record | install, append, reset, recover |
| Host bridge | `firmware/components/zt_gateway/bridge.c` | command table, receipts, registrations and controls under way | forward in both directions, retry |
| Mesh, channel | `firmware/components/zt_radio/` | custody of messages, the channel in use | relay, store and forward, search |
| Console and operations, display | `zt_console`, `zt_ops`, `zt_ui`, `zt_hal`, `zt_demo` | confirmation of an operation | local |
| Tools | `tools/` | none of the game's | serial port utilities |

How they interact: a badge floods an event; relays keep it; the host's bridge
uploads it in batches; the server stores and settles it, and the decision and
the role that follow travel back as commands through replay, bridge, mesh and
badge, until receipts for them have travelled the other way.  Every change is
copied into the tables of the older demo, from which the room pushes a frame to
the dashboards; a page shows the frames and polls as well.  Registration is the
only operation of a badge that reaches the server directly (by the host's
HTTPS); Start and Reset are pressed on the host or on the page.

What is hard about it is listed under `hazards` in `PROJECT.json`, each at its
line: arrival order, results that change after the countdown, roles and verdicts
that cross, an `await` in the middle of starting a round, keys that outlive the
lobby they were made for, restarts that forget, replay in bounded frames to
badges that never answer, two writers of the same tables, and answers that
arrive after a newer push.

## Modules

| Module | Models | Extended by |
|---|---|---|
| `Infection` | abstract: what a round promises its players | `Evidence` (INSTANCE), `InfectionProofs` |
| `Evidence` | the server during a started round | `MCEvidence`, `EvidenceProofs`, `Outbreak` |
| `Outbreak` | badges playing a round against `Evidence` | `MCOutbreak`, `OutbreakProofs` |
| `RoundControl` | from registration to start and reset, server, bridge and badges together | `MCRoundControl`, `MCReset`, `RoundControlProofs` |
| `Delivery` | replay, announcements, and the cleanup of a reset round | `MCDelivery`, `DeliveryProofs` |
| `Director` | the agent that lets a language model comment on the game | `MCDirector`, `DirectorProofs` |
| `Feed` | abstract: what the server promises a dashboard | `GameRoom` (INSTANCE) |
| `GameRoom` | the room's tables with their two writers, pushes, devices, alarm | `MCDashboards`, `RoomProofs` |
| `Dashboard` | the live page's socket, polls and reset, over what `Feed` promises | `MCDashboards`, `DashboardProofs` |
| `Panel` | the page's panel of the director | `MCDashboards`, `DashboardProofs` |

The `MC` modules give the constants their values and cut a module into scenes;
the `Proofs` modules hold the theorems.

### Evidence and Infection

State is named after the tables: `body` and `status` are the columns of
`gateway_events`, `role` is `gateway_roles`, `history` `gateway_role_history`,
`end` is `m.phase` with `m.end`, `closed` is `m.closed`, `decisionAcks` and
`conflicts` are the tables of those names, `snapshot` is what `saveSnapshot` and
`syncPopulation` wrote last, `endCommands` the END_ROUND and FINAL_RESULT
commands in order.  A Durable Object runs a handler without interruption unless
it awaits, and these do not before they commit, so a handler is one step.  The
one exception is made for the reader's sake: the loop of `settleEvents` is
unrolled into one `SettleRow` per row and a `SettleDone`, and `settling` keeps
everything else out while it runs.  The code visits rows by victim and sequence;
the model visits them in any order, so what is shown does not depend on the
query's ORDER BY.  `Reach` and `Cyclic` are the depth-first walk that looks for
cycles in what the events say of each other.

`Infection` is the game as a player would tell it: the infected infect who is
not, nobody is cured or infected twice, the round ends, may be judged again, and
is final.  `Infections` maps `Evidence` to it, the tagger of a badge being the
actor of the event that is the cause of its role, and the verdict the round's
end; a run checks it and a theorem proves it.

Abstracted: reasons of rejections, names and text; both signal strengths and the
boot nonce's validity are the field `heard`; the boot nonce and attempt number
are one number.  Revisions are natural numbers: the code refuses to pass 65535
and 2^32, which the events of a round cannot reach.

### Outbreak

Each badge has its role entry (`card`), the entry it holds back because it does
not cover its latest event (`held`), its journal (`log`), the infection being
written (`writing`), the verdicts it has heard (`verdicts`), its phase, whether
it has closed, and the result it shows.  `Offer`, `AcceptRequest`,
`EventWritten`, `WriteFailed` are `attempt`, `accept_request` and the two
outcomes of `completed(APPLY_EVENT)`; `TakeDecision`, `TakeRole`, `TakeEnd`,
`TakeFinal` what `decision`, `merge_role` and `process_command` do with what
comes back; `Expire` and `Close` are in `timers`.  A badge's clock reads any
value within `Skew` of the server's and claims to be right within
`Uncertainty`: with `Skew <= Uncertainty` the clocks are honest.

Radio custody is left out on purpose.  Whatever a badge ever flooded may be
uploaded at any later time, again and again; whatever the server has decided may
be delivered to its badge at any later time.  Every order the mesh, the bridge
or the replay can produce is among these.

### RoundControl

Keys are the registration identities a badge draws when A is pressed, numbered
in the order they are drawn.  `joins` and `replies` are the bridge's table of
registrations, `history` the table of control answers with its limit, `flights`
the calls of `prepareImpl` that wait for the digest.  What was sent is kept, so
a request, answer or command may arrive late, again or never.  `effects` and
`enlisted` record what happened, for the properties alone.

Abstracted: the snapshot that carries the roster with PREPARE_ROUND; the check
of `known_round_id` in `register`; answers that are not saved (503 when the host
is off line) count as a lost request.  A refused badge goes to NEXT_ROUND, where
A does nothing until it restarts (`halted`).

### Delivery

`session` is the attachment of the host's welcomed socket: whose turn it is
(commands, decisions, requests), the cursors behind which the next batch begins,
what rests after it was sent, whether the frozen PREPARE was seen in this
session.  `round` is what there is to deliver: the log of commands with their
receipts, the events that are here, decided or lacked, and the announcements
that lapsed.  One `Poll` is one message of the host and the frame that answers
it, with the receipts the message carried; `Reports` are what badges in reach
apply; `Drop` and `Hello` end a session and begin the next with nothing
remembered.  After `Reset` the host comes back with its old round and is led
through `archive`: resets are offered to the others in rotation, the window
closes when every one was offered and its time is up, and only then the host is
told to give up its own round.

Commands, decisions and requests rest a second after they were sent; the model
lets what has rested longest come free at any time.  What is appended to the log
and which events are lacked is free within `Evidence`'s order of phases.
Batches are smaller than the code's four and eight, so that a batch is full.

Abstracted: one session at a time (messages still queued on a socket that a
newer hello closed are ignored, `gateway.ts:912`); the host's eight command
slots and the bridge's queue are one set `held`; snapshot pages, `need` by
identity and `time_sync`, which only read; the reasons for which an announcement
is refused (text, spacing, a full outbox, an old revision) are one
nondeterministic refusal; an archive is that of a played round.

### Director

`agent` is the agent's durable state with its schedules and the calls that wait;
an operator on that record does what the code does between two awaits, and the
actions choose which call goes on, which schedule fires, what the room answers
and whether the model calls a tool.  `calls` is a bag, since two calls may wait at the
same place.  A waiting call remembers what the code holds in local variables
across the await: the snapshot and step of a run, the wake-up it is to replace,
the control revision it started under.

Outside `src/` is the library that keeps schedules: inserting one that is
already there changes nothing (`idempotent: true`), a schedule fires at some
moment after it is due, and two may be under way at once (the guard at
`outbreak-director.ts:146` provides for it).  What an announcement and a recap
do to the room and the log is left out: to the director's own state both are a
tool that returns.  The two settings of the environment are taken as given, as
the docs have them for the release.

### GameRoom and Feed

The tables `population`, `meta` and `players` have two writers.  While nobody is
registered the legacy routes own them; from the first registration on the
gateway copies its roles and its result into them (`Synced`, for
`syncPopulation`), while leftover rows of the older game stay.  A handler
has no await between its writes and its push, so each is one step, push
included: `Broadcast` sends the frame that a read would answer to every open
dashboard, `DeviceEvent` and its kin are the routes and device messages,
`HostLink` the hello and close of the host's socket, `Alarm` the alarm,
`Recover` the constructor after a crash, which loses sockets and sets the alarm
that a crash between the start's transaction and `setAlarm` has lost.  The
gateway's own life is the least that decides what is written: a roster, a start,
zombies, an end that may change its winner and become final.

`Feed` is the promise of `backend/README.md`: the full state on connect and
after every mutation.  `Feeds` says that `GameRoom` keeps it.

Abstracted: fields that change with the clock alone; what a frame holds beyond
what a reader could act on; starting the round from the host's control (it is in
`RoundControl`; `Prepare` is POST `/start-game`).  A frame from the host that
cannot be parsed closes its socket with 1003 or 1009, and `webSocketError` does
not push: in both cases `host_connected` changes only with the close that
follows, which pushes.

### Dashboard and Panel

`Dashboard` is the page over what `Feed` promises: states are numbered in the
order in which the room took them, `pushed` are the frames under way on the
socket, `poll` the HTTP request with the state it read, `fresh` the comparison
of `updateSequence` with its value when the request began.  A socket may be
open, waiting for its two-second timer, connecting, or dead without the browser
knowing; requests fail when the backend is out of reach.  `PopulationState` and
`App` each keep a state (`page`, `app`), as in the code.

`Panel` is the chain of polls, each of which starts the next, and the switch,
which aborts the poll and asks in between; a switch that was given up may still
be served later (`late`).

Left out: the countdown's clock, the time `App` freezes for servers without
`ended_at`, the status line of a start, the mark for answers older than 20 s
(it only locks the switch), drawing.

## What the runs check

Bounds are CONSTANTS of the modules, and every bound on an otherwise unbounded
counter is named: MaxNow (the clock), MaxAttempts and MaxReboots (infections and
reboots of all badges together), MaxKeys, MaxControls, MaxRounds, MaxCrashes,
MaxUpsets (the switch's uses and the restarts together), MaxCalls (calls of the
director that wait when another begins), MaxSeq (infections of a badge), MaxLog
(commands), MaxDrops (lost connections), MaxCount (legacy players added by
count), MaxState and MaxFailures (the page), MaxStatus and MaxOutages (the
panel).  Only `control_start`, which asks for invariants alone, uses symmetry: of
the calls that wait for a digest, which are names, and of the badges other than
the host, which differ only in what they did (slots are given in the order of
registration).

| Run | Instance | Shows |
|---|---|---|
| `evidence` | three badges, two scenes: a chain, a second report, a second body and a cycle, uploaded two at a time, room for five rows; and events that name each other, a stranger, a reused attempt, gaps, false frontiers and a receipt that says too little, one at a time, around the end of the countdown; with fairness | the refinement of `Infection`, ancestry, single infection, frontier, progress, snapshot, result, decisions that stick, frontiers believed only when decided; the round ends without any host |
| `outbreak_true_clocks` | three badges, correct clocks, two infections | nothing a badge did honestly is rejected; no infection on flash is lost; a badge shows a final result only when the server has it |
| `outbreak_skewed_clocks` | two badges whose clocks are worse than they say; one of them may forget its journal in the round | badge and server agree although infections are rejected and repeated, and an infection that stands is kept |
| `outbreak_converges` | the same with one infection and without reboots, with fairness | final everywhere, roles as the server has them |
| `outbreak_identity` | a badge that reboots in the round | violated: see Findings |
| `control_start` | three badges, three keys (all register, or two and one of them again after a restart), two digests under way, one round | the frozen roster is the digested one; every control is told what it did |
| `control_reset` | two scenes: resets, late commands, two rounds and no memory of answered controls; and restarts before the round is ready, with a key left for every badge and with fairness | slots stand, a round starts with all its badges, controls act once, newcomers are spared; a frozen lobby starts |
| `control_ghost`, `control_reach` | two badges, three keys | violated: see Findings |
| `delivery` | a host with one or four badges, some out of reach, five scenes: commands, results, events, an announcement through the end of the round and its reset, the cleanup; one lost connection; with fairness | nobody in reach is starved, answers about an announcement only move on, the host gives its round up last, and does |
| `director` | a round, its end, the next round; four seconds with a cooldown of two; three calls at once; notices late and repeated; two uses of the switch, or one and a restart | budgets, cooldown, follow-ups of the present round and switch, no wake-up lost |
| `dashboards` | three scenes: a host and a badge with legacy reports, a gateway game, crashes and resets, one dashboard; a page with three states and two failures; a panel with five statuses and two outages; page and panel with fairness | the refinement of `Feed`, one count, one way, over is heard, rounds have their alarm; page and panel move forward and end up right |

Why the bounds are enough to be of interest: three badges are needed for a chain
and for a cycle that is not an exchange; two events of one victim for gaps,
second reports and reinfection; a batch of two for a conflict within a batch;
two rounds for anything stale; three keys for one badge that restarts twice or
two of which one does; a history of no answers for the worst eviction; for the
director a switch that goes off and on while a call waits, a day that ends
between two runs, and limits of two requests a round and three a day, which
both bind.  For delivery, more commands than a batch holds, so that rotation
matters; four badges to reset with three in a batch; a connection lost in every
scene where the next session's empty memory could hurt.  For the room, two
devices of which one is the host, so that the gateway's copy and the legacy rows
overlap, and a clock that reaches the deadline.  For the page, a state pushed
while a poll is under way and another after it, an outage while a socket is dead;
for the panel, a switch, its late effect and another operator's.

The scenes of an `MC` module share a module's definitions and differ in the
inputs allowed; a scene is fixed at the start, and liveness is asked for in the
scene it belongs to.  `LiveStarts` is asked for without resets, because of
finding 2: a ghost key in a lobby belongs to a badge that never becomes ready.
The three parts of `dashboards` share no state, so what one does is
checked beside the other two standing still.

Runs in which the system may stop say CHECK_DEADLOCK FALSE: a game that nobody
plays on, and whose clock has reached MaxNow, is over.

Every property of a passing run has a mutant in `PROJECT.json`: a plausible slip
in the code (a dropped guard, a missed update, an off-by-one) that the run's own
configuration finds.

### Fairness

`Evidence!Fairness`: a handler that has begun runs to its end; the alarm set by
`startRound` fires and runs `finishIfDue`; time passes.  Strong fairness of the
clock is needed only because the clock stands still while a handler runs.
`Outbreak!Delivery`: the host uploads undecided evidence again and again
(`events_service` sends what is not received, every two seconds), the server
repeats commands and decisions until receipts come back (`replay`; that it
starves nobody is what `NobodyStarves` shows), the badge's timers run.
Deliveries need strong fairness since each may find the server or the badge's
persistence task busy.  `RoundControl!Retries`: players whose badge restarted
press A again; the badge repeats JOIN, the bridge repeats the registration, the
server repeats PREPARE_ROUND; a digest completes.  `Delivery!Fairness`: the host
polls and reconnects (its tick and its reconnect timer), badges in reach report,
rests and the window end as seconds pass; connections lost are bounded by
MaxDrops.  `DashboardFairness`, `PanelFairness`: timers fire and requests are
answered or fail; outages, the room and the operators do as they like, and what
is promised is promised of a backend that is reachable for good (or for good
out of reach).

## What is proved

Theorems hold for every value of the constants that satisfies the modules'
assumptions; TLC evaluates these assumptions in the runs.

| Module | Theorem | States |
|---|---|---|
| `EvidenceProofs` | `TypeCorrect` | `TypeOK` |
| | `TreeAlways` | `InfectionTree` |
| | `OnceAlways` | `OneInfectionEach` |
| | `FrontierAlways` | `Frontier` |
| | `DecisionsAlwaysStick` | `DecisionsStick` |
| | `FinalAlwaysFinal` | `FinalIsFinal` |
| | `RevisionsAlwaysIdentify` | `RevisionsIdentifyRoles` |
| | `SnapshotAlwaysCurrent` | `SnapshotCurrent` |
| | `ResultAlwaysAgrees` | `ResultAgrees` |
| | `NoNeedlessWaitAlways` | `NoNeedlessWait` |
| | `AckedIsDecided` | `AckedDecided` |
| `InfectionProofs` | `EvidenceImplements` | `Infections`: `Evidence` implements `Infection` |
| | `AncestryAlways` | `Ancestry` |
| `OutbreakProofs` | `OutbreakImplements` | `Infections`: badges and server together implement `Infection` |
| | `ServerStaysRight` | `InfectionTree`, `Ancestry`, `OneInfectionEach`, `Frontier`, `SnapshotCurrent` of the server the badges play against |
| | `CardsAlwaysAgree` | `CardAgrees` |
| | `InfectionsAreKept` | `InfectionKept` |
| | `FinalIsTheServers` | `FinalShown` |
| | `NothingIsLost` | `NothingLost`, until a badge reboots |
| | `HonestAlwaysHold` | `HonestEventsHold`, with true clocks and until a badge reboots |
| | `OutbreakTypes` | `OutbreakTypeOK` |
| `RoundControlProofs` | `DigestStands` | `DigestIsRoster` |
| | `SlotsAreKept` | `SlotsStand` |
| | `StartIsTogether` | `StartsTogether` |
| | `NewcomersAreSpared` | `ResetSparesNewcomers` |
| | `ControlsAreTold` | `Told` |
| | `ControlsActOnce` | `ActsOnce` |
| `DeliveryProofs` | `AnswersMoveOn` | `StatusMovesOn` |
| | `HostIsLast` | `HostLast` |
| `DirectorProofs` | `BudgetIsKept` | `BudgetHolds` |
| | `FollowUpsStayCurrent` | `FollowUpsCurrent` |
| | `NoWakeIsLost` | `NoLostWake` |
| | `RunsAreSpaced` | `Spaced` |
| `RoomProofs` | `RoomKeepsPromise` | `Feeds`: `GameRoom` implements `Feed` |
| | `OverIsHeard` | `OverHeard` |
| | `TablesAgree` | `OneCount` |
| | `RoundsEnd` | `Armed` |
| | `GamesGoOneWay` | `OneWay` |
| `DashboardProofs` | `DashboardTypes`, `PageMovesForward` | `DashboardTypeOK`, `Forward` |
| | `PanelNeverOlder` | `NeverOlder` |

With these every safety property of a passing run, invariant or action property,
is a theorem.  `TypeOK`, `InfectionTree`, `FinalIsFinal` and
`RevisionsIdentifyRoles` of `Evidence`, `OutbreakTypeOK` and `DashboardTypeOK`
are proved and not asked of TLC again.

**Assumed of the constants.**  Evidence: the roster is a finite set of slots
that contains patient zero, bodies and receipts are well formed, the sentinels
are not bodies or numbers.  RoundControl: the host is a badge.  Delivery: slots
are numbers and the host's is one.  Director: the limits and delays are numbers,
a day is not empty, `None` is no number and no record of a run, and a round that
is over does not return, since identities of rounds are drawn at random.
GameRoom: the host is a player, `None` is not a value, and the clock may move.
Dashboard and Panel: bounds are numbers, sentinels are not states.

Outbreak needs nothing beyond numbers, except for `HonestAlwaysHold`, which is
about clocks that deserve it (`TrueClocks`: no clock is further off than badges
say, and they say no more than the server allows).  It and `NothingIsLost` are
stated until the first reboot in the round, because finding 1 is what comes
after it: a rebooted badge numbers its infections anew, and the server then
rejects one that was honest, or counts a journal that has forgotten some.  The
runs bound reboots by 0 for these two; the theorems say what the badges must
have done instead.

**The arguments.**

*Evidence.*  `TypeInv` adds to the types that a row with a body sits under the
identity the body states and that rows without one have no status; without it a
settled row could belong to somebody else.  On top of it `TreeInv` joins the
tree, the frontier and the single infection, because none is inductive alone: a
row is accepted only if the victim is human, hence has no accepted row (tree),
hence the row is its first (single infection); its actor is a zombie by the
cause it names, which is patient zero's or an accepted row of the actor, hence
the tree grows by a leaf; and `covered_seq` moves to the row just decided, which
is the next one (frontier).  Steps that settle nothing are shown to be `Quiet`
once, and quiet steps keep all three.  `SnapshotCurrent` needs that a snapshot
is stale only while the loop has changed a row, and `ResultAgrees` that the
winner and the last command were last set from the present roles or the loop is
still running; each is its own small invariant above `TypeInv`.  The refinement
needs both: by `TreeInv` a badge has a tagger exactly when it is a zombie, so
settling a row is `Infect` or a stutter; by the result's invariant each write of
the round's end is `Close` with the winner the infections say.

*Evidence, what waits and what is acknowledged.*  `NoNeedlessWait` is about
`Reach`, the walk over what an event names.  A walk of as many steps as there
are rows that met no missing row is closed under what its rows depend on
(`ReachClosed`: it has grown at every step or come to its end, and can grow only
as often as there are rows).  Suppose a pending row led to no missing one when
`settleEvents` can do no more.  Then the next event of its victim is pending
too, is not cyclic, and waits for a pending row, that one for another, all
among the rows reached; but along such a dependency strictly less can be
reached, or a row would reach itself, and `Reach` cannot shrink for ever
(`StuckMeansWaiting`).  `AckedDecided` needs only that `Ack` believes decided
frontiers and that decisions are never revised.

*Ancestry.*  That going from victim to actor ends with patient zero is not
inductive.  `Lineage` is: the infected can be numbered below their count so that
each comes after its tagger.  A new zombie gets the next number, and as many
steps as there are badges then lead to patient zero.

*Outbreak.*  The lemmas about `Evidence` are stated for `Handled`, a handler of
the server given any uploads, receipts and frontiers, of which `Evidence`'s
`Next` and what badges make the host send are both instances: to the server the
badges are only a host.  So all its invariants hold here, and so does the
refinement (`OutbreakImplements`).  `OutbreakInv` adds four parts.  `Recorded`:
the history of a slot's roles names one cause for a zombie, and a human in it
covers no event that was accepted.  `Journals`: what was flooded in a
badge's name, and what is stored, is what its journal has, unless it forgot
some.  `Cards`, which is where the difficulty lies: a confirmed zombie is one to
the server, and no human role on record that could still be delivered knows of
all its journal, which is what `TakeRole` asks before it cures; a provisional
zombie waits for one of its own events; and all its other events were rejected.
The role a badge held back fits in the same way.  `Shows`: final results come
from the server, which sends one winner as final.  `CardAgrees` does not ask that a
badge has heard its verdicts: `Cards` shows that it need not.

`Closings` (for `NothingIsLost`): until a reboot, a badge that has closed was
counted to the end of its journal, which stands.  `HonestInv` (for
`HonestAlwaysHold`) says what it is for badges to have agreed: the actor asked
under its own cause at a revision it had as a zombie by that cause, the attempt
is its own, the victim was human, and the time is not before the actor's own
infection.  Beside each rule of `eventDecision` stands the rule of
`accept_request` that implies it.  One is not local: an honest event is not
cyclic, because the flooded infections can be ordered with every cause first
(`Ranked`).  And `end.elapsed` stays at the full duration until all are infected,
so that no honest event is too late for the server.

*RoundControl.*  One invariant per theorem, over the variables it is about.
`DigestInv`: a call that waits has read a revision no newer than the lobby's,
and if it is the same the roster is the same, since every change of the roster
raises the revision.  `OwnerInv` and `RosterInv`: a key under way was drawn by a
badge, an answered key has the slot of its badge, and no two slots have one
badge.  `StartInv`: rounds are numbered without repetition, so a receipt of the
present round is from a badge of its roster, and `ready` holds only slots that
reported.  `KeysInv`: the key by which the lobby knows a badge is in no archive,
so that no archived reset, which names the key, fits it.

`AnswerInv` (for `Told`) counts: as long as there are no more controls than the
history holds, nothing leaves it, all that was answered is in it, and it says
"accepted" of exactly the controls with an effect.  For `ActsOnce` the history
is of no use, as its answers may be gone.  What helps is the key: a host that can
press B has been answered, an answered key waits for nothing (`ReplyInv`) and
cannot be registered again, so the lobby that knows it is the lobby of the press
or a press in it is stale (`PressInv`); and in one lobby a start leaves a round
and a reset leaves the lobby (`EffectInv`).

*Delivery.*  `LogInv`: the log only grows and its receipts only grow (`Extends`),
no announcement is made before the round runs, and a round out of play has its
archive, which keeps the log.  An answer is computed from these alone.
`HostInv`: what the archive knows of the others only grows, a window that is
over stays over, and the host's own reset is under way only when they are done
with.  For this proof `Cleanup` takes its batch of offers as a set, the first few
behind the cursor; the frame's order inside is nothing the archive keeps.

*Director.*  Every operator on the agent's record is shown to keep `AgentOK`,
so every step does, whichever calls wait beside one another.  `BudgetOK` says
that the round's counter is what was asked in the observed round and the day's counter what was asked on its day; that
nothing was asked in a round that is still to come (`Ahead`), which is where the
return of a round would break it, nor on a later day.  `NamesOK` is what keeps
it inductive: what waiting calls and schedules name was observed and is a round,
so no request is sent about none.

`NoLostWake` rests on the runs: an active run has exactly one call (`OneCall`),
which goes on or ends it, and calls of runs that are over end without a trace.
So a pending wake-up is booked, or the one call of the active run will book it
(`WholeOK`); between two awaits of a run, when its call is taken out of the bag
and not yet put back, `LeftOK` holds instead.  `PendingOK`, that it is due no
sooner than the cooldown allows, gives `Spaced`; `FollowsOK`, that a run that
waits to keep a follow-up has room for it under the present use of the switch,
gives `FollowUpsCurrent`.

*GameRoom.*  For `Feeds` every action is `Mutate`, `Join`, `Leave` or `Restart`
of `Feed`, and what does not push leaves the view alone.  `Heard` adds the shape
of the records to `OverHeard`; `CountInv` says that the gateway's record is well formed,
that its verdict follows from its roles, and that the tables hold a copy of both
(`Copied`); `AlarmInv` that the alarm of a round that runs is set, and never
later than its deadline.  `DatesInv` dates a game: an infection in a row is the
gateway's, a legacy game that is over ended with an infection, and a gateway game
when its result says, so that neither moves back; the last infection exists
because times are bounded numbers.

*Dashboard and Panel.*  `PageInv`: what is under way was read in the past, and
an answer that may still be shown is no older than the display.  `PanelInv`: the
same, and while a switch is under way no poll counts.

**Only model-checked.**  Liveness under fairness, which is out of this prover's
reach: `EventuallyEnds`, `Converges`, `LiveStarts`, `NobodyStarves`,
`CleanupEnds`, `PageTruthful`, `PanelShows`.  What `NobodyStarves` depends on,
the rotation of sorted batches in `Delivery`, would need induction over the
sequences besides.  The three runs that expect a violation have nothing to prove.

## Findings

1. *A reboot reuses an infection's identity* (`outbreak_identity`).  The store
   forgets the game at every boot (`store.c:785`), so a badge that joins the
   round again numbers its infections from 1, and a second body travels under an
   identity that is taken; the server refuses it as a conflict, and where the
   older body has not arrived the older one is refused instead.
   `docs/protocol.md:219` promises that durable records prevent duplication
   after a reboot; `docs/backend-contract.md:21-29` describes the boot policy
   that took the durability away.
2. *A key can come back from the dead* (`control_ghost`).  The lobby keeps one
   key per badge (`gateway.ts:837`); of a badge that registered twice only the
   newer key is retired by a reset, and a retry of the older one is taken into
   the next lobby, against `docs/backend-contract.md:386-388`.
3. *Reset Game can miss a badge* (`control_reach`).  Resets of played rounds
   carry a registration identity (`gateway.ts:297-298`) although
   `docs/live-backend.md:208-209` says they keep the form without arguments; a
   badge that restarted and joined the running round again through the host has
   another registration and ignores the reset.

Seen while modelling and proving, and not against anything the repository
promises:

- An event that comes after the final result is rejected where it is, without
  moving its victim's frontier; what the same badge reports behind it then stays
  pending for good (the exception `OvertakenByFinal` in `NoNeedlessWait`).
- A repeated control whose answer has left the history is judged anew, and may
  be told it was stale although it acted (hence the room asked for in `Told`).
  It does not act again (`ActsOnce`).
- A legacy game that is over because everybody is infected has no record of it:
  `game_over` is derived when the state is read, and devices hear of it only
  when an event sets the record (`OverHeard` speaks of the record).
- A device that joins after the end of a legacy game does not reopen it.
- Rows of devices of an older game stay in the rankings of a gateway game;
  `OneCount` is about the roster's rows and the counters.
- A device that names itself on a socket of its own is answered without being
  registered, and a dashboard socket that sends a `device_id` becomes a device's
  and is no longer pushed to.
- Devices are not told of a reset.
- The answer to a reset goes to `App` alone and does not raise `updateSequence`,
  so a poll that began before may show `App` the state before the reset once
  more, until the next push or poll; `Forward` is about what `PopulationState`
  shows, and `PageTruthful` about both in the end.

## Not modelled, and the plan

In this order:

1. `Store`: the two flash regions, install, append with read-back, decisions,
   reset and recovery, a power cut between any two writes; an abstract
   specification (a round is there or not, an event is there or not) that it is
   shown to implement (hazards store.c:250, game.c:840).
2. `TagExchange`: request, result, the cache of outcomes and pending answers of
   two badges over a lossy radio, refined by `Outbreak`'s single step (hazard
   game.c:592).
3. `HostBridge`: the host's command slots and receipt tables, and the closing
   of older sockets, under `Delivery`'s `held`.
4. `Mesh` and `Channel`; the operations console; the tools' gates.

Theorems planned: of `Store`, that recovery yields the old state or the new one;
of `TagExchange`, that it implements the single step `AcceptRequest` of
`Outbreak`, under which the theorems above then stand.

Left out for good: drawing, device drivers, wire and JSON encoding, telemetry.
