------------------------------ MODULE GameRoom ------------------------------
(***************************************************************************)
(* The room that owns a game (backend/src/game-room.ts, and the gateway's  *)
(* writes to the tables of the room): the population counters, the player  *)
(* list and the game record, which the legacy routes and the host gateway  *)
(* both write, the dashboards that are sent a frame after every change,    *)
(* and the legacy devices that are told when a game is over.               *)
(*                                                                         *)
(* While the gateway's roster is empty the legacy routes own the tables;   *)
(* from the first registration on the gateway does, and copies its roles   *)
(* and its result into them (syncPopulation).  How the gateway comes to a  *)
(* roster, a start and a decision is the business of RoundControl and      *)
(* Evidence; here it is the least that decides what is written.            *)
(*                                                                         *)
(* A handler of a Durable Object has no await between its writes and its   *)
(* push, so each is one step.  Fields of a frame that change with the      *)
(* clock alone (server_time_ms, host_last_seen_at, survival times) are     *)
(* left out.                                                               *)
(***************************************************************************)
EXTENDS Integers, Sequences, FiniteSets, SequencesExt

CONSTANTS
  Players,       \* identities of legacy devices and badges
  Host,          \* ZT_HOST_MAC
  Viewers,       \* dashboard sockets
  Shut,          \* a socket that is not there
  None,          \* null
  MinRoster,     \* badges a gateway round needs (2)
  Countdown,     \* START_COUNTDOWN_MS
  Duration,      \* RULES.duration_ms
  MaxCount,      \* bound on POST /add-player
  MaxNow         \* bound on the clock

ASSUME RoomAssumption ==
  /\ Host \in Players /\ None \notin Players /\ None \notin Int \cup {"H", "Z"}
  /\ Shut \notin BOOLEAN
  /\ MinRoster \in Nat /\ Countdown \in Nat /\ Duration \in Nat
  /\ MaxCount \in Nat /\ MaxNow \in Nat \ {0}

VARIABLES
  population,    \* num_players and num_infected
  meta,          \* game_meta
  players,       \* the players table, by device_id
  gateway,       \* the gateway's roster, roles, phase and result
  linked,        \* an open, welcomed gateway socket of the current lobby
  frames,        \* the last frame sent to each dashboard
  devices,       \* whether each open device socket was last told of a game over
  alarm,         \* the time the object's alarm is set to
  now            \* Date.now()

roomVars == <<population, meta, players, gateway, linked, frames, devices, alarm, now>>

Times  == 1..MaxNow
Absent == [state |-> "absent", joined_at |-> 0, infected_at |-> None]
Human(t) == [state |-> "not infected", joined_at |-> t, infected_at |-> None]

NewGame == [started_at |-> None, ended_at |-> None, game_over |-> FALSE, patient_zero_id |-> None]
NoEnd   == [winner |-> None, elapsed |-> Duration, final |-> FALSE]
\* `zombies' gives the infected_elapsed of the canonical zombies.
NewLobby == [roster |-> {}, round |-> FALSE, ready |-> {}, started |-> FALSE, start_time |-> 0,
             patient_zero |-> None, zombies |-> <<>>, end |-> NoEnd]

RoomInit ==
  /\ population = [num_players |-> 0, num_infected |-> 0]
  /\ meta = NewGame
  /\ players = [p \in Players |-> Absent]
  /\ gateway = NewLobby
  /\ linked = FALSE
  /\ frames = [v \in Viewers |-> Shut]
  /\ devices = [p \in Players |-> Shut]
  /\ alarm = None
  /\ now = 1

-----------------------------------------------------------------------------
\* What a read answers.

Enabled  == gateway.roster # {}
Known(T) == {p \in Players : T[p].state # "absent"}
Infected(T) == {p \in Players : T[p].state = "infected"}

\* calculateRankings: survivors first, then the infected from the last to the
\* first, and who joined earlier first among equals.
Before(T, p, q) ==
  \/ p \notin Infected(T) /\ q \in Infected(T)
  \/ {p, q} \subseteq Infected(T) /\ T[p].infected_at > T[q].infected_at
  \/ /\ T[p].state = T[q].state /\ T[p].infected_at = T[q].infected_at
     /\ T[p].joined_at < T[q].joined_at
Rankings(T) == SetToSortSeq(Known(T), LAMBDA p, q : Before(T, p, q))

\* dashboard(): what the gateway adds to a frame.
GatewayFields(g, link) ==
  [gateway_mode |-> g.roster # {}, round |-> g.round, ready |-> g.ready, started |-> g.started,
   winner |-> g.end.winner, result_final |-> g.end.final, host_connected |-> link,
   registered |-> g.roster, roles |-> DOMAIN g.zombies]

\* readState: a game is over when its record says so, and a legacy game also
\* when nobody is left.
IsOver(pop, m, g) ==
  m.game_over \/ (g.roster = {} /\ pop.num_players > 0 /\ pop.num_infected >= pop.num_players)

Frame(pop, m, T, g, link) ==
  [population |-> pop, meta |-> m, gateway |-> GatewayFields(g, link),
   game_over |-> IsOver(pop, m, g),
   rankings |-> IF IsOver(pop, m, g) THEN Rankings(T) ELSE <<>>]

View == Frame(population, meta, players, gateway, linked)

-----------------------------------------------------------------------------
\* What is pushed.  A handler names the sockets that are open when it pushes,
\* and first changes the rest.

Reaches(open, frame) == [v \in Viewers |-> IF open[v] = Shut THEN Shut ELSE frame]
ToDevices(open, over) == [p \in Players |-> IF open[p] = Shut THEN Shut ELSE over]

\* broadcastState: every open dashboard is sent the state just written, and
\* every device is told (broadcastGameOverToDevices) if the game is over.
Broadcast(open) ==
  /\ frames' = Reaches(frames, View')
  /\ devices' = IF View'.game_over THEN ToDevices(open, TRUE) ELSE open

\* Mutant: the first message of a device's socket does not say it.
ToldNothing(p, m) == [devices EXCEPT ![p] = FALSE]

\* getDeviceState goes by the record alone.
Told(p, m) == [devices EXCEPT ![p] = m.game_over]
-----------------------------------------------------------------------------
\* The legacy routes.  assertLegacyMutation keeps them off a gateway game.

Counts(T) == [num_players |-> Cardinality(Known(T)), num_infected |-> Cardinality(Infected(T))]
LastInfection(T) ==
  CHOOSE t \in {T[p].infected_at : p \in Infected(T)} :
    \A q \in Infected(T) : T[q].infected_at <= t

\* Mutant: the last report counts.
ReportedLast(row, ts, infected) ==
  [state |-> IF infected THEN "infected" ELSE "not infected", infected_at |-> IF infected THEN ts ELSE None,
   joined_at |-> IF row = Absent THEN ts ELSE row.joined_at]

\* The row after a report: a report of health does not cure, and only the
\* first report of an infection counts.
Reported(row, ts, infected) ==
  IF infected /\ row.state # "infected"
  THEN [state |-> "infected", infected_at |-> ts,
        joined_at |-> IF row = Absent THEN ts ELSE row.joined_at]
  ELSE IF row = Absent THEN Human(ts) ELSE row

\* recordDeviceEventImpl, from POST /device-event or (`heard') the device's
\* socket, which is answered.  The time is the device's own.
DeviceEvent(p, ts, infected, heard) ==
  /\ ~Enabled
  /\ heard => devices[p] # Shut
  /\ players' = [players EXCEPT ![p] = Reported(@, ts, infected)]
  /\ population' = Counts(players')
  /\ LET begun == [meta EXCEPT !.started_at = IF @ = None THEN ts ELSE @]
     IN  meta' = IF Infected(players') = Known(players')
                 THEN [begun EXCEPT !.game_over = TRUE, !.ended_at = LastInfection(players')]
                 ELSE begun
  /\ UNCHANGED <<gateway, linked, alarm, now>>
  /\ Broadcast(IF heard THEN Told(p, meta') ELSE devices)

\* fetch: a device that connects under its id is entered in the list, and is
\* told where it stands.
DeviceConnects(p) ==
  /\ ~Enabled
  /\ devices[p] = Shut
  /\ UNCHANGED <<meta, gateway, linked, alarm, now>>
  /\ IF players[p] = Absent
     THEN /\ players' = [players EXCEPT ![p] = Human(now)]
          /\ population' = Counts(players')
          /\ Broadcast(Told(p, meta))
     ELSE devices' = Told(p, meta) /\ UNCHANGED <<players, population, frames>>

\* A socket that was opened without an id names itself, or asks where it
\* stands; it is answered and not entered.
DeviceAsks(p) ==
  /\ devices' = Told(p, meta)
  /\ UNCHANGED <<population, meta, players, gateway, linked, frames, alarm, now>>

DeviceLeaves(p) ==
  /\ devices' = [devices EXCEPT ![p] = Shut]
  /\ UNCHANGED <<population, meta, players, gateway, linked, frames, alarm, now>>

AddPlayer ==
  /\ ~Enabled
  /\ population.num_players < MaxCount
  /\ population' = [population EXCEPT !.num_players = @ + 1]
  /\ UNCHANGED <<meta, players, gateway, linked, alarm, now>>
  /\ Broadcast(devices)

AddInfected ==
  /\ ~Enabled
  /\ population' = [population EXCEPT !.num_infected =
                      IF @ + 1 < population.num_players THEN @ + 1 ELSE population.num_players]
  /\ UNCHANGED <<meta, players, gateway, linked, alarm, now>>
  /\ Broadcast(devices)

\* startGameImpl without a gateway: one of the players listed is infected and
\* the others are healthy again; if none is listed the counters alone move.
\* broadcastRolesToDevices tells every device, last, where it stands.
StartLegacy(zero) ==
  /\ ~Enabled
  /\ IF Known(players) = {} THEN zero = None ELSE zero \in Known(players)
  /\ players' = [p \in Players |->
       CASE p \notin Known(players) -> Absent
         [] p \in Known(players) /\ p # zero -> Human(players[p].joined_at)
         [] OTHER -> [Human(players[p].joined_at) EXCEPT !.state = "infected", !.infected_at = now]]
  /\ population' =
       CASE zero # None -> [num_players |-> Cardinality(Known(players)), num_infected |-> 1]
         [] zero = None /\ population.num_players > 0 -> [population EXCEPT !.num_infected = 1]
         [] OTHER -> population
  /\ meta' = [started_at |-> now, ended_at |-> None, game_over |-> FALSE, patient_zero_id |-> zero]
  /\ UNCHANGED <<gateway, linked, alarm, now>>
  /\ frames' = Reaches(frames, View')
  /\ devices' = ToDevices(devices, FALSE)

\* POST /reset-game, in either mode (resetLobby): the gateway's sockets are
\* closed and the tables cleared.  Devices are not told.
Reset ==
  /\ population' = [num_players |-> 0, num_infected |-> 0]
  /\ meta' = NewGame
  /\ players' = [p \in Players |-> Absent]
  /\ gateway' = NewLobby
  /\ linked' = FALSE
  /\ UNCHANGED <<alarm, now>>
  /\ Broadcast(devices)

-----------------------------------------------------------------------------
\* The gateway.

\* Mutant: the counter is taken from the table.
SyncedByTable(g) ==
  /\ players' = [p \in Players |->
       IF p \notin g.roster THEN players[p]
       ELSE [state |-> IF p \in DOMAIN g.zombies THEN "infected" ELSE "not infected",
             joined_at |-> IF players[p] = Absent THEN now ELSE players[p].joined_at,
             infected_at |-> IF p \in DOMAIN g.zombies THEN g.start_time + g.zombies[p] ELSE None]]
  /\ population' = Counts(players')
  /\ meta' = [started_at |-> IF g.started THEN g.start_time ELSE None,
              ended_at |-> IF g.end.winner # None THEN g.start_time + g.end.elapsed ELSE None,
              game_over |-> g.end.winner # None, patient_zero_id |-> g.patient_zero]

\* syncPopulation copies the roles and the result of the roster g into the
\* tables; rows of others stay.
Synced(g) ==
  /\ players' = [p \in Players |->
       IF p \notin g.roster THEN players[p]
       ELSE [state |-> IF p \in DOMAIN g.zombies THEN "infected" ELSE "not infected",
             joined_at |-> IF players[p] = Absent THEN now ELSE players[p].joined_at,
             infected_at |-> IF p \in DOMAIN g.zombies THEN g.start_time + g.zombies[p] ELSE None]]
  /\ population' = [num_players |-> Cardinality(g.roster),
                    num_infected |-> Cardinality(DOMAIN g.zombies)]
  /\ meta' = [started_at |-> IF g.started THEN g.start_time ELSE None,
              ended_at |-> IF g.end.winner # None THEN g.start_time + g.end.elapsed ELSE None,
              game_over |-> g.end.winner # None, patient_zero_id |-> g.patient_zero]

\* finishIfDue: the round ends when all are zombies or the time is up; a late
\* infection may still change the winner, and nothing but the winner.
AllInfected(g) == g.roster # {} /\ g.roster = DOMAIN g.zombies
LastElapsed(g) == CHOOSE t \in {g.zombies[p] : p \in DOMAIN g.zombies} :
                    \A q \in DOMAIN g.zombies : g.zombies[q] <= t
Finished(g) ==
  IF ~g.started \/ g.end.final THEN g
  ELSE IF g.end.winner # None
       THEN [g EXCEPT !.end.winner = IF AllInfected(g) THEN "Z" ELSE "H"]
  ELSE IF AllInfected(g)
       THEN [g EXCEPT !.end.winner = "Z", !.end.elapsed = LastElapsed(g)]
  ELSE IF now >= g.start_time + Duration THEN [g EXCEPT !.end.winner = "H"]
  ELSE g

Running(g) == g.started /\ g.end.winner = None
Deadline(g) == g.start_time + Duration

\* The tables are written when the gateway's state changes, and pushed.
WriteArmed(g, at) ==
  /\ gateway' = g
  /\ Synced(g)
  /\ alarm' = at
  /\ UNCHANGED <<linked, now>>
  /\ Broadcast(devices)
Write(g) == WriteArmed(g, alarm)

Register(p) ==
  /\ p \in gateway.roster \/ ~gateway.round
  /\ Write([gateway EXCEPT !.roster = @ \cup {p}])

\* POST /start-game of a gateway game freezes the roster; nothing is copied.
Prepare ==
  /\ Enabled /\ ~gateway.round /\ linked
  /\ Cardinality(gateway.roster) >= MinRoster /\ Host \in gateway.roster
  /\ gateway' = [gateway EXCEPT !.round = TRUE]
  /\ UNCHANGED <<population, meta, players, linked, alarm, now>>
  /\ Broadcast(devices)

\* A badge is ready; the last one starts the round (maybeStart, startRound),
\* and the alarm is set after the transaction that does.
LastReady(p) == gateway.ready \cup {p} = gateway.roster /\ ~gateway.started
Started(p, zero) ==
  [gateway EXCEPT !.ready = @ \cup {p}, !.started = TRUE, !.start_time = now + Countdown,
                  !.patient_zero = zero, !.zombies = [z \in {zero} |-> 0]]
Acks(p) == linked /\ gateway.round /\ p \in gateway.roster

Ready(p) ==
  /\ Acks(p) /\ ~LastReady(p)
  /\ gateway' = [gateway EXCEPT !.ready = @ \cup {p}]
  /\ UNCHANGED <<population, meta, players, linked, alarm, now>>
  /\ Broadcast(devices)

Start(p, zero) ==
  /\ Acks(p) /\ LastReady(p) /\ zero \in gateway.roster
  /\ LET g == Started(p, zero) IN WriteArmed(g, Deadline(g))

\* An accepted infection, known to have happened t after the start.
GatewayInfects(v, t) ==
  /\ linked /\ gateway.started /\ ~gateway.end.final
  /\ v \in gateway.roster \ DOMAIN gateway.zombies
  /\ t < gateway.end.elapsed /\ gateway.start_time + t <= now
  /\ Write(Finished([gateway EXCEPT !.zombies =
             [p \in DOMAIN @ \cup {v} |-> IF p = v THEN t ELSE @[p]]]))

\* The last close receipt is in.
Close ==
  /\ linked /\ gateway.end.winner # None /\ ~gateway.end.final
  /\ Write([gateway EXCEPT !.end.final = TRUE])

\* A message after the time is up, or the object's waking with the sockets
\* that hibernated (recoverAlarm).
Due == Running(gateway) /\ now >= Deadline(gateway)
TimeUp == Due /\ Write(Finished(gateway))

\* alarm(): an alarm of an earlier round is set anew.
Alarm ==
  /\ alarm # None /\ now >= alarm
  /\ IF Running(gateway)
     THEN WriteArmed(Finished(gateway), IF Due THEN None ELSE Deadline(gateway))
     ELSE alarm' = None /\ UNCHANGED <<population, meta, players, gateway, linked, frames, devices, now>>

\* Mutant: a host that comes or goes is not shown.
HostLinkUnseen(up) ==
  /\ linked # up
  /\ linked' = up
  /\ UNCHANGED <<population, meta, players, gateway, frames, devices, alarm, now>>

\* The host's hello, and the close of its last socket (webSocketClose).
HostLink(up) ==
  /\ linked # up
  /\ linked' = up
  /\ UNCHANGED <<population, meta, players, gateway, alarm, now>>
  /\ Broadcast(devices)
-----------------------------------------------------------------------------
\* Dashboards come and go, and the object crashes or is replaced: no socket is
\* left, and recoverAlarm runs before anything else.

Join(v) ==
  /\ frames[v] = Shut
  /\ frames' = [frames EXCEPT ![v] = View]
  /\ UNCHANGED <<population, meta, players, gateway, linked, devices, alarm, now>>

Leave(v) ==
  /\ frames[v] # Shut
  /\ frames' = [frames EXCEPT ![v] = Shut]
  /\ UNCHANGED <<population, meta, players, gateway, linked, devices, alarm, now>>

\* Mutant: a lost alarm is not set again.
RecoverUnarmed(g) ==
  /\ gateway' = Finished(g)
  /\ IF Finished(g) = g /\ g = gateway THEN UNCHANGED <<population, meta, players>> ELSE Synced(gateway')
  /\ linked' = FALSE
  /\ frames' = [v \in Viewers |-> Shut]
  /\ devices' = [p \in Players |-> Shut]
  /\ UNCHANGED <<alarm, now>>

\* recoverAlarm, with the gateway's state g as it was saved.
Recover(g) ==
  /\ gateway' = Finished(g)
  /\ IF Finished(g) = g /\ g = gateway THEN UNCHANGED <<population, meta, players>> ELSE Synced(gateway')
  /\ alarm' = IF alarm = None /\ Running(gateway') THEN Deadline(g) ELSE alarm
  /\ linked' = FALSE
  /\ frames' = [v \in Viewers |-> Shut]
  /\ devices' = [p \in Players |-> Shut]
  /\ UNCHANGED now

Crash == Recover(gateway)

\* A crash between the start of a round and its alarm.
StartCrash(p, zero) ==
  /\ Acks(p) /\ LastReady(p) /\ zero \in gateway.roster
  /\ Recover(Started(p, zero))

Tick ==
  /\ now < MaxNow
  /\ now' = now + 1
  /\ UNCHANGED <<population, meta, players, gateway, linked, frames, devices, alarm>>

\* The worker's POST routes.  /start-game goes to whom the game belongs.
Posts ==
  \/ \E p \in Players, ts \in Times, infected \in BOOLEAN : DeviceEvent(p, ts, infected, FALSE)
  \/ AddPlayer \/ AddInfected \/ Reset
  \/ Prepare \/ \E zero \in Players \cup {None} : StartLegacy(zero)

DeviceSockets ==
  \E p \in Players :
    \/ DeviceConnects(p) \/ DeviceAsks(p) \/ DeviceLeaves(p)
    \/ \E ts \in Times, infected \in BOOLEAN : DeviceEvent(p, ts, infected, TRUE)

Gated ==
  \/ \E p \in Players : Register(p) \/ Ready(p)
  \/ \E p, zero \in Players : Start(p, zero) \/ StartCrash(p, zero)
  \/ \E v \in Players, t \in 0..MaxNow : GatewayInfects(v, t)
  \/ Close \/ TimeUp \/ Alarm
  \/ \E up \in BOOLEAN : HostLink(up)

RoomNext ==
  \/ Posts \/ DeviceSockets \/ Gated \/ Crash \/ Tick
  \/ \E v \in Viewers : Join(v) \/ Leave(v)

RoomSpec == RoomInit /\ [][RoomNext]_roomVars

-----------------------------------------------------------------------------
\* Properties.

\* Every dashboard was last sent the state as it is, whatever route, handler,
\* alarm or connection changed it: no change of the view goes without its
\* push (backend/README.md, "the full state on connect and after every
\* mutation").
Promise == INSTANCE Feed WITH state <- View, shown <- frames
Feeds == Promise!Spec

\* In a gateway game the tables that legacy routes, rankings and dashboards
\* read say what the gateway's roles and result say, though legacy routes
\* wrote them before and every write of the gateway copies only its roster.
OneCount ==
  Enabled =>
    /\ population = [num_players |-> Cardinality(gateway.roster),
                     num_infected |-> Cardinality(DOMAIN gateway.zombies)]
    /\ Infected(players) \cap gateway.roster = DOMAIN gateway.zombies
    /\ meta.game_over <=> gateway.end.winner # None
    /\ gateway.end.winner = "Z" <=> gateway.end.winner # None /\ AllInfected(gateway)

\* A game goes one way: until it is started anew or reset, nobody whom the
\* gateway does not take over is cured or infected at another time, and a game
\* that is over stays over and does not end earlier, a gateway game not even
\* later, though late evidence may change who won.
OneWay ==
  [][ \/ \E zero \in Players \cup {None} : StartLegacy(zero)
      \/ Reset
      \/ /\ \A p \in Infected(players) \ (gateway'.roster \ gateway.roster) : players'[p] = players[p]
         /\ (Enabled = Enabled' /\ meta.game_over) =>
              /\ meta'.game_over /\ meta'.ended_at >= meta.ended_at
              /\ Enabled => meta'.ended_at = meta.ended_at ]_roomVars

\* A device whose socket is open has heard that the game is over, whether it
\* ended before the device came or after, by evidence or by the clock.
OverHeard == meta.game_over => \A p \in Players : devices[p] # FALSE

\* A round under way never waits for an alarm that is not set or comes after
\* its time: not after a crash on the way, not behind the alarm of an earlier
\* round that was reset.
Armed == Running(gateway) => alarm # None /\ alarm <= Deadline(gateway)
=============================================================================
