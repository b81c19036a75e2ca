----------------------------- MODULE RoomProofs -----------------------------
(***************************************************************************)
(* Theorems about GameRoom, for any number of devices, dashboards and      *)
(* badges and any times: dashboards are never behind, devices whose game   *)
(* is over have heard of it, and no game goes back.                        *)
(***************************************************************************)
EXTENDS GameRoom, WellFoundedInduction, TLAPS

-----------------------------------------------------------------------------
\* The room keeps its promise to dashboards.

\* A handler that ends in broadcastState is a mutation of the promise.
LEMMA BroadcastMutates ==
  ASSUME NEW open, Broadcast(open)
  PROVE  Promise!Mutate
  BY DEF Broadcast, Reaches, Promise!Mutate, Promise!Pushed

\* What a dashboard is shown is made of these five variables.
LEMMA ViewStands ==
  ASSUME UNCHANGED <<population, meta, players, gateway, linked>>
  PROVE  View' = View
  BY DEF View

\* Coming back up leaves no socket.
LEMMA RecoverRestarts ==
  ASSUME NEW g, Recover(g)
  PROVE  Promise!Restart
  BY DEF Recover, Promise!Restart, Promise!Nobody

LEMMA RoutesKeepPromise ==
  ASSUME Posts
  PROVE  Promise!Mutate
<1>1. CASE \E p \in Players, ts \in Times, infected \in BOOLEAN : DeviceEvent(p, ts, infected, FALSE)
  BY <1>1, BroadcastMutates DEF DeviceEvent
<1>2. CASE AddPlayer
  BY <1>2, BroadcastMutates DEF AddPlayer
<1>3. CASE AddInfected
  BY <1>3, BroadcastMutates DEF AddInfected
<1>4. CASE Reset
  BY <1>4, BroadcastMutates DEF Reset
<1>5. CASE Prepare
  BY <1>5, BroadcastMutates DEF Prepare
<1>6. CASE \E zero \in Players \cup {None} : StartLegacy(zero)
  BY <1>6 DEF StartLegacy, Reaches, Promise!Mutate, Promise!Pushed
<1> QED BY <1>1, <1>2, <1>3, <1>4, <1>5, <1>6 DEF Posts

LEMMA DevicesKeepPromise ==
  ASSUME DeviceSockets
  PROVE  Promise!Mutate \/ UNCHANGED <<View, frames>>
<1>1. PICK p \in Players :
        \/ DeviceConnects(p) \/ DeviceAsks(p) \/ DeviceLeaves(p)
        \/ \E ts \in Times, infected \in BOOLEAN : DeviceEvent(p, ts, infected, TRUE)
  BY DEF DeviceSockets
<1>2. CASE DeviceConnects(p)
  BY <1>2, BroadcastMutates, ViewStands DEF DeviceConnects
<1>3. CASE DeviceAsks(p) \/ DeviceLeaves(p)
  BY <1>3, ViewStands DEF DeviceAsks, DeviceLeaves
<1>4. CASE \E ts \in Times, infected \in BOOLEAN : DeviceEvent(p, ts, infected, TRUE)
  BY <1>4, BroadcastMutates DEF DeviceEvent
<1> QED BY <1>1, <1>2, <1>3, <1>4

LEMMA WriteMutates ==
  ASSUME NEW g, NEW at, WriteArmed(g, at)
  PROVE  Promise!Mutate
  BY BroadcastMutates DEF WriteArmed

LEMMA GatewayKeepsPromise ==
  ASSUME Gated
  PROVE  Promise!Mutate \/ Promise!Restart \/ UNCHANGED <<View, frames>>
<1>1. CASE \E p \in Players : Register(p) \/ Ready(p)
  BY <1>1, WriteMutates, BroadcastMutates DEF Register, Ready, Write
<1>2. CASE \E p, zero \in Players : Start(p, zero)
  BY <1>2, WriteMutates DEF Start
<1>3. CASE \E p, zero \in Players : StartCrash(p, zero)
  BY <1>3, RecoverRestarts DEF StartCrash
<1>4. CASE \E v \in Players, t \in 0..MaxNow : GatewayInfects(v, t)
  BY <1>4, WriteMutates DEF GatewayInfects, Write
<1>5. CASE Close
  BY <1>5, WriteMutates DEF Close, Write
<1>6. CASE TimeUp
  BY <1>6, WriteMutates DEF TimeUp, Write
<1>7. CASE Alarm
  BY <1>7, WriteMutates, ViewStands DEF Alarm
<1>8. CASE \E up \in BOOLEAN : HostLink(up)
  BY <1>8, BroadcastMutates DEF HostLink
<1> QED BY <1>1, <1>2, <1>3, <1>4, <1>5, <1>6, <1>7, <1>8 DEF Gated

\* Every dashboard was last sent the state as it is (backend/README.md, "the
\* full state on connect and after every mutation"), whatever changed it.
THEOREM RoomKeepsPromise == RoomSpec => Feeds
<1>1. RoomInit => Promise!Init
  BY DEF RoomInit, Promise!Init, Promise!Nobody
<1>2. [RoomNext]_roomVars => [Promise!Next]_<<View, frames>>
  <2> SUFFICES ASSUME [RoomNext]_roomVars
               PROVE  Promise!Next \/ UNCHANGED <<View, frames>>
    OBVIOUS
  <2>1. CASE Posts
    BY <2>1, RoutesKeepPromise DEF Promise!Next
  <2>2. CASE DeviceSockets
    BY <2>2, DevicesKeepPromise DEF Promise!Next
  <2>3. CASE Gated
    BY <2>3, GatewayKeepsPromise DEF Promise!Next
  <2>4. CASE Crash
    BY <2>4, RecoverRestarts DEF Crash, Promise!Next
  <2>5. CASE Tick
    BY <2>5, ViewStands DEF Tick
  <2>6. CASE \E v \in Viewers : Join(v)
    BY <2>6, ViewStands DEF Join, Promise!Next, Promise!Join
  <2>7. CASE \E v \in Viewers : Leave(v)
    BY <2>7, ViewStands DEF Leave, Promise!Next, Promise!Leave
  <2>8. CASE UNCHANGED roomVars
    BY <2>8, ViewStands DEF roomVars
  <2> QED BY <2>1, <2>2, <2>3, <2>4, <2>5, <2>6, <2>7, <2>8 DEF RoomNext
<1> QED BY <1>1, <1>2, PTL DEF RoomSpec, Feeds, Promise!Spec, Promise!watch

-----------------------------------------------------------------------------
\* Who has heard.  The record that says a game is over is only written by a
\* handler that pushes or by one that starts a new game.

MetaFields == {"started_at", "ended_at", "game_over", "patient_zero_id"}
RecordShape ==
  /\ DOMAIN meta = MetaFields /\ meta.game_over \in BOOLEAN
  /\ DOMAIN devices = Players
Heard == RecordShape /\ OverHeard

\* A push of a game that is over is heard by every device that is there.
LEMMA BroadcastTells ==
  ASSUME NEW open, DOMAIN open = Players, Broadcast(open)
  PROVE  OverHeard' /\ DOMAIN devices' = Players
<1>1. meta'.game_over => View'.game_over
  BY DEF View, Frame, IsOver
<1>2. ASSUME View'.game_over
      PROVE  devices' = [p \in Players |-> IF open[p] = Shut THEN Shut ELSE TRUE]
  BY <1>2 DEF Broadcast, ToDevices
<1>3. ASSUME ~View'.game_over PROVE devices' = open
  BY <1>3 DEF Broadcast
<1> QED BY <1>1, <1>2, <1>3, RoomAssumption DEF OverHeard

\* What the gateway copies into the record of the game.
LEMMA SyncedRecord ==
  ASSUME NEW g, Synced(g)
  PROVE  DOMAIN meta' = MetaFields /\ meta'.game_over \in BOOLEAN
  BY DEF Synced, MetaFields

LEMMA WriteHeard ==
  ASSUME Heard, NEW g, NEW at, WriteArmed(g, at)
  PROVE  Heard'
<1>1. DOMAIN meta' = MetaFields /\ meta'.game_over \in BOOLEAN
  BY SyncedRecord DEF WriteArmed
<1>2. OverHeard' /\ DOMAIN devices' = Players
  BY BroadcastTells DEF WriteArmed, Heard, RecordShape
<1> QED BY <1>1, <1>2 DEF Heard, RecordShape

LEMMA RecoverHeard ==
  ASSUME Heard, NEW g, Recover(g)
  PROVE  Heard'
<1>1. DOMAIN meta' = MetaFields /\ meta'.game_over \in BOOLEAN
  BY SyncedRecord DEF Recover, Heard, RecordShape
<1>2. OverHeard' /\ DOMAIN devices' = Players
  BY RoomAssumption DEF Recover, OverHeard
<1> QED BY <1>1, <1>2 DEF Heard, RecordShape

\* A change of other things that pushes, or leaves the devices alone.
LEMMA PushHeard ==
  ASSUME Heard, UNCHANGED meta, Broadcast(devices) \/ UNCHANGED devices
  PROVE  Heard'
<1>1. CASE Broadcast(devices)
  BY <1>1, BroadcastTells DEF Heard, RecordShape
<1>2. CASE UNCHANGED devices
  BY <1>2 DEF Heard, RecordShape, OverHeard
<1> QED BY <1>1, <1>2

\* The answer to a device is about the record it is read from.
LEMMA ToldIsTrue ==
  ASSUME Heard, NEW p \in Players
  PROVE  /\ DOMAIN Told(p, meta) = Players
         /\ meta.game_over => \A q \in Players : Told(p, meta)[q] # FALSE
  BY DEF Told, Heard, RecordShape, OverHeard

LEMMA EventHeard ==
  ASSUME Heard, NEW p \in Players, NEW ts, NEW infected, NEW heard, DeviceEvent(p, ts, infected, heard)
  PROVE  Heard'
<1>1. DOMAIN meta' = MetaFields /\ meta'.game_over \in BOOLEAN
  BY DEF DeviceEvent, Heard, RecordShape, MetaFields
<1>2. DOMAIN (IF heard THEN Told(p, meta') ELSE devices) = Players
  BY DEF Told, Heard, RecordShape
<1>3. OverHeard' /\ DOMAIN devices' = Players
  BY <1>2, BroadcastTells DEF DeviceEvent
<1> QED BY <1>1, <1>3 DEF Heard, RecordShape

LEMMA RoutesHeard ==
  ASSUME Heard, Posts
  PROVE  Heard'
<1>1. CASE \E p \in Players, ts \in Times, infected \in BOOLEAN : DeviceEvent(p, ts, infected, FALSE)
  BY <1>1, EventHeard
<1>2. CASE AddPlayer \/ AddInfected \/ Prepare
  BY <1>2, PushHeard DEF AddPlayer, AddInfected, Prepare
<1>3. CASE Reset
  <2>1. DOMAIN meta' = MetaFields /\ meta'.game_over \in BOOLEAN
    BY <1>3 DEF Reset, NewGame, MetaFields
  <2>2. OverHeard' /\ DOMAIN devices' = Players
    BY <1>3, BroadcastTells DEF Reset, Heard, RecordShape
  <2> QED BY <2>1, <2>2 DEF Heard, RecordShape
<1>4. CASE \E zero \in Players \cup {None} : StartLegacy(zero)
  <2> PICK zero \in Players \cup {None} : StartLegacy(zero)
    BY <1>4
  <2>1. meta' = [started_at |-> now, ended_at |-> None, game_over |-> FALSE, patient_zero_id |-> zero]
    BY DEF StartLegacy
  <2>2. DOMAIN devices' = Players
    BY DEF StartLegacy, ToDevices
  <2> QED BY <2>1, <2>2 DEF Heard, RecordShape, OverHeard, MetaFields
<1> QED BY <1>1, <1>2, <1>3, <1>4 DEF Posts

LEMMA DevicesHeard ==
  ASSUME Heard, DeviceSockets
  PROVE  Heard'
<1> PICK p \in Players :
      \/ DeviceConnects(p) \/ DeviceAsks(p) \/ DeviceLeaves(p)
      \/ \E ts \in Times, infected \in BOOLEAN : DeviceEvent(p, ts, infected, TRUE)
  BY DEF DeviceSockets
<1>1. CASE DeviceConnects(p)
  <2>1. CASE players[p] = Absent
    BY <1>1, <2>1, ToldIsTrue, BroadcastTells DEF DeviceConnects, Heard, RecordShape
  <2>2. CASE players[p] # Absent
    BY <1>1, <2>2, ToldIsTrue DEF DeviceConnects, Heard, RecordShape, OverHeard
  <2> QED BY <2>1, <2>2
<1>2. CASE DeviceAsks(p)
  BY <1>2, ToldIsTrue DEF DeviceAsks, Heard, RecordShape, OverHeard
<1>3. CASE DeviceLeaves(p)
  BY <1>3, RoomAssumption DEF DeviceLeaves, Heard, RecordShape, OverHeard
<1>4. CASE \E ts \in Times, infected \in BOOLEAN : DeviceEvent(p, ts, infected, TRUE)
  BY <1>4, EventHeard
<1> QED BY <1>1, <1>2, <1>3, <1>4

LEMMA GatewayHeard ==
  ASSUME Heard, Gated
  PROVE  Heard'
<1>1. CASE \E p \in Players : Register(p) \/ Ready(p)
  BY <1>1, WriteHeard, PushHeard DEF Register, Ready, Write
<1>2. CASE \E p, zero \in Players : Start(p, zero)
  BY <1>2, WriteHeard DEF Start
<1>3. CASE \E p, zero \in Players : StartCrash(p, zero)
  BY <1>3, RecoverHeard DEF StartCrash
<1>4. CASE \E v \in Players, t \in 0..MaxNow : GatewayInfects(v, t)
  BY <1>4, WriteHeard DEF GatewayInfects, Write
<1>5. CASE Close \/ TimeUp
  BY <1>5, WriteHeard DEF Close, TimeUp, Write
<1>6. CASE Alarm
  BY <1>6, WriteHeard, PushHeard DEF Alarm
<1>7. CASE \E up \in BOOLEAN : HostLink(up)
  BY <1>7, PushHeard DEF HostLink
<1> QED BY <1>1, <1>2, <1>3, <1>4, <1>5, <1>6, <1>7 DEF Gated

LEMMA HeardAlways == RoomSpec => []Heard
<1>1. RoomInit => Heard
  BY DEF RoomInit, NewGame, Heard, RecordShape, OverHeard, MetaFields
<1>2. Heard /\ [RoomNext]_roomVars => Heard'
  <2> SUFFICES ASSUME Heard, [RoomNext]_roomVars PROVE Heard'
    OBVIOUS
  <2>1. CASE Posts
    BY <2>1, RoutesHeard
  <2>2. CASE DeviceSockets
    BY <2>2, DevicesHeard
  <2>3. CASE Gated
    BY <2>3, GatewayHeard
  <2>4. CASE Crash
    BY <2>4, RecoverHeard DEF Crash
  <2>5. CASE Tick \/ (\E v \in Viewers : Join(v) \/ Leave(v)) \/ UNCHANGED roomVars
    BY <2>5, PushHeard DEF Tick, Join, Leave, roomVars
  <2> QED BY <2>1, <2>2, <2>3, <2>4, <2>5 DEF RoomNext
<1> QED BY <1>1, <1>2, PTL DEF RoomSpec

\* A device whose socket is open has heard that the game is over, whether it
\* ended before the device came or after (broadcastGameOverToDevices).
THEOREM OverIsHeard == RoomSpec => []OverHeard
<1>1. Heard => OverHeard
  BY DEF Heard
<1> QED BY <1>1, HeardAlways, PTL

-----------------------------------------------------------------------------
\* The gateway's copy.  A verdict is given to a started round, on the roster
\* and the zombies, and every write of them is followed by a copy.

EndFields == {"winner", "elapsed", "final"}
LobbyFields ==
  {"roster", "round", "ready", "started", "start_time", "patient_zero", "zombies", "end"}

Formed(g) ==
  /\ DOMAIN g = LobbyFields /\ DOMAIN g.end = EndFields
  /\ g.roster \subseteq Players /\ DOMAIN g.zombies \subseteq g.roster
  /\ g.end.winner \in {None, "H", "Z"}
  /\ g.end.winner # None => g.started
  /\ g.end.final => g.end.winner # None
  /\ g.started => g.round
Verdict(g) == g.end.winner = "Z" <=> g.end.winner # None /\ AllInfected(g)
Copied ==
  Enabled =>
    /\ population = [num_players |-> Cardinality(gateway.roster),
                     num_infected |-> Cardinality(DOMAIN gateway.zombies)]
    /\ Infected(players) \cap gateway.roster = DOMAIN gateway.zombies
    /\ meta.game_over <=> gateway.end.winner # None
CountInv == Formed(gateway) /\ Verdict(gateway) /\ Copied

LEMMA NoneIsNoWinner == None \notin Int /\ None # "H" /\ None # "Z"
  BY RoomAssumption

\* finishIfDue changes the verdict only, and leaves none under way.
LEMMA FinishedKeeps ==
  ASSUME NEW g, Formed(g)
  PROVE  /\ DOMAIN Finished(g) = LobbyFields /\ DOMAIN Finished(g).end = EndFields
         /\ Finished(g).roster = g.roster /\ Finished(g).zombies = g.zombies
         /\ Finished(g).round = g.round
         /\ Finished(g).started = g.started /\ Finished(g).start_time = g.start_time
         /\ Finished(g).end.winner \in {None, "H", "Z"}
         /\ Finished(g).end.winner # None => g.started
         /\ Finished(g).end.final => Finished(g).end.winner # None
         /\ Running(Finished(g)) => Running(g)
<1>1. CASE Finished(g) = g
  BY <1>1 DEF Formed
<1>2. CASE Finished(g) = [g EXCEPT !.end.winner = IF AllInfected(g) THEN "Z" ELSE "H"] /\ g.started
  BY <1>2, NoneIsNoWinner DEF Formed, Running, LobbyFields, EndFields
<1>3. CASE Finished(g) = [g EXCEPT !.end.winner = "Z", !.end.elapsed = LastElapsed(g)] /\ g.started
  <2>1. /\ DOMAIN Finished(g) = LobbyFields /\ DOMAIN Finished(g).end = EndFields
        /\ Finished(g).roster = g.roster /\ Finished(g).zombies = g.zombies
        /\ Finished(g).round = g.round /\ Finished(g).started = g.started
        /\ Finished(g).start_time = g.start_time
    BY <1>3 DEF Formed, LobbyFields, EndFields
  <2>2. Finished(g).end.winner = "Z"
    BY <1>3 DEF Formed, LobbyFields, EndFields
  <2> QED BY <1>3, <2>1, <2>2, NoneIsNoWinner DEF Running
<1>4. CASE Finished(g) = [g EXCEPT !.end.winner = "H"] /\ g.started
  BY <1>4, NoneIsNoWinner DEF Formed, Running, LobbyFields, EndFields
<1> QED BY <1>1, <1>2, <1>3, <1>4 DEF Finished

LEMMA FinishedJudges ==
  ASSUME NEW g, Formed(g), g.end.final => Verdict(g)
  PROVE  Formed(Finished(g)) /\ Verdict(Finished(g))
<1>1. Formed(Finished(g))
  BY FinishedKeeps DEF Formed
<1>2. Verdict(Finished(g))
  <2>1. CASE Finished(g) = g /\ (~g.started \/ g.end.final)
    BY <2>1, NoneIsNoWinner DEF Formed, Verdict
  <2>2. CASE Finished(g) = g /\ g.end.winner = None
    BY <2>2, NoneIsNoWinner DEF Verdict
  <2>3. CASE Finished(g).end.winner = IF AllInfected(g) THEN "Z" ELSE "H"
    BY <2>3, NoneIsNoWinner, FinishedKeeps DEF Verdict, AllInfected
  <2>4. \/ Finished(g) = g /\ (~g.started \/ g.end.final)
        \/ Finished(g) = g /\ g.end.winner = None
        \/ Finished(g).end.winner = IF AllInfected(g) THEN "Z" ELSE "H"
    BY DEF Finished, Formed, LobbyFields, EndFields
  <2> QED BY <2>1, <2>2, <2>3, <2>4
<1> QED BY <1>1, <1>2

LEMMA SyncedCopies ==
  ASSUME NEW g, Formed(g), Synced(g), gateway' = g
  PROVE  Copied'
<1>1. population' = [num_players |-> Cardinality(gateway'.roster),
                     num_infected |-> Cardinality(DOMAIN gateway'.zombies)]
  BY DEF Synced
<1>2. meta'.game_over <=> gateway'.end.winner # None
  BY DEF Synced
<1>3. Infected(players') \cap gateway'.roster = DOMAIN gateway'.zombies
  BY DEF Synced, Infected, Formed
<1> QED BY <1>1, <1>2, <1>3 DEF Copied, Infected

LEMMA WriteCounts ==
  ASSUME NEW g, Formed(g), Verdict(g), NEW at, WriteArmed(g, at)
  PROVE  CountInv'
  BY SyncedCopies DEF WriteArmed, CountInv, Formed, Verdict, AllInfected

\* A change of what the copy and the verdict do not read.
LEMMA CountStands ==
  ASSUME CountInv, UNCHANGED <<population, meta, players>>, Formed(gateway'),
         gateway'.roster = gateway.roster, gateway'.zombies = gateway.zombies,
         gateway'.end = gateway.end
  PROVE  CountInv'
  BY DEF CountInv, Formed, Verdict, AllInfected, Copied, Enabled, Infected

LEMMA StartedForms ==
  ASSUME CountInv, NEW p, Acks(p), LastReady(p), NEW zero \in gateway.roster
  PROVE  Formed(Started(p, zero)) /\ Verdict(Started(p, zero))
<1> DEFINE g == Started(p, zero)
<1>1. /\ DOMAIN g = LobbyFields /\ g.end = gateway.end /\ g.roster = gateway.roster
      /\ g.started /\ g.round = gateway.round /\ DOMAIN g.zombies = {zero}
  BY DEF Started, CountInv, Formed, LobbyFields
<1>2. gateway.end.winner = None
  BY DEF LastReady, CountInv, Formed
<1> QED BY <1>1, <1>2, NoneIsNoWinner DEF CountInv, Formed, Verdict, Acks

LEMMA RecoverCounts ==
  ASSUME CountInv, NEW g, Formed(g), Verdict(g), Recover(g)
  PROVE  CountInv'
<1>1. Formed(gateway') /\ Verdict(gateway')
  BY FinishedJudges DEF Recover
<1>2. Copied'
  <2>1. CASE Finished(g) = g /\ g = gateway
    BY <2>1 DEF Recover, CountInv, Copied, Enabled, Infected
  <2>2. CASE ~(Finished(g) = g /\ g = gateway)
    BY <2>2, <1>1, SyncedCopies DEF Recover
  <2> QED BY <2>1, <2>2
<1> QED BY <1>1, <1>2 DEF CountInv, Formed, Verdict, AllInfected

\* The legacy routes write only while the roster is empty, and leave it so.
LEMMA RoutesCount ==
  ASSUME CountInv, Posts
  PROVE  CountInv'
<1>1. ASSUME ~Enabled, UNCHANGED gateway PROVE CountInv'
  BY <1>1 DEF CountInv, Formed, Verdict, AllInfected, Copied, Enabled
<1>2. CASE Reset
  <2>1. gateway' = NewLobby
    BY <1>2 DEF Reset
  <2> QED BY <2>1, NoneIsNoWinner
          DEF CountInv, Formed, Verdict, AllInfected, Copied, Enabled, NewLobby, NoEnd,
              LobbyFields, EndFields
<1>3. CASE Prepare
  BY <1>3, CountStands DEF Prepare, CountInv, Formed, LobbyFields
<1> QED BY <1>1, <1>2, <1>3 DEF Posts, DeviceEvent, AddPlayer, AddInfected, StartLegacy

LEMMA DevicesCount ==
  ASSUME CountInv, DeviceSockets
  PROVE  CountInv'
<1>1. ASSUME ~Enabled, UNCHANGED gateway PROVE CountInv'
  BY <1>1 DEF CountInv, Formed, Verdict, AllInfected, Copied, Enabled
<1>2. ASSUME NEW p \in Players, DeviceAsks(p) \/ DeviceLeaves(p) PROVE CountInv'
  BY <1>2, CountStands DEF DeviceAsks, DeviceLeaves, CountInv
<1> QED BY <1>1, <1>2 DEF DeviceSockets, DeviceEvent, DeviceConnects

LEMMA GatewayCounts ==
  ASSUME CountInv, Gated
  PROVE  CountInv'
<1>1. ASSUME NEW p \in Players, Register(p) PROVE CountInv'
  <2> DEFINE g == [gateway EXCEPT !.roster = @ \cup {p}]
  <2>1. /\ DOMAIN g = LobbyFields /\ g.roster = gateway.roster \cup {p}
        /\ g.zombies = gateway.zombies /\ g.end = gateway.end
        /\ g.started = gateway.started /\ g.round = gateway.round
    BY DEF CountInv, Formed, LobbyFields
  <2>2. Formed(g)
    BY <2>1 DEF CountInv, Formed
  <2>3. Verdict(g)
    <3>1. CASE p \in gateway.roster
      BY <3>1, <2>1 DEF CountInv, Verdict, AllInfected
    <3>2. CASE ~gateway.round
      BY <3>2, <2>1, NoneIsNoWinner DEF CountInv, Formed, Verdict
    <3> QED BY <1>1, <3>1, <3>2 DEF Register
  <2> QED BY <1>1, <2>2, <2>3, WriteCounts DEF Register, Write
<1>2. ASSUME NEW p \in Players, Ready(p) PROVE CountInv'
  BY <1>2, CountStands DEF Ready, CountInv, Formed, LobbyFields
<1>3. ASSUME NEW p \in Players, NEW zero \in Players, Start(p, zero) \/ StartCrash(p, zero) PROVE CountInv'
  BY <1>3, StartedForms, WriteCounts, RecoverCounts DEF Start, StartCrash
<1>4. ASSUME NEW v \in Players, NEW t \in 0..MaxNow, GatewayInfects(v, t) PROVE CountInv'
  <2> DEFINE g == [gateway EXCEPT !.zombies =
                     [p \in DOMAIN @ \cup {v} |-> IF p = v THEN t ELSE @[p]]]
  <2>1. /\ DOMAIN g = LobbyFields /\ g.roster = gateway.roster /\ g.end = gateway.end
        /\ DOMAIN g.zombies = DOMAIN gateway.zombies \cup {v}
        /\ g.started = gateway.started /\ g.round = gateway.round
    BY DEF CountInv, Formed, LobbyFields
  <2>2. Formed(g) /\ ~g.end.final
    BY <1>4, <2>1 DEF CountInv, Formed, GatewayInfects
  <2>3. Formed(Finished(g)) /\ Verdict(Finished(g))
    BY <2>2, FinishedJudges
  <2> QED BY <1>4, <2>3, WriteCounts DEF GatewayInfects, Write
<1>5. CASE Close
  <2> DEFINE g == [gateway EXCEPT !.end.final = TRUE]
  <2>1. /\ DOMAIN g = LobbyFields /\ g.roster = gateway.roster /\ g.zombies = gateway.zombies
        /\ DOMAIN g.end = EndFields /\ g.end.winner = gateway.end.winner
        /\ g.started = gateway.started /\ g.round = gateway.round
        /\ gateway.end.winner # None
    BY <1>5 DEF Close, CountInv, Formed, LobbyFields, EndFields
  <2>2. Formed(g) /\ Verdict(g)
    BY <2>1 DEF CountInv, Formed, Verdict, AllInfected
  <2> QED BY <1>5, <2>2, WriteCounts DEF Close, Write
<1>6. CASE TimeUp \/ Alarm
  <2>1. Formed(Finished(gateway)) /\ Verdict(Finished(gateway))
    BY FinishedJudges DEF CountInv
  <2> QED BY <1>6, <2>1, WriteCounts, CountStands DEF TimeUp, Alarm, Write, CountInv
<1>7. ASSUME NEW up \in BOOLEAN, HostLink(up) PROVE CountInv'
  BY <1>7, CountStands DEF HostLink, CountInv
<1> QED BY <1>1, <1>2, <1>3, <1>4, <1>5, <1>6, <1>7 DEF Gated

LEMMA CountAlways == RoomSpec => []CountInv
<1>1. RoomInit => CountInv
  BY NoneIsNoWinner
  DEF RoomInit, NewLobby, NoEnd, CountInv, Formed, Verdict, AllInfected, Copied, Enabled,
      LobbyFields, EndFields
<1>2. CountInv /\ [RoomNext]_roomVars => CountInv'
  <2> SUFFICES ASSUME CountInv, [RoomNext]_roomVars PROVE CountInv'
    OBVIOUS
  <2>1. CASE Posts
    BY <2>1, RoutesCount
  <2>2. CASE DeviceSockets
    BY <2>2, DevicesCount
  <2>3. CASE Gated
    BY <2>3, GatewayCounts
  <2>4. CASE Crash
    BY <2>4, RecoverCounts DEF Crash, CountInv
  <2>5. CASE Tick \/ (\E v \in Viewers : Join(v) \/ Leave(v)) \/ UNCHANGED roomVars
    BY <2>5, CountStands DEF Tick, Join, Leave, roomVars, CountInv
  <2> QED BY <2>1, <2>2, <2>3, <2>4, <2>5 DEF RoomNext
<1> QED BY <1>1, <1>2, PTL DEF RoomSpec

\* In a gateway game the tables say what the gateway's roles and result say
\* (syncPopulation), for every roster and every order of writes.
THEOREM TablesAgree == RoomSpec => []OneCount
<1>1. CountInv => OneCount
  BY DEF CountInv, Copied, Verdict, OneCount
<1> QED BY <1>1, CountAlways, PTL

-----------------------------------------------------------------------------
\* The alarm.  An alarm left over by an earlier round is no later than any
\* round that is still to start will need it.

Clocked(g) == g.started => g.start_time \in Int /\ g.start_time <= now + Countdown
AlarmSoon == alarm # None => alarm \in Int /\ alarm <= now + Countdown + Duration
AlarmInv ==
  /\ Formed(gateway) /\ now \in Int /\ Clocked(gateway) /\ AlarmSoon /\ Armed

\* A write that starts nothing and leaves the alarm alone.
LEMMA StandsArmed ==
  ASSUME AlarmInv, Formed(gateway'), UNCHANGED <<alarm, now>>,
         gateway'.started => gateway.started, gateway'.start_time = gateway.start_time,
         Running(gateway') => Running(gateway)
  PROVE  AlarmInv'
  BY DEF AlarmInv, Clocked, AlarmSoon, Armed, Deadline

LEMMA StartedClocks ==
  ASSUME AlarmInv, NEW p, LastReady(p), NEW zero \in gateway.roster, gateway.round
  PROVE  /\ Formed(Started(p, zero)) /\ Clocked(Started(p, zero))
         /\ Deadline(Started(p, zero)) = now + Countdown + Duration
<1> DEFINE g == Started(p, zero)
<1>1. /\ DOMAIN g = LobbyFields /\ g.end = gateway.end /\ g.roster = gateway.roster
      /\ g.started /\ g.round = gateway.round /\ DOMAIN g.zombies = {zero}
      /\ g.start_time = now + Countdown
  BY DEF Started, AlarmInv, Formed, LobbyFields
<1> QED BY <1>1, RoomAssumption DEF AlarmInv, Formed, Clocked, Deadline

\* Waking up sets a lost alarm, and keeps one that is early enough.
LEMMA RecoverArmed ==
  ASSUME AlarmInv, NEW g, Formed(g), Clocked(g), Recover(g),
         Running(g) /\ alarm # None => alarm <= Deadline(g)
  PROVE  AlarmInv'
<1>1. /\ Formed(gateway') /\ gateway'.started = g.started /\ gateway'.start_time = g.start_time
      /\ Running(gateway') => Running(g)
  BY FinishedKeeps DEF Recover, Formed
<1>2. Formed(gateway)' /\ now' = now
  BY <1>1 DEF Recover, Formed
<1>3. Running(g) => Deadline(g) \in Int /\ Deadline(g) <= now + Countdown + Duration
  BY RoomAssumption DEF AlarmInv, Clocked, Deadline, Running
<1>4. AlarmSoon' /\ Armed'
  <2>1. CASE alarm = None /\ Running(gateway')
    <3>1. alarm' = Deadline(g) /\ Running(g)
      BY <2>1, <1>1 DEF Recover
    <3>2. Deadline(gateway') = Deadline(g)
      BY <1>1 DEF Deadline
    <3>3. AlarmSoon'
      BY <3>1, <1>2, <1>3 DEF AlarmSoon
    <3>4. Armed'
      BY <3>1, <3>2, <1>3, NoneIsNoWinner DEF Armed, Deadline
    <3> QED BY <3>3, <3>4
  <2>2. CASE ~(alarm = None /\ Running(gateway'))
    <3>1. alarm' = alarm
      BY <2>2 DEF Recover
    <3> QED BY <2>2, <3>1, <1>1, <1>2 DEF AlarmInv, AlarmSoon, Armed, Deadline, Running
  <2> QED BY <2>1, <2>2
<1> QED BY <1>1, <1>2, <1>4 DEF AlarmInv, Clocked

LEMMA RoutesArmed ==
  ASSUME AlarmInv, Posts
  PROVE  AlarmInv'
<1>1. ASSUME UNCHANGED <<gateway, alarm, now>> PROVE AlarmInv'
  BY <1>1, StandsArmed DEF AlarmInv
<1>2. CASE Reset
  <2>1. /\ gateway' = NewLobby /\ UNCHANGED <<alarm, now>>
    BY <1>2 DEF Reset
  <2> QED BY <2>1
          DEF AlarmInv, Formed, Clocked, AlarmSoon, Armed, Running, NewLobby, NoEnd,
              LobbyFields, EndFields
<1>3. CASE Prepare
  BY <1>3, StandsArmed DEF Prepare, AlarmInv, Formed, LobbyFields, Running
<1> QED BY <1>1, <1>2, <1>3 DEF Posts, DeviceEvent, AddPlayer, AddInfected, StartLegacy

LEMMA GatewayArmed ==
  ASSUME AlarmInv, Gated
  PROVE  AlarmInv'
<1>1. ASSUME NEW p \in Players, Register(p) PROVE AlarmInv'
  BY <1>1, StandsArmed DEF Register, Write, WriteArmed, AlarmInv, Formed, LobbyFields, Running
<1>2. ASSUME NEW p \in Players, Ready(p) PROVE AlarmInv'
  BY <1>2, StandsArmed DEF Ready, AlarmInv, Formed, LobbyFields, Running
<1>3. ASSUME NEW p \in Players, NEW zero \in Players, Start(p, zero) PROVE AlarmInv'
  <2> DEFINE g == Started(p, zero)
  <2>1. Formed(g) /\ Clocked(g) /\ Deadline(g) = now + Countdown + Duration
    BY <1>3, StartedClocks DEF Start, Acks
  <2>2. gateway' = g /\ alarm' = Deadline(g) /\ now' = now
    BY <1>3 DEF Start, WriteArmed
  <2>3. Deadline(g) \in Int /\ now \in Int
    BY <2>1, RoomAssumption DEF AlarmInv
  <2> HIDE DEF g
  <2>4. Formed(gateway)' /\ Clocked(gateway)'
    BY <2>1, <2>2 DEF Formed, Clocked
  <2>5. AlarmSoon'
    BY <2>1, <2>2, <2>3 DEF AlarmSoon
  <2>6. Armed'
    BY <2>2, <2>3, NoneIsNoWinner DEF Armed, Deadline
  <2> QED BY <2>2, <2>3, <2>4, <2>5, <2>6 DEF AlarmInv
<1>4. ASSUME NEW p \in Players, NEW zero \in Players, StartCrash(p, zero) PROVE AlarmInv'
  <2> DEFINE g == Started(p, zero)
  <2>1. Formed(g) /\ Clocked(g) /\ Deadline(g) = now + Countdown + Duration /\ Recover(g)
    BY <1>4, StartedClocks DEF StartCrash, Acks
  <2> HIDE DEF g
  <2> QED BY <2>1, RecoverArmed DEF AlarmInv, AlarmSoon
<1>5. ASSUME NEW v \in Players, NEW t \in 0..MaxNow, GatewayInfects(v, t) PROVE AlarmInv'
  <2> DEFINE g == [gateway EXCEPT !.zombies =
                     [p \in DOMAIN @ \cup {v} |-> IF p = v THEN t ELSE @[p]]]
  <2>1. /\ DOMAIN g = LobbyFields /\ g.roster = gateway.roster /\ g.end = gateway.end
        /\ DOMAIN g.zombies = DOMAIN gateway.zombies \cup {v}
        /\ g.started = gateway.started /\ g.round = gateway.round
        /\ g.start_time = gateway.start_time
    BY DEF AlarmInv, Formed, LobbyFields
  <2>2. Formed(g) /\ (Running(g) => Running(gateway))
    BY <1>5, <2>1 DEF AlarmInv, Formed, GatewayInfects, Running
  <2>3. gateway' = Finished(g) /\ UNCHANGED <<alarm, now>>
    BY <1>5 DEF GatewayInfects, Write, WriteArmed
  <2> HIDE DEF g
  <2>4. Formed(gateway') /\ gateway'.started = gateway.started
        /\ gateway'.start_time = gateway.start_time /\ (Running(gateway') => Running(gateway))
    BY <2>1, <2>2, <2>3, FinishedKeeps DEF Formed
  <2> QED BY <2>3, <2>4, StandsArmed
<1>6. CASE Close
  <2>1. /\ DOMAIN gateway' = LobbyFields /\ gateway'.roster = gateway.roster
        /\ gateway'.zombies = gateway.zombies
        /\ DOMAIN gateway'.end = EndFields /\ gateway'.end.winner = gateway.end.winner
        /\ gateway.end.winner # None /\ gateway'.started = gateway.started /\ gateway'.round = gateway.round
        /\ gateway'.start_time = gateway.start_time
    BY <1>6 DEF Close, Write, WriteArmed, AlarmInv, Formed, LobbyFields, EndFields
  <2> QED BY <1>6, <2>1, StandsArmed DEF Close, Write, WriteArmed, AlarmInv, Formed, Running
<1>7. ASSUME gateway' = Finished(gateway)
      PROVE  /\ Formed(gateway') /\ gateway'.started = gateway.started
             /\ gateway'.start_time = gateway.start_time
             /\ Running(gateway') => Running(gateway)
  BY <1>7, FinishedKeeps DEF AlarmInv, Formed
<1>8. CASE TimeUp
  BY <1>8, <1>7, StandsArmed DEF TimeUp, Write, WriteArmed
<1>9. CASE Alarm
  <2>1. CASE Running(gateway)
    <3>1. /\ gateway' = Finished(gateway) /\ now' = now
          /\ alarm' = IF Due THEN None ELSE Deadline(gateway)
      BY <1>9, <2>1 DEF Alarm, WriteArmed
    <3>2. Due => ~Running(gateway')
      BY <3>1, <2>1, NoneIsNoWinner DEF Due, Finished, Running, Deadline, AlarmInv, Formed,
                                        LobbyFields, EndFields
    <3>3. Deadline(gateway) \in Int /\ Deadline(gateway) <= now + Countdown + Duration
      BY <2>1, RoomAssumption DEF AlarmInv, Clocked, Deadline, Running
    <3>4. Formed(gateway)' /\ Clocked(gateway)' /\ now' \in Int
      BY <3>1, <1>7 DEF AlarmInv, Formed, Clocked
    <3>5. AlarmSoon'
      BY <3>1, <3>3 DEF AlarmSoon
    <3>6. Armed'
      <4>1. Deadline(gateway') = Deadline(gateway)
        BY <3>1, <1>7 DEF Deadline
      <4> QED BY <3>1, <3>2, <3>3, <4>1, NoneIsNoWinner DEF Armed, Running, Deadline
    <3> QED BY <3>4, <3>5, <3>6 DEF AlarmInv
  <2>2. CASE ~Running(gateway)
    BY <1>9, <2>2 DEF Alarm, AlarmInv, Clocked, AlarmSoon, Armed, Formed, Running
  <2> QED BY <2>1, <2>2
<1>10. ASSUME NEW up \in BOOLEAN, HostLink(up) PROVE AlarmInv'
  BY <1>10, StandsArmed DEF HostLink, AlarmInv
<1> QED BY <1>1, <1>2, <1>3, <1>4, <1>5, <1>6, <1>8, <1>9, <1>10 DEF Gated

\* A round under way never waits for an alarm that is not set or comes after
\* its time (recoverAlarm, alarm, and the alarm that maybeStart sets last).
THEOREM RoundsEnd == RoomSpec => []Armed
<1>1. RoomInit => AlarmInv
  BY NoneIsNoWinner
  DEF RoomInit, NewLobby, NoEnd, AlarmInv, Formed, Clocked, AlarmSoon, Armed, Running,
      LobbyFields, EndFields
<1>2. AlarmInv /\ [RoomNext]_roomVars => AlarmInv'
  <2> SUFFICES ASSUME AlarmInv, [RoomNext]_roomVars PROVE AlarmInv'
    OBVIOUS
  <2>1. CASE Posts
    BY <2>1, RoutesArmed
  <2>2. CASE DeviceSockets
    BY <2>2, StandsArmed
    DEF DeviceSockets, DeviceEvent, DeviceConnects, DeviceAsks, DeviceLeaves, AlarmInv
  <2>3. CASE Gated
    BY <2>3, GatewayArmed
  <2>4. CASE Crash
    BY <2>4, RecoverArmed DEF Crash, AlarmInv, Armed
  <2>5. CASE Tick
    <3>1. now' = now + 1 /\ UNCHANGED <<gateway, alarm>>
      BY <2>5 DEF Tick
    <3>2. Formed(gateway)' /\ Armed'
      BY <3>1 DEF AlarmInv, Formed, Armed, Deadline, Running
    <3>3. Clocked(gateway)'
      <4>1. gateway.started => gateway.start_time \in Int /\ gateway.start_time <= now + 1 + Countdown
        BY RoomAssumption DEF AlarmInv, Clocked
      <4> QED BY <3>1, <4>1 DEF Clocked
    <3>4. AlarmSoon'
      <4>1. alarm # None => alarm \in Int /\ alarm <= now + 1 + Countdown + Duration
        BY RoomAssumption DEF AlarmInv, AlarmSoon
      <4> QED BY <3>1, <4>1 DEF AlarmSoon
    <3> QED BY <3>1, <3>2, <3>3, <3>4 DEF AlarmInv
  <2>6. CASE (\E v \in Viewers : Join(v) \/ Leave(v)) \/ UNCHANGED roomVars
    BY <2>6, StandsArmed DEF Join, Leave, roomVars, AlarmInv
  <2> QED BY <2>1, <2>2, <2>3, <2>4, <2>5, <2>6 DEF RoomNext
<1>3. AlarmInv => Armed
  BY DEF AlarmInv
<1> QED BY <1>1, <1>2, <1>3, PTL DEF RoomSpec


-----------------------------------------------------------------------------
\* One way.  What the tables say of a game is dated: an infection by the row it
\* was copied to, the end by an infection or by the gateway's own end.

\* A non-empty set of bounded naturals has a greatest element.
LEMMA Latest ==
  ASSUME NEW S \in SUBSET (0..MaxNow), S # {}
  PROVE  \E m \in S : \A k \in S : k <= m
<1> DEFINE U == {u \in 0..MaxNow : \A k \in S : k <= u}
           Less == OpToRel(<, Nat)
<1>1. U \subseteq Nat /\ MaxNow \in U
  BY RoomAssumption
<1>2. \A x, y \in Nat : <<y, x>> \in Less <=> y < x
  BY DEF OpToRel
<1>3. PICK x \in U : \A y \in U : ~ (<<y, x>> \in Less)
  <2>1. IsWellFoundedOn(Less, Nat)
    BY NatLessThanWellFounded
  <2> HIDE DEF U, Less
  <2> QED BY <1>1, <2>1, WFMin
<1>4. \A y \in U : ~ (y < x)
  BY <1>1, <1>2, <1>3
<1>5. x \in S
  <2>1. CASE x = 0
    <3>1. PICK k \in S : TRUE
      OBVIOUS
    <3>2. k = 0
      BY <2>1, <3>1
    <3> QED BY <2>1, <3>2
  <2>2. CASE x # 0
    <3>1. x - 1 \in 0..MaxNow /\ x - 1 < x
      BY <2>2, RoomAssumption
    <3>2. x - 1 \notin U
      BY <1>4, <3>1
    <3>3. PICK k \in S : k > x - 1
      BY <3>1, <3>2
    <3>4. k = x
      BY <3>3
    <3> QED BY <3>4
  <2> QED BY <2>1, <2>2
<1> QED BY <1>5

RowOf(g, row, p) ==
  [state |-> "infected", joined_at |-> row.joined_at, infected_at |-> g.start_time + g.zombies[p]]
Dated(g) ==
  /\ g.start_time \in Int /\ g.end.elapsed \in Int
  /\ \A p \in DOMAIN g.zombies : g.zombies[p] \in 0..MaxNow
  /\ ~g.started => DOMAIN g.zombies = {}
  /\ g.started => g.roster # {}
LegacyDates ==
  ~Enabled =>
    /\ \A p \in Infected(players) : players[p].infected_at \in 0..MaxNow
    /\ meta.game_over => \E p \in Infected(players) : meta.ended_at = players[p].infected_at
GatewayDates ==
  Enabled =>
    /\ \A p \in DOMAIN gateway.zombies : players[p] = RowOf(gateway, players[p], p)
    /\ gateway.end.winner # None => meta.ended_at = gateway.start_time + gateway.end.elapsed
Dates ==
  /\ now \in 0..MaxNow /\ DOMAIN players = Players
  /\ \A p \in Players : players[p].state = "absent" => players[p] = Absent
  /\ Dated(gateway) /\ LegacyDates /\ GatewayDates
DatesInv == Heard /\ CountInv /\ Dates

\* What OneWay says of a step that starts or resets nothing.
Onward ==
  /\ \A p \in Infected(players) \ (gateway'.roster \ gateway.roster) : players'[p] = players[p]
  /\ (Enabled = Enabled' /\ meta.game_over) =>
       /\ meta'.game_over /\ meta'.ended_at >= meta.ended_at
       /\ Enabled => meta'.ended_at = meta.ended_at

LEMMA FinishedDates ==
  ASSUME NEW g, Formed(g), Dated(g)
  PROVE  /\ Dated(Finished(g))
         /\ g.end.winner # None =>
              Finished(g).end.winner # None /\ Finished(g).end.elapsed = g.end.elapsed
<1> DEFINE f == Finished(g)
<1>1. /\ f.roster = g.roster /\ f.zombies = g.zombies
      /\ f.started = g.started /\ f.start_time = g.start_time
  BY FinishedKeeps
<1>2. f.end.elapsed = g.end.elapsed \/ (f.end.elapsed = LastElapsed(g) /\ AllInfected(g))
  BY DEF Finished, Formed, LobbyFields, EndFields
<1>3. ASSUME AllInfected(g) PROVE LastElapsed(g) \in Int
  <2> DEFINE S == {g.zombies[p] : p \in DOMAIN g.zombies}
  <2>1. S \in SUBSET (0..MaxNow) /\ S # {}
    BY <1>3 DEF AllInfected, Dated
  <2>2. \E m \in S : \A k \in S : k <= m
    <3> HIDE DEF S
    <3> QED BY <2>1, Latest
  <2>3. \E m \in S : \A q \in DOMAIN g.zombies : g.zombies[q] <= m
    BY <2>2
  <2>4. LastElapsed(g) \in S
    BY <2>3 DEF LastElapsed
  <2> QED BY <2>1, <2>4, RoomAssumption
<1>4. g.end.winner # None => f.end.winner # None /\ f.end.elapsed = g.end.elapsed
  BY NoneIsNoWinner DEF Finished, Formed, LobbyFields, EndFields
<1> HIDE DEF f
<1> QED BY <1>1, <1>2, <1>3, <1>4 DEF Dated, f

\* A gateway's state that goes on from another.
Grows(g, h) ==
  /\ g.roster \subseteq h.roster
  /\ \A p \in DOMAIN g.zombies :
       p \in DOMAIN h.zombies /\ h.zombies[p] = g.zombies[p] /\ h.start_time = g.start_time
  /\ g.end.winner # None =>
       h.end.winner # None /\ h.end.elapsed = g.end.elapsed /\ h.start_time = g.start_time

\* Copied, it changes no row of one who was infected.
LEMMA CopyOnward ==
  ASSUME DatesInv, NEW g, Formed(g), Dated(g), Grows(gateway, g), g.roster # {},
         gateway' = g, Synced(g), now' = now
  PROVE  Onward /\ Dates'
<1>1. players' = [p \in Players |->
        IF p \notin g.roster THEN players[p]
        ELSE [state |-> IF p \in DOMAIN g.zombies THEN "infected" ELSE "not infected",
              joined_at |-> IF players[p] = Absent THEN now ELSE players[p].joined_at,
              infected_at |-> IF p \in DOMAIN g.zombies THEN g.start_time + g.zombies[p] ELSE None]]
  BY DEF Synced
<1>2. /\ meta'.game_over = (g.end.winner # None)
      /\ meta'.ended_at = IF g.end.winner # None THEN g.start_time + g.end.elapsed ELSE None
  BY DEF Synced
<1>3. ASSUME NEW p \in Infected(players), p \notin g.roster \ gateway.roster
      PROVE  players'[p] = players[p]
  <2>1. p \in Players /\ players[p].state = "infected"
    BY DEF Infected
  <2>2. CASE p \notin g.roster
    BY <1>1, <2>1, <2>2
  <2>3. CASE p \in g.roster
    <3>1. p \in gateway.roster /\ Enabled
      BY <1>3, <2>3 DEF Enabled
    <3>2. p \in DOMAIN gateway.zombies
      BY <3>1 DEF DatesInv, CountInv, Copied
    <3>3. players[p] = RowOf(gateway, players[p], p)
      BY <3>1, <3>2 DEF DatesInv, Dates, GatewayDates
    <3>4. /\ p \in DOMAIN g.zombies /\ g.zombies[p] = gateway.zombies[p]
          /\ g.start_time = gateway.start_time
      BY <3>2 DEF Grows
    <3>5. players[p] # Absent
      BY <2>1 DEF Absent
    <3>6. players'[p] = RowOf(gateway, players[p], p)
      BY <1>1, <2>1, <2>3, <3>4, <3>5 DEF RowOf
    <3> QED BY <3>3, <3>6
  <2> QED BY <2>2, <2>3
<1>4. ASSUME Enabled = Enabled', meta.game_over
      PROVE  meta'.game_over /\ meta'.ended_at >= meta.ended_at /\ meta'.ended_at = meta.ended_at
  <2>1. Enabled
    BY <1>4 DEF Enabled
  <2>2. gateway.end.winner # None
    BY <1>4, <2>1 DEF DatesInv, CountInv, Copied
  <2>3. /\ meta.ended_at = gateway.start_time + gateway.end.elapsed
        /\ gateway.start_time \in Int /\ gateway.end.elapsed \in Int
    BY <2>1, <2>2 DEF DatesInv, Dates, GatewayDates, Dated
  <2>4. meta'.game_over /\ meta'.ended_at = gateway.start_time + gateway.end.elapsed
    BY <1>2, <2>2 DEF Grows
  <2> QED BY <2>3, <2>4
<1>5. Onward
  BY <1>3, <1>4 DEF Onward
<1>6. ASSUME NEW p \in DOMAIN g.zombies PROVE players'[p] = RowOf(g, players'[p], p)
  BY <1>1 DEF RowOf, Formed
<1>7. GatewayDates'
  <2>1. \A p \in DOMAIN gateway'.zombies : players'[p] = RowOf(gateway', players'[p], p)
    BY <1>6
  <2> QED BY <1>2, <2>1 DEF GatewayDates, RowOf
<1>8. LegacyDates'
  BY DEF LegacyDates, Enabled
<1>9. Dated(gateway)' /\ DOMAIN players' = Players /\ (now \in 0..MaxNow)'
  BY <1>1 DEF Dated, DatesInv, Dates
<1>10. \A p \in Players : players'[p].state = "absent" => players'[p] = Absent
  BY <1>1 DEF DatesInv, Dates
<1> QED BY <1>5, <1>7, <1>8, <1>9, <1>10 DEF Dates

\* Nothing of the tables changes, and the gateway in no more than readiness.
LEMMA TablesStand ==
  ASSUME DatesInv, UNCHANGED <<meta, players>>, now' \in 0..MaxNow,
         gateway'.roster = gateway.roster, gateway'.zombies = gateway.zombies,
         gateway'.end = gateway.end, gateway'.start_time = gateway.start_time,
         gateway'.started = gateway.started
  PROVE  Onward /\ Dates'
<1>1. Dates'
  BY DEF DatesInv, Dates, Dated, LegacyDates, GatewayDates, Enabled, Infected, RowOf
<1>2. ASSUME meta.game_over PROVE meta.ended_at >= meta.ended_at
  <2>1. meta.ended_at \in Int
    <3>1. CASE Enabled
      BY <1>2, <3>1 DEF DatesInv, Dates, Dated, GatewayDates, CountInv, Copied
    <3>2. CASE ~Enabled
      BY <1>2, <3>2, RoomAssumption DEF DatesInv, Dates, LegacyDates
    <3> QED BY <3>1, <3>2
  <2> QED BY <2>1
<1> QED BY <1>1, <1>2 DEF Onward

\* A legacy report enters its device or infects it, once.
LEMMA ReportOnward ==
  ASSUME DatesInv, NEW p \in Players, NEW ts \in Times, NEW infected \in BOOLEAN, NEW heard,
         DeviceEvent(p, ts, infected, heard)
  PROVE  Onward /\ Dates'
<1>1. ~Enabled /\ gateway' = gateway /\ now' = now
  BY DEF DeviceEvent
<1>2. /\ players' = [players EXCEPT ![p] = Reported(players[p], ts, infected)]
      /\ DOMAIN players = Players
  BY DEF DeviceEvent, DatesInv, Dates
<1>3. DOMAIN players' = Players
  BY <1>2
<1>a. /\ Reported(players[p], ts, infected).state # "absent"
      /\ players[p].state # "infected" /\ Reported(players[p], ts, infected).state = "infected" =>
           Reported(players[p], ts, infected).infected_at = ts
  BY DEF Reported, Human, Absent, DatesInv, Dates
<1>4. \A q \in Infected(players) : players'[q] = players[q] /\ q \in Infected(players')
  BY <1>2 DEF Infected, Reported, Absent
<1>5. \A q \in Infected(players) : players[q].infected_at \in 0..MaxNow
  BY <1>1 DEF DatesInv, Dates, LegacyDates
<1>6. ASSUME NEW q \in Infected(players') PROVE players'[q].infected_at \in 0..MaxNow
  <2>1. CASE q \in Infected(players)
    BY <1>4, <1>5, <2>1
  <2>2. CASE q \notin Infected(players)
    <3>1. q = p /\ q \in Players
      BY <1>2, <1>6, <2>2 DEF Infected
    <3>2. players[p].state # "infected"
      BY <2>2, <3>1 DEF Infected
    <3>3. players'[p].state = "infected" /\ players'[p] = Reported(players[p], ts, infected)
      BY <1>2, <1>6, <3>1 DEF Infected
    <3>4. players'[p].infected_at = ts
      BY <1>a, <3>2, <3>3
    <3>5. ts \in 0..MaxNow
      BY DEF Times
    <3> QED BY <3>1, <3>4, <3>5
  <2> QED BY <2>1, <2>2
<1> DEFINE S == {players'[q].infected_at : q \in Infected(players')}
           begun == [meta EXCEPT !.started_at = IF @ = None THEN ts ELSE @]
<1>7. /\ begun.game_over = meta.game_over /\ begun.ended_at = meta.ended_at
      /\ DOMAIN begun = MetaFields
  BY DEF DatesInv, Heard, RecordShape, MetaFields
<1>8. \/ meta' = begun
      \/ /\ Infected(players') = Known(players')
         /\ meta' = [begun EXCEPT !.game_over = TRUE, !.ended_at = LastInfection(players')]
  BY DEF DeviceEvent
<1> HIDE DEF begun
<1>9. ASSUME Infected(players') = Known(players')
      PROVE  LastInfection(players') \in S /\ \A k \in S : k <= LastInfection(players')
  <2>1. p \in Known(players')
    BY <1>2, <1>a DEF Known
  <2>2. S \in SUBSET (0..MaxNow) /\ S # {}
    BY <1>6, <1>9, <2>1
  <2>3. \E m \in S : \A k \in S : k <= m
    <3> HIDE DEF S
    <3> QED BY <2>2, Latest
  <2>4. \E m \in S : \A q \in Infected(players') : players'[q].infected_at <= m
    BY <2>3
  <2> QED BY <2>4 DEF LastInfection
<1>10. \/ meta'.game_over = meta.game_over /\ meta'.ended_at = meta.ended_at
       \/ /\ meta'.game_over = TRUE /\ meta'.ended_at \in S
          /\ \A k \in S : k <= meta'.ended_at
  <2>1. CASE meta' = begun
    BY <1>7, <2>1
  <2>2. CASE meta' # begun
    <3>1. meta'.game_over = TRUE /\ meta'.ended_at = LastInfection(players')
      BY <1>7, <1>8, <2>2 DEF MetaFields
    <3>2. LastInfection(players') \in S /\ \A k \in S : k <= LastInfection(players')
      BY <1>8, <1>9, <2>2
    <3> HIDE DEF S
    <3> QED BY <3>1, <3>2
  <2> QED BY <2>1, <2>2
<1>11. ASSUME meta.game_over
       PROVE  /\ meta.ended_at \in S /\ meta.ended_at \in 0..MaxNow
  <2>1. PICK q \in Infected(players) : meta.ended_at = players[q].infected_at
    BY <1>1, <1>11 DEF DatesInv, Dates, LegacyDates
  <2> QED BY <1>4, <1>5, <2>1
<1>12. LegacyDates'
  <2>1. ASSUME meta'.game_over PROVE meta'.ended_at \in S
    BY <1>10, <1>11, <2>1
  <2>2. \A q \in Infected(players)' : players'[q].infected_at \in 0..MaxNow
    BY <1>6 DEF Infected
  <2>3. meta'.game_over => \E q \in Infected(players)' : meta'.ended_at = players'[q].infected_at
    BY <2>1 DEF Infected
  <2> QED BY <2>2, <2>3 DEF LegacyDates
<1>13. ASSUME meta.game_over PROVE meta'.game_over /\ meta'.ended_at >= meta.ended_at
  <2>1. meta.ended_at \in S /\ meta.ended_at \in Int
    BY <1>11, <1>13, RoomAssumption
  <2>2. \A k \in S : k \in Int
    BY <1>6, RoomAssumption
  <2> HIDE DEF S
  <2>3. CASE meta'.game_over = meta.game_over /\ meta'.ended_at = meta.ended_at
    BY <1>13, <2>1, <2>3
  <2>4. CASE /\ meta'.game_over = TRUE /\ meta'.ended_at \in S
             /\ \A k \in S : k <= meta'.ended_at
    <3>1. meta.ended_at <= meta'.ended_at /\ meta'.ended_at \in Int
      BY <2>1, <2>2, <2>4
    <3> QED BY <2>1, <2>4, <3>1
  <2> QED BY <1>10, <2>3, <2>4
<1>14. Dated(gateway)' /\ GatewayDates'
  BY <1>1 DEF DatesInv, Dates, Dated, GatewayDates, Enabled
<1>15. Onward
  BY <1>1, <1>4, <1>13 DEF Onward, Enabled
<1>16. \A q \in Players : players'[q].state = "absent" => players'[q] = Absent
  BY <1>2, <1>a DEF DatesInv, Dates
<1> QED BY <1>1, <1>3, <1>12, <1>14, <1>15, <1>16 DEF DatesInv, Dates

LEMMA RoutesOnward ==
  ASSUME DatesInv, Posts
  PROVE  /\ Dates'
         /\ \/ \E zero \in Players \cup {None} : StartLegacy(zero)
            \/ Reset
            \/ Onward
<1>1. CASE \E p \in Players, ts \in Times, infected \in BOOLEAN : DeviceEvent(p, ts, infected, FALSE)
  BY <1>1, ReportOnward
<1>2. CASE AddPlayer \/ AddInfected
  BY <1>2, TablesStand DEF AddPlayer, AddInfected, DatesInv, Dates
<1>3. CASE Reset
  <2>1. /\ meta' = NewGame /\ gateway' = NewLobby /\ now' = now
        /\ players' = [p \in Players |-> Absent]
    BY <1>3 DEF Reset
  <2>2. /\ gateway'.roster = {} /\ gateway'.started = FALSE /\ DOMAIN gateway'.zombies = {}
        /\ gateway'.start_time = 0 /\ gateway'.end.elapsed = Duration
        /\ gateway'.end.winner = None /\ meta'.game_over = FALSE
    BY <2>1 DEF NewLobby, NoEnd, NewGame
  <2>3. Dated(gateway)' /\ GatewayDates' /\ DOMAIN players' = Players
    BY <2>1, <2>2, RoomAssumption DEF Dated, GatewayDates, Enabled
  <2>4. LegacyDates'
    BY <2>1, <2>2 DEF LegacyDates, Infected, Absent
  <2> QED BY <1>3, <2>1, <2>3, <2>4 DEF DatesInv, Dates, Absent
<1>4. CASE \E zero \in Players \cup {None} : StartLegacy(zero)
  <2> PICK zero \in Players \cup {None} : StartLegacy(zero)
    BY <1>4
  <2>1. ~Enabled /\ gateway' = gateway /\ now' = now /\ meta'.game_over = FALSE
    BY DEF StartLegacy
  <2>2. players' = [p \in Players |->
          CASE p \notin Known(players) -> Absent
            [] p \in Known(players) /\ p # zero -> Human(players[p].joined_at)
            [] OTHER -> [Human(players[p].joined_at) EXCEPT !.state = "infected", !.infected_at = now]]
    BY DEF StartLegacy
  <2>3. ASSUME NEW p \in Players, players'[p].state = "infected"
        PROVE  players'[p].infected_at = now
    <3>1. Absent.state # "infected" /\ \A t : Human(t).state # "infected"
      BY DEF Absent, Human
    <3>2. players'[p] = [Human(players[p].joined_at) EXCEPT !.state = "infected", !.infected_at = now]
      BY <2>2, <2>3, <3>1
    <3> QED BY <3>2 DEF Human
  <2>4. LegacyDates' /\ DOMAIN players' = Players
    BY <2>1, <2>2, <2>3 DEF LegacyDates, Infected, DatesInv, Dates
  <2>5. \A p \in Players : players'[p].state = "absent" => players'[p] = Absent
    <3>1. \A t : /\ Human(t).state = "not infected"
                 /\ [Human(t) EXCEPT !.state = "infected", !.infected_at = now].state = "infected"
      BY DEF Human
    <3> QED BY <2>2, <3>1
  <2> QED BY <1>4, <2>1, <2>4, <2>5 DEF DatesInv, Dates, Dated, GatewayDates, Enabled
<1>5. CASE Prepare
  BY <1>5, TablesStand DEF Prepare, DatesInv, Dates, CountInv, Formed, LobbyFields
<1> QED BY <1>1, <1>2, <1>3, <1>4, <1>5 DEF Posts

LEMMA DevicesOnward ==
  ASSUME DatesInv, DeviceSockets
  PROVE  Onward /\ Dates'
<1> PICK p \in Players :
      \/ DeviceConnects(p) \/ DeviceAsks(p) \/ DeviceLeaves(p)
      \/ \E ts \in Times, infected \in BOOLEAN : DeviceEvent(p, ts, infected, TRUE)
  BY DEF DeviceSockets
<1>1. CASE DeviceConnects(p)
  <2>1. CASE players[p] = Absent
    <3>1. /\ ~Enabled /\ players' = [players EXCEPT ![p] = Human(now)]
          /\ UNCHANGED <<meta, gateway, now>> /\ DOMAIN players = Players
      BY <1>1, <2>1 DEF DeviceConnects, DatesInv, Dates
    <3>a. Human(now).state = "not infected" /\ players[p].state = "absent"
      BY <2>1 DEF Human, Absent
    <3>b. players'[p] = Human(now) /\ \A q \in Players : q # p => players'[q] = players[q]
      BY <3>1
    <3>2. /\ DOMAIN players' = Players /\ Infected(players') = Infected(players)
          /\ \A q \in Infected(players) : players'[q] = players[q]
          /\ \A q \in Players : players'[q].state = "absent" => players'[q] = Absent
      <4>1. \A q \in Players : players'[q].state = "infected" <=> players[q].state = "infected"
        BY <3>a, <3>b
      <4>2. \A q \in Infected(players) : players'[q] = players[q]
        BY <3>a, <3>b DEF Infected
      <4>3. \A q \in Players : players'[q].state = "absent" => players'[q] = Absent
        BY <3>a, <3>b DEF DatesInv, Dates
      <4> QED BY <3>1, <4>1, <4>2, <4>3 DEF Infected
    <3>3. Infected(players)' = Infected(players)
      BY <3>2 DEF Infected
    <3>4. Dates'
      BY <3>1, <3>2, <3>3 DEF DatesInv, Dates, Dated, LegacyDates, GatewayDates, Enabled
    <3>5. ASSUME meta.game_over PROVE meta.ended_at >= meta.ended_at
      BY <3>1, <3>5, RoomAssumption DEF DatesInv, Dates, LegacyDates
    <3> QED BY <3>1, <3>2, <3>4, <3>5 DEF Onward, Enabled
  <2>2. CASE players[p] # Absent
    BY <1>1, <2>2, TablesStand DEF DeviceConnects, DatesInv, Dates
  <2> QED BY <2>1, <2>2
<1>2. CASE DeviceAsks(p) \/ DeviceLeaves(p)
  BY <1>2, TablesStand DEF DeviceAsks, DeviceLeaves, DatesInv, Dates
<1>3. CASE \E ts \in Times, infected \in BOOLEAN : DeviceEvent(p, ts, infected, TRUE)
  BY <1>3, ReportOnward
<1> QED BY <1>1, <1>2, <1>3

\* finishIfDue goes on from what it judges.
LEMMA FinishedOnward ==
  ASSUME DatesInv, NEW g, Formed(g), g.end.final => Verdict(g), Dated(g), Grows(gateway, g),
         g.roster # {}, gateway' = Finished(g), Synced(Finished(g)), now' = now
  PROVE  Onward /\ Dates'
<1> DEFINE f == Finished(g)
<1>1. /\ f.roster = g.roster /\ f.zombies = g.zombies /\ f.start_time = g.start_time
      /\ Formed(f)
  BY FinishedKeeps, FinishedJudges
<1>2. /\ Dated(f)
      /\ g.end.winner # None => f.end.winner # None /\ f.end.elapsed = g.end.elapsed
  BY FinishedDates
<1> HIDE DEF f
<1>3. Grows(gateway, f) /\ f.roster # {}
  BY <1>1, <1>2 DEF Grows
<1> QED BY <1>1, <1>2, <1>3, CopyOnward DEF f

LEMMA RecoverOnward ==
  ASSUME DatesInv, NEW g, Formed(g), g.end.final => Verdict(g), Dated(g), Grows(gateway, g),
         Recover(g), g = gateway \/ g.roster # {}
  PROVE  Onward /\ Dates'
<1>1. gateway' = Finished(g) /\ now' = now
  BY DEF Recover
<1>2. CASE Finished(g) = g /\ g = gateway
  BY <1>1, <1>2, TablesStand DEF Recover, DatesInv, Dates
<1>3. CASE ~(Finished(g) = g /\ g = gateway)
  <2>1. g.roster # {}
    BY <1>3 DEF Finished, Dated
  <2>2. Synced(Finished(g))
    BY <1>1, <1>3 DEF Recover
  <2> QED BY <1>1, <2>1, <2>2, FinishedOnward
<1> QED BY <1>2, <1>3

LEMMA GatewayOnward ==
  ASSUME DatesInv, Gated
  PROVE  Onward /\ Dates'
<1>a. Formed(gateway) /\ Verdict(gateway) /\ Dated(gateway) /\ now \in 0..MaxNow
  BY DEF DatesInv, CountInv, Dates
<1>1. ASSUME NEW p \in Players, Register(p) PROVE Onward /\ Dates'
  <2> DEFINE g == [gateway EXCEPT !.roster = @ \cup {p}]
  <2>1. /\ DOMAIN g = LobbyFields /\ g.roster = gateway.roster \cup {p}
        /\ g.zombies = gateway.zombies /\ g.end = gateway.end
        /\ g.started = gateway.started /\ g.round = gateway.round
        /\ g.start_time = gateway.start_time
    BY <1>a DEF Formed, LobbyFields
  <2>2. gateway' = g /\ Synced(g) /\ now' = now
    BY <1>1 DEF Register, Write, WriteArmed
  <2> HIDE DEF g
  <2>3. Formed(g) /\ Dated(g) /\ Grows(gateway, g) /\ g.roster # {}
    BY <1>a, <2>1 DEF Formed, Dated, Grows
  <2> QED BY <2>2, <2>3, CopyOnward
<1>2. ASSUME NEW p \in Players, Ready(p) PROVE Onward /\ Dates'
  BY <1>2, <1>a, TablesStand DEF Ready, Formed, LobbyFields
<1>3. ASSUME NEW p \in Players, NEW zero \in Players, Start(p, zero) \/ StartCrash(p, zero)
      PROVE  Onward /\ Dates'
  <2> DEFINE g == Started(p, zero)
  <2>1. Formed(g) /\ Verdict(g)
    BY <1>3, StartedForms DEF Start, StartCrash, DatesInv
  <2>2. /\ g.end = gateway.end /\ g.roster = gateway.roster /\ g.started
        /\ g.start_time = now + Countdown /\ DOMAIN g.zombies = {zero} /\ g.zombies[zero] = 0
    BY <1>a DEF Started, Formed, LobbyFields
  <2>3. /\ Start(p, zero) => gateway' = g /\ Synced(g) /\ now' = now
        /\ StartCrash(p, zero) => Recover(g)
    BY DEF Start, StartCrash, WriteArmed
  <2>4. ~gateway.started /\ p \in gateway.roster
    BY <1>3 DEF Start, StartCrash, LastReady, Acks
  <2> HIDE DEF g
  <2>5. gateway.end.winner = None /\ DOMAIN gateway.zombies = {}
    BY <1>a, <2>4 DEF Formed, Dated
  <2>6. Dated(g) /\ g.roster # {}
    <3>1. now + Countdown \in Int /\ 0 \in 0..MaxNow
      BY <1>a, RoomAssumption
    <3> QED BY <1>a, <2>2, <2>4, <3>1 DEF Dated
  <2>7. Grows(gateway, g)
    BY <2>2, <2>5 DEF Grows
  <2> QED BY <1>3, <2>1, <2>3, <2>6, <2>7, CopyOnward, RecoverOnward
<1>4. ASSUME NEW v \in Players, NEW t \in 0..MaxNow, GatewayInfects(v, t) PROVE Onward /\ Dates'
  <2> DEFINE g == [gateway EXCEPT !.zombies =
                     [p \in DOMAIN @ \cup {v} |-> IF p = v THEN t ELSE @[p]]]
  <2>1. /\ DOMAIN g = LobbyFields /\ g.roster = gateway.roster /\ g.end = gateway.end
        /\ DOMAIN g.zombies = DOMAIN gateway.zombies \cup {v}
        /\ g.started = gateway.started /\ g.round = gateway.round
        /\ g.start_time = gateway.start_time
        /\ g.zombies[v] = t
        /\ \A p \in DOMAIN gateway.zombies : p # v => g.zombies[p] = gateway.zombies[p]
    BY <1>a DEF Formed, LobbyFields
  <2>2. /\ ~gateway.end.final /\ gateway.started /\ v \in gateway.roster
        /\ v \notin DOMAIN gateway.zombies
        /\ gateway' = Finished(g) /\ Synced(Finished(g)) /\ now' = now
    BY <1>4 DEF GatewayInfects, Write, WriteArmed
  <2> HIDE DEF g
  <2>3. Formed(g) /\ Dated(g) /\ Grows(gateway, g) /\ g.roster # {} /\ ~g.end.final
    BY <1>a, <2>1, <2>2 DEF Formed, Dated, Grows
  <2> QED BY <2>2, <2>3, FinishedOnward
<1>5. CASE Close
  <2> DEFINE g == [gateway EXCEPT !.end.final = TRUE]
  <2>1. /\ DOMAIN g = LobbyFields /\ g.roster = gateway.roster /\ g.zombies = gateway.zombies
        /\ DOMAIN g.end = EndFields /\ g.end.winner = gateway.end.winner
        /\ g.end.elapsed = gateway.end.elapsed /\ g.start_time = gateway.start_time
        /\ g.started = gateway.started /\ g.round = gateway.round
    BY <1>a DEF Formed, LobbyFields, EndFields
  <2>2. /\ gateway.end.winner # None
        /\ gateway' = g /\ Synced(g) /\ now' = now
    BY <1>5 DEF Close, Write, WriteArmed
  <2> HIDE DEF g
  <2>3. Formed(g) /\ Dated(g) /\ Grows(gateway, g) /\ g.roster # {}
    BY <1>a, <2>1, <2>2 DEF Formed, Dated, Grows
  <2> QED BY <2>2, <2>3, CopyOnward
<1>6. ASSUME Running(gateway), gateway' = Finished(gateway), Synced(Finished(gateway)), now' = now
      PROVE  Onward /\ Dates'
  <2>1. Grows(gateway, gateway) /\ gateway.roster # {}
    BY <1>a, <1>6 DEF Grows, Running, Dated
  <2> QED BY <1>a, <1>6, <2>1, FinishedOnward
<1>7. CASE TimeUp \/ Alarm
  <2>1. CASE Running(gateway)
    BY <1>6, <1>7, <2>1 DEF TimeUp, Alarm, Write, WriteArmed
  <2>2. CASE ~Running(gateway)
    BY <1>a, <1>7, <2>2, TablesStand DEF TimeUp, Due, Alarm
  <2> QED BY <2>1, <2>2
<1>8. ASSUME NEW up \in BOOLEAN, HostLink(up) PROVE Onward /\ Dates'
  BY <1>a, <1>8, TablesStand DEF HostLink
<1> QED BY <1>1, <1>2, <1>3, <1>4, <1>5, <1>7, <1>8 DEF Gated

\* A game goes one way: until it is started anew or reset, nobody whom the
\* gateway does not take over is cured or infected at another time, and a game
\* that is over stays over and ends no earlier, a gateway game at the same time
\* (recordDeviceEventImpl, syncPopulation, finishIfDue, recoverAlarm).
THEOREM GamesGoOneWay == RoomSpec => OneWay
<1>1. RoomInit => Dates
  BY RoomAssumption
  DEF RoomInit, NewLobby, NoEnd, NewGame, Dates, Dated, LegacyDates, GatewayDates, Enabled,
      Infected, Absent
<1>2. DatesInv /\ [RoomNext]_roomVars =>
        /\ Dates'
        /\ \/ \E zero \in Players \cup {None} : StartLegacy(zero)
           \/ Reset
           \/ Onward
  <2> SUFFICES ASSUME DatesInv, [RoomNext]_roomVars
               PROVE  /\ Dates'
                      /\ \/ \E zero \in Players \cup {None} : StartLegacy(zero)
                         \/ Reset
                         \/ Onward
    OBVIOUS
  <2>a. Formed(gateway) /\ Verdict(gateway) /\ Dated(gateway) /\ now \in 0..MaxNow
    BY DEF DatesInv, CountInv, Dates
  <2>1. CASE Posts
    BY <2>1, RoutesOnward
  <2>2. CASE DeviceSockets
    BY <2>2, DevicesOnward
  <2>3. CASE Gated
    BY <2>3, GatewayOnward
  <2>4. CASE Crash
    <3>1. Grows(gateway, gateway)
      BY DEF Grows
    <3> QED BY <2>4, <2>a, <3>1, RecoverOnward DEF Crash
  <2>5. CASE Tick
    <3>1. now' \in 0..MaxNow
      BY <2>5, <2>a, RoomAssumption DEF Tick
    <3> QED BY <2>5, <3>1, TablesStand DEF Tick
  <2>6. CASE (\E v \in Viewers : Join(v) \/ Leave(v)) \/ UNCHANGED roomVars
    BY <2>6, <2>a, TablesStand DEF Join, Leave, roomVars
  <2> QED BY <2>1, <2>2, <2>3, <2>4, <2>5, <2>6 DEF RoomNext
<1>3. Onward =>
        /\ \A p \in Infected(players) \ (gateway'.roster \ gateway.roster) : players'[p] = players[p]
        /\ (Enabled = Enabled' /\ meta.game_over) =>
             /\ meta'.game_over /\ meta'.ended_at >= meta.ended_at
             /\ Enabled => meta'.ended_at = meta.ended_at
  BY DEF Onward
<1>4. DatesInv /\ [RoomNext]_roomVars =>
        [ \/ \E zero \in Players \cup {None} : StartLegacy(zero)
          \/ Reset
          \/ /\ \A p \in Infected(players) \ (gateway'.roster \ gateway.roster) : players'[p] = players[p]
             /\ (Enabled = Enabled' /\ meta.game_over) =>
                  /\ meta'.game_over /\ meta'.ended_at >= meta.ended_at
                  /\ Enabled => meta'.ended_at = meta.ended_at ]_roomVars
  BY <1>2, <1>3
<1>5. Heard /\ CountInv /\ Dates => DatesInv
  BY DEF DatesInv
<1> QED BY <1>1, <1>2, <1>4, <1>5, HeardAlways, CountAlways, PTL DEF RoomSpec, OneWay
=============================================================================
