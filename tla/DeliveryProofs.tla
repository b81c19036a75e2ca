---------------------------- MODULE DeliveryProofs -----------------------------
(***************************************************************************)
(* What the gateway answers about an announcement only moves on, and the   *)
(* host is the last to leave a round that was reset: proofs about Delivery *)
(* for any roster, any log and any number of connections.                  *)
(*                                                                         *)
(* The first rests on the log: commands are only appended and their        *)
(* receipts only added, through the end of the round and its archiving.    *)
(* The second rests on the archive: what it knows of the peers only grows, *)
(* and the host's own reset is sent when they are done with.               *)
(***************************************************************************)
EXTENDS Delivery, TLAPS

RoundFields == {"log", "phase", "events", "frontier", "lapsed"}
ArchiveFields == {"reset", "acked", "offered", "cursor", "window", "finished"}
Phases == {"prepared", "running", "ended", "final", "lobby"}
Types == {"PREPARE_ROUND", "START_ROUND", "ROLE_SET", "END_ROUND", "FINAL_RESULT", "ANNOUNCE"}
Commands == [type : Types, target : Slots \cup {All}, acked : SUBSET Slots]

Logged(w) == DOMAIN w = RoundFields /\ w.log \in Seq(Commands)

\* v is w with commands, receipts and lapses added.
Extends(v, w) ==
  /\ Logged(v) /\ Len(w.log) <= Len(v.log)
  /\ \A i \in 1..Len(w.log) : w.log[i].acked \subseteq v.log[i].acked
  /\ w.lapsed \subseteq v.lapsed

\* No announcement is made before the round runs, and a round that is not in
\* play any more has its archive.
LogInv ==
  /\ Logged(round) /\ round.phase \in Phases
  /\ DOMAIN archive = ArchiveFields /\ (archive.reset <=> round.phase = "lobby")
  /\ actions \in [Actions -> {None, Refused} \cup 1..Len(round.log)]
  /\ round.phase = "prepared" => \A a \in Actions : actions[a] \in {None, Refused}
  /\ HostSlot \in roster /\ roster \subseteq Slots

\* What a step does to them.
MovesOn ==
  /\ LogInv' /\ Extends(round', round) /\ roster' = roster
  /\ round'.phase = "running" => round.phase \in {"running", "prepared"}
  /\ \A a \in Actions : actions[a] # None => actions'[a] = actions[a]

LEMMA LogTypes ==
  ASSUME NEW w, Logged(w)
  PROVE  /\ Len(w.log) \in Nat /\ DOMAIN w.log = 1..Len(w.log)
         /\ \A i \in 1..Len(w.log) : w.log[i] \in Commands
  BY DEF Logged

LEMMA ExtendsItself ==
  ASSUME NEW w, Logged(w), NEW v, DOMAIN v = RoundFields, v.log = w.log, w.lapsed \subseteq v.lapsed
  PROVE  Extends(v, w)
  BY LogTypes DEF Extends, Logged

\* A new command leaves the others where they are.
LEMMA AppendedExtends ==
  ASSUME NEW w, Logged(w), NEW type \in Types, NEW target \in Slots \cup {All}
  PROVE  LET v == Appended(w, Command(type, target))
         IN  /\ Extends(v, w) /\ Len(v.log) = Len(w.log) + 1
             /\ v.phase = w.phase /\ v.lapsed = w.lapsed
<1> DEFINE c == Command(type, target)
           v == Appended(w, c)
<1>1. c \in Commands
  BY DEF Command, Commands
<1>2. DOMAIN v = RoundFields /\ v.log = Append(w.log, c) /\ v.phase = w.phase /\ v.lapsed = w.lapsed
  BY DEF Appended, Logged, RoundFields
<1> HIDE DEF c, v
<1>3. v.log \in Seq(Commands) /\ Len(v.log) = Len(w.log) + 1
      /\ \A i \in 1..Len(w.log) : v.log[i] = w.log[i]
  BY <1>1, <1>2 DEF Logged
<1>4. Extends(v, w)
  BY <1>2, <1>3, LogTypes DEF Extends, Logged
<1> QED BY <1>2, <1>3, <1>4 DEF v, c

\* A receipt is added to its command.
LEMMA ReceivedExtends ==
  ASSUME NEW w, Logged(w), NEW i \in DOMAIN w.log, NEW s \in Slots
  PROVE  LET v == [w EXCEPT !.log[i].acked = @ \cup {s}]
         IN  Extends(v, w) /\ v.phase = w.phase /\ v.lapsed = w.lapsed
<1> DEFINE v == [w EXCEPT !.log[i].acked = @ \cup {s}]
           c == [w.log[i] EXCEPT !.acked = @ \cup {s}]
<1>1. DOMAIN v = RoundFields /\ v.log = [w.log EXCEPT ![i] = c] /\ v.phase = w.phase /\ v.lapsed = w.lapsed
  BY DEF Logged, RoundFields
<1>2. w.log[i] \in Commands
  BY LogTypes
<1>3. c \in Commands /\ w.log[i].acked \subseteq c.acked
  BY <1>2 DEF Commands
<1> HIDE DEF v, c
<1>4. v.log \in Seq(Commands) /\ Len(v.log) = Len(w.log)
  BY <1>1, <1>3 DEF Logged
<1>5. ASSUME NEW j \in 1..Len(w.log) PROVE w.log[j].acked \subseteq v.log[j].acked
  <2>1. v.log[j] = IF j = i THEN c ELSE w.log[j]
    BY <1>1, LogTypes
  <2> QED BY <1>3, <2>1
<1>6. Extends(v, w)
  BY <1>1, <1>4, <1>5, LogTypes DEF Extends, Logged
<1> QED BY <1>1, <1>6 DEF v

LEMMA ExtendsThrough ==
  ASSUME NEW u, NEW v, NEW w, Logged(u), Extends(v, u), Extends(w, v)
  PROVE  Extends(w, u)
<1>1. Len(u.log) \in Nat /\ Len(v.log) \in Nat /\ Len(w.log) \in Nat
  BY LogTypes DEF Extends
<1>2. ASSUME NEW i \in 1..Len(u.log) PROVE u.log[i].acked \subseteq w.log[i].acked
  <2>1. i \in 1..Len(v.log)
    BY <1>1 DEF Extends
  <2> QED BY <2>1 DEF Extends
<1> QED BY <1>1, <1>2 DEF Extends

-----------------------------------------------------------------------------
\* The steps.

\* A change of the round that neither begins nor archives it.
LEMMA RoundMovesOn ==
  ASSUME LogInv, Extends(round', round), round'.phase \in Phases,
         round'.phase = "lobby" <=> round.phase = "lobby",
         round'.phase = "prepared" => round.phase = "prepared",
         round'.phase = "running" => round.phase \in {"running", "prepared"},
         UNCHANGED <<actions, archive, roster>>
  PROVE  MovesOn
<1>1. Len(round.log) \in Nat /\ Len(round'.log) \in Nat /\ Len(round.log) <= Len(round'.log)
  BY LogTypes DEF LogInv, Extends
<1>2. actions' \in [Actions -> {None, Refused} \cup 1..Len(round'.log)]
  BY <1>1 DEF LogInv
<1> QED BY <1>2 DEF LogInv, MovesOn, Extends

LEMMA NothingMoves ==
  ASSUME LogInv, UNCHANGED <<round, actions, roster>>,
         DOMAIN archive' = ArchiveFields, archive'.reset = archive.reset
  PROVE  MovesOn
<1>1. Extends(round, round)
  BY ExtendsItself DEF LogInv, Logged
<1> QED BY <1>1 DEF LogInv, MovesOn, Extends

LEMMA ReportsMoveOn ==
  ASSUME LogInv, Reports
  PROVE  MovesOn
<1>1. ASSUME NEW i \in DOMAIN round.log, NEW s \in Slots, Receipt(i, s) PROVE MovesOn
  <2> DEFINE v == [round EXCEPT !.log[i].acked = @ \cup {s}]
  <2>1. Extends(v, round) /\ v.phase = round.phase /\ v.lapsed = round.lapsed
    BY ReceivedExtends DEF LogInv
  <2>2. round' = Begun(v) /\ round.phase # "lobby" /\ UNCHANGED <<actions, archive, roster>>
    BY <1>1 DEF Receipt, fixed
  <2> HIDE DEF v
  <2>3. CASE Begun(v) = v
    BY <2>1, <2>2, <2>3, RoundMovesOn DEF LogInv
  <2>4. CASE Begun(v) # v
    <3> DEFINE w == Appended(v, Command("START_ROUND", All))
    <3>1. v.phase = "prepared" /\ Begun(v) = [w EXCEPT !.phase = "running"]
      BY <2>4 DEF Begun
    <3>2. Extends(w, v) /\ w.lapsed = v.lapsed /\ Logged(w)
      BY <2>1, AppendedExtends DEF Extends, Types
    <3> HIDE DEF w
    <3>3. /\ DOMAIN round' = RoundFields /\ round'.log = w.log /\ round'.lapsed = w.lapsed
          /\ round'.phase = "running"
      BY <2>2, <3>1, <3>2 DEF Logged, RoundFields
    <3>4. Extends(round', w)
      BY <3>2, <3>3, ExtendsItself
    <3>5. Extends(round', round)
      BY <2>1, <3>2, <3>4, ExtendsThrough DEF LogInv, Extends
    <3> QED BY <2>1, <2>2, <3>1, <3>3, <3>5, RoundMovesOn DEF Phases
  <2> QED BY <2>3, <2>4
<1>2. ASSUME NEW s \in Slots, NEW n \in 1..MaxSeq, DecisionReceipt(s, n) PROVE MovesOn
  <2>1. /\ DOMAIN round' = RoundFields /\ round'.log = round.log /\ round'.lapsed = round.lapsed
        /\ round'.phase = round.phase /\ UNCHANGED <<actions, archive, roster>>
    BY <1>2 DEF DecisionReceipt, LogInv, Logged, RoundFields, fixed
  <2> QED BY <2>1, ExtendsItself, RoundMovesOn DEF LogInv
<1>3. ASSUME NEW e \in Ids, Upload(e) PROVE MovesOn
  <2>1. /\ DOMAIN round' = RoundFields /\ round'.log = round.log /\ round'.lapsed = round.lapsed
        /\ round'.phase = round.phase /\ UNCHANGED <<actions, archive, roster>>
    BY <1>3 DEF Upload, LogInv, Logged, RoundFields, fixed
  <2> QED BY <2>1, ExtendsItself, RoundMovesOn DEF LogInv
<1> QED BY <1>1, <1>2, <1>3 DEF Reports

\* A command is appended, and the round is in another phase.
LEMMA PublishedMovesOn ==
  ASSUME LogInv, NEW type \in Types, NEW target \in Slots \cup {All}, NEW phase \in {"ended", "final"},
         round' = [Appended(round, Command(type, target)) EXCEPT !.phase = phase],
         round.phase # "lobby", UNCHANGED <<actions, archive, roster>>
  PROVE  MovesOn
<1> DEFINE w == Appended(round, Command(type, target))
<1>1. Extends(w, round) /\ Logged(w)
  BY AppendedExtends DEF LogInv, Extends
<1>2. round' = [w EXCEPT !.phase = phase]
  OBVIOUS
<1> HIDE DEF w
<1>3. /\ DOMAIN round' = RoundFields /\ round'.log = w.log /\ round'.lapsed = w.lapsed
      /\ round'.phase = phase
  BY <1>1, <1>2 DEF Logged, RoundFields
<1>4. Extends(round', round)
  <2>1. Extends(round', w)
    BY <1>1, <1>3, ExtendsItself
  <2> QED BY <1>1, <2>1, ExtendsThrough DEF LogInv
<1> QED BY <1>3, <1>4, RoundMovesOn DEF Phases

LEMMA AnnounceMovesOn ==
  ASSUME LogInv, NEW a \in Actions, Announce(a)
  PROVE  MovesOn
<1>1. CASE actions' = [actions EXCEPT ![a] = Refused] /\ UNCHANGED round
  <2>1. actions' \in [Actions -> {None, Refused} \cup 1..Len(round'.log)]
    BY <1>1 DEF LogInv
  <2>2. Extends(round', round)
    BY <1>1, ExtendsItself DEF LogInv, Logged
  <2> QED BY <1>1, <2>1, <2>2 DEF Announce, LogInv, MovesOn, Extends, fixed
<1>2. CASE /\ round.phase = "running" /\ round' = Appended(round, Command("ANNOUNCE", All))
           /\ actions' = [actions EXCEPT ![a] = Len(round'.log)]
  <2>1. /\ Extends(round', round) /\ Len(round'.log) = Len(round.log) + 1
        /\ round'.phase = "running"
    BY <1>2, AppendedExtends DEF LogInv, Types
  <2>2. Len(round.log) \in Nat
    BY LogTypes DEF LogInv
  <2>3. actions' \in [Actions -> {None, Refused} \cup 1..Len(round'.log)]
    BY <1>2, <2>1, <2>2 DEF LogInv
  <2> QED BY <1>2, <2>1, <2>3 DEF Announce, LogInv, MovesOn, Extends, fixed
<1> QED BY <1>1, <1>2 DEF Announce

LEMMA PublishesMoveOn ==
  ASSUME LogInv, Publishes
  PROVE  MovesOn
<1>1. ASSUME NEW e \in Ids, NEW how, EventComes(e, how) PROVE MovesOn
  <2>1. /\ DOMAIN round' = RoundFields /\ round'.log = round.log /\ round'.lapsed = round.lapsed
        /\ round'.phase = round.phase /\ UNCHANGED <<actions, archive, roster>>
    BY <1>1 DEF EventComes, LogInv, Logged, RoundFields, fixed
  <2> QED BY <2>1, ExtendsItself, RoundMovesOn DEF LogInv
<1>2. ASSUME NEW s \in Slots, NewRole(s) PROVE MovesOn
  <2>1. Extends(round', round) /\ round'.phase = round.phase
    BY <1>2, AppendedExtends DEF NewRole, LogInv, Types
  <2> QED BY <1>2, <2>1, RoundMovesOn DEF NewRole, LogInv, fixed
<1>3. ASSUME NEW pushed, Ends(pushed) PROVE MovesOn
  BY <1>3, PublishedMovesOn DEF Ends, Plays, Types, fixed
<1>4. CASE Finals
  BY <1>4, PublishedMovesOn DEF Finals, Types, fixed
<1>5. ASSUME NEW a \in Actions, Announce(a) PROVE MovesOn
  BY <1>5, AnnounceMovesOn
<1>6. ASSUME NEW a \in Actions, Lapse(a) PROVE MovesOn
  <2>1. /\ DOMAIN round' = RoundFields /\ round'.log = round.log /\ round.lapsed \subseteq round'.lapsed
        /\ round'.phase = round.phase /\ UNCHANGED <<actions, archive, roster>>
    BY <1>6 DEF Lapse, LogInv, Logged, RoundFields, fixed
  <2> QED BY <2>1, ExtendsItself, RoundMovesOn DEF LogInv
<1> QED BY <1>1, <1>2, <1>3, <1>4, <1>5, <1>6 DEF Publishes

LEMMA ResetMovesOn ==
  ASSUME LogInv, Reset
  PROVE  MovesOn
<1>1. /\ DOMAIN round' = RoundFields /\ round'.log = round.log /\ round'.lapsed = round.lapsed
      /\ round'.phase = "lobby" /\ UNCHANGED <<actions, roster>>
  BY DEF Reset, LogInv, Logged, RoundFields, fixed
<1>2. DOMAIN archive' = ArchiveFields /\ archive'.reset
  BY DEF Reset, NoArchive, ArchiveFields
<1>3. Extends(round', round)
  BY <1>1, ExtendsItself DEF LogInv
<1> QED BY <1>1, <1>2, <1>3 DEF LogInv, MovesOn, Extends, Logged, Phases

LEMMA CleanupMovesOn ==
  ASSUME LogInv, NEW applied, Cleanup(applied)
  PROVE  MovesOn
<1>1. DOMAIN archive' = ArchiveFields /\ archive'.reset = archive.reset
  BY DEF Cleanup, LogInv, ArchiveFields
<1> QED BY <1>1, NothingMoves DEF Cleanup, fixed

LEMMA NextMovesOn ==
  ASSUME LogInv, [Next]_vars
  PROVE  MovesOn
<1>1. ASSUME UNCHANGED <<round, actions, archive, roster>> PROVE MovesOn
  BY <1>1, NothingMoves DEF LogInv
<1>2. CASE Reports
  BY <1>2, ReportsMoveOn
<1>3. CASE Publishes
  BY <1>3, PublishesMoveOn
<1>4. CASE Poll \/ CommandRested \/ DecisionsRested \/ NeedsRested \/ Drop \/ Hello
  BY <1>1, <1>4 DEF Poll, CommandRested, DecisionsRested, NeedsRested, Drop, Hello, fixed
<1>5. CASE Reset
  BY <1>5, ResetMovesOn
<1>6. CASE CleanupPoll \/ Cleans
  BY <1>1, <1>6, CleanupMovesOn DEF CleanupPoll, Cleans, HostResets, ResetApplied, fixed
<1>7. CASE WindowCloses
  <2>1. DOMAIN archive' = ArchiveFields /\ archive'.reset = archive.reset
    BY <1>7 DEF WindowCloses, LogInv, ArchiveFields
  <2> QED BY <1>7, <2>1, NothingMoves DEF WindowCloses, fixed
<1>8. CASE UNCHANGED vars
  BY <1>1, <1>8 DEF vars
<1> QED BY <1>2, <1>3, <1>4, <1>5, <1>6, <1>7, <1>8 DEF Next

LEMMA InitLogged == Init => LogInv
<1> SUFFICES ASSUME Init PROVE LogInv
  OBVIOUS
<1> DEFINE c == Command("PREPARE_ROUND", All)
<1>1. c \in Commands
  BY DEF Command, Commands, Types
<1>2. DOMAIN round = RoundFields /\ round.log = <<c>> /\ round.phase = "prepared"
  BY DEF Init, RoundFields
<1> HIDE DEF c
<1>3. Logged(round)
  BY <1>1, <1>2 DEF Logged
<1> QED BY <1>2, <1>3 DEF Init, LogInv, Phases, NoArchive, ArchiveFields

-----------------------------------------------------------------------------
LEMMA RosterIsKnown == LogInv => RosterOf = roster
  BY DEF LogInv, RosterOf

\* The answers to a repeated announcement only move on: it is not queued again
\* after it expired, and what all badges have applied stays applied through
\* the end of the round and its reset (directorAnnouncementResult).
THEOREM AnswersMoveOn == Spec => StatusMovesOn
<1>1. LogInv /\ [Next]_vars => LogInv'
  BY NextMovesOn DEF MovesOn
<1>2. LogInv /\ [Next]_vars =>
        \A a \in Actions :
          CASE Status(a) \in {"applied", "rejected"} -> Status(a)' = Status(a)
            [] Status(a) = "expired" -> Status(a)' \in {"expired", "applied"}
            [] OTHER -> TRUE
  <2> SUFFICES ASSUME LogInv, [Next]_vars, NEW a \in Actions
               PROVE  CASE Status(a) \in {"applied", "rejected"} -> Status(a)' = Status(a)
                        [] Status(a) = "expired" -> Status(a)' \in {"expired", "applied"}
                        [] OTHER -> TRUE
    OBVIOUS
  <2>1. MovesOn
    BY NextMovesOn
  <2>2. CASE actions[a] = None
    BY <2>2, DeliveryAssumption DEF Status
  <2>3. CASE actions[a] = Refused /\ actions[a] # None
    BY <2>1, <2>3 DEF Status, MovesOn
  <2>4. CASE actions[a] \notin {None, Refused}
    <3> DEFINE i == actions[a]
    <3>1. /\ i \in 1..Len(round.log) /\ actions'[a] = i
          /\ RosterOf = roster /\ RosterOf' = roster /\ roster # {}
      <4>1. RosterOf' = roster
        BY <2>1 DEF MovesOn, LogInv, RosterOf
      <4> QED BY <2>1, <2>4, <4>1, RosterIsKnown DEF MovesOn, LogInv
    <3>2. Status(a) = IF roster \subseteq round.log[i].acked THEN "applied"
                      ELSE IF i \in round.lapsed \/ round.phase # "running" THEN "expired" ELSE "queued"
      BY <2>4, <3>1 DEF Status
    <3>3. Status(a)' = IF roster \subseteq round'.log[i].acked THEN "applied"
                       ELSE IF i \in round'.lapsed \/ round'.phase # "running" THEN "expired" ELSE "queued"
      BY <2>4, <3>1 DEF Status
    <3>4. round.log[i].acked \subseteq round'.log[i].acked /\ round.lapsed \subseteq round'.lapsed
      BY <2>1, <3>1 DEF MovesOn, Extends
    <3>5. round.phase # "running" => round'.phase # "running"
      BY <2>1, <2>4 DEF MovesOn, LogInv
    <3> QED BY <3>2, <3>3, <3>4, <3>5
  <2> QED BY <2>2, <2>3, <2>4
<1> QED BY InitLogged, <1>1, <1>2, PTL DEF Spec, StatusMovesOn

-----------------------------------------------------------------------------
\* The host goes last.

SessionFields == DOMAIN Session("live")
Windows == {"unset", "open", "over"}

\* Every other badge applied its reset, or was sent it and had its time.
PeersDone ==
  \A s \in roster \ {HostSlot} : s \in archive.acked \/ (s \in archive.offered /\ archive.window = "over")

\* Only an archive is cleaned up; the host's own reset is under way, or was
\* applied, only when its peers are done with.
HostInv ==
  /\ LogInv
  /\ archive.window \in Windows
  /\ session # None => DOMAIN session = SessionFields
  /\ Linked("cleanup") => archive.reset
  /\ HostSlot \in resets => archive.reset /\ PeersDone
  /\ ~knows => archive.reset /\ PeersDone

\* What the archive knows of the peers only grows.
LEMMA DoneStaysDone ==
  ASSUME PeersDone, roster' = roster, archive.acked \subseteq archive'.acked,
         archive.offered \subseteq archive'.offered, archive.window = "over" => archive'.window = "over"
  PROVE  PeersDone'
  BY DEF PeersDone

\* An answer leaves the session of the kind it was.
LEMMA ReplayKeepsKind ==
  ASSUME NEW w, NEW s, DOMAIN s = SessionFields, NEW r \in Replays(w, s)
  PROVE  DOMAIN r.session = SessionFields /\ r.session.kind = s.kind
<1> DEFINE Kept(v) == DOMAIN v = SessionFields /\ v.kind = s.kind
<1>1. "kind" \in SessionFields
  BY DEF SessionFields, Session
<1>2. \A b : Kept([s EXCEPT !.shown = @ \cup ToSet(b), !.resting = @ \o b])
  BY <1>1
<1>3. \A b : \A k \in 0..2 : Kept(After(w, s, k, b))
  <2> TAKE b
  <2> TAKE k \in 0..2
  <2>1. CASE k = 0
    BY <1>1, <2>1 DEF After
  <2>2. CASE k = 1
    BY <1>1, <2>2 DEF After
  <2>3. CASE k = 2
    BY <1>1, <2>3 DEF After
  <2> QED BY <2>1, <2>2, <2>3
<1>4. \A k \in InTurn(w, s) : k \in 0..2
  BY DEF InTurn, Sendable
<1>5. CASE News(w, s) # {}
  <2>1. r \in {[session |-> [s EXCEPT !.shown = @ \cup ToSet(b), !.resting = @ \o b], frame |-> Frame(0, b)] :
                 b \in {Sorted(News(w, s))}}
    BY <1>5 DEF Replays
  <2>2. r.session = [s EXCEPT !.shown = @ \cup ToSet(Sorted(News(w, s))), !.resting = @ \o Sorted(News(w, s))]
    <3> DEFINE b == Sorted(News(w, s))
               t == [s EXCEPT !.shown = @ \cup ToSet(b), !.resting = @ \o b]
    <3>1. r = [session |-> t, frame |-> Frame(0, b)]
      BY <2>1
    <3> HIDE DEF t, b
    <3>2. r.session = t
      BY <3>1
    <3> QED BY <3>2 DEF t, b
  <2> QED BY <1>2, <2>2
<1>6. CASE News(w, s) = {} /\ Sendable(w, s) = {}
  BY <1>6 DEF Replays
<1>7. CASE News(w, s) = {} /\ Sendable(w, s) # {}
  <2>1. PICK k \in InTurn(w, s) : \E b : r.session = After(w, s, k, b)
    BY <1>7 DEF Replays
  <2>2. PICK b : r.session = After(w, s, k, b)
    BY <2>1
  <2> QED BY <1>3, <1>4, <2>2
<1> QED BY <1>5, <1>6, <1>7

\* So do answers and announcements.
LEMMA AnsweredKeepsKind ==
  ASSUME NEW w, NEW given, DOMAIN given = SessionFields, Answered(w, given)
  PROVE  session' # None => DOMAIN session' = SessionFields /\ session'.kind = given.kind
<1> SUFFICES ASSUME session' # None
             PROVE  DOMAIN session' = SessionFields /\ session'.kind = given.kind
  OBVIOUS
<1>1. PICK r \in Replays(w, Woken(w, given)) : session' = r.session
  BY DEF Answered
<1>2. DOMAIN Woken(w, given) = SessionFields /\ Woken(w, given).kind = given.kind
  BY DEF Woken, SessionFields, Session
<1> QED BY <1>1, <1>2, ReplayKeepsKind

LEMMA PushedKeepsKind ==
  ASSUME NEW w, session # None => DOMAIN session = SessionFields, Pushed(w)
  PROVE  session' # None => DOMAIN session' = SessionFields /\ session'.kind = session.kind /\ session # None
<1>1. CASE Linked("live")
  <2>1. PICK r \in Replays(w, Woken(w, session)) : session' = r.session
    BY <1>1 DEF Pushed
  <2>2. DOMAIN Woken(w, session) = SessionFields /\ Woken(w, session).kind = session.kind
    BY <1>1 DEF Woken, SessionFields, Session, Linked
  <2> QED BY <1>1, <2>1, <2>2, ReplayKeepsKind DEF Linked
<1>2. CASE ~Linked("live")
  BY <1>2 DEF Pushed
<1> QED BY <1>1, <1>2

\* The session of a step: what it was, of the kind it was, or none.
Kept ==
  session' # None => session # None /\ DOMAIN session' = SessionFields /\ session'.kind = session.kind

\* A step that touches neither the archive nor the host's resets.
LEMMA ElsewhereKeepsHost ==
  ASSUME HostInv, LogInv', Kept, UNCHANGED <<archive, roster, resets, knows>>
  PROVE  HostInv'
<1>1. PeersDone => PeersDone'
  BY DEF PeersDone
<1> QED BY <1>1 DEF HostInv, Kept, Linked

LEMMA SameSessionKept ==
  ASSUME HostInv, session' = session
  PROVE  Kept
  BY DEF HostInv, Kept

LEMMA ReportsKeepHost ==
  ASSUME HostInv, LogInv', Poll \/ Reports
  PROVE  HostInv'
<1>1. CASE Poll
  <2>1. Kept
    BY <1>1, AnsweredKeepsKind DEF Poll, HostInv, Linked, Kept
  <2> QED BY <1>1, <2>1, ElsewhereKeepsHost DEF Poll, fixed
<1>2. ASSUME NEW i, NEW s, Receipt(i, s) PROVE HostInv'
  <2> DEFINE given == [session EXCEPT !.seeded = @ \/ Seeds(i, s)]
  <2>1. DOMAIN given = SessionFields /\ given.kind = session.kind /\ session # None
    BY <1>2 DEF Receipt, HostInv, Linked, SessionFields, Session
  <2>2. Answered(round', given)
    BY <1>2 DEF Receipt
  <2> HIDE DEF given
  <2>3. Kept
    BY <2>1, <2>2, AnsweredKeepsKind DEF Kept
  <2> QED BY <1>2, <2>3, ElsewhereKeepsHost DEF Receipt, fixed
<1>3. ASSUME NEW s, NEW n, DecisionReceipt(s, n) PROVE HostInv'
  <2>1. Kept
    BY <1>3, AnsweredKeepsKind DEF DecisionReceipt, HostInv, Linked, Kept
  <2> QED BY <1>3, <2>1, ElsewhereKeepsHost DEF DecisionReceipt, fixed
<1>4. ASSUME NEW e, Upload(e) PROVE HostInv'
  BY <1>4, SameSessionKept, ElsewhereKeepsHost DEF Upload, hostVars, fixed
<1> QED BY <1>1, <1>2, <1>3, <1>4 DEF Reports

LEMMA PublishesKeepHost ==
  ASSUME HostInv, LogInv', Publishes
  PROVE  HostInv'
<1>1. ASSUME NEW e, NEW how, EventComes(e, how) PROVE HostInv'
  BY <1>1, SameSessionKept, ElsewhereKeepsHost DEF EventComes, hostVars, fixed
<1>2. ASSUME NEW s, NewRole(s) PROVE HostInv'
  BY <1>2, SameSessionKept, ElsewhereKeepsHost DEF NewRole, hostVars, fixed
<1>3. ASSUME NEW pushed, Ends(pushed) PROVE HostInv'
  <2>1. Kept
    BY <1>3, PushedKeepsKind DEF Ends, HostInv, Kept
  <2> QED BY <1>3, <2>1, ElsewhereKeepsHost DEF Ends, fixed
<1>4. CASE Finals
  BY <1>4, SameSessionKept, ElsewhereKeepsHost DEF Finals, hostVars, fixed
<1>5. ASSUME NEW a, Announce(a) PROVE HostInv'
  <2>1. Kept
    BY <1>5, PushedKeepsKind DEF Announce, HostInv, Kept
  <2> QED BY <1>5, <2>1, ElsewhereKeepsHost DEF Announce, fixed
<1>6. ASSUME NEW a, Lapse(a) PROVE HostInv'
  BY <1>6, SameSessionKept, ElsewhereKeepsHost DEF Lapse, hostVars, fixed
<1> QED BY <1>1, <1>2, <1>3, <1>4, <1>5, <1>6 DEF Publishes

\* The end of a rest changes only how the session rests.
LEMMA RestKeepsHost ==
  ASSUME HostInv, LogInv', CommandRested \/ DecisionsRested \/ NeedsRested
  PROVE  HostInv'
<1>1. Kept
  BY DEF CommandRested, DecisionsRested, NeedsRested, HostInv, Linked, Kept, SessionFields, Session
<1> QED BY <1>1, ElsewhereKeepsHost DEF CommandRested, DecisionsRested, NeedsRested, hostVars, fixed

\* Connections come and go; only the host of an archived round is led to its
\* cleanup, and a round is reset once.
LEMMA ConnectionsKeepHost ==
  ASSUME HostInv, LogInv', Drop \/ Hello \/ Reset
  PROVE  HostInv'
<1>1. CASE Drop
  <2>1. PeersDone => PeersDone'
    BY <1>1 DEF Drop, PeersDone, fixed
  <2> QED BY <1>1, <2>1 DEF Drop, HostInv, Linked, fixed
<1>2. CASE Hello
  <2>1. PeersDone => PeersDone'
    BY <1>2 DEF Hello, PeersDone, fixed
  <2>2. DOMAIN session' = SessionFields /\ (Linked("cleanup")' => archive'.reset)
    BY <1>2 DEF Hello, Linked, SessionFields, Session
  <2> QED BY <1>2, <2>1, <2>2 DEF Hello, HostInv, fixed
<1>3. CASE Reset
  <2>1. HostSlot \notin resets /\ knows
    BY <1>3 DEF Reset, HostInv, LogInv
  <2>2. archive'.window = "unset" /\ session' = None /\ UNCHANGED <<resets, knows>>
    BY <1>3 DEF Reset, NoArchive, hostVars
  <2> QED BY <2>1, <2>2 DEF HostInv, Windows, Linked
<1> QED BY <1>1, <1>2, <1>3

\* The host's reset is offered when no peer is left to offer one: none has
\* still to apply it, or all were offered it and the window is over.
LEMMA CleanupKeepsHost ==
  ASSUME HostInv, LogInv', NEW applied, Cleanup(applied)
  PROVE  HostInv'
<1> DEFINE acked == [archive EXCEPT !.acked = @ \cup applied]
           peers == roster \ ({HostSlot} \cup acked.acked)
           window == Window(archive)
           unoffered == peers \ archive.offered
           cursor == IF unoffered # {} THEN -1 ELSE archive.cursor
           offers == Ahead(IF unoffered # {} THEN unoffered ELSE peers, cursor, CommandBatch)
           toPeers == peers # {} /\ PeersDue(acked, window)
<1>1. DOMAIN archive = ArchiveFields /\ archive.window \in Windows
  BY DEF HostInv, LogInv
<1>2. /\ window \in {"open", "over"} /\ (archive.window = "over" => window = "over")
  BY <1>1 DEF Window, Windows
<1>3. HostSlot \notin offers
  BY DEF Ahead, Leading
<1>4. /\ DOMAIN acked = ArchiveFields /\ acked.acked = archive.acked \cup applied
      /\ acked.offered = archive.offered /\ acked.reset = archive.reset
  BY <1>1 DEF ArchiveFields
<1>5. /\ archive.reset /\ Linked("cleanup") /\ DOMAIN session = SessionFields
      /\ UNCHANGED <<knows, roster>>
  BY DEF Cleanup, HostInv, Linked, fixed
<1>6. /\ archive'.acked = archive.acked \cup applied /\ archive.offered \subseteq archive'.offered
      /\ archive'.window = window /\ archive'.reset = archive.reset
  <2>1. \/ archive' = [acked EXCEPT !.window = window, !.finished = TRUE]
        \/ \E c : archive' = [acked EXCEPT !.window = window, !.offered = @ \cup offers, !.cursor = c]
        \/ archive' = [acked EXCEPT !.window = window]
    BY DEF Cleanup
  <2> HIDE DEF acked, window, offers
  <2> QED BY <1>4, <2>1 DEF ArchiveFields
<1>7. PeersDone => PeersDone'
  BY <1>2, <1>5, <1>6, DoneStaysDone
<1>8. ASSUME HostSlot \in resets', HostSlot \notin resets PROVE PeersDone'
  <2>1. ~toPeers
    BY <1>3, <1>8 DEF Cleanup
  <2>2. CASE peers = {}
    BY <1>4, <1>5, <1>6, <2>2 DEF PeersDone
  <2>3. CASE ~PeersDue(acked, window)
    <3> HIDE DEF window, acked
    <3>1. roster \ {HostSlot} \subseteq acked.offered \cup acked.acked /\ window = "over"
      BY <1>2, <2>3 DEF PeersDue
    <3> QED BY <1>4, <1>5, <1>6, <3>1 DEF PeersDone
  <2> QED BY <2>1, <2>2, <2>3
<1>9. /\ session' # None => DOMAIN session' = SessionFields
      /\ archive'.reset
  BY <1>5, <1>6 DEF Cleanup
<1> QED
  <2> HIDE DEF window
  <2> QED BY <1>2, <1>5, <1>6, <1>7, <1>8, <1>9 DEF HostInv, Windows

LEMMA CleansKeepHost ==
  ASSUME HostInv, LogInv', CleanupPoll \/ Cleans \/ WindowCloses
  PROVE  HostInv'
<1>1. CASE CleanupPoll
  BY <1>1, CleanupKeepsHost DEF CleanupPoll
<1>2. ASSUME NEW s, ResetApplied(s) PROVE HostInv'
  BY <1>2, CleanupKeepsHost DEF ResetApplied
<1>3. CASE HostResets
  <2>1. PeersDone /\ PeersDone'
    BY <1>3 DEF HostResets, HostInv, PeersDone, fixed
  <2> QED BY <1>3, <2>1 DEF HostResets, HostInv, Linked, fixed
<1>4. CASE WindowCloses
  <2>1. /\ archive'.acked = archive.acked /\ archive'.offered = archive.offered
        /\ archive'.window = "over" /\ archive'.reset = archive.reset
    BY <1>4 DEF WindowCloses, HostInv, LogInv, ArchiveFields
  <2>2. PeersDone => PeersDone'
    BY <1>4, <2>1, DoneStaysDone DEF WindowCloses, fixed
  <2> QED BY <1>4, <2>1, <2>2 DEF WindowCloses, HostInv, Windows, Linked, hostVars, fixed
<1> QED BY <1>1, <1>2, <1>3, <1>4 DEF Cleans

LEMMA NextKeepsHost ==
  ASSUME HostInv, [Next]_vars
  PROVE  HostInv'
<1>1. LogInv'
  BY NextMovesOn DEF HostInv, MovesOn
<1>2. CASE UNCHANGED vars
  BY <1>1, <1>2, SameSessionKept, ElsewhereKeepsHost DEF vars
<1> QED BY <1>1, <1>2, ReportsKeepHost, PublishesKeepHost, RestKeepsHost, ConnectionsKeepHost,
           CleansKeepHost DEF Next

LEMMA InitHost == Init => HostInv
<1> SUFFICES ASSUME Init PROVE HostInv
  OBVIOUS
<1>1. LogInv
  BY InitLogged
<1>2. session = Session("live") /\ DOMAIN session = SessionFields /\ session.kind = "live"
  BY DEF Init, SessionFields, Session
<1> QED BY <1>1, <1>2 DEF Init, HostInv, NoArchive, Windows, Linked

\* The host gives up its round only after every other badge applied its reset
\* or was sent it and had the time of the window, over lost frames, restarts
\* and reconnections (archivedResetMessage).
THEOREM HostIsLast == Spec => []HostLast
<1>1. HostInv => HostLast
  BY DEF HostInv, HostLast, PeersDone
<1> QED BY InitHost, NextKeepsHost, <1>1, PTL DEF Spec
================================================================================
