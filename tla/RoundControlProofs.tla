-------------------------- MODULE RoundControlProofs ---------------------------
(***************************************************************************)
(* The lobby and its round: proofs about RoundControl for any number of    *)
(* badges, keys, controls, rounds and calls that wait for a digest.        *)
(*                                                                         *)
(* Each theorem has an invariant of its own, over the variables it is      *)
(* about; the steps of a badge that leave them alone are told apart once.  *)
(***************************************************************************)
EXTENDS RoundControl, FiniteSetTheorems, SequenceTheorems, TLAPS

MetaFields == {"roster", "ids", "round", "hash", "ready", "started", "ended", "revision", "lobby"}

\* What is written into the record of the lobby.
LEMMA EnlistFields ==
  ASSUME DOMAIN meta = MetaFields, NEW k, Enlist(k)
  PROVE  LET b == owner[k]
             known == b \in Members(meta.roster)
         IN  /\ DOMAIN meta' = MetaFields
             /\ meta'.roster = IF known THEN meta.roster ELSE Append(meta.roster, b)
             /\ meta'.ids = [meta.ids EXCEPT ![b] = k]
             /\ meta'.revision = IF known THEN meta.revision ELSE meta.revision + 1
             /\ meta'.round = meta.round /\ meta'.hash = meta.hash /\ meta'.ready = meta.ready
             /\ meta'.started = meta.started
             /\ known \/ meta.round = NoRound
  BY DEF Enlist, MetaFields

LEMMA PrepareFields ==
  ASSUME DOMAIN meta = MetaFields, NEW h, Prepare(h)
  PROVE  /\ DOMAIN meta' = MetaFields /\ meta'.roster = meta.roster /\ meta'.ids = meta.ids
         /\ meta.round = NoRound /\ meta'.round = FreshRound
         /\ meta'.hash = flights[h].roster /\ meta.revision = flights[h].revision
         /\ meta'.revision = meta.revision + 1
         /\ meta'.ready = meta.ready /\ meta'.started = meta.started
  BY DEF Prepare, Fits, MetaFields

LEMMA AckFields ==
  ASSUME DOMAIN meta = MetaFields, NEW r, AckReady(r)
  PROVE  /\ DOMAIN meta' = MetaFields /\ meta'.roster = meta.roster /\ meta'.ids = meta.ids
         /\ meta'.round = meta.round /\ meta'.hash = meta.hash
         /\ meta'.revision \in {meta.revision, meta.revision + 1}
         /\ meta'.ready = meta.ready \cup {r.slot}
         /\ meta'.started = (meta.started \/ DOMAIN meta.roster \subseteq meta.ready \cup {r.slot})
  BY DEF AckReady, MetaFields

LEMMA FinishFields ==
  ASSUME DOMAIN meta = MetaFields, Finish
  PROVE  /\ DOMAIN meta' = MetaFields /\ meta'.roster = meta.roster /\ meta'.ids = meta.ids
         /\ meta'.round = meta.round /\ meta'.hash = meta.hash
         /\ meta'.revision = meta.revision + 1
         /\ meta'.ready = meta.ready /\ meta'.started = meta.started
  BY DEF Finish, MetaFields

\* The steps that leave the lobby, its archives and its registrations alone.
Quiet ==
  \/ \E b \in Badges :
       \/ Press(b) \/ Join(b) \/ Reboot(b)
       \/ \E r \in replies : TakeReply(b, r)
       \/ \E c \in ResetCommands : TakeReset(b, c)
       \/ \E p \in Published : TakePrepare(b, p)
  \/ PressB
  \/ \E c \in Requested : ControlAgain(c) \/ ControlRefused(c)
  \/ \E h \in Handlers :
       (\E c \in Requested \cup {NoControl} : Begin(h, c)) \/ PrepareFails(h)
  \/ \E a \in answers : TakeAnswer(a)
  \/ UNCHANGED controlVars

LEMMA QuietLeaves ==
  Quiet => UNCHANGED <<meta, registrations, archives>>
BY DEF Quiet, Press, Join, Reboot, TakeReply, TakeReset, TakePrepare, PressB, ControlAgain,
       ControlRefused, Begin, PrepareFails, TakeAnswer, controlVars, serverVars

\* The steps that do not.
Enlists(k) ==
  /\ k \in joins \cap Keys /\ Enlist(k) /\ joins' \subseteq joins
  /\ UNCHANGED <<archives, flights, owner, key, retired, receipts>>
Clears ==
  /\ ResetLobby
  /\ UNCHANGED <<flights, owner, joins, key, retired, receipts>>

LEMMA Steps ==
  ASSUME [Next]_controlVars
  PROVE  \/ Quiet \/ \E k \in Keys : Enlists(k)
         \/ Clears \/ Finish
         \/ \E h \in Handlers : Prepare(h)
         \/ \E r \in receipts : AckReady(r)
         \/ UNCHANGED <<meta, registrations, archives, flights, owner, key, retired, receipts>>
            /\ joins' \subseteq joins
<1>1. ASSUME NEW k \in Keys, NEW lost \in BOOLEAN, Register(k, lost)
      PROVE  \/ Enlists(k)
             \/ UNCHANGED <<meta, registrations, archives, flights, owner, key, retired, receipts>>
                /\ joins' \subseteq joins
  BY <1>1 DEF Register, Enlists, Repeat, Refuse, badgeVars
<1>2. CASE DashboardReset \/ \E c \in Requested : ControlReset(c)
  BY <1>2 DEF DashboardReset, ControlReset, Clears, badgeVars
<1> QED BY <1>1, <1>2 DEF Next, Quiet

-----------------------------------------------------------------------------
\* The digest.  A lobby that has the revision of a call still has its roster.

DigestInv ==
  /\ DOMAIN meta = MetaFields /\ meta.revision \in Nat
  /\ DOMAIN flights = Handlers
  /\ \A h \in Handlers :
       /\ flights[h].revision \in Int /\ flights[h].revision <= meta.revision
       /\ flights[h].revision = meta.revision => flights[h].roster = meta.roster
  /\ DigestIsRoster

\* A lobby that has moved on fits no call.
LEMMA LaterRevision ==
  ASSUME DigestInv, UNCHANGED flights, DOMAIN meta' = MetaFields, meta'.revision = meta.revision + 1,
         DigestIsRoster'
  PROVE  DigestInv'
  BY DEF DigestInv

\* The flights change, the lobby does not.
LEMMA FlightsKeep ==
  ASSUME DigestInv, Quiet
  PROVE  DigestInv'
<1>1. meta' = meta
  BY QuietLeaves
<1>2. CASE UNCHANGED flights
  BY <1>1, <1>2 DEF DigestInv, DigestIsRoster
<1>3. ASSUME NEW h \in Handlers, NEW c, Begin(h, c) PROVE DigestInv'
  <2>1. flights' = [flights EXCEPT ![h] = [by |-> c, roster |-> meta.roster, revision |-> meta.revision]]
    BY <1>3 DEF Begin
  <2> QED BY <1>1, <2>1 DEF DigestInv, DigestIsRoster
<1>4. ASSUME NEW h \in Handlers, PrepareFails(h) PROVE DigestInv'
  <2>1. flights' = [flights EXCEPT ![h] = Idle]
    BY <1>4 DEF PrepareFails, Landed
  <2> QED BY <1>1, <2>1 DEF DigestInv, DigestIsRoster, Idle
<1> QED BY <1>2, <1>3, <1>4
        DEF Quiet, Press, Join, Reboot, TakeReply, TakeReset, TakePrepare, PressB, ControlAgain,
            ControlRefused, TakeAnswer, controlVars, serverVars

\* The roster a round is played with is the one whose digest the badges are
\* given (prepareImpl, which reads the lobby twice).
THEOREM DigestStands == Spec => []DigestIsRoster
<1>1. Init => DigestInv
  <2> SUFFICES ASSUME Init PROVE DigestInv
    OBVIOUS
  <2>1. DOMAIN meta = MetaFields /\ meta.round = NoRound /\ meta.revision = 0
    BY DEF Init, Lobby, MetaFields
  <2>2. flights = [h \in Handlers |-> Idle]
    BY DEF Init
  <2> QED BY <2>1, <2>2 DEF DigestInv, DigestIsRoster, Idle
<1>2. DigestInv /\ [Next]_controlVars => DigestInv'
  <2> SUFFICES ASSUME DigestInv, [Next]_controlVars PROVE DigestInv'
    OBVIOUS
  <2>1. CASE Quiet
    BY <2>1, FlightsKeep
  <2>2. ASSUME NEW k \in Keys, Enlists(k) PROVE DigestInv'
    <3>1. CASE owner[k] \in Members(meta.roster)
      BY <2>2, <3>1, EnlistFields DEF Enlists, DigestInv, DigestIsRoster
    <3>2. CASE owner[k] \notin Members(meta.roster)
      BY <2>2, <3>2, EnlistFields, LaterRevision DEF Enlists, DigestInv, DigestIsRoster
    <3> QED BY <3>1, <3>2
  <2>3. CASE Clears
    <3>1. meta' = Lobby(meta.revision + 1, meta.lobby + 1) /\ UNCHANGED flights
      BY <2>3 DEF Clears, ResetLobby
    <3>2. DOMAIN meta' = MetaFields /\ meta'.round = NoRound /\ meta'.revision = meta.revision + 1
      BY <3>1 DEF Lobby, MetaFields
    <3> QED BY <3>1, <3>2, LaterRevision DEF DigestIsRoster
  <2>4. CASE Finish
    BY <2>4, FinishFields, LaterRevision DEF DigestInv, DigestIsRoster, Finish
  <2>5. ASSUME NEW h \in Handlers, Prepare(h) PROVE DigestInv'
    <3>1. flights' = [flights EXCEPT ![h] = Idle]
      BY <2>5 DEF Prepare, Landed
    <3>2. DigestIsRoster'
      BY <2>5, PrepareFields DEF DigestInv, DigestIsRoster
    <3> QED BY <2>5, <3>1, <3>2, PrepareFields DEF DigestInv, Idle
  <2>6. ASSUME NEW r \in receipts, AckReady(r) PROVE DigestInv'
    <3>1. DigestIsRoster' /\ UNCHANGED flights
      BY <2>6, AckFields DEF AckReady, DigestInv, DigestIsRoster
    <3>2. CASE meta'.revision = meta.revision
      BY <2>6, <3>1, <3>2, AckFields DEF DigestInv
    <3>3. CASE meta'.revision = meta.revision + 1
      BY <2>6, <3>1, <3>3, AckFields, LaterRevision DEF DigestInv
    <3> QED BY <2>6, <3>2, <3>3, AckFields DEF DigestInv
  <2>7. CASE UNCHANGED <<meta, flights>>
    BY <2>7 DEF DigestInv, DigestIsRoster
  <2> QED BY <2>1, <2>2, <2>3, <2>4, <2>5, <2>6, <2>7, Steps
<1>3. DigestInv => DigestIsRoster
  BY DEF DigestInv
<1> QED BY <1>1, <1>2, <1>3, PTL DEF Spec

-----------------------------------------------------------------------------
\* The slots.  Every key that is under way was made by a badge, and the keys
\* that have an answer have the slot of that badge.

OwnerInv ==
  /\ owner \in Seq(Badges)
  /\ joins \subseteq 1..Len(owner)
  /\ key \in [Badges -> {NoKey} \cup 1..Len(owner)]

RosterInv ==
  /\ DOMAIN meta = MetaFields /\ meta.roster \in Seq(Badges)
  /\ DOMAIN registrations = Keys
  /\ \A k \in Keys : registrations[k] # NoSlot => k \in 1..Len(owner)
  /\ SlotsStand

\* A new key is the next one.
LEMMA PressOwns ==
  ASSUME OwnerInv, NEW b \in Badges, Press(b)
  PROVE  /\ OwnerInv' /\ Len(owner') = Len(owner) + 1
         /\ \A k \in 1..Len(owner) : owner'[k] = owner[k]
<1>1. /\ owner' = Append(owner, b) /\ key' = [key EXCEPT ![b] = Len(owner) + 1]
      /\ joins' = joins
  BY DEF Press
<1>2. Len(owner) \in Nat /\ owner' \in Seq(Badges) /\ Len(owner') = Len(owner) + 1
      /\ \A k \in 1..Len(owner) : owner'[k] = owner[k]
  BY <1>1 DEF OwnerInv
<1>3. joins' \subseteq 1..Len(owner')
  BY <1>1, <1>2 DEF OwnerInv
<1>4. key' \in [Badges -> {NoKey} \cup 1..Len(owner')]
  BY <1>1, <1>2 DEF OwnerInv
<1> QED BY <1>2, <1>3, <1>4 DEF OwnerInv

LEMMA OwnersKeep ==
  ASSUME OwnerInv, [Next]_controlVars
  PROVE  /\ OwnerInv'
         /\ UNCHANGED owner \/ \E b \in Badges : Press(b)
<1>1. ASSUME UNCHANGED <<owner, key>>, joins' \subseteq joins PROVE OwnerInv'
  BY <1>1 DEF OwnerInv
<1>2. ASSUME NEW b \in Badges, Press(b) PROVE OwnerInv'
  BY <1>2, PressOwns
<1>3. ASSUME NEW b \in Badges, Join(b) PROVE OwnerInv' /\ UNCHANGED owner
  <2>1. joins' \subseteq joins \cup {key[b]} /\ key[b] # NoKey /\ UNCHANGED <<owner, key>>
    BY <1>3 DEF Join, badgeVars
  <2> QED BY <2>1 DEF OwnerInv
<1>4. ASSUME UNCHANGED <<owner, joins>>,
             key' = key \/ \E b \in Badges : key' = [key EXCEPT ![b] = NoKey]
      PROVE  OwnerInv'
  BY <1>4 DEF OwnerInv
<1>5. ASSUME NEW b \in Badges,
             \/ Reboot(b) \/ \E r \in replies : TakeReply(b, r)
             \/ \E c \in ResetCommands : TakeReset(b, c)
             \/ \E p \in Published : TakePrepare(b, p)
      PROVE  OwnerInv' /\ UNCHANGED owner
  BY <1>4, <1>5 DEF Reboot, TakeReply, TakeReset, TakePrepare
<1>6. ASSUME NEW a \in answers, TakeAnswer(a) PROVE OwnerInv' /\ UNCHANGED owner
  BY <1>4, <1>6, ControlAssumption DEF TakeAnswer
<1>7. CASE \/ PressB \/ \E c \in Requested : ControlAgain(c) \/ ControlRefused(c)
           \/ \E h \in Handlers : (\E c \in Requested \cup {NoControl} : Begin(h, c)) \/ PrepareFails(h)
           \/ UNCHANGED controlVars
  BY <1>1, <1>7 DEF PressB, ControlAgain, ControlRefused, Begin, PrepareFails, controlVars, badgeVars
<1>8. CASE Quiet
  BY <1>2, <1>3, <1>5, <1>6, <1>7, <1>8 DEF Quiet
<1>9. CASE \/ \E k \in Keys : Enlists(k)
           \/ Clears \/ Finish \/ \E h \in Handlers : Prepare(h)
           \/ \E r \in receipts : AckReady(r)
  BY <1>1, <1>9 DEF Enlists, Clears, Finish, Prepare, AckReady, badgeVars
<1>10. CASE UNCHANGED <<owner, key>> /\ joins' \subseteq joins
  BY <1>1, <1>10
<1> QED BY <1>8, <1>9, <1>10, Steps

\* The place of a badge that is in the roster.
LEMMA SlotOfMember ==
  ASSUME NEW roster, NEW b \in Members(roster)
  PROVE  SlotIn(roster, b) \in DOMAIN roster /\ roster[SlotIn(roster, b)] = b
  BY DEF Members, SlotIn

LEMMA EnlistKeepsSlots ==
  ASSUME OwnerInv, RosterInv, NEW k \in Keys, Enlists(k)
  PROVE  RosterInv'
<1> DEFINE b == owner[k]
<1>1. k \in 1..Len(owner) /\ b \in Badges /\ owner' = owner
  BY DEF Enlists, OwnerInv
<1>2. registrations' = [registrations EXCEPT ![k] = SlotIn(meta'.roster, b)]
  <2>1. meta'.roster = IF b \in Members(meta.roster) THEN meta.roster ELSE Append(meta.roster, b)
    BY EnlistFields DEF Enlists, RosterInv
  <2> QED BY <2>1 DEF Enlists, Enlist
<1>3. ASSUME /\ DOMAIN meta' = MetaFields /\ meta'.roster \in Seq(Badges)
             /\ \A i, j \in DOMAIN meta'.roster : meta'.roster[i] = meta'.roster[j] => i = j
             /\ \A i \in DOMAIN meta.roster : i \in DOMAIN meta'.roster /\ meta'.roster[i] = meta.roster[i]
             /\ b \in Members(meta'.roster)
      PROVE  RosterInv'
  <2>1. SlotIn(meta'.roster, b) \in DOMAIN meta'.roster /\ meta'.roster[SlotIn(meta'.roster, b)] = b
    BY <1>3, SlotOfMember
  <2>2. ASSUME NEW l \in Keys, registrations'[l] # NoSlot
        PROVE  /\ registrations'[l] \in DOMAIN meta'.roster
               /\ meta'.roster[registrations'[l]] = owner'[l] /\ l \in 1..Len(owner')
    <3>1. CASE l = k
      BY <1>1, <1>2, <2>1, <3>1 DEF RosterInv
    <3>2. CASE l # k
      BY <1>1, <1>2, <1>3, <2>2, <3>2 DEF RosterInv, SlotsStand
    <3> QED BY <3>1, <3>2
  <2>3. DOMAIN registrations' = Keys
    BY <1>2 DEF RosterInv
  <2> QED BY <1>3, <2>2, <2>3 DEF RosterInv, SlotsStand
<1>4. CASE b \in Members(meta.roster)
  BY <1>3, <1>4, EnlistFields DEF Enlists, RosterInv, SlotsStand
<1>5. CASE b \notin Members(meta.roster)
  <2>1. DOMAIN meta' = MetaFields /\ meta'.roster = Append(meta.roster, b)
    BY <1>5, EnlistFields DEF Enlists, RosterInv
  <2>2. /\ meta'.roster \in Seq(Badges) /\ DOMAIN meta.roster = 1..Len(meta.roster)
        /\ Len(meta.roster) \in Nat /\ DOMAIN meta'.roster = 1..(Len(meta.roster) + 1)
        /\ meta'.roster[Len(meta.roster) + 1] = b
        /\ \A i \in 1..Len(meta.roster) : meta'.roster[i] = meta.roster[i]
    BY <1>1, <2>1 DEF RosterInv
  <2>3. \A i \in 1..Len(meta.roster) : meta.roster[i] # b
    BY <1>5, <2>2 DEF Members
  <2>4. ASSUME NEW i \in DOMAIN meta'.roster, NEW j \in DOMAIN meta'.roster,
               meta'.roster[i] = meta'.roster[j]
        PROVE  i = j
    <3>1. CASE i \in 1..Len(meta.roster) /\ j \in 1..Len(meta.roster)
      BY <2>2, <2>4, <3>1 DEF RosterInv, SlotsStand
    <3>2. CASE i = Len(meta.roster) + 1 \/ j = Len(meta.roster) + 1
      <4>1. i \in 1..Len(meta.roster) \/ i = Len(meta.roster) + 1
        BY <2>2
      <4>2. j \in 1..Len(meta.roster) \/ j = Len(meta.roster) + 1
        BY <2>2
      <4> QED BY <2>2, <2>3, <2>4, <3>2, <4>1, <4>2
    <3> QED BY <2>2, <3>1, <3>2
  <2>5. b \in Members(meta'.roster)
    BY <2>2 DEF Members
  <2> QED BY <1>3, <2>1, <2>2, <2>4, <2>5
<1> QED BY <1>4, <1>5

LEMMA RosterKeeps ==
  ASSUME OwnerInv, RosterInv, [Next]_controlVars
  PROVE  RosterInv'
<1>1. ASSUME UNCHANGED registrations, DOMAIN meta' = MetaFields, meta'.roster = meta.roster
      PROVE  RosterInv'
  <2>1. CASE UNCHANGED owner
    BY <1>1, <2>1 DEF RosterInv, SlotsStand
  <2>2. CASE \E b \in Badges : Press(b)
    <3>1. Len(owner') = Len(owner) + 1 /\ Len(owner) \in Nat
          /\ \A k \in 1..Len(owner) : owner'[k] = owner[k]
      BY <2>2, PressOwns DEF OwnerInv
    <3> QED BY <1>1, <3>1 DEF RosterInv, SlotsStand
  <2> QED BY <2>1, <2>2, OwnersKeep
<1>2. CASE Quiet
  BY <1>1, <1>2, QuietLeaves DEF RosterInv
<1>3. ASSUME NEW k \in Keys, Enlists(k) PROVE RosterInv'
  BY <1>3, EnlistKeepsSlots
<1>4. CASE Clears
  <2>1. meta' = Lobby(meta.revision + 1, meta.lobby + 1) /\ registrations' = [k \in Keys |-> NoSlot]
    BY <1>4 DEF Clears, ResetLobby
  <2>2. DOMAIN meta' = MetaFields /\ meta'.roster = <<>>
    BY <2>1 DEF Lobby, MetaFields
  <2>3. meta'.roster \in Seq(Badges) /\ DOMAIN meta'.roster = {}
    BY <2>2
  <2>4. DOMAIN registrations' = Keys /\ \A k \in Keys : registrations'[k] = NoSlot
    BY <2>1
  <2> QED BY <2>2, <2>3, <2>4 DEF RosterInv, SlotsStand
<1>5. CASE Finish
  BY <1>1, <1>5, FinishFields DEF Finish, RosterInv
<1>6. ASSUME NEW h \in Handlers, Prepare(h) PROVE RosterInv'
  BY <1>1, <1>6, PrepareFields DEF Prepare, RosterInv
<1>7. ASSUME NEW r \in receipts, AckReady(r) PROVE RosterInv'
  BY <1>1, <1>7, AckFields DEF AckReady, RosterInv
<1>8. CASE UNCHANGED <<meta, registrations>>
  BY <1>1, <1>8 DEF RosterInv
<1> QED BY <1>2, <1>3, <1>4, <1>5, <1>6, <1>7, <1>8, Steps

LEMMA InitSlots == Init => OwnerInv /\ RosterInv
<1> SUFFICES ASSUME Init PROVE OwnerInv /\ RosterInv
  OBVIOUS
<1>1. DOMAIN meta = MetaFields /\ meta.roster = <<>>
  BY DEF Init, Lobby, MetaFields
<1>2. owner = <<>> /\ joins = {} /\ key = [b \in Badges |-> NoKey] /\ registrations = [k \in Keys |-> NoSlot]
  BY DEF Init, NoKeys
<1> QED BY <1>1, <1>2 DEF OwnerInv, RosterInv, SlotsStand

\* No badge has two slots, and the slot a badge was answered is its slot in
\* the roster for as long as the lobby lasts (register).
THEOREM SlotsAreKept == Spec => []SlotsStand
<1>1. OwnerInv /\ RosterInv /\ [Next]_controlVars => (OwnerInv /\ RosterInv)'
  BY OwnersKeep, RosterKeeps
<1>2. RosterInv => SlotsStand
  BY DEF RosterInv
<1> QED BY InitSlots, <1>1, <1>2, PTL DEF Spec

-----------------------------------------------------------------------------
\* The start.  Rounds are never numbered alike, a receipt is for a round that
\* was published, and one for the round of the moment comes from its roster.

HasReady(s) == \E r \in receipts : r.round = meta.round /\ r.slot = s

StartInv ==
  /\ \E n \in Nat : UsedRounds = 1..n
  /\ \A a \in archives : a.round # NoRound /\ a.round # meta.round
  /\ \A r \in receipts :
       /\ r = [round |-> r.round, slot |-> r.slot, badge |-> r.badge]
       /\ r.round \in UsedRounds
       /\ r.round = meta.round => r.slot \in DOMAIN meta.roster /\ meta.roster[r.slot] = r.badge
  /\ \A s \in meta.ready : HasReady(s)
  /\ meta.round = NoRound => meta.ready = {} /\ ~meta.started
  /\ meta.started => DOMAIN meta.roster \subseteq meta.ready

\* A new round has a number that no round had.
LEMMA NewRound ==
  ASSUME NEW n \in Nat, UsedRounds = 1..n
  PROVE  FreshRound = n + 1 /\ FreshRound \notin UsedRounds /\ FreshRound # NoRound
<1>1. Cardinality(1..n) = n
  BY FS_Interval
<1> QED BY <1>1 DEF FreshRound, NoRound

LEMMA NotReadyBefore ==
  ASSUME StartInv, meta.round = NoRound, NEW r \in receipts
  PROVE  r.round # meta.round
  BY DEF StartInv, NoRound

\* A step of the server that leaves the round and who plays in it alone.
LEMMA SameRound ==
  ASSUME StartInv, UNCHANGED <<archives, receipts>>, meta'.round = meta.round,
         meta'.ready = meta.ready, meta'.started = meta.started,
         meta'.roster = meta.roster \/ meta.round = NoRound
  PROVE  StartInv'
<1>1. UsedRounds' = UsedRounds
  BY DEF UsedRounds
<1>2. CASE meta'.roster = meta.roster
  BY <1>1, <1>2 DEF StartInv, HasReady
<1>3. CASE meta.round = NoRound
  <2>1. \A r \in receipts : r.round # meta.round
    BY <1>3, NotReadyBefore
  <2> QED BY <1>1, <1>3, <2>1 DEF StartInv, HasReady
<1> QED BY <1>2, <1>3

LEMMA PreparedReports ==
  ASSUME StartInv, NEW b \in Badges, NEW p \in Published, TakePrepare(b, p),
         UNCHANGED <<meta, archives>>
  PROVE  StartInv'
<1> DEFINE new == [round |-> p.round, slot |-> slot[b], badge |-> b]
<1>1. receipts' = receipts \cup {new} /\ UsedRounds' = UsedRounds
  BY DEF TakePrepare, UsedRounds
<1>2. p.round \in UsedRounds
  BY DEF Published, UsedRounds, StartInv
<1>3. p.round = meta.round => p.roster = meta.roster
  BY DEF Published, StartInv
<1>4. slot[b] \in DOMAIN p.roster /\ p.roster[slot[b]] = b
  BY DEF TakePrepare
<1>5. /\ new = [round |-> new.round, slot |-> new.slot, badge |-> new.badge]
      /\ new.round \in UsedRounds
      /\ new.round = meta.round => new.slot \in DOMAIN meta.roster /\ meta.roster[new.slot] = new.badge
  BY <1>2, <1>3, <1>4
<1> HIDE DEF new
<1> QED BY <1>1, <1>5 DEF StartInv, HasReady

LEMMA ClearsStarts ==
  ASSUME StartInv, Clears
  PROVE  StartInv'
<1> DEFINE n == IF meta.round = NoRound THEN FreshRound ELSE meta.round
<1> PICK m \in Nat : UsedRounds = 1..m
  BY DEF StartInv
<1>1. meta' = Lobby(meta.revision + 1, meta.lobby + 1) /\ receipts' = receipts
  BY DEF Clears, ResetLobby
<1>2. meta'.round = NoRound /\ meta'.ready = {} /\ meta'.started = FALSE
  BY <1>1 DEF Lobby
<1>3. PICK a : archives' = archives \cup {a} /\ a.round = n
  <2> DEFINE old == [round |-> n, roster |-> meta.roster, ids |-> meta.ids, ended |-> meta.ended,
                     frozen |-> meta.round # NoRound]
  <2>1. archives' = archives \cup {old} /\ old.round = n
    BY DEF Clears, ResetLobby
  <2> HIDE DEF old, n
  <2> QED BY <2>1
<1>4. n # NoRound /\ UsedRounds' = UsedRounds \cup {n}
  BY <1>2, <1>3, NewRound DEF UsedRounds
<1>5. \E k \in Nat : UsedRounds' = 1..k
  <2>1. CASE meta.round = NoRound
    <3>1. UsedRounds' = 1..(m + 1)
      BY <2>1, <1>4, NewRound
    <3> QED BY <3>1
  <2>2. CASE meta.round # NoRound
    BY <2>2, <1>4 DEF UsedRounds
  <2> QED BY <2>1, <2>2
<1>6. \A x \in archives' : x.round # NoRound /\ x.round # meta'.round
  BY <1>2, <1>3, <1>4 DEF StartInv
<1>7. \A r \in receipts' : r.round \in UsedRounds /\ r.round # meta'.round
  BY <1>1, <1>2 DEF StartInv, NoRound
<1> QED BY <1>1, <1>2, <1>4, <1>5, <1>6, <1>7 DEF StartInv

LEMMA FreezesStarts ==
  ASSUME StartInv, DOMAIN meta = MetaFields, NEW h, Prepare(h)
  PROVE  StartInv'
<1> PICK m \in Nat : UsedRounds = 1..m
  BY DEF StartInv
<1>1. /\ meta.round = NoRound /\ meta'.round = FreshRound
      /\ meta'.ready = {} /\ ~meta'.started /\ meta'.roster = meta.roster
  BY PrepareFields DEF StartInv
<1>2. UNCHANGED <<archives, receipts>>
  BY DEF Prepare
<1>3. FreshRound = m + 1 /\ FreshRound \notin UsedRounds /\ FreshRound # NoRound
  BY NewRound
<1>4. UsedRounds' = UsedRounds \cup {FreshRound}
  BY <1>1, <1>3, <1>2 DEF UsedRounds
<1>5. UsedRounds' = 1..(m + 1)
  BY <1>3, <1>4
<1>6. \A a \in archives' : a.round # NoRound /\ a.round # meta'.round
  BY <1>1, <1>3, <1>2 DEF StartInv, UsedRounds
<1>7. \A r \in receipts' : r.round \in UsedRounds /\ r.round # meta'.round
  BY <1>1, <1>3, <1>2 DEF StartInv
<1> QED BY <1>1, <1>3, <1>4, <1>5, <1>6, <1>7, <1>2 DEF StartInv

LEMMA AckStarts ==
  ASSUME StartInv, DOMAIN meta = MetaFields, NEW r \in receipts, AckReady(r)
  PROVE  StartInv'
<1>1. /\ meta'.round = meta.round /\ meta'.roster = meta.roster
      /\ meta'.ready = meta.ready \cup {r.slot}
      /\ meta'.started = (meta.started \/ DOMAIN meta.roster \subseteq meta.ready \cup {r.slot})
      /\ UNCHANGED <<archives, receipts>>
  BY AckFields DEF AckReady
<1>2. UsedRounds' = UsedRounds
  BY <1>1 DEF UsedRounds
<1>3. meta.round # NoRound /\ r.round = meta.round
  BY DEF AckReady
<1>4. \A s \in meta'.ready : HasReady(s)'
  BY <1>1, <1>3 DEF StartInv, HasReady
<1>5. meta'.started => DOMAIN meta'.roster \subseteq meta'.ready
  BY <1>1 DEF StartInv
<1> QED BY <1>1, <1>2, <1>3, <1>4, <1>5 DEF StartInv

LEMMA StartsKeep ==
  ASSUME StartInv, DOMAIN meta = MetaFields, [Next]_controlVars
  PROVE  StartInv'
<1>1. CASE Quiet
  <2>1. UNCHANGED <<meta, archives>>
    BY <1>1, QuietLeaves
  <2>2. CASE UNCHANGED receipts
    BY <2>1, <2>2, SameRound
  <2>3. ASSUME NEW b \in Badges, NEW p \in Published, TakePrepare(b, p) PROVE StartInv'
    BY <2>1, <2>3, PreparedReports
  <2> QED BY <1>1, <2>2, <2>3
          DEF Quiet, Press, Join, Reboot, TakeReply, TakeReset, PressB, ControlAgain,
              ControlRefused, Begin, PrepareFails, TakeAnswer, controlVars
<1>2. ASSUME NEW k \in Keys, Enlists(k) PROVE StartInv'
  BY <1>2, EnlistFields, SameRound DEF Enlists
<1>3. CASE Clears
  BY <1>3, ClearsStarts
<1>4. CASE Finish
  BY <1>4, FinishFields, SameRound DEF Finish
<1>5. ASSUME NEW h \in Handlers, Prepare(h) PROVE StartInv'
  BY <1>5, FreezesStarts
<1>6. ASSUME NEW r \in receipts, AckReady(r) PROVE StartInv'
  BY <1>6, AckStarts
<1>7. CASE UNCHANGED <<meta, archives, receipts>>
  BY <1>7, SameRound
<1> QED BY <1>1, <1>2, <1>3, <1>4, <1>5, <1>6, <1>7, Steps

LEMMA InitStarts == Init => StartInv
<1> SUFFICES ASSUME Init PROVE StartInv
  OBVIOUS
<1>1. meta.round = NoRound /\ meta.ready = {} /\ meta.started = FALSE
  BY DEF Init, Lobby
<1>2. archives = {} /\ receipts = {}
  BY DEF Init
<1>3. UsedRounds = 1..0
  BY <1>1, <1>2 DEF UsedRounds
<1> QED BY <1>1, <1>2, <1>3 DEF StartInv

\* The round starts only when each badge of the roster, itself, has reported
\* from its own slot that it holds this round (maybeStart).
THEOREM StartIsTogether == Spec => []StartsTogether
<1>1. OwnerInv /\ RosterInv /\ StartInv /\ [Next]_controlVars => (OwnerInv /\ RosterInv /\ StartInv)'
  <2>1. RosterInv => DOMAIN meta = MetaFields
    BY DEF RosterInv
  <2> QED BY <2>1, OwnersKeep, RosterKeeps, StartsKeep
<1>2. StartInv => StartsTogether
  <2> SUFFICES ASSUME StartInv, meta.started, NEW i \in DOMAIN meta.roster
               PROVE  [round |-> meta.round, slot |-> i, badge |-> meta.roster[i]] \in receipts
    BY DEF StartsTogether
  <2>1. PICK r \in receipts : r.round = meta.round /\ r.slot = i
    BY DEF StartInv, HasReady
  <2>2. r = [round |-> meta.round, slot |-> i, badge |-> meta.roster[i]]
    BY <2>1 DEF StartInv
  <2> QED BY <2>2
<1> QED BY InitSlots, InitStarts, <1>1, <1>2, PTL DEF Spec

-----------------------------------------------------------------------------
\* The newcomers.  The lobby knows a badge by a key that no archive has.

KeysInv ==
  /\ DOMAIN retired = Badges /\ DOMAIN meta.ids = Badges
  /\ \A b \in Badges : meta.ids[b] # NoKey => \A a \in archives : a.ids[b] # meta.ids[b]

LEMMA KeysKeep ==
  ASSUME OwnerInv, RosterInv, KeysInv, [Next]_controlVars
  PROVE  KeysInv'
<1>1. DOMAIN retired' = Badges
  <2>1. CASE UNCHANGED retired
    BY <2>1 DEF KeysInv
  <2>2. ASSUME NEW b \in Badges, Reboot(b) \/ \E c \in ResetCommands : TakeReset(b, c)
        PROVE  DOMAIN retired' = Badges
    BY <2>2 DEF Reboot, TakeReset, KeysInv
  <2> QED BY <2>1, <2>2, Steps
          DEF Quiet, Press, Join, TakeReply, TakePrepare, PressB, ControlAgain, ControlRefused,
              Begin, PrepareFails, TakeAnswer, controlVars, badgeVars, Enlists, Clears, Finish,
              Prepare, AckReady
<1>2. ASSUME UNCHANGED archives, meta'.ids = meta.ids PROVE KeysInv'
  BY <1>1, <1>2 DEF KeysInv
<1>3. ASSUME NEW k \in Keys, Enlists(k) PROVE KeysInv'
  <2>1. owner[k] \in Badges /\ meta'.ids = [meta.ids EXCEPT ![owner[k]] = k] /\ archives' = archives
    <3>1. k \in 1..Len(owner) /\ owner \in Seq(Badges) /\ archives' = archives
      BY <1>3 DEF Enlists, OwnerInv
    <3>2. meta'.ids = [meta.ids EXCEPT ![owner[k]] = k]
      BY <1>3, EnlistFields DEF Enlists, RosterInv
    <3> QED BY <3>1, <3>2
  <2>2. \A a \in archives : a.ids[owner[k]] # k
    BY <1>3 DEF Enlists, Enlist, Retired
  <2> QED BY <1>1, <2>1, <2>2 DEF KeysInv
<1>4. CASE Clears
  <2>1. meta'.ids = NoKeys
    BY <1>4 DEF Clears, ResetLobby, Lobby
  <2> QED BY <1>1, <2>1 DEF KeysInv, NoKeys
<1> QED BY <1>2, <1>3, <1>4, Steps, QuietLeaves, FinishFields, PrepareFields, AckFields
        DEF RosterInv, Finish, Prepare, AckReady

\* A cleanup command that comes late never clears a badge that the lobby of
\* the moment knows by the key it has (resetLobby, process_command).
THEOREM NewcomersAreSpared == Spec => ResetSparesNewcomers
<1>1. Init => KeysInv
  BY DEF Init, KeysInv, Lobby, NoKeys
<1>2. OwnerInv /\ RosterInv /\ KeysInv /\ [Next]_controlVars => (OwnerInv /\ RosterInv /\ KeysInv)'
  BY OwnersKeep, RosterKeeps, KeysKeep
<1>3. KeysInv /\ [Next]_controlVars =>
        [\A b \in Badges : retired'[b] \notin {retired[b], NoRound} =>
           ~(b \in Members(meta.roster) /\ meta.ids[b] = key[b])]_controlVars
  <2> SUFFICES ASSUME KeysInv, [Next]_controlVars, NEW b \in Badges,
                      retired'[b] \notin {retired[b], NoRound}
               PROVE  meta.ids[b] # key[b]
    OBVIOUS
  <2>1. PICK x \in Badges : Reboot(x) \/ \E c \in ResetCommands : TakeReset(x, c)
    BY Steps DEF Quiet, Press, Join, TakeReply, TakePrepare, PressB, ControlAgain, ControlRefused,
                 Begin, PrepareFails, TakeAnswer, controlVars, badgeVars, Enlists, Clears, Finish,
                 Prepare, AckReady
  <2>2. CASE Reboot(x)
    BY <2>2 DEF Reboot, KeysInv
  <2>3. ASSUME NEW c \in ResetCommands, TakeReset(x, c) PROVE meta.ids[b] # key[b]
    <3>1. x = b
      BY <2>3 DEF TakeReset, KeysInv
    <3>2. c.badge = b /\ key[b] # NoKey /\ key[b] = c.key
      BY <2>3, <3>1 DEF TakeReset, Applies
    <3>3. \E a \in archives : c.key = a.ids[c.badge]
      BY DEF ResetCommands
    <3> QED BY <3>2, <3>3 DEF KeysInv
  <2> QED BY <2>1, <2>2, <2>3
<1> QED BY InitSlots, <1>1, <1>2, <1>3, PTL DEF Spec, ResetSparesNewcomers

-----------------------------------------------------------------------------
\* The answers.  As long as no answer was dropped, what was answered is what the
\* history has, and the history has "accepted" for the controls with an effect.

IsSequence(s) == \E S : s \in Seq(S)
Effective(c)  == \E i \in DOMAIN effects : effects[i].id = c
SavedIds      == {history[i].id : i \in DOMAIN history}
Remembered(a) == \E i \in DOMAIN history : history[i] = a
Verdicts      == {"accepted", "refused", "stale"}
Results       == [id: Nat, result: Verdicts]

\* Appending to a sequence, whatever its elements are.
LEMMA Appended ==
  ASSUME NEW s, IsSequence(s), NEW e
  PROVE  /\ IsSequence(Append(s, e)) /\ Len(s) \in Nat /\ Len(Append(s, e)) = Len(s) + 1
         /\ DOMAIN s = 1..Len(s) /\ DOMAIN Append(s, e) = 1..(Len(s) + 1)
         /\ Append(s, e)[Len(s) + 1] = e
         /\ \A i \in 1..Len(s) : Append(s, e)[i] = s[i]
<1> PICK S : s \in Seq(S)
  BY DEF IsSequence
<1> DEFINE T == S \cup {e}
<1>1. s \in Seq(T) /\ e \in T
  <2>1. S \subseteq T
    OBVIOUS
  <2> QED BY <2>1, SeqMonotonic
<1>2. Append(s, e) \in Seq(T)
  BY <1>1
<1> QED BY <1>1, <1>2 DEF IsSequence

\* What is answered and remembered, as long as there was room for it.
Truth ==
  /\ IsFiniteSet(SavedIds) /\ Cardinality(SavedIds) = Len(history)
  /\ \A i, j \in DOMAIN history : history[i].id = history[j].id => i = j
  /\ \A a \in answers : Remembered(a)
  /\ \A i \in DOMAIN history : history[i].result = "accepted" <=> Effective(history[i].id)
  /\ \A i \in DOMAIN effects : Saved(effects[i].id)

AnswerInv ==
  /\ IsSequence(presses) /\ IsSequence(effects) /\ history \in Seq(Results)
  /\ SavedIds \subseteq DOMAIN presses
  /\ DOMAIN flights = Handlers
  /\ \A h \in Handlers : flights[h].by \in {NoControl} \cup DOMAIN presses
  /\ Len(presses) <= HistoryLimit => Truth

\* There is room in the history for a control it does not have yet.
LEMMA SavesAll ==
  ASSUME AnswerInv, Len(presses) <= HistoryLimit, NEW c \in DOMAIN presses, ~Saved(c),
         NEW result \in Verdicts, Save(c, result)
  PROVE  /\ history' = Append(history, [id |-> c, result |-> result])
         /\ IsFiniteSet(SavedIds') /\ Cardinality(SavedIds') = Len(history')
<1> DEFINE all == Append(history, [id |-> c, result |-> result])
<1>1. Len(presses) \in Nat /\ DOMAIN presses = 1..Len(presses) /\ c \in Nat
  BY Appended DEF AnswerInv
<1>2. Len(history) \in Nat /\ all \in Seq(Results) /\ Len(all) = Len(history) + 1
  BY <1>1 DEF AnswerInv, Results
<1>3. c \notin SavedIds
  BY DEF Saved, SavedIds
<1>4. /\ IsFiniteSet(SavedIds \cup {c})
      /\ Cardinality(SavedIds \cup {c}) = Len(history) + 1
  BY <1>3, FS_AddElement DEF AnswerInv, Truth
<1>5. Len(history) + 1 <= Len(presses)
  <2> DEFINE n == Len(presses)
  <2>1. SavedIds \cup {c} \subseteq 1..n /\ n \in Nat
    BY <1>1 DEF AnswerInv
  <2> HIDE DEF n
  <2>2. IsFiniteSet(1..n) /\ Cardinality(1..n) = n
    BY <2>1, FS_Interval
  <2>3. Cardinality(SavedIds \cup {c}) <= n
    BY <2>1, <2>2, FS_Subset
  <2> QED BY <1>4, <2>3 DEF n
<1>6. history' = all
  BY <1>1, <1>2, <1>5, ControlAssumption DEF Save
<1>7. SavedIds' = SavedIds \cup {c}
  <2>1. DOMAIN all = 1..(Len(history) + 1) /\ DOMAIN history = 1..Len(history)
        /\ (\A i \in 1..Len(history) : all[i] = history[i])
        /\ all[Len(history) + 1].id = c
    BY <1>1, <1>2 DEF AnswerInv, Results
  <2> HIDE DEF all
  <2> QED BY <1>2, <1>6, <2>1 DEF SavedIds
<1> QED BY <1>2, <1>4, <1>6, <1>7

\* Saving an answer, with or without room.
LEMMA SavedTyped ==
  ASSUME AnswerInv, NEW c \in DOMAIN presses, NEW result \in Verdicts, Save(c, result)
  PROVE  history' \in Seq(Results) /\ SavedIds' \subseteq DOMAIN presses
<1> DEFINE all == Append(history, [id |-> c, result |-> result])
<1>1. c \in Nat
  BY Appended DEF AnswerInv
<1>2. /\ all \in Seq(Results) /\ Len(all) = Len(history) + 1 /\ Len(history) \in Nat
      /\ \A i \in 1..Len(all) : all[i].id \in DOMAIN presses
  <2>1. /\ all \in Seq(Results) /\ Len(all) = Len(history) + 1 /\ Len(history) \in Nat
        /\ DOMAIN history = 1..Len(history)
        /\ all[Len(history) + 1].id = c
        /\ \A i \in 1..Len(history) : all[i] = history[i]
    BY <1>1 DEF AnswerInv, Results
  <2> HIDE DEF all
  <2>2. \A i \in 1..Len(history) : history[i].id \in DOMAIN presses
    BY <2>1 DEF AnswerInv, SavedIds
  <2> QED BY <2>1, <2>2
<1>3. history' = IF Len(all) > HistoryLimit THEN Tail(all) ELSE all
  BY DEF Save
<1> HIDE DEF all
<1>4. CASE history' = all
  BY <1>2, <1>4 DEF SavedIds
<1>5. CASE history' = Tail(all)
  <2>1. history' \in Seq(Results) /\ DOMAIN history' = 1..(Len(all) - 1)
        /\ \A i \in 1..(Len(all) - 1) : history'[i] = all[i + 1]
    BY <1>2, <1>5
  <2>2. \A i \in 1..(Len(all) - 1) : i + 1 \in 1..Len(all)
    BY <1>2
  <2> QED BY <1>2, <2>1, <2>2 DEF SavedIds
<1> QED BY <1>3, <1>4, <1>5

\* A first answer is what happens, and it is remembered.
LEMMA FirstAnswer ==
  ASSUME AnswerInv, Len(presses) <= HistoryLimit, NEW c \in DOMAIN presses, ~Saved(c),
         NEW result \in Verdicts, Save(c, result), Answer(c, result),
         \/ result = "accepted" /\ effects' = Append(effects, [id |-> c, lobby |-> meta.lobby])
         \/ result # "accepted" /\ UNCHANGED effects
  PROVE  Truth'
<1> DEFINE new == [id |-> c, result |-> result]
<1>1. c \in Nat
  BY Appended DEF AnswerInv
<1>2. /\ Len(history) \in Nat /\ DOMAIN history = 1..Len(history)
      /\ DOMAIN history' = 1..(Len(history) + 1)
      /\ history'[Len(history) + 1] = new
      /\ \A i \in 1..Len(history) : history'[i] = history[i]
  <2>1. history' = Append(history, new) /\ new \in Results /\ history \in Seq(Results)
    BY <1>1, SavesAll DEF AnswerInv, Results
  <2> HIDE DEF new
  <2> QED BY <2>1
<1>3. new.id = c /\ new.result = result /\ answers' = answers \cup {new}
  BY DEF Answer
<1> HIDE DEF new
<1>4. \A i \in 1..Len(history) : history[i].id # c
  BY <1>2 DEF Saved
<1>5. \A d : Effective(d)' <=> Effective(d) \/ (result = "accepted" /\ d = c)
  <2>1. CASE result # "accepted"
    BY <2>1 DEF Effective
  <2>2. CASE result = "accepted"
    <3> DEFINE e == [id |-> c, lobby |-> meta.lobby]
    <3>1. e.id = c /\ effects' = Append(effects, e)
      BY <2>2
    <3> HIDE DEF e
    <3>2. /\ Len(effects) \in Nat /\ DOMAIN effects = 1..Len(effects)
          /\ DOMAIN effects' = 1..(Len(effects) + 1) /\ effects'[Len(effects) + 1] = e
          /\ \A i \in 1..Len(effects) : effects'[i] = effects[i]
      BY <3>1, Appended DEF AnswerInv
    <3> QED BY <2>2, <3>1, <3>2 DEF Effective
  <2> QED BY <2>1, <2>2
<1>6. ~Effective(c)
  BY DEF AnswerInv, Truth, Effective
<1>7. IsFiniteSet(SavedIds') /\ Cardinality(SavedIds') = Len(history')
  BY SavesAll
<1>8. \A i, j \in DOMAIN history' : history'[i].id = history'[j].id => i = j
  BY <1>2, <1>3, <1>4 DEF AnswerInv, Truth
<1>9. \A a \in answers' : Remembered(a)'
  BY <1>2, <1>3 DEF AnswerInv, Truth, Remembered
<1>10. (\A i \in DOMAIN history : history[i].result = "accepted" <=> Effective(history[i].id))'
  <2>1. \A i \in 1..Len(history) : history[i].result = "accepted" <=> Effective(history[i].id)
    BY <1>2 DEF AnswerInv, Truth
  <2>2. \A i \in 1..(Len(history) + 1) :
          history'[i].result = "accepted" <=>
            Effective(history'[i].id) \/ (result = "accepted" /\ history'[i].id = c)
    BY <1>2, <1>3, <1>4, <1>6, <2>1
  <2> QED BY <1>2, <1>5, <2>2
<1>11. (\A i \in DOMAIN effects : Saved(effects[i].id))'
  <2>1. \A d : Effective(d)' => \E i \in DOMAIN history' : history'[i].id = d
    <3>1. \A d : Effective(d) => \E i \in 1..Len(history) : history[i].id = d
      BY <1>2 DEF AnswerInv, Truth, Effective, Saved
    <3> QED BY <1>2, <1>3, <1>5, <3>1
  <2> QED BY <2>1 DEF Effective, Saved
<1> QED BY <1>7, <1>8, <1>9, <1>10, <1>11 DEF Truth

\* An answer given again is the one that is remembered.
LEMMA AnotherAnswer ==
  ASSUME AnswerInv, Truth, NEW c, AnswerSaved(c), UNCHANGED <<history, effects>>
  PROVE  Truth'
<1> PICK i \in DOMAIN history : history[i].id = c /\ Answer(c, history[i].result)
  BY DEF AnswerSaved
<1>1. history[i] = [id |-> c, result |-> history[i].result]
  <2>1. history[i] \in Results
    BY DEF AnswerInv
  <2> QED BY <2>1 DEF Results
<1>2. answers' = answers \cup {history[i]}
  BY <1>1 DEF Answer
<1> QED BY <1>2 DEF Truth, SavedIds, Remembered, Effective, Saved

\* The calls that wait for a digest are for controls that were pressed.
FlightsOwned ==
  /\ DOMAIN flights = Handlers
  /\ \A h \in Handlers : flights[h].by \in {NoControl} \cup DOMAIN presses

\* The steps that answer nothing.
LEMMA NothingAnswered ==
  ASSUME AnswerInv, UNCHANGED <<presses, effects, history, answers>>, FlightsOwned'
  PROVE  AnswerInv'
BY DEF AnswerInv, FlightsOwned, Truth, SavedIds, Remembered, Effective, Saved

LEMMA FlightEnds ==
  ASSUME AnswerInv, NEW h \in Handlers, Landed(h), UNCHANGED presses
  PROVE  FlightsOwned'
BY DEF AnswerInv, FlightsOwned, Landed, Idle

\* The steps that answer a control for the first time.
LEMMA AnswersOne ==
  ASSUME AnswerInv, NEW c \in DOMAIN presses, ~Saved(c), NEW result \in Verdicts, Save(c, result),
         Answer(c, result), UNCHANGED presses, FlightsOwned',
         \/ result = "accepted" /\ effects' = Append(effects, [id |-> c, lobby |-> meta.lobby])
         \/ result # "accepted" /\ UNCHANGED effects
  PROVE  AnswerInv'
<1>1. IsSequence(effects')
  <2>1. IsSequence(effects) /\ IsSequence(Append(effects, [id |-> c, lobby |-> meta.lobby]))
    BY Appended DEF AnswerInv
  <2> QED BY <2>1 DEF IsSequence
<1>2. history' \in Seq(Results) /\ SavedIds' \subseteq DOMAIN presses
  BY SavedTyped
<1>3. Len(presses) <= HistoryLimit => Truth'
  BY FirstAnswer
<1> QED BY <1>1, <1>2, <1>3 DEF AnswerInv, FlightsOwned

LEMMA AnswersKeep ==
  ASSUME AnswerInv, [Next]_controlVars
  PROVE  AnswerInv'
<1>1. FlightsOwned
  BY DEF AnswerInv, FlightsOwned
<1>2. ASSUME NEW k PROVE Refusal(k) \in Verdicts /\ Refusal(k) # "accepted"
  BY DEF Refusal, Verdicts
<1>3. ASSUME UNCHANGED <<presses, effects, history, answers, flights>> PROVE AnswerInv'
  BY <1>1, <1>3, NothingAnswered DEF FlightsOwned
<1>4. CASE PressB
  <2> DEFINE p == [action |-> IF round[Host] = NoRound THEN "start" ELSE "reset",
                   key |-> key[Host], round |-> round[Host], lobby |-> meta.lobby]
  <2>1. presses' = Append(presses, p) /\ UNCHANGED <<effects, history, answers, flights>>
    BY <1>4 DEF PressB, serverVars
  <2> HIDE DEF p
  <2>2. /\ IsSequence(presses') /\ Len(presses) \in Nat /\ Len(presses') = Len(presses) + 1
        /\ DOMAIN presses \subseteq DOMAIN presses'
    BY <2>1, Appended DEF AnswerInv
  <2>3. Len(presses') <= HistoryLimit => Len(presses) <= HistoryLimit
    BY <2>2, ControlAssumption
  <2>4. Truth => Truth'
    BY <2>1 DEF Truth, SavedIds, Remembered, Effective, Saved
  <2> QED BY <2>1, <2>2, <2>3, <2>4 DEF AnswerInv, SavedIds
<1>5. ASSUME NEW c \in Requested, ControlAgain(c) PROVE AnswerInv'
  <2>1. AnswerSaved(c) /\ UNCHANGED <<history, effects, presses, flights>>
    BY <1>5 DEF ControlAgain, serverVars
  <2>2. Truth => Truth'
    BY <2>1, AnotherAnswer
  <2> QED BY <2>1, <2>2 DEF AnswerInv, SavedIds
<1>6. ASSUME NEW c \in Requested, ControlRefused(c) PROVE AnswerInv'
  <2> DEFINE result == Refusal(presses[c].key)
  <2>1. /\ ~Saved(c) /\ Save(c, result) /\ Answer(c, result)
        /\ UNCHANGED <<presses, flights, effects>>
    BY <1>6 DEF ControlRefused
  <2>2. result \in Verdicts /\ result # "accepted" /\ FlightsOwned'
    BY <1>1, <1>2, <2>1 DEF FlightsOwned
  <2> HIDE DEF result
  <2> QED BY <2>1, <2>2, AnswersOne DEF Requested
<1>7. ASSUME NEW c \in Requested, ControlReset(c) PROVE AnswerInv'
  <2>1. /\ ~Saved(c) /\ Save(c, "accepted") /\ Answer(c, "accepted")
        /\ effects' = Append(effects, [id |-> c, lobby |-> meta.lobby])
        /\ UNCHANGED <<presses, flights>>
    BY <1>7 DEF ControlReset
  <2> QED BY <1>1, <2>1, AnswersOne DEF Requested, FlightsOwned, Verdicts
<1>8. ASSUME NEW h \in Handlers, NEW c \in Requested \cup {NoControl}, Begin(h, c) PROVE AnswerInv'
  <2>1. flights' = [flights EXCEPT ![h] = [by |-> c, roster |-> meta.roster, revision |-> meta.revision]]
        /\ UNCHANGED <<presses, effects, history, answers>>
    BY <1>8 DEF Begin
  <2> QED BY <1>1, <2>1, NothingAnswered DEF FlightsOwned, Requested
<1>9. ASSUME NEW h \in Handlers, Prepare(h) PROVE AnswerInv'
  <2>1. FlightsOwned' /\ UNCHANGED presses
    BY <1>9, FlightEnds DEF Prepare
  <2>2. CASE flights[h].by = NoControl
    BY <1>9, <2>1, <2>2, NothingAnswered DEF Prepare
  <2>3. CASE flights[h].by # NoControl
    <3>1. /\ ~Saved(flights[h].by) /\ Save(flights[h].by, "accepted")
          /\ Answer(flights[h].by, "accepted")
          /\ effects' = Append(effects, [id |-> flights[h].by, lobby |-> meta.lobby])
      BY <1>9, <2>3 DEF Prepare
    <3> QED BY <1>1, <2>1, <2>3, <3>1, AnswersOne DEF FlightsOwned, Verdicts
  <2> QED BY <2>2, <2>3
<1>10. ASSUME NEW h \in Handlers, PrepareFails(h) PROVE AnswerInv'
  <2> DEFINE c == flights[h].by
             result == Refusal(presses[c].key)
  <2>1. FlightsOwned' /\ UNCHANGED <<presses, effects>>
    BY <1>10, FlightEnds DEF PrepareFails
  <2>2. CASE c = NoControl
    BY <1>10, <2>1, <2>2, NothingAnswered DEF PrepareFails
  <2>3. CASE c # NoControl /\ Saved(c)
    <3>1. AnswerSaved(c) /\ UNCHANGED history
      BY <1>10, <2>3 DEF PrepareFails
    <3>2. Truth => Truth'
      BY <2>1, <3>1, AnotherAnswer
    <3> QED BY <2>1, <3>1, <3>2 DEF AnswerInv, SavedIds, FlightsOwned
  <2>4. CASE c # NoControl /\ ~Saved(c)
    <3>1. Save(c, result) /\ Answer(c, result)
      BY <1>10, <2>4 DEF PrepareFails
    <3>2. c \in DOMAIN presses
      BY <1>1, <2>4 DEF FlightsOwned
    <3>3. result \in Verdicts /\ result # "accepted"
      BY <1>2
    <3> HIDE DEF c, result
    <3> QED BY <2>1, <2>4, <3>1, <3>2, <3>3, AnswersOne
  <2> QED BY <2>2, <2>3, <2>4
<1>11. CASE \/ \E b \in Badges :
                 \/ Press(b) \/ Join(b) \/ Reboot(b)
                 \/ \E r \in replies : TakeReply(b, r)
                 \/ \E c \in ResetCommands : TakeReset(b, c)
                 \/ \E p \in Published : TakePrepare(b, p)
  BY <1>3, <1>11 DEF Press, Join, Reboot, TakeReply, TakeReset, TakePrepare, serverVars
<1>12. CASE \/ \E k \in Keys, lost \in BOOLEAN : Register(k, lost)
            \/ DashboardReset \/ Finish
            \/ \E a \in answers : TakeAnswer(a)
            \/ \E r \in receipts : AckReady(r)
            \/ UNCHANGED controlVars
  BY <1>3, <1>12 DEF Register, DashboardReset, Finish, TakeAnswer, AckReady, controlVars, serverVars
<1> QED BY <1>12,  <1>4, <1>5, <1>6, <1>7, <1>8, <1>9, <1>10, <1>11 DEF Next

LEMMA InitAnswers == Init => AnswerInv
<1> SUFFICES ASSUME Init PROVE AnswerInv
  OBVIOUS
<1>1. /\ presses = <<>> /\ effects = <<>> /\ history = <<>> /\ answers = {}
      /\ flights = [h \in Handlers |-> Idle]
  BY DEF Init
<1>2. IsSequence(<<>>)
  BY DEF IsSequence
<1>3. SavedIds = {} /\ Len(history) = 0 /\ DOMAIN history = {} /\ DOMAIN effects = {}
  BY <1>1 DEF SavedIds
<1>4. Truth
  BY <1>1, <1>3, FS_EmptySet DEF Truth
<1> QED BY <1>1, <1>2, <1>3, <1>4 DEF AnswerInv, Idle

\* A host control is told the truth, however often it is repeated and whatever
\* ran during its digest, as long as no answer had to be dropped (control,
\* prepareImpl, saveControl).
THEOREM ControlsAreTold == Spec => []Told
<1>1. AnswerInv /\ [Next]_controlVars => AnswerInv'
  BY AnswersKeep
<1>2. AnswerInv => Told
  <2> SUFFICES ASSUME AnswerInv, Len(presses) <= HistoryLimit, NEW a \in answers
               PROVE  a.result = "accepted" <=> Effective(a.id)
    BY DEF Told, Effective
  <2> QED BY DEF AnswerInv, Truth, Remembered
<1> QED BY InitAnswers, <1>1, <1>2, PTL DEF Spec

-----------------------------------------------------------------------------
\* The effects.  A key the host can press B with has been answered, so it waits
\* for no answer any more and cannot be registered again: what is pressed with
\* it counts in the lobby of the moment or in none.

Replied(k) == \E r \in replies : r.key = k

ReplyInv ==
  /\ \A r \in replies : r.key \in 1..Len(owner) /\ (owner[r.key] = Host => r.key \notin joins)
  /\ DOMAIN slot = Badges
  /\ \A b \in Badges : key[b] # NoKey => owner[key[b]] = b
  /\ slot[Host] # NoSlot => (key[Host] # NoKey /\ Replied(key[Host])) \/ Host \in halted

LEMMA PressReplies ==
  ASSUME OwnerInv, ReplyInv, NEW b \in Badges, Press(b)
  PROVE  ReplyInv'
<1>1. /\ Len(owner) \in Nat /\ Len(owner') = Len(owner) + 1 /\ owner'[Len(owner) + 1] = b
      /\ \A k \in 1..Len(owner) : owner'[k] = owner[k]
      /\ key' = [key EXCEPT ![b] = Len(owner) + 1] /\ key[b] = NoKey /\ b \notin halted
      /\ UNCHANGED <<joins, replies, slot, halted>>
  BY DEF Press, OwnerInv
<1>2. \A c \in Badges : key[c] # NoKey => key[c] \in 1..Len(owner)
  BY DEF OwnerInv, NoKey
<1>3. ASSUME NEW c \in Badges, key'[c] # NoKey PROVE owner'[key'[c]] = c
  BY <1>1, <1>2, <1>3 DEF ReplyInv, OwnerInv
<1>4. slot'[Host] # NoSlot => (key'[Host] # NoKey /\ Replied(key[Host])') \/ Host \in halted'
  BY <1>1, ControlAssumption DEF ReplyInv, OwnerInv, Replied
<1> QED BY <1>1, <1>3, <1>4 DEF ReplyInv, Replied

LEMMA JoinReplies ==
  ASSUME OwnerInv, ReplyInv, NEW b \in Badges, Join(b)
  PROVE  ReplyInv'
<1>1. /\ key[b] # NoKey /\ ~Replied(key[b]) /\ UNCHANGED <<owner, key, slot, halted>>
      /\ key[b] \in 1..Len(owner) /\ owner[key[b]] = b
  BY DEF Join, Replied, badgeVars, OwnerInv, ReplyInv
<1>2. CASE b # Host /\ b \in Members(HostRoster)
  <2>1. PICK r : replies' = replies \cup {r} /\ r.key = key[b] /\ joins' = joins
    <3> DEFINE r == [key |-> key[b], slot |-> SlotIn(HostRoster, b)]
    <3>1. replies' = replies \cup {r} /\ r.key = key[b] /\ joins' = joins
      BY <1>2 DEF Join
    <3> HIDE DEF r
    <3> QED BY <3>1
  <2> QED BY <1>1, <1>2, <2>1 DEF ReplyInv, Replied
<1>3. CASE ~(b # Host /\ b \in Members(HostRoster))
  <2>1. joins' = joins \cup {key[b]} /\ replies' = replies
    BY <1>3 DEF Join
  <2> QED BY <1>1, <2>1 DEF ReplyInv, Replied
<1> QED BY <1>2, <1>3

LEMMA RegisterReplies ==
  ASSUME OwnerInv, ReplyInv, NEW k \in Keys, NEW lost \in BOOLEAN, Register(k, lost)
  PROVE  ReplyInv'
<1>1. k \in joins /\ k \in 1..Len(owner) /\ UNCHANGED <<owner, key, slot, halted>>
  BY DEF Register, OwnerInv, badgeVars
<1>2. CASE lost
  BY <1>1, <1>2 DEF Register, ReplyInv, Replied
<1>3. CASE ~lost
  <2>1. PICK r : replies' = replies \cup {r} /\ r.key = k /\ joins' = joins \ {k}
    <3> DEFINE r == [key |-> k, slot |-> registrations'[k]]
    <3>1. replies' = replies \cup {r} /\ r.key = k /\ joins' = joins \ {k}
      BY <1>3 DEF Register
    <3> HIDE DEF r
    <3> QED BY <3>1
  <2> QED BY <1>1, <2>1 DEF ReplyInv, Replied
<1> QED BY <1>2, <1>3

LEMMA TakenReplies ==
  ASSUME OwnerInv, ReplyInv, NEW b \in Badges, NEW r \in replies, TakeReply(b, r)
  PROVE  ReplyInv'
<1>1. UNCHANGED <<owner, joins, replies>> /\ r.key = key[b] /\ key[b] # NoKey
  BY DEF TakeReply
<1>2. CASE r.slot = NoSlot
  <2>1. key' = [key EXCEPT ![b] = NoKey] /\ halted' = halted \cup {b} /\ slot' = slot
    BY <1>2 DEF TakeReply
  <2> QED BY <1>1, <2>1 DEF ReplyInv, Replied, OwnerInv
<1>3. CASE r.slot # NoSlot
  <2>1. /\ key' = key /\ halted' \in {halted, halted \cup {b}}
        /\ slot' = slot \/ slot' = [slot EXCEPT ![b] = r.slot]
    BY <1>3 DEF TakeReply
  <2>2. DOMAIN slot' = Badges
    BY <2>1 DEF ReplyInv
  <2>3. slot'[Host] # NoSlot => (key'[Host] # NoKey /\ Replied(key[Host])') \/ Host \in halted'
    <3>1. CASE b = Host
      <4>1. r.key = key[Host] /\ key[Host] # NoKey
        BY <1>1, <3>1
      <4>2. \E x \in replies' : x.key = key'[Host]
        BY <1>1, <2>1, <4>1
      <4> QED BY <2>1, <4>1, <4>2 DEF Replied
    <3>2. CASE b # Host
      BY <1>1, <2>1, <3>2, ControlAssumption DEF ReplyInv, Replied
    <3> QED BY <3>1, <3>2
  <2> QED BY <1>1, <2>1, <2>2, <2>3 DEF ReplyInv
<1> QED BY <1>2, <1>3

LEMMA RepliesKeep ==
  ASSUME OwnerInv, ReplyInv, [Next]_controlVars
  PROVE  ReplyInv'
<1>1. ASSUME UNCHANGED <<owner, joins, replies, halted, key, slot>> PROVE ReplyInv'
  BY <1>1 DEF ReplyInv, Replied
<1>2. ASSUME NEW b \in Badges, UNCHANGED <<owner, joins, replies>>,
             key' = [key EXCEPT ![b] = NoKey], slot' = [slot EXCEPT ![b] = NoSlot],
             halted' = halted \/ halted' = halted \ {b}
      PROVE  ReplyInv'
  BY <1>2 DEF ReplyInv, Replied, OwnerInv
<1>3. ASSUME NEW b \in Badges, Reboot(b) \/ \E c \in ResetCommands : TakeReset(b, c)
      PROVE  ReplyInv'
  BY <1>2, <1>3 DEF Reboot, TakeReset
<1>4. ASSUME NEW a \in answers, TakeAnswer(a) PROVE ReplyInv'
  BY <1>1, <1>2, <1>4, ControlAssumption DEF TakeAnswer
<1>5. CASE \/ PressB \/ DashboardReset \/ Finish
           \/ \E c \in Requested : ControlAgain(c) \/ ControlRefused(c) \/ ControlReset(c)
           \/ \E r \in receipts : AckReady(r)
           \/ UNCHANGED controlVars
  BY <1>1, <1>5 DEF PressB, DashboardReset, Finish, ControlAgain, ControlRefused, ControlReset,
     AckReady, controlVars, badgeVars
<1>6. CASE \/ \E h \in Handlers :
                \/ \E c \in Requested \cup {NoControl} : Begin(h, c)
                \/ Prepare(h) \/ PrepareFails(h)
           \/ \E b \in Badges : \E p \in Published : TakePrepare(b, p)
  BY <1>1, <1>6 DEF Begin, Prepare, PrepareFails, TakePrepare, badgeVars
<1> QED BY <1>3, <1>4, <1>5, <1>6, PressReplies, JoinReplies, RegisterReplies, TakenReplies DEF Next

\* What a step does to the lobby.
SameLobby ==
  /\ meta'.lobby = meta.lobby /\ (meta.round # NoRound => meta'.round # NoRound)
  /\ \/ meta'.ids = meta.ids
     \/ \E k \in joins \cap Keys : meta'.ids = [meta.ids EXCEPT ![owner[k]] = k]
NextLobby == meta'.lobby = meta.lobby + 1 /\ meta'.ids = NoKeys

LEMMA LobbySteps ==
  ASSUME RosterInv, [Next]_controlVars
  PROVE  SameLobby \/ NextLobby
<1>1. DOMAIN meta = MetaFields
  BY DEF RosterInv
<1>2. ASSUME NEW k \in Keys, Enlists(k) PROVE SameLobby
  <2>1. meta'.lobby = meta.lobby
    BY <1>1, <1>2 DEF Enlists, Enlist, MetaFields
  <2> QED BY <1>1, <1>2, <2>1, EnlistFields DEF Enlists, SameLobby
<1>3. CASE Clears
  BY <1>3 DEF Clears, ResetLobby, Lobby, NextLobby
<1>4. CASE Finish
  <2>1. meta'.lobby = meta.lobby
    BY <1>1, <1>4 DEF Finish, MetaFields
  <2> QED BY <1>1, <1>4, <2>1, FinishFields DEF SameLobby
<1>5. ASSUME NEW h \in Handlers, Prepare(h) PROVE SameLobby
  <2>1. meta'.lobby = meta.lobby
    BY <1>1, <1>5 DEF Prepare, MetaFields
  <2> QED BY <1>1, <1>5, <2>1, PrepareFields DEF SameLobby
<1>6. ASSUME NEW r \in receipts, AckReady(r) PROVE SameLobby
  <2>1. meta'.lobby = meta.lobby
    BY <1>1, <1>6 DEF AckReady, MetaFields
  <2> QED BY <1>1, <1>6, <2>1, AckFields DEF SameLobby
<1> QED BY <1>2, <1>3, <1>4, <1>5, <1>6, Steps, QuietLeaves DEF SameLobby

PressInv ==
  /\ meta.lobby \in Nat
  /\ \A c \in DOMAIN presses :
       /\ presses[c].lobby \in Nat /\ presses[c].key # NoKey
       /\ Replied(presses[c].key) /\ owner[presses[c].key] = Host
       /\ meta.ids[Host] = presses[c].key => presses[c].lobby = meta.lobby
  /\ \A h \in Handlers : flights[h].by # NoControl => presses[flights[h].by].action = "start"

\* No press was made in a lobby that is not the one its key is registered in now.
LEMMA PressesStand ==
  ASSUME OwnerInv, RosterInv, KeysInv, ReplyInv, PressInv, [Next]_controlVars,
         NEW c \in DOMAIN presses
  PROVE  /\ meta'.lobby \in Nat /\ \E r \in replies' : r.key = presses[c].key
         /\ owner'[presses[c].key] = Host
         /\ meta'.ids[Host] = presses[c].key => presses[c].lobby = meta'.lobby
<1> PICK k : k = presses[c].key
  OBVIOUS
<1>1. /\ k # NoKey /\ Replied(k) /\ owner[k] = Host /\ k \in 1..Len(owner) /\ k \notin joins
      /\ meta.ids[Host] = k => presses[c].lobby = meta.lobby
  BY DEF PressInv, ReplyInv, Replied
<1>2. \E r \in replies' : r.key = k
  <2>1. replies \subseteq replies'
    BY DEF Next, Press, Join, Reboot, TakeReply, TakeReset, TakePrepare, Register, PressB,
           DashboardReset, Finish, ControlAgain, ControlRefused, ControlReset, Begin, Prepare,
           PrepareFails, TakeAnswer, AckReady, controlVars
  <2> QED BY <1>1, <2>1 DEF Replied
<1>3. owner'[k] = Host
  BY <1>1, OwnersKeep, PressOwns
<1>4. CASE SameLobby
  <2>1. meta'.ids[Host] = k => meta.ids[Host] = k
    <3>1. ASSUME NEW l \in joins \cap Keys, meta'.ids = [meta.ids EXCEPT ![owner[l]] = l],
                 meta'.ids[Host] = k
          PROVE  meta.ids[Host] = k
      BY <1>1, <3>1, ControlAssumption DEF KeysInv
    <3> QED BY <1>4, <3>1 DEF SameLobby
  <2> QED BY <1>1, <1>2, <1>3, <1>4, <2>1 DEF SameLobby, PressInv
<1>5. CASE NextLobby
  <2>1. meta'.ids[Host] = NoKey
    BY <1>5, ControlAssumption DEF NextLobby, NoKeys
  <2> QED BY <1>1, <1>2, <1>3, <1>5, <2>1 DEF NextLobby, PressInv
<1> QED BY <1>4, <1>5, LobbySteps

LEMMA PressesKeep ==
  ASSUME OwnerInv, RosterInv, KeysInv, ReplyInv, AnswerInv, PressInv, [Next]_controlVars
  PROVE  PressInv'
<1>1. \A c \in DOMAIN presses :
        /\ \E r \in replies' : r.key = presses[c].key
        /\ owner'[presses[c].key] = Host
        /\ meta'.ids[Host] = presses[c].key => presses[c].lobby = meta'.lobby
  BY PressesStand
<1>2. meta'.lobby \in Nat
  BY LobbySteps DEF SameLobby, NextLobby, PressInv
<1>3. ASSUME UNCHANGED presses,
             UNCHANGED flights \/ \E h \in Handlers, c \in {NoControl} \cup DOMAIN presses :
               /\ flights'[h].by = c /\ \A g \in Handlers \ {h} : flights'[g] = flights[g]
               /\ c # NoControl => presses[c].action = "start"
      PROVE  PressInv'
  BY <1>1, <1>2, <1>3 DEF PressInv, Replied
<1>4. CASE PressB
  <2>1. PICK p : /\ presses' = Append(presses, p) /\ p.key = key[Host] /\ p.lobby = meta.lobby
                 /\ UNCHANGED <<meta, flights, replies, owner>>
    <3> DEFINE p == [action |-> IF round[Host] = NoRound THEN "start" ELSE "reset",
                     key |-> key[Host], round |-> round[Host], lobby |-> meta.lobby]
    <3>1. /\ presses' = Append(presses, p) /\ p.key = key[Host] /\ p.lobby = meta.lobby
          /\ UNCHANGED <<meta, flights, replies, owner>>
      BY <1>4 DEF PressB, serverVars
    <3> HIDE DEF p
    <3> QED BY <3>1
  <2>2. key[Host] # NoKey /\ Replied(key[Host]) /\ owner[key[Host]] = Host
    BY <1>4, ControlAssumption DEF PressB, ReplyInv
  <2>3. /\ Len(presses) \in Nat /\ DOMAIN presses = 1..Len(presses)
        /\ DOMAIN presses' = 1..(Len(presses) + 1) /\ presses'[Len(presses) + 1] = p
        /\ \A i \in 1..Len(presses) : presses'[i] = presses[i]
    BY <2>1, Appended DEF AnswerInv
  <2>4. ASSUME NEW c \in DOMAIN presses'
        PROVE  /\ presses'[c].lobby \in Nat /\ presses'[c].key # NoKey
               /\ \E r \in replies' : r.key = presses'[c].key
               /\ owner'[presses'[c].key] = Host
               /\ meta'.ids[Host] = presses'[c].key => presses'[c].lobby = meta'.lobby
    <3>1. CASE c \in 1..Len(presses)
      BY <1>1, <2>3, <3>1 DEF PressInv
    <3>2. CASE c = Len(presses) + 1
      BY <2>1, <2>2, <2>3, <3>2 DEF PressInv, Replied
    <3> QED BY <2>3, <3>1, <3>2
  <2>5. ASSUME NEW h \in Handlers, flights'[h].by # NoControl
        PROVE  presses'[flights'[h].by].action = "start"
    BY <2>1, <2>3, <2>5 DEF PressInv, AnswerInv
  <2> QED BY <1>2, <2>4, <2>5 DEF PressInv, Replied
<1>5. ASSUME NEW h \in Handlers, NEW c \in Requested \cup {NoControl}, Begin(h, c) PROVE PressInv'
  <2>1. /\ flights' = [flights EXCEPT ![h] = [by |-> c, roster |-> meta.roster, revision |-> meta.revision]]
        /\ UNCHANGED presses /\ (c # NoControl => presses[c].action = "start")
    BY <1>5 DEF Begin
  <2>2. flights'[h].by = c /\ \A g \in Handlers \ {h} : flights'[g] = flights[g]
    BY <2>1 DEF AnswerInv
  <2> QED BY <1>3, <2>1, <2>2 DEF Requested
<1>6. ASSUME NEW h \in Handlers, Prepare(h) \/ PrepareFails(h) PROVE PressInv'
  <2>1. flights' = [flights EXCEPT ![h] = Idle] /\ UNCHANGED presses
    BY <1>6 DEF Prepare, PrepareFails, Landed
  <2>2. flights'[h].by = NoControl /\ \A g \in Handlers \ {h} : flights'[g] = flights[g]
    BY <2>1 DEF AnswerInv, Idle
  <2> QED BY <1>3, <2>1, <2>2
<1>7. CASE \/ \E b \in Badges :
                 \/ Press(b) \/ Join(b) \/ Reboot(b)
                 \/ \E r \in replies : TakeReply(b, r)
                 \/ \E c \in ResetCommands : TakeReset(b, c)
                 \/ \E p \in Published : TakePrepare(b, p)
           \/ \E a \in answers : TakeAnswer(a)
  BY <1>3, <1>7 DEF Press, Join, Reboot, TakeReply, TakeReset, TakePrepare, TakeAnswer, serverVars
<1>8. CASE \/ \E k \in Keys, lost \in BOOLEAN : Register(k, lost)
           \/ DashboardReset \/ Finish
           \/ \E c \in Requested : ControlAgain(c) \/ ControlRefused(c) \/ ControlReset(c)
           \/ \E r \in receipts : AckReady(r)
           \/ UNCHANGED controlVars
  BY <1>3, <1>8 DEF Register, DashboardReset, Finish, ControlAgain, ControlRefused, ControlReset,
     AckReady, controlVars, serverVars
<1> QED BY <1>4, <1>5, <1>6, <1>7, <1>8 DEF Next

\* Every effect was in the lobby of its press; one in the lobby of the moment is
\* the start of its round.
EffectInv ==
  /\ \A i \in DOMAIN effects :
       /\ effects[i].id \in DOMAIN presses
       /\ effects[i].lobby = presses[effects[i].id].lobby
       /\ \/ effects[i].lobby < meta.lobby
          \/ /\ effects[i].lobby = meta.lobby /\ meta.round # NoRound
             /\ presses[effects[i].id].action = "start"
  /\ \A i, j \in DOMAIN effects : effects[i].id = effects[j].id => i = j

\* The effects there were stay as they are.
LEMMA EffectsStand ==
  ASSUME RosterInv, AnswerInv, PressInv, EffectInv, [Next]_controlVars, NEW i \in DOMAIN effects
  PROVE  /\ effects[i].id \in DOMAIN presses' /\ presses'[effects[i].id] = presses[effects[i].id]
         /\ \/ effects[i].lobby < meta'.lobby
            \/ /\ effects[i].lobby = meta'.lobby /\ meta'.round # NoRound
               /\ presses[effects[i].id].action = "start"
<1>1. effects[i].lobby \in Nat /\ effects[i].id \in DOMAIN presses /\ meta.lobby \in Nat
  BY DEF EffectInv, PressInv
<1>2. \/ effects[i].lobby < meta'.lobby
      \/ /\ effects[i].lobby = meta'.lobby /\ meta'.round # NoRound
         /\ presses[effects[i].id].action = "start"
  BY <1>1, LobbySteps DEF SameLobby, NextLobby, EffectInv
<1>3. UNCHANGED presses \/ \E p : presses' = Append(presses, p)
  BY DEF Next, Press, Join, Reboot, TakeReply, TakeReset, TakePrepare, Register, PressB,
         DashboardReset, Finish, ControlAgain, ControlRefused, ControlReset, Begin, Prepare,
         PrepareFails, TakeAnswer, AckReady, controlVars
<1>4. CASE \E p : presses' = Append(presses, p)
  BY <1>1, <1>2, <1>4, Appended DEF AnswerInv
<1> QED BY <1>1, <1>2, <1>3, <1>4

\* A control has its effect in the lobby it was pressed in, and no sooner did it
\* have one than that lobby is in its round or gone.
LEMMA EffectOne ==
  ASSUME RosterInv, AnswerInv, PressInv, EffectInv, [Next]_controlVars,
         NEW c \in DOMAIN presses, HostKeyIs(presses[c].key), UNCHANGED presses,
         effects' = Append(effects, [id |-> c, lobby |-> meta.lobby]),
         \/ presses[c].action = "reset" /\ NextLobby
         \/ meta.round = NoRound /\ meta'.round # NoRound /\ meta'.lobby = meta.lobby
            /\ presses[c].action = "start"
  PROVE  EffectInv'
<1>1. PICK e : effects' = Append(effects, e) /\ e.id = c /\ e.lobby = meta.lobby
  <2> DEFINE e == [id |-> c, lobby |-> meta.lobby]
  <2>1. effects' = Append(effects, e) /\ e.id = c /\ e.lobby = meta.lobby
    OBVIOUS
  <2> HIDE DEF e
  <2> QED BY <2>1
<1>2. /\ Len(effects) \in Nat /\ DOMAIN effects = 1..Len(effects)
      /\ DOMAIN effects' = 1..(Len(effects) + 1) /\ effects'[Len(effects) + 1] = e
      /\ \A i \in 1..Len(effects) : effects'[i] = effects[i]
  BY <1>1, Appended DEF AnswerInv
<1>3. presses[c].lobby = meta.lobby /\ meta.lobby \in Nat
  BY DEF PressInv, HostKeyIs
<1>4. \A i \in 1..Len(effects) : effects[i].id # c
  BY <1>2, <1>3 DEF EffectInv
<1>5. ASSUME NEW i \in DOMAIN effects'
      PROVE  /\ effects'[i].id \in DOMAIN presses'
             /\ effects'[i].lobby = presses'[effects'[i].id].lobby
             /\ \/ effects'[i].lobby < meta'.lobby
                \/ /\ effects'[i].lobby = meta'.lobby /\ meta'.round # NoRound
                   /\ presses'[effects'[i].id].action = "start"
  <2>1. CASE i \in 1..Len(effects)
    BY <1>2, <2>1, EffectsStand DEF EffectInv
  <2>2. CASE i = Len(effects) + 1
    BY <1>1, <1>2, <1>3, <2>2 DEF NextLobby
  <2> QED BY <1>2, <2>1, <2>2
<1>6. ASSUME NEW i \in DOMAIN effects', NEW j \in DOMAIN effects', effects'[i].id = effects'[j].id
      PROVE  i = j
  BY <1>1, <1>2, <1>4, <1>6 DEF EffectInv
<1> QED BY <1>5, <1>6 DEF EffectInv

LEMMA EffectsKeep ==
  ASSUME RosterInv, StartInv, AnswerInv, PressInv, EffectInv, [Next]_controlVars
  PROVE  EffectInv'
<1>1. ASSUME UNCHANGED effects PROVE EffectInv'
  BY <1>1, EffectsStand DEF EffectInv
<1>2. ASSUME NEW c \in Requested, ControlReset(c) PROVE EffectInv'
  <2>1. NextLobby
    BY <1>2 DEF ControlReset, ResetLobby, Lobby, NextLobby
  <2> QED BY <1>2, <2>1, EffectOne DEF ControlReset, Requested
<1>3. ASSUME NEW h \in Handlers, Prepare(h) PROVE EffectInv'
  <2> DEFINE c == flights[h].by
  <2>1. CASE c = NoControl
    BY <1>1, <1>3, <2>1 DEF Prepare
  <2>2. CASE c # NoControl
    <3>1. c \in DOMAIN presses /\ presses[c].action = "start" /\ HostKeyIs(presses[c].key)
      BY <1>3, <2>2 DEF AnswerInv, PressInv, Prepare, Fits
    <3>2. effects' = Append(effects, [id |-> c, lobby |-> meta.lobby]) /\ UNCHANGED presses
      BY <1>3, <2>2 DEF Prepare
    <3>3. meta.round = NoRound /\ meta'.round # NoRound
      BY <1>3, PrepareFields, NewRound DEF RosterInv, StartInv
    <3>4. meta'.lobby = meta.lobby
      BY <1>3 DEF Prepare, MetaFields, RosterInv
    <3> HIDE DEF c
    <3> QED BY <3>1, <3>2, <3>3, <3>4, EffectOne
  <2> QED BY <2>1, <2>2
<1>4. CASE \/ \E b \in Badges :
                 \/ Press(b) \/ Join(b) \/ Reboot(b)
                 \/ \E r \in replies : TakeReply(b, r)
                 \/ \E c \in ResetCommands : TakeReset(b, c)
                 \/ \E p \in Published : TakePrepare(b, p)
           \/ \E a \in answers : TakeAnswer(a)
  BY <1>1, <1>4 DEF Press, Join, Reboot, TakeReply, TakeReset, TakePrepare, TakeAnswer
<1>5. CASE \/ \E k \in Keys, lost \in BOOLEAN : Register(k, lost)
           \/ PressB \/ DashboardReset \/ Finish
           \/ \E c \in Requested : ControlAgain(c) \/ ControlRefused(c)
           \/ \E h \in Handlers :
                (\E c \in Requested \cup {NoControl} : Begin(h, c)) \/ PrepareFails(h)
           \/ \E r \in receipts : AckReady(r)
           \/ UNCHANGED controlVars
  BY <1>1, <1>5 DEF Register, PressB, DashboardReset, Finish, ControlAgain, ControlRefused,
     Begin, PrepareFails, AckReady, controlVars
<1> QED BY <1>2, <1>3, <1>4, <1>5 DEF Next

\* A host control changes the game at most once, and only in the lobby it was
\* pressed in, also after its answer has left the bounded history (control,
\* prepareImpl: the registration of the host is asked for again each time).
THEOREM ControlsActOnce == Spec => []ActsOnce
<1> DEFINE Inv == OwnerInv /\ RosterInv /\ StartInv /\ KeysInv /\ ReplyInv /\ AnswerInv /\ PressInv /\ EffectInv
<1>1. Init => Inv
  <2> SUFFICES ASSUME Init PROVE Inv
    OBVIOUS
  <2>1. KeysInv
    BY DEF Init, KeysInv, Lobby, NoKeys
  <2>2. ReplyInv
    BY ControlAssumption DEF Init, ReplyInv, NoKeys
  <2>3. /\ DOMAIN presses = {} /\ DOMAIN effects = {} /\ meta.lobby = 1
        /\ \A h \in Handlers : flights[h].by = NoControl
    BY DEF Init, Lobby, Idle
  <2>4. PressInv /\ EffectInv
    BY <2>3 DEF PressInv, EffectInv
  <2> QED BY <2>1, <2>2, <2>4, InitSlots, InitStarts, InitAnswers
<1>2. Inv /\ [Next]_controlVars => Inv'
  <2>1. RosterInv => DOMAIN meta = MetaFields
    BY DEF RosterInv
  <2> QED BY <2>1, OwnersKeep, RosterKeeps, StartsKeep, KeysKeep, RepliesKeep, AnswersKeep,
            PressesKeep, EffectsKeep
<1>3. Inv => ActsOnce
  BY DEF EffectInv, ActsOnce
<1> QED BY <1>1, <1>2, <1>3, PTL DEF Spec
================================================================================
