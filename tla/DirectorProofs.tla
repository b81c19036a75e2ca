---------------------------- MODULE DirectorProofs -----------------------------
(***************************************************************************)
(* The director keeps to its budget, loses no wake-up and keeps no follow- *)
(* up of another round: proofs about Director for any game history,        *)
(* limits, delays and any number of calls, switches and restarts.          *)
(*                                                                         *)
(* Every operator on the agent's record keeps the budget in order, and so  *)
(* do the steps, whichever calls wait beside one another.  The second half *)
(* is about the runs: what keeps a wake-up from being lost is that a run   *)
(* that is active has exactly one call, and that call schedules what is    *)
(* pending when the run ends.                                              *)
(***************************************************************************)
EXTENDS Director, FiniteSetTheorems, TLAPS

AgentFields ==
  {"enabled", "control", "latest", "pending", "active", "followUps", "lastRun", "runs",
   "roundRequests", "daily", "schedules", "calls", "asked"}

-----------------------------------------------------------------------------
\* What waiting calls, schedules and the pending wake-up name: an observation
\* that was made, a round that is one.

NextOK(c) == c = Return \/ c.at = "enabling" \/ (c.at = "refreshed" /\ c.round # NoRound)
Seen(r) == r \in 1..revision
CallOK(c) ==
  \/ NextOK(c)
  \/ c.at \in {"scheduled", "observed"} /\ NextOK(c.next)
  \/ c.at = "switched" /\ Seen(c.seen)
  \/ c.at \in {"looking", "refreshing"} /\ Seen(c.from) /\ c.round # NoRound
  \/ c.at \in {"thinking", "checking", "following"} /\ Seen(c.snap) /\ RoundAt(c.snap) # NoRound

NamesOK(a) ==
  /\ DOMAIN a = AgentFields
  /\ a.latest = None \/ Seen(a.latest)
  /\ a.pending # None => DOMAIN a.pending = {"round", "due", "id"} /\ a.pending.round # NoRound
  /\ \A s \in a.schedules : s.does = "followUp" => s.round # NoRound
  /\ \A c \in DOMAIN a.calls : CallOK(c)

\* The rounds still to come.
Ahead(a, k) == a.latest = None \/ a.latest < k
BudgetOK(a) ==
  /\ a.roundRequests \in 0..RoundLimit
  /\ a.latest = None => a.roundRequests = 0
  /\ DOMAIN a.asked = {"round", "day"}
  /\ DOMAIN a.asked.round = Rounds /\ DOMAIN a.asked.day = Days
  /\ \A r \in Rounds :
       /\ a.asked.round[r] \in 0..RoundLimit
       /\ r = RoundOf(a) /\ r # NoRound => a.asked.round[r] = a.roundRequests
       /\ r = NoRound => a.asked.round[r] = 0
  /\ \A k \in DOMAIN History :
       Ahead(a, k) /\ RoundAt(k) # RoundOf(a) => a.asked.round[RoundAt(k)] = 0
  /\ RoundOf(a) = NoRound => a.roundRequests = 0
  /\ DOMAIN a.daily = {"day", "requests"}
  /\ a.daily.day \in 0..Day /\ a.daily.requests \in 0..DailyLimit
  /\ \A d \in Days :
       /\ a.asked.day[d] \in 0..DailyLimit
       /\ d = a.daily.day => a.asked.day[d] = a.daily.requests
       /\ d > a.daily.day => a.asked.day[d] = 0

AgentOK(a) == NamesOK(a) /\ BudgetOK(a)
Clock == now \in 0..MaxNow /\ revision \in DOMAIN History
DirectorInv == Clock /\ AgentOK(agent)

-----------------------------------------------------------------------------
\* The history and the clock.

LEMMA HistoryTypes ==
  /\ Len(History) \in Nat /\ DOMAIN History = 1..Len(History)
  /\ \A k \in DOMAIN History : History[k].round \in Nat
  /\ \A k \in Nat : RoundAt(k) = History[k].round
  /\ None \notin Nat
<1>1. None \notin Nat
  BY LimitsAssumption
<1>2. History \in Seq([round: Nat, news: Nat, over: BOOLEAN])
  BY HistoryAssumption
<1>3. Len(History) \in Nat /\ DOMAIN History = 1..Len(History)
  BY <1>2
<1>4. ASSUME NEW k \in DOMAIN History PROVE History[k].round \in Nat
  <2> DEFINE Shown == [round: Nat, news: Nat, over: BOOLEAN]
  <2>1. ASSUME NEW S, History \in Seq(S) PROVE History[k] \in S
    BY <1>3, <1>4, <2>1
  <2>2. History[k] \in Shown
    <3> HIDE DEF Shown
    <3> QED BY <1>2, <2>1 DEF Shown
  <2> QED BY <2>2
<1>5. \A k \in Nat : RoundAt(k) = History[k].round
  BY <1>1 DEF RoundAt
<1> QED BY <1>1, <1>3, <1>4, <1>5

LEMMA SeenTypes ==
  ASSUME Clock, NEW r, Seen(r)
  PROVE  r \in DOMAIN History /\ r # None /\ r \in Nat /\ RoundAt(r) \in Rounds
  BY HistoryTypes DEF Clock, Seen, Rounds

LEMMA DayTypes ==
  ASSUME Clock
  PROVE  Day \in Days /\ Day \in Nat
<1>1. now \in Nat /\ MaxNow \in Nat /\ now <= MaxNow /\ DayLength \in Nat \ {0}
  BY LimitsAssumption DEF Clock
<1>2. now \div DayLength \in Nat /\ MaxNow \div DayLength \in Nat
      /\ now \div DayLength <= MaxNow \div DayLength
  BY <1>1
<1> QED BY <1>2 DEF Day, Days

LEMMA LaterDay ==
  ASSUME Clock, now < MaxNow, now' = now + 1
  PROVE  Day <= Day'
<1>1. now \in Nat /\ now + 1 \in Nat /\ DayLength \in Nat \ {0}
  BY LimitsAssumption DEF Clock
<1>2. now \div DayLength <= (now + 1) \div DayLength
  BY <1>1
<1> QED BY <1>2 DEF Day

-----------------------------------------------------------------------------
\* Operators that leave the budget alone.

LEMMA SameBudget ==
  ASSUME NEW a, AgentOK(a), NEW b, NamesOK(b), b.latest = a.latest,
         b.roundRequests = a.roundRequests, b.daily = a.daily, b.asked = a.asked
  PROVE  AgentOK(b)
  BY DEF AgentOK, BudgetOK, RoundOf, Ahead

LEMMA WaitsOK ==
  ASSUME NEW a, AgentOK(a), NEW c, CallOK(c)
  PROVE  AgentOK(Waits(a, c))
<1>1. CASE c = Return
  BY <1>1 DEF Waits
<1>2. CASE c # Return
  <2> DEFINE b == [a EXCEPT !.calls = BagOps!BagAdd(a.calls, c)]
  <2>1. Waits(a, c) = b
    BY <1>2 DEF Waits
  <2>2. DOMAIN BagOps!BagAdd(a.calls, c) = DOMAIN a.calls \cup {c}
    BY DEF BagOps!BagAdd
  <2>3. /\ DOMAIN b = AgentFields /\ b.latest = a.latest /\ b.pending = a.pending
        /\ b.schedules = a.schedules /\ b.calls = BagOps!BagAdd(a.calls, c)
        /\ b.roundRequests = a.roundRequests /\ b.daily = a.daily /\ b.asked = a.asked
    BY DEF AgentOK, NamesOK, AgentFields
  <2> HIDE DEF b
  <2>4. NamesOK(b)
    BY <2>2, <2>3 DEF AgentOK, NamesOK
  <2> QED BY <2>1, <2>3, <2>4, SameBudget
<1> QED BY <1>1, <1>2

LEMMA GoesOnOK ==
  ASSUME NEW a, AgentOK(a), NEW c
  PROVE  AgentOK(GoesOn(a, c))
<1> DEFINE b == [a EXCEPT !.calls = BagOps!BagRemove(a.calls, c)]
<1>1. GoesOn(a, c) = b
  BY DEF GoesOn
<1>2. DOMAIN BagOps!BagRemove(a.calls, c) \subseteq DOMAIN a.calls
  BY DEF BagOps!BagRemove
<1>3. /\ DOMAIN b = AgentFields /\ b.latest = a.latest /\ b.pending = a.pending
      /\ b.schedules = a.schedules /\ b.calls = BagOps!BagRemove(a.calls, c)
      /\ b.roundRequests = a.roundRequests /\ b.daily = a.daily /\ b.asked = a.asked
  BY DEF AgentOK, NamesOK, AgentFields
<1> HIDE DEF b
<1>4. NamesOK(b)
  BY <1>2, <1>3 DEF AgentOK, NamesOK
<1> QED BY <1>1, <1>3, <1>4, SameBudget

\* A change of the fields that are not budget, calls or observation.
LEMMA ChangedOK ==
  ASSUME NEW a, AgentOK(a), NEW b, DOMAIN b = AgentFields,
         b.latest = a.latest, b.roundRequests = a.roundRequests, b.daily = a.daily,
         b.asked = a.asked, b.calls = a.calls,
         \A s \in b.schedules : s \in a.schedules \/ (s.does = "followUp" => s.round # NoRound),
         b.pending # None => DOMAIN b.pending = {"round", "due", "id"} /\ b.pending.round # NoRound
  PROVE  AgentOK(b)
<1>1. NamesOK(b)
  BY DEF AgentOK, NamesOK
<1> QED BY <1>1, SameBudget

LEMMA CancelOK ==
  ASSUME NEW a, AgentOK(a), NEW ids
  PROVE  AgentOK(Cancel(a, ids))
  BY ChangedOK DEF Cancel, AgentOK, NamesOK, AgentFields

LEMMA ScheduleWakeOK ==
  ASSUME NEW a, AgentOK(a), NEW next, NextOK(next)
  PROVE  AgentOK(ScheduleWake(a, next))
<1>1. CASE a.pending = None \/ ~a.enabled
  BY <1>1, WaitsOK DEF ScheduleWake, CallOK
<1>2. CASE ~(a.pending = None \/ ~a.enabled)
  <2> DEFINE wake == Wake(a.pending, a.control)
             b == [a EXCEPT !.schedules = @ \cup {wake}]
             c == [at |-> "scheduled", wake |-> wake, old |-> a.pending.id, next |-> next]
  <2>1. ScheduleWake(a, next) = Waits(b, c)
    BY <1>2 DEF ScheduleWake
  <2>2. wake.does = "wake"
    BY DEF Wake
  <2>3. /\ DOMAIN b = AgentFields /\ b.latest = a.latest /\ b.pending = a.pending
        /\ b.schedules = a.schedules \cup {wake} /\ b.calls = a.calls
        /\ b.roundRequests = a.roundRequests /\ b.daily = a.daily /\ b.asked = a.asked
    BY DEF AgentOK, NamesOK, AgentFields
  <2>4. CallOK(c)
    BY DEF CallOK
  <2> HIDE DEF wake, b, c
  <2>5. AgentOK(b)
    BY <2>2, <2>3, ChangedOK DEF AgentOK, NamesOK
  <2> QED BY <2>1, <2>4, <2>5, WaitsOK
<1> QED BY <1>1, <1>2

LEMMA ScheduledOK ==
  ASSUME NEW a, AgentOK(a), NEW c, NextOK(c.next)
  PROVE  AgentOK(Scheduled(a, c))
<1>1. ASSUME a.pending # None PROVE AgentOK([a EXCEPT !.pending.id = c.wake])
  <2> DEFINE b == [a EXCEPT !.pending.id = c.wake]
  <2>1. /\ DOMAIN b = AgentFields /\ b.latest = a.latest
        /\ b.schedules = a.schedules /\ b.calls = a.calls
        /\ b.roundRequests = a.roundRequests /\ b.daily = a.daily /\ b.asked = a.asked
        /\ b.pending = [a.pending EXCEPT !.id = c.wake]
    BY DEF AgentOK, NamesOK, AgentFields
  <2>2. DOMAIN b.pending = {"round", "due", "id"} /\ b.pending.round # NoRound
    BY <1>1, <2>1 DEF AgentOK, NamesOK
  <2> HIDE DEF b
  <2>3. AgentOK(b)
    BY <2>1, <2>2, ChangedOK
  <2> QED BY <2>3 DEF b
<1>2. CallOK(c.next)
  BY DEF CallOK
<1> QED BY <1>1, <1>2, WaitsOK, CancelOK DEF Scheduled

LEMMA EnqueueOK ==
  ASSUME NEW a, AgentOK(a), NEW r, r # NoRound, NEW next, NextOK(next)
  PROVE  AgentOK(Enqueue(a, r, next))
<1>1. ASSUME NEW due, NEW old
      PROVE  AgentOK([a EXCEPT !.pending = [round |-> r, due |-> due, id |-> old]])
  <2> DEFINE b == [a EXCEPT !.pending = [round |-> r, due |-> due, id |-> old]]
  <2>1. /\ DOMAIN b = AgentFields /\ b.latest = a.latest
        /\ b.schedules = a.schedules /\ b.calls = a.calls
        /\ b.roundRequests = a.roundRequests /\ b.daily = a.daily /\ b.asked = a.asked
        /\ b.pending = [round |-> r, due |-> due, id |-> old]
    BY DEF AgentOK, NamesOK, AgentFields
  <2> HIDE DEF b
  <2>2. AgentOK(b)
    BY <2>1, ChangedOK
  <2> QED BY <2>2 DEF b
<1>2. CASE ~a.enabled \/ RoundOf(a) # r
  BY <1>2, WaitsOK DEF Enqueue, CallOK
<1>3. CASE ~(~a.enabled \/ RoundOf(a) # r)
  <2> DEFINE due == DueAfter(a, IF a.active = None THEN 0 ELSE a.active.expires)
             old == IF a.pending = None THEN None ELSE a.pending.id
             b == [a EXCEPT !.pending = [round |-> r, due |-> due, id |-> old]]
  <2>1. Enqueue(a, r, next) = ScheduleWake(b, next)
    BY <1>3 DEF Enqueue
  <2>2. AgentOK(b)
    BY <1>1
  <2> HIDE DEF b
  <2> QED BY <2>1, <2>2, ScheduleWakeOK
<1> QED BY <1>2, <1>3

LEMMA TriggeredOK ==
  ASSUME NEW a, AgentOK(a), NEW r, NEW next, NextOK(next)
  PROVE  AgentOK(Triggered(a, r, next))
  BY WaitsOK, EnqueueOK DEF Triggered, CallOK

LEMMA FinishOK ==
  ASSUME NEW a, AgentOK(a), NEW run
  PROVE  AgentOK(Finish(a, run))
<1> DEFINE b == [a EXCEPT !.active = None]
           c == [b EXCEPT !.pending.due = DueAfter(a, 0)]
<1>1. /\ DOMAIN b = AgentFields /\ b.latest = a.latest /\ b.pending = a.pending
      /\ b.schedules = a.schedules /\ b.calls = a.calls
      /\ b.roundRequests = a.roundRequests /\ b.daily = a.daily /\ b.asked = a.asked
  BY DEF AgentOK, NamesOK, AgentFields
<1>2. AgentOK(b)
  BY <1>1, ChangedOK DEF AgentOK, NamesOK
<1>3. ASSUME a.pending # None PROVE AgentOK(c)
  <2>1. /\ DOMAIN c = AgentFields /\ c.latest = b.latest
        /\ c.schedules = b.schedules /\ c.calls = b.calls
        /\ c.roundRequests = b.roundRequests /\ c.daily = b.daily /\ c.asked = b.asked
        /\ c.pending = [b.pending EXCEPT !.due = DueAfter(a, 0)]
    BY <1>1 DEF AgentFields
  <2>2. DOMAIN c.pending = {"round", "due", "id"} /\ c.pending.round # NoRound
    BY <1>1, <1>3, <2>1 DEF AgentOK, NamesOK
  <2> HIDE DEF b, c
  <2> QED BY <1>2, <2>1, <2>2, ChangedOK
<1>4. NextOK(Return)
  BY DEF NextOK
<1>5. Finish(a, run) \in {a, b} \/ (a.pending # None /\ Finish(a, run) = ScheduleWake(c, Return))
  BY DEF Finish
<1> HIDE DEF b, c
<1> QED BY <1>2, <1>3, <1>4, <1>5, ScheduleWakeOK
-----------------------------------------------------------------------------
\* Observations.

\* What has come since of the same round.
LEMMA SameRound ==
  ASSUME Clock, NEW a, AgentOK(a), NEW r, Seen(r), a.latest = None \/ a.latest <= r,
         RoundAt(r) = RoundOf(a)
  PROVE  AgentOK([a EXCEPT !.latest = r])
<1> DEFINE b == [a EXCEPT !.latest = r]
<1>1. /\ DOMAIN b = AgentFields /\ b.latest = r /\ b.pending = a.pending
      /\ b.schedules = a.schedules /\ b.calls = a.calls
      /\ b.roundRequests = a.roundRequests /\ b.daily = a.daily /\ b.asked = a.asked
  BY DEF AgentOK, NamesOK, AgentFields
<1>2. RoundOf(b) = RoundOf(a)
  BY <1>1 DEF RoundOf
<1> HIDE DEF b
<1>3. NamesOK(b)
  BY <1>1 DEF AgentOK, NamesOK
<1>4. b.latest # None
  BY <1>1, SeenTypes
<1>5. ASSUME NEW k \in DOMAIN History, Ahead(b, k) PROVE Ahead(a, k)
  <2>1. r \in Nat /\ k \in Nat /\ (a.latest = None \/ a.latest \in Nat)
    BY SeenTypes, HistoryTypes DEF AgentOK, NamesOK
  <2> QED BY <1>1, <1>4, <1>5, <2>1 DEF Ahead
<1>6. BudgetOK(b)
  BY <1>1, <1>2, <1>4, <1>5 DEF AgentOK, BudgetOK
<1> QED BY <1>3, <1>6 DEF AgentOK, b

\* A new round has not been asked about.
LEMMA NewRound ==
  ASSUME Clock, NEW a, AgentOK(a), NEW r, Seen(r), a.latest = None \/ a.latest <= r,
         RoundAt(r) # RoundOf(a),
         NEW b, NamesOK(b), b.latest = r, b.roundRequests = 0, b.daily = a.daily,
         b.asked = a.asked
  PROVE  AgentOK(b)
<1>1. r \in DOMAIN History /\ r \in Nat /\ r # None /\ RoundAt(r) \in Rounds
  BY SeenTypes
<1>2. a.latest = None \/ (a.latest \in DOMAIN History /\ a.latest \in Nat)
  BY SeenTypes DEF AgentOK, NamesOK
<1>3. RoundOf(b) = RoundAt(r)
  BY DEF RoundOf
<1>4. ASSUME a.latest # None PROVE a.latest < r
  BY <1>1, <1>2, <1>4 DEF RoundOf
<1>5. a.asked.round[RoundAt(r)] = 0
  BY <1>1, <1>4 DEF AgentOK, BudgetOK, Ahead
<1>6. ASSUME NEW k \in DOMAIN History, Ahead(b, k), RoundAt(k) # RoundOf(b)
      PROVE  a.asked.round[RoundAt(k)] = 0
  <2>1. k \in Nat /\ r < k /\ RoundAt(k) \in Rounds /\ RoundAt(k) = History[k].round
        /\ RoundAt(r) = History[r].round
    BY <1>1, <1>6, HistoryTypes DEF Ahead, Rounds
  <2>2. Ahead(a, k)
    BY <1>1, <1>2, <1>4, <2>1 DEF Ahead
  <2>3. CASE RoundAt(k) # RoundOf(a)
    BY <2>2, <2>3 DEF AgentOK, BudgetOK
  <2>4. CASE RoundAt(k) = NoRound
    BY <2>1, <2>4 DEF AgentOK, BudgetOK
  <2>5. CASE RoundAt(k) = RoundOf(a) /\ RoundAt(k) # NoRound
    <3>1. a.latest # None
      BY <2>5 DEF RoundOf, RoundAt
    <3>2. /\ a.latest \in DOMAIN History /\ a.latest < r
          /\ History[a.latest].round = RoundAt(k)
      BY <1>2, <1>4, <2>5, <3>1, HistoryTypes DEF RoundOf
    <3>3. History[r].round = History[a.latest].round
      BY <1>1, <1>6, <2>1, <2>5, <3>2, RoundsAssumption
    <3> QED BY <1>3, <1>6, <2>1, <3>2, <3>3
  <2> QED BY <2>3, <2>4, <2>5
<1> QED BY <1>1, <1>3, <1>5, <1>6 DEF AgentOK, BudgetOK

LEMMA ObserveOK ==
  ASSUME Clock, NEW a, AgentOK(a), NEW r, Seen(r), NEW next, NextOK(next)
  PROVE  AgentOK(Observe(a, r, next))
<1> DEFINE moved    == Moves(a, r)
           obsolete == IF moved THEN a.followUps \cup (OldWake(a) \ {None}) ELSE {}
           start    == [a EXCEPT !.latest = r, !.roundRequests = 0, !.followUps = {},
                                 !.pending = None]
           seen     == IF moved THEN start ELSE [a EXCEPT !.latest = r]
           trigger  == IF Matters(a, r) THEN RoundAt(r) ELSE NoRound
           waiting  == [at |-> "observed", round |-> trigger, next |-> next]
<1>1. CASE Stale(a, r)
  BY <1>1, WaitsOK DEF Observe, CallOK
<1>2. CASE ~Stale(a, r)
  <2>1. a.latest = None \/ a.latest <= r
    BY <1>2, SeenTypes DEF Stale, AgentOK, NamesOK
  <2>2. AgentOK(seen)
    <3>1. CASE ~moved
      BY <2>1, <3>1, SameRound DEF Moves
    <3>2. CASE moved
      <4>1. /\ DOMAIN start = AgentFields /\ start.latest = r /\ start.pending = None
            /\ start.schedules = a.schedules /\ start.calls = a.calls
            /\ start.roundRequests = 0 /\ start.daily = a.daily /\ start.asked = a.asked
        BY DEF AgentOK, NamesOK, AgentFields
      <4>2. seen = start
        BY <3>2
      <4>3. RoundAt(r) # RoundOf(a)
        BY <3>2 DEF Moves
      <4> HIDE DEF start, seen
      <4>4. NamesOK(start)
        BY <4>1 DEF AgentOK, NamesOK
      <4> QED BY <2>1, <4>1, <4>2, <4>3, <4>4, NewRound
    <3> QED BY <3>1, <3>2
  <2>3. AgentOK(Triggered(seen, trigger, next))
    <3> HIDE DEF seen, trigger
    <3> QED BY <2>2, TriggeredOK
  <2>4. CallOK(waiting)
    BY DEF CallOK
  <2>5. AgentOK(Waits(Cancel(seen, obsolete), waiting))
    <3> HIDE DEF seen, obsolete, waiting
    <3> QED BY <2>2, <2>4, CancelOK, WaitsOK
  <2>6. \/ Observe(a, r, next) = Triggered(seen, trigger, next)
        \/ Observe(a, r, next) = Waits(Cancel(seen, obsolete), waiting)
    BY <1>2 DEF Observe
  <2> HIDE DEF seen, trigger, obsolete, waiting
  <2> QED BY <2>3, <2>5, <2>6
<1> QED BY <1>1, <1>2

-----------------------------------------------------------------------------
\* The operator's switch.

LEMMA SwitchedOK ==
  ASSUME NEW a, AgentOK(a), NEW on, NEW r, Seen(r)
  PROVE  AgentOK(Switched(a, on, r))
<1> DEFINE b   == [a EXCEPT !.enabled = on, !.control = @ + 1, !.pending = None,
                            !.active = None, !.followUps = {}]
           ids == OldWake(a) \cup a.followUps
           c   == [at |-> "switched", control |-> a.control + 1, seen |-> r]
<1>1. /\ DOMAIN b = AgentFields /\ b.latest = a.latest /\ b.pending = None
      /\ b.schedules = a.schedules /\ b.calls = a.calls
      /\ b.roundRequests = a.roundRequests /\ b.daily = a.daily /\ b.asked = a.asked
  BY DEF AgentOK, NamesOK, AgentFields
<1>2. CallOK(c)
  BY DEF CallOK
<1>3. Switched(a, on, r) = Waits(Cancel(b, ids), c)
  BY DEF Switched
<1> HIDE DEF b, ids, c
<1>4. AgentOK(b)
  BY <1>1, ChangedOK
<1> QED BY <1>2, <1>3, <1>4, CancelOK, WaitsOK

LEMMA LookAgainOK ==
  ASSUME Clock, NEW a, AgentOK(a), NEW c, Seen(c.seen)
  PROVE  AgentOK(LookAgain(a, c))
<1>1. NextOK([at |-> "enabling", control |-> c.control])
  BY DEF NextOK
<1> QED BY <1>1, ObserveOK DEF LookAgain

LEMMA EnablingOK ==
  ASSUME NEW a, AgentOK(a), NEW c
  PROVE  AgentOK(Enabling(a, c))
<1>1. NextOK(Return)
  BY DEF NextOK
<1> QED BY <1>1, EnqueueOK DEF Enabling

-----------------------------------------------------------------------------
\* A run.

\* A request is reserved where there is room for it, in a round that is one.
LEMMA ReservedOK ==
  ASSUME Clock, NEW a, AgentOK(a), a.latest # None, RoundOf(a) # NoRound,
         Usage(a).requests < DailyLimit, a.roundRequests < RoundLimit
  PROVE  AgentOK(Reserved(a))
<1> DEFINE b == Reserved(a)
           R == RoundOf(a)
           D == a.daily.day
<1>1. Day \in Days /\ Day \in Nat /\ DailyLimit \in Nat /\ RoundLimit \in Nat
  BY DayTypes, LimitsAssumption
<1>2. R \in Rounds
  BY SeenTypes DEF AgentOK, NamesOK, RoundOf
<1>3. /\ DOMAIN b = AgentFields /\ b.latest = a.latest /\ b.pending = a.pending
      /\ b.schedules = a.schedules /\ b.calls = a.calls
      /\ b.roundRequests = a.roundRequests + 1
      /\ b.daily = [day |-> Day, requests |-> Usage(a).requests + 1]
      /\ DOMAIN b.asked = {"round", "day"}
      /\ b.asked.round = [a.asked.round EXCEPT ![R] = @ + 1]
      /\ b.asked.day = [a.asked.day EXCEPT ![Day] = @ + 1]
  BY DEF AgentOK, NamesOK, BudgetOK, AgentFields, Reserved
<1> HIDE DEF b
<1>4. NamesOK(b)
  BY <1>3 DEF AgentOK, NamesOK
<1>5. RoundOf(b) = R
  BY <1>3 DEF RoundOf
<1>6. /\ a.roundRequests \in 0..RoundLimit /\ D \in 0..Day /\ a.daily.requests \in 0..DailyLimit
      /\ DOMAIN a.asked.round = Rounds /\ DOMAIN a.asked.day = Days
      /\ DOMAIN a.daily = {"day", "requests"}
      /\ \A r \in Rounds : a.asked.round[r] \in 0..RoundLimit
      /\ \A d \in Days : a.asked.day[d] \in 0..DailyLimit
  BY DEF AgentOK, BudgetOK
<1>7. /\ a.asked.round[R] = a.roundRequests
      /\ a.asked.day[Day] = Usage(a).requests /\ Usage(a).requests \in 0..DailyLimit
  <2>1. a.asked.round[R] = a.roundRequests
    BY <1>2 DEF AgentOK, BudgetOK
  <2>2. CASE D = Day
    BY <1>1, <1>6, <2>1, <2>2 DEF AgentOK, BudgetOK, Usage
  <2>3. CASE D # Day
    <3>1. Day > D
      BY <1>1, <1>6, <2>3
    <3>2. a.asked.day[Day] = 0
      BY <1>1, <3>1 DEF AgentOK, BudgetOK
    <3> QED BY <1>1, <2>1, <2>3, <3>2 DEF Usage
  <2> QED BY <2>2, <2>3
<1>8. /\ b.roundRequests \in 0..RoundLimit
      /\ b.daily.day = Day /\ b.daily.requests = Usage(a).requests + 1
      /\ b.daily.requests \in 0..DailyLimit
  BY <1>1, <1>3, <1>6, <1>7
<1>9. ASSUME NEW r \in Rounds
      PROVE  /\ b.asked.round[r] \in 0..RoundLimit
             /\ r = R => b.asked.round[r] = b.roundRequests
             /\ r # R => b.asked.round[r] = a.asked.round[r]
  BY <1>1, <1>2, <1>3, <1>6, <1>7
<1>10. ASSUME NEW d \in Days
       PROVE  /\ b.asked.day[d] \in 0..DailyLimit
              /\ d = Day => b.asked.day[d] = b.daily.requests
              /\ d > Day => b.asked.day[d] = 0
  <2>1. CASE d = Day
    BY <1>1, <1>3, <1>6, <1>7, <1>8, <2>1
  <2>2. CASE d # Day
    <3>1. b.asked.day[d] = a.asked.day[d]
      BY <1>3, <1>6, <2>2
    <3>2. d > Day => d > D
      BY <1>1, <1>6, <1>10, LimitsAssumption DEF Days, Clock
    <3>3. d > D => a.asked.day[d] = 0
      BY <1>10 DEF AgentOK, BudgetOK
    <3> QED BY <1>6, <1>10, <2>2, <3>1, <3>2, <3>3
  <2> QED BY <2>1, <2>2
<1>11. ASSUME NEW k \in DOMAIN History, Ahead(b, k), RoundAt(k) # R
       PROVE  b.asked.round[RoundAt(k)] = 0
  <2>1. RoundAt(k) \in Rounds
    BY HistoryTypes DEF Rounds
  <2>2. a.asked.round[RoundAt(k)] = 0
    BY <1>3, <1>11 DEF AgentOK, BudgetOK, Ahead
  <2> QED BY <1>9, <1>11, <2>1, <2>2
<1>12. ASSUME NEW r \in Rounds, r = NoRound PROVE b.asked.round[r] = 0
  BY <1>9, <1>12 DEF AgentOK, BudgetOK
<1>13. DOMAIN b.daily = {"day", "requests"} /\ DOMAIN b.asked.round = Rounds
       /\ DOMAIN b.asked.day = Days
  BY <1>3, <1>6
<1> HIDE DEF R, D
<1>14. Day \in 0..Day
  BY <1>1
<1>15. BudgetOK(b)
  BY <1>3, <1>5, <1>8, <1>9, <1>10, <1>11, <1>12, <1>13, <1>14 DEF BudgetOK, R
<1> QED BY <1>4, <1>15 DEF AgentOK, b

LEMMA StepOK ==
  ASSUME Clock, NEW a, AgentOK(a), NEW run, NEW r, Seen(r), RoundAt(r) # NoRound, NEW step
  PROVE  AgentOK(Step(a, run, r, step))
<1> DEFINE c == [at |-> "thinking", run |-> run, snap |-> r, step |-> step]
<1>1. CallOK(c)
  BY DEF CallOK
<1>2. ASSUME Current(a, run, r), Usage(a).requests < DailyLimit, a.roundRequests < RoundLimit
      PROVE  AgentOK(Waits(Reserved(a), c))
  <2>1. a.latest # None /\ RoundOf(a) # NoRound
    BY <1>2, SeenTypes DEF Current
  <2>2. AgentOK(Reserved(a))
    BY <1>2, <2>1, ReservedOK
  <2> HIDE DEF c
  <2> QED BY <1>1, <2>2, WaitsOK
<1> QED BY <1>2, FinishOK DEF Step

LEMMA RunTurnOK ==
  ASSUME Clock, NEW a, AgentOK(a), NEW r, r # NoRound
  PROVE  AgentOK(RunTurn(a, r))
<1> DEFINE b == [a EXCEPT !.pending = None, !.lastRun = now, !.runs = @ + 1,
                          !.active = [run |-> a.runs + 1, expires |-> now + MaxRun]]
           c == [at |-> "looking", run |-> a.runs + 1, round |-> r, from |-> revision]
<1>1. /\ DOMAIN b = AgentFields /\ b.latest = a.latest /\ b.pending = None
      /\ b.schedules = a.schedules /\ b.calls = a.calls
      /\ b.roundRequests = a.roundRequests /\ b.daily = a.daily /\ b.asked = a.asked
  BY DEF AgentOK, NamesOK, AgentFields
<1>2. CallOK(c)
  BY HistoryTypes DEF CallOK, Seen, Clock
<1>3. RunTurn(a, r) = Waits(b, c)
  BY DEF RunTurn
<1> HIDE DEF b, c
<1>4. AgentOK(b)
  BY <1>1, ChangedOK
<1> QED BY <1>2, <1>3, <1>4, WaitsOK

LEMMA LookedOK ==
  ASSUME Clock, NEW a, AgentOK(a), NEW c, c.round # NoRound, NEW r, Seen(r)
  PROVE  AgentOK(Looked(a, c, r))
<1>1. CASE RoundAt(r) = c.round /\ RoundOf(a) = c.round /\ a.latest <= r
  <2> DEFINE b == [a EXCEPT !.latest = r]
  <2>1. AgentOK(b)
    BY <1>1, SameRound
  <2>2. Looked(a, c, r) \in {Step(b, c.run, r, 1), Finish(a, c.run)}
    BY DEF Looked
  <2> HIDE DEF b
  <2> QED BY <1>1, <2>1, <2>2, StepOK, FinishOK
<1>2. CASE ~(RoundAt(r) = c.round /\ RoundOf(a) = c.round /\ a.latest <= r)
  BY <1>2, FinishOK DEF Looked
<1> QED BY <1>1, <1>2

LEMMA ThoughtOK ==
  ASSUME Clock, NEW a, AgentOK(a), NEW c, Seen(c.snap), RoundAt(c.snap) # NoRound
  PROVE  AgentOK(Thought(a, c))
<1> DEFINE d == [at |-> "checking", run |-> c.run, snap |-> c.snap, step |-> c.step,
                 from |-> revision]
<1>1. CallOK(d)
  BY DEF CallOK
<1>2. Thought(a, c) \in {Waits(a, d), Finish(a, c.run)}
  BY DEF Thought
<1> HIDE DEF d
<1> QED BY <1>1, <1>2, WaitsOK, FinishOK

LEMMA AsksFollowUpOK ==
  ASSUME Clock, NEW a, AgentOK(a), NEW c, Seen(c.snap), RoundAt(c.snap) # NoRound
  PROVE  AgentOK(AsksFollowUp(a, c))
<1> DEFINE f == FollowUp(c)
           b == [a EXCEPT !.schedules = @ \cup {f}]
           d == [at |-> "following", run |-> c.run, snap |-> c.snap, step |-> c.step, id |-> f]
<1>1. f.round # NoRound
  BY DEF FollowUp
<1>2. CallOK(d)
  BY DEF CallOK
<1>3. AsksFollowUp(a, c) = Waits(b, d)
  BY DEF AsksFollowUp
<1>4. /\ DOMAIN b = AgentFields /\ b.latest = a.latest /\ b.pending = a.pending
      /\ b.schedules = a.schedules \cup {f} /\ b.calls = a.calls
      /\ b.roundRequests = a.roundRequests /\ b.daily = a.daily /\ b.asked = a.asked
  BY DEF AgentOK, NamesOK, AgentFields
<1> HIDE DEF f, b, d
<1>5. AgentOK(b)
  BY <1>1, <1>4, ChangedOK DEF AgentOK, NamesOK
<1> QED BY <1>2, <1>3, <1>5, WaitsOK

LEMMA FollowingOK ==
  ASSUME Clock, NEW a, AgentOK(a), NEW c, Seen(c.snap), RoundAt(c.snap) # NoRound
  PROVE  AgentOK(Following(a, c))
<1> DEFINE b == [a EXCEPT !.followUps = @ \cup {c.id}]
           d == IF Current(a, c.run, c.snap) THEN b ELSE Cancel(a, {c.id})
<1>1. /\ DOMAIN b = AgentFields /\ b.latest = a.latest /\ b.pending = a.pending
      /\ b.schedules = a.schedules /\ b.calls = a.calls
      /\ b.roundRequests = a.roundRequests /\ b.daily = a.daily /\ b.asked = a.asked
  BY DEF AgentOK, NamesOK, AgentFields
<1>2. Following(a, c) = Step(d, c.run, c.snap, c.step + 1)
  BY DEF Following
<1> HIDE DEF b
<1>3. AgentOK(b)
  BY <1>1, ChangedOK DEF AgentOK, NamesOK
<1>4. AgentOK(d)
  BY <1>3, CancelOK
<1> HIDE DEF d
<1> QED BY <1>2, <1>4, StepOK

-----------------------------------------------------------------------------
\* Schedules that fire, and a restart.

LEMMA WokenOK ==
  ASSUME Clock, NEW a, AgentOK(a), NEW wake
  PROVE  AgentOK(Woken(a, wake))
  BY RunTurnOK DEF Woken, AgentOK, NamesOK

LEMMA FollowedUpOK ==
  ASSUME Clock, NEW a, AgentOK(a), NEW f, f.round # NoRound
  PROVE  AgentOK(FollowedUp(a, f))
<1> DEFINE b == [a EXCEPT !.followUps = @ \ {f}]
           c == [at |-> "refreshing", round |-> f.round, control |-> a.control,
                 from |-> revision]
<1>1. /\ DOMAIN b = AgentFields /\ b.latest = a.latest /\ b.pending = a.pending
      /\ b.schedules = a.schedules /\ b.calls = a.calls
      /\ b.roundRequests = a.roundRequests /\ b.daily = a.daily /\ b.asked = a.asked
  BY DEF AgentOK, NamesOK, AgentFields
<1>2. CallOK(c)
  BY HistoryTypes DEF CallOK, Seen, Clock
<1>3. FollowedUp(a, f) \in {b, Waits(b, c)}
  BY DEF FollowedUp
<1> HIDE DEF b, c
<1>4. AgentOK(b)
  BY <1>1, ChangedOK DEF AgentOK, NamesOK
<1> QED BY <1>2, <1>3, <1>4, WaitsOK

LEMMA RefreshedOK ==
  ASSUME Clock, NEW a, AgentOK(a), NEW c, c.round # NoRound, NEW r, Seen(r)
  PROVE  AgentOK(Refreshed(a, c, r))
<1>1. NextOK(Return) /\ NextOK([at |-> "refreshed", round |-> c.round])
  BY DEF NextOK
<1> QED BY <1>1, ObserveOK DEF Refreshed

LEMMA RestartedOK ==
  ASSUME NEW a, AgentOK(a)
  PROVE  AgentOK(Restarted(a))
<1> DEFINE b == [a EXCEPT !.active = None, !.calls = EmptyBag]
<1>1. /\ DOMAIN b = AgentFields /\ b.latest = a.latest /\ b.pending = a.pending
      /\ b.schedules = a.schedules /\ b.calls = EmptyBag
      /\ b.roundRequests = a.roundRequests /\ b.daily = a.daily /\ b.asked = a.asked
  BY DEF AgentOK, NamesOK, AgentFields
<1>2. DOMAIN EmptyBag = {}
  BY DEF EmptyBag, SetToBag
<1>3. Restarted(a) = ScheduleWake(b, Return) /\ NextOK(Return)
  BY DEF Restarted, NextOK
<1> HIDE DEF b
<1>4. NamesOK(b)
  BY <1>1, <1>2 DEF AgentOK, NamesOK
<1>5. AgentOK(b)
  BY <1>1, <1>4, SameBudget
<1> QED BY <1>3, <1>5, ScheduleWakeOK

-----------------------------------------------------------------------------
\* The steps.

\* What held of a record holds of the agent that becomes it; what was seen has
\* been seen, and a day that is over does not return.
LEMMA Carried ==
  ASSUME Clock, Clock', revision <= revision', Day <= Day', AgentOK(agent')
  PROVE  AgentOK(agent)'
<1>1. ASSUME NEW r, Seen(r) PROVE Seen(r)'
  BY <1>1, HistoryTypes DEF Clock, Seen
<1>2. ASSUME NEW c, CallOK(c) PROVE CallOK(c)'
  BY <1>1, <1>2 DEF CallOK, NextOK
<1>3. NamesOK(agent)'
  BY <1>1, <1>2 DEF AgentOK, NamesOK
<1>4. \A d \in 0..Day : d \in 0..Day'
  <2>1. Day \in Nat
    BY DayTypes
  <2>2. now' \in Nat /\ DayLength \in Nat \ {0}
    BY LimitsAssumption DEF Clock
  <2>3. \A n \in Nat, d \in Nat \ {0} : n \div d \in Nat
    OBVIOUS
  <2>4. Day' = now' \div DayLength
    BY DEF Day
  <2>5. Day' \in Nat
    BY <2>2, <2>3, <2>4
  <2> QED BY <2>1, <2>5
<1>5. BudgetOK(agent)'
  BY <1>4 DEF AgentOK, BudgetOK, RoundOf, RoundAt, Ahead
<1> QED BY <1>3, <1>5 DEF AgentOK

LEMMA DoneOK ==
  ASSUME DirectorInv, NEW a, AgentOK(a), Does(a)
  PROVE  DirectorInv'
<1>1. Clock /\ Clock' /\ revision <= revision' /\ Day <= Day'
  BY DayTypes, HistoryTypes DEF DirectorInv, Clock, Does, Day
<1>2. AgentOK(agent')
  BY DEF Does
<1> QED BY <1>1, <1>2, Carried DEF DirectorInv

\* Calls that go on are in order.
LEMMA WaitingOK ==
  ASSUME DirectorInv, NEW at, NEW c \in Waiting(at)
  PROVE  c.at = at /\ CallOK(c) /\ AgentOK(GoesOn(agent, c))
  BY GoesOnOK DEF DirectorInv, AgentOK, NamesOK, Waiting, BagToSet

THEOREM DirectorStarts == Init => DirectorInv
<1> SUFFICES ASSUME Init PROVE DirectorInv
  OBVIOUS
<1>1. Clock
  BY HistoryAssumption, HistoryTypes, LimitsAssumption DEF Init, Clock
<1>2. DOMAIN EmptyBag = {}
  BY DEF EmptyBag, SetToBag
<1>3. NamesOK(agent)
  BY <1>2 DEF Init, NamesOK, AgentFields
<1>4. RoundOf(agent) = NoRound
  BY DEF Init, RoundOf, RoundAt
<1>5. /\ 0 \in 0..Day /\ 0 \in 0..DailyLimit /\ 0 \in 0..RoundLimit
      /\ \A k \in DOMAIN History : RoundAt(k) \in Rounds
  BY <1>1, DayTypes, HistoryTypes, LimitsAssumption DEF Rounds
<1>6. BudgetOK(agent)
  BY <1>4, <1>5 DEF Init, BudgetOK
<1> QED BY <1>1, <1>3, <1>6 DEF DirectorInv, AgentOK

\* A step leaves every count within its limit.
THEOREM DirectorStep == DirectorInv /\ [Next]_directorVars => DirectorInv'
<1> SUFFICES ASSUME DirectorInv, [Next]_directorVars PROVE DirectorInv'
  OBVIOUS
<1> USE DEF DirectorInv
<1>1. CASE Play
  <2>1. Clock' /\ revision <= revision' /\ now' = now /\ agent' = agent
    BY <1>1, HistoryTypes DEF Play, Clock
  <2>2. Day <= Day'
    BY <2>1, DayTypes DEF Day
  <2> QED BY <2>1, <2>2, Carried
<1>2. CASE Tick
  <2>1. Clock' /\ revision <= revision' /\ agent' = agent
    BY <1>2, HistoryTypes, LimitsAssumption DEF Tick, Clock
  <2>2. Day <= Day'
    BY <1>2, LaterDay DEF Tick
  <2> QED BY <2>1, <2>2, Carried
<1>3. CASE Notice
  BY <1>3, ObserveOK, DoneOK DEF Notice, NextOK, Seen
<1>4. CASE SetEnabled
  BY <1>4, SwitchedOK, DoneOK DEF SetEnabled, Seen
<1>5. CASE FireWake
  BY <1>5, CancelOK, WokenOK, DoneOK DEF FireWake
<1>6. CASE FireFollowUp
  <2>1. PICK s \in Fires("followUp") : Does(FollowedUp(Cancel(agent, {s}), s))
    BY <1>6 DEF FireFollowUp
  <2>2. s.round # NoRound
    BY DEF Fires, AgentOK, NamesOK
  <2> QED BY <2>1, <2>2, CancelOK, FollowedUpOK, DoneOK
<1>7. CASE Resume
  <2>1. ASSUME NEW c \in Waiting("scheduled"), Does(Scheduled(GoesOn(agent, c), c))
        PROVE  DirectorInv'
    <3>1. NextOK(c.next) /\ AgentOK(GoesOn(agent, c))
      BY WaitingOK DEF CallOK, NextOK, Return
    <3> QED BY <2>1, <3>1, ScheduledOK, DoneOK
  <2>2. ASSUME NEW c \in Waiting("observed"),
               Does(Triggered(GoesOn(agent, c), c.round, c.next))
        PROVE  DirectorInv'
    <3>1. NextOK(c.next) /\ AgentOK(GoesOn(agent, c))
      BY WaitingOK DEF CallOK, NextOK, Return
    <3> QED BY <2>2, <3>1, TriggeredOK, DoneOK
  <2>3. ASSUME NEW c \in Waiting("switched"), Does(LookAgain(GoesOn(agent, c), c))
        PROVE  DirectorInv'
    <3>1. Seen(c.seen) /\ AgentOK(GoesOn(agent, c))
      BY WaitingOK DEF CallOK, NextOK, Return
    <3> QED BY <2>3, <3>1, LookAgainOK, DoneOK
  <2>4. ASSUME NEW c \in Waiting("enabling"), Does(Enabling(GoesOn(agent, c), c))
        PROVE  DirectorInv'
    BY <2>4, WaitingOK, EnablingOK, DoneOK
  <2>5. ASSUME NEW c \in Waiting("refreshed"),
               Does(Enqueue(GoesOn(agent, c), c.round, Return))
        PROVE  DirectorInv'
    <3>1. c.round # NoRound /\ AgentOK(GoesOn(agent, c)) /\ NextOK(Return)
      BY WaitingOK DEF CallOK, NextOK, Return
    <3> QED BY <2>5, <3>1, EnqueueOK, DoneOK
  <2> QED BY <1>7, <2>1, <2>2, <2>3, <2>4, <2>5 DEF Resume
<1>8. CASE Look
  <2>1. PICK c \in Waiting("looking") :
          \/ \E r \in c.from..revision : Does(Looked(GoesOn(agent, c), c, r))
          \/ Does(Finish(GoesOn(agent, c), c.run))
    BY <1>8 DEF Look
  <2>2. Seen(c.from) /\ c.round # NoRound /\ AgentOK(GoesOn(agent, c))
    BY WaitingOK DEF CallOK, NextOK, Return
  <2>3. \A r \in c.from..revision : Seen(r)
    BY <2>2, HistoryTypes DEF Seen, Clock
  <2> QED BY <2>1, <2>2, <2>3, LookedOK, FinishOK, DoneOK
<1>9. CASE Think
  <2>1. PICK c \in Waiting("thinking") :
          \/ Does(Thought(GoesOn(agent, c), c))
          \/ Does(Finish(GoesOn(agent, c), c.run))
          \/ Does(Step(GoesOn(agent, c), c.run, c.snap, c.step + 1))
    BY <1>9 DEF Think
  <2>2. Seen(c.snap) /\ RoundAt(c.snap) # NoRound /\ AgentOK(GoesOn(agent, c))
    BY WaitingOK DEF CallOK, NextOK, Return
  <2> QED BY <2>1, <2>2, ThoughtOK, FinishOK, StepOK, DoneOK
<1>10. CASE Check
  <2>1. PICK c \in Waiting("checking") :
          \/ Does(Step(GoesOn(agent, c), c.run, c.snap, c.step + 1))
          \/ Does(AsksFollowUp(GoesOn(agent, c), c))
    BY <1>10 DEF Check
  <2>2. Seen(c.snap) /\ RoundAt(c.snap) # NoRound /\ AgentOK(GoesOn(agent, c))
    BY WaitingOK DEF CallOK, NextOK, Return
  <2> QED BY <2>1, <2>2, AsksFollowUpOK, StepOK, DoneOK
<1>11. CASE Follow
  <2>1. PICK c \in Waiting("following") : Does(Following(GoesOn(agent, c), c))
    BY <1>11 DEF Follow
  <2>2. Seen(c.snap) /\ RoundAt(c.snap) # NoRound /\ AgentOK(GoesOn(agent, c))
    BY WaitingOK DEF CallOK, NextOK, Return
  <2> QED BY <2>1, <2>2, FollowingOK, DoneOK
<1>12. CASE Refresh
  <2>1. PICK c \in Waiting("refreshing") :
          \/ \E r \in c.from..revision : Does(Refreshed(GoesOn(agent, c), c, r))
          \/ Does(GoesOn(agent, c))
    BY <1>12 DEF Refresh
  <2>2. Seen(c.from) /\ c.round # NoRound /\ AgentOK(GoesOn(agent, c))
    BY WaitingOK DEF CallOK, NextOK, Return
  <2>3. \A r \in c.from..revision : Seen(r)
    BY <2>2, HistoryTypes DEF Seen, Clock
  <2> QED BY <2>1, <2>2, <2>3, RefreshedOK, DoneOK
<1>13. CASE Restart
  <2>1. UNCHANGED <<revision, now>> /\ AgentOK(agent')
    BY <1>13, RestartedOK DEF Restart
  <2>2. Clock' /\ revision <= revision' /\ Day <= Day'
    BY <2>1, DayTypes, HistoryTypes DEF Clock, Day
  <2> QED BY <2>1, <2>2, Carried
<1>14. CASE UNCHANGED directorVars
  <2>1. UNCHANGED <<revision, now, agent>>
    BY <1>14 DEF directorVars
  <2>2. Clock' /\ revision <= revision' /\ Day <= Day'
    BY <2>1, DayTypes, HistoryTypes DEF Clock, Day
  <2> QED BY <2>1, <2>2, Carried
<1> QED BY <1>1, <1>2, <1>3, <1>4, <1>5, <1>6, <1>7, <1>8, <1>9, <1>10, <1>11, <1>12, <1>13,
           <1>14 DEF Next

\* The language model is asked no more often in a round, nor on a day, than the
\* limits allow, whatever notices come late and whatever runs overlap, are
\* switched off and on, or end in a restart (reserveRequest).
THEOREM BudgetIsKept == Spec => []BudgetHolds
<1>1. DirectorInv => BudgetHolds
  BY LimitsAssumption DEF DirectorInv, AgentOK, BudgetOK, BudgetHolds
<1> QED BY <1>1, DirectorStarts, DirectorStep, PTL DEF Spec


-----------------------------------------------------------------------------
\* The runs.  A run that is active has exactly one call, which goes on or ends
\* it; calls of runs that are over end without a trace.

IsRun(c) == c.at \in {"looking", "thinking", "checking", "following"}
HasCall(a, run) == \E c \in DOMAIN a.calls : IsRun(c) /\ c.run = run
OneCall(a, run) ==
  \E c \in DOMAIN a.calls :
    /\ IsRun(c) /\ c.run = run /\ a.calls[c] = 1
    /\ \A d \in DOMAIN a.calls : IsRun(d) /\ d.run = run => d = c

CallShape(c) ==
  /\ c.at = "scheduled" => c.wake = Wake(c.wake, c.wake.control)
  /\ IsRun(c) => "run" \in DOMAIN c /\ c.run \in Nat
  /\ c.at = "following" => c.id.does = "followUp" /\ c.id.round = RoundAt(c.snap)

RunsOK(a) ==
  /\ a.runs \in Nat /\ a.lastRun \in Int
  /\ a.active # None => a.active.run \in 1..a.runs /\ a.active.expires \in Int
  /\ \A c \in DOMAIN a.calls : CallShape(c) /\ (IsRun(c) => c.run <= a.runs)

\* What is pending is wanted, and due no sooner than the cooldown allows.
PendingOK(a) == a.pending # None =>
  /\ a.enabled /\ a.pending.round = RoundOf(a)
  /\ a.pending.due \in Int /\ a.pending.due >= a.lastRun + Cooldown
Booked(a) == a.pending # None =>
  Wake(a.pending, a.control) \in a.schedules \/ a.active # None

\* A run that waits to keep a follow-up has room for it.
FollowsOK(a) ==
  /\ IsFiniteSet(a.followUps) /\ Cardinality(a.followUps) <= MaxFollowUps
  /\ \A f \in a.followUps :
       f.does = "followUp" /\ f.round = RoundOf(a) /\ a.enabled /\ f.control = a.control
  /\ \A c \in DOMAIN a.calls :
       c.at = "following" /\ a.active # None /\ a.active.run = c.run =>
         c.id.control = a.control /\ Cardinality(a.followUps) < MaxFollowUps

TurnOK(a) == RunsOK(a) /\ PendingOK(a) /\ FollowsOK(a)

SteadyOK(a) == TurnOK(a) /\ (a.active # None => OneCall(a, a.active.run))
WholeOK(a)  == SteadyOK(a) /\ Booked(a)
\* Between two calls of a run: it has none, and may be over.
LeftOK(a, run) ==
  /\ TurnOK(a) /\ Booked(a)
  /\ a.active # None => IF a.active.run = run THEN ~HasCall(a, run) ELSE OneCall(a, a.active.run)

SameFields(a, b) ==
  /\ b.enabled = a.enabled /\ b.control = a.control /\ b.followUps = a.followUps
  /\ b.runs = a.runs /\ b.lastRun = a.lastRun /\ b.active = a.active
SameRuns(a, b) ==
  /\ \A c \in DOMAIN a.calls : IsRun(c) => c \in DOMAIN b.calls /\ b.calls[c] = a.calls[c]
  /\ \A c \in DOMAIN b.calls : c \in DOMAIN a.calls \/ (~IsRun(c) /\ CallShape(c))

LEMMA SameTurn ==
  ASSUME NEW a, TurnOK(a), NEW b, SameFields(a, b), SameRuns(a, b),
         RoundOf(b) = RoundOf(a), PendingOK(b)
  PROVE  TurnOK(b)
<1>1. RunsOK(b)
  BY DEF TurnOK, RunsOK, SameFields, SameRuns
<1>2. FollowsOK(b)
  BY DEF TurnOK, FollowsOK, SameFields, SameRuns, IsRun
<1> QED BY <1>1, <1>2 DEF TurnOK

LEMMA SameSteady ==
  ASSUME NEW a, SteadyOK(a), NEW b, SameFields(a, b), SameRuns(a, b),
         RoundOf(b) = RoundOf(a), PendingOK(b)
  PROVE  SteadyOK(b)
<1>1. TurnOK(b)
  BY SameTurn DEF SteadyOK
<1>2. ASSUME a.active # None PROVE OneCall(b, a.active.run)
  <2>1. PICK c \in DOMAIN a.calls :
          /\ IsRun(c) /\ c.run = a.active.run /\ a.calls[c] = 1
          /\ \A d \in DOMAIN a.calls : IsRun(d) /\ d.run = a.active.run => d = c
    BY <1>2 DEF SteadyOK, OneCall
  <2>2. c \in DOMAIN b.calls /\ b.calls[c] = 1
    BY <2>1 DEF SameRuns
  <2>3. \A d \in DOMAIN b.calls : IsRun(d) /\ d.run = a.active.run => d = c
    BY <2>1 DEF SameRuns
  <2> QED BY <2>1, <2>2, <2>3 DEF OneCall
<1> QED BY <1>1, <1>2 DEF SteadyOK, SameFields

\* A change of what is pending or scheduled.
LEMMA SameCalls ==
  ASSUME NEW a, NEW b, b.calls = a.calls
  PROVE  SameRuns(a, b)
BY DEF SameRuns

LEMMA NextShape ==
  ASSUME NEW c, NextOK(c), c # Return
  PROVE  ~IsRun(c) /\ CallShape(c)
BY DEF NextOK, IsRun, CallShape

LEMMA WaitsFields ==
  ASSUME NEW a, AgentOK(a), NEW c, c # Return
  PROVE  LET b == Waits(a, c) IN
         /\ SameFields(a, b) /\ b.latest = a.latest /\ b.pending = a.pending
         /\ b.schedules = a.schedules
         /\ DOMAIN b.calls = DOMAIN a.calls \cup {c}
         /\ \A d \in DOMAIN a.calls : d # c => b.calls[d] = a.calls[d]
         /\ c \notin DOMAIN a.calls => b.calls[c] = 1
<1> DEFINE b == [a EXCEPT !.calls = BagOps!BagAdd(a.calls, c)]
<1>1. Waits(a, c) = b
  BY DEF Waits
<1>2. /\ DOMAIN BagOps!BagAdd(a.calls, c) = DOMAIN a.calls \cup {c}
      /\ \A d \in DOMAIN a.calls : d # c => BagOps!BagAdd(a.calls, c)[d] = a.calls[d]
      /\ c \notin DOMAIN a.calls => BagOps!BagAdd(a.calls, c)[c] = 1
  BY DEF BagOps!BagAdd
<1>3. /\ SameFields(a, b) /\ b.latest = a.latest /\ b.pending = a.pending
      /\ b.schedules = a.schedules /\ b.calls = BagOps!BagAdd(a.calls, c)
  BY DEF AgentOK, NamesOK, AgentFields, SameFields
<1> HIDE DEF b
<1> QED BY <1>1, <1>2, <1>3

\* A call beside the runs.
LEMMA WaitsWhole ==
  ASSUME NEW a, AgentOK(a), WholeOK(a), NEW c, c # Return => ~IsRun(c) /\ CallShape(c)
  PROVE  WholeOK(Waits(a, c)) /\ Waits(a, c).lastRun = a.lastRun
<1>1. CASE c = Return
  BY <1>1 DEF Waits
<1>2. CASE c # Return
  <2> DEFINE b == Waits(a, c)
  <2>1. /\ SameFields(a, b) /\ b.latest = a.latest /\ b.pending = a.pending
        /\ b.schedules = a.schedules
        /\ DOMAIN b.calls = DOMAIN a.calls \cup {c}
        /\ \A d \in DOMAIN a.calls : d # c => b.calls[d] = a.calls[d]
    BY <1>2, WaitsFields
  <2> HIDE DEF b
  <2>2. SameRuns(a, b)
    BY <1>2, <2>1 DEF SameRuns
  <2>3. RoundOf(b) = RoundOf(a)
    BY <2>1 DEF RoundOf
  <2>4. PendingOK(b) /\ Booked(b)
    BY <2>1, <2>3 DEF WholeOK, SteadyOK, TurnOK, PendingOK, Booked, SameFields
  <2>5. SteadyOK(b)
    BY <2>1, <2>2, <2>3, <2>4, SameSteady DEF WholeOK
  <2> QED BY <2>1, <2>4, <2>5 DEF WholeOK, SameFields, b
<1> QED BY <1>1, <1>2

\* A call of the run that is active.
LEMMA WaitsInRun ==
  ASSUME NEW a, AgentOK(a), TurnOK(a), Booked(a), a.active # None,
         NEW c, IsRun(c), c.run = a.active.run, ~HasCall(a, c.run), CallShape(c),
         c.at = "following" => c.id.control = a.control /\ Cardinality(a.followUps) < MaxFollowUps
  PROVE  WholeOK(Waits(a, c)) /\ Waits(a, c).lastRun = a.lastRun
<1> DEFINE b == Waits(a, c)
<1>1. c # Return /\ c \notin DOMAIN a.calls
  BY DEF IsRun, Return, HasCall
<1>2. /\ SameFields(a, b) /\ b.latest = a.latest /\ b.pending = a.pending
      /\ b.schedules = a.schedules
      /\ DOMAIN b.calls = DOMAIN a.calls \cup {c} /\ b.calls[c] = 1
      /\ \A d \in DOMAIN a.calls : d # c => b.calls[d] = a.calls[d]
  BY <1>1, WaitsFields
<1> HIDE DEF b
<1>3. RoundOf(b) = RoundOf(a)
  BY <1>2 DEF RoundOf
<1>4. PendingOK(b) /\ Booked(b)
  BY <1>2, <1>3 DEF TurnOK, PendingOK, Booked, SameFields
<1>5. RunsOK(b)
  BY <1>2 DEF TurnOK, RunsOK, SameFields
<1>6. FollowsOK(b)
  <2>1. ASSUME NEW d \in DOMAIN b.calls,
               d.at = "following" /\ b.active # None /\ b.active.run = d.run
        PROVE  d.id.control = b.control /\ Cardinality(b.followUps) < MaxFollowUps
    <3>1. IsRun(d)
      BY <2>1 DEF IsRun
    <3>2. d = c
      BY <1>2, <2>1, <3>1 DEF HasCall, SameFields
    <3> QED BY <1>2, <2>1, <3>2 DEF SameFields
  <2> QED BY <1>2, <1>3, <2>1 DEF TurnOK, FollowsOK, SameFields
<1>7. OneCall(b, c.run)
  BY <1>2 DEF OneCall, HasCall
<1> QED BY <1>2, <1>4, <1>5, <1>6, <1>7 DEF WholeOK, SteadyOK, TurnOK, SameFields, b

\* What is cancelled is not the wake-up of what is pending.
LEMMA CancelFields ==
  ASSUME NEW a, AgentOK(a), NEW ids
  PROVE  LET b == Cancel(a, ids) IN
         /\ SameFields(a, b) /\ SameRuns(a, b) /\ RoundOf(b) = RoundOf(a)
         /\ b.latest = a.latest /\ b.pending = a.pending /\ b.calls = a.calls
         /\ b.schedules = a.schedules \ ids
<1> DEFINE b == Cancel(a, ids)
<1>1. /\ SameFields(a, b) /\ b.latest = a.latest /\ b.pending = a.pending /\ b.calls = a.calls
      /\ b.schedules = a.schedules \ ids
  BY DEF Cancel, AgentOK, NamesOK, AgentFields, SameFields
<1> HIDE DEF b
<1>2. SameRuns(a, b) /\ RoundOf(b) = RoundOf(a)
  BY <1>1, SameCalls DEF RoundOf
<1> QED BY <1>1, <1>2 DEF b

LEMMA CancelSteady ==
  ASSUME NEW a, AgentOK(a), SteadyOK(a), NEW ids
  PROVE  SteadyOK(Cancel(a, ids)) /\ Cancel(a, ids).lastRun = a.lastRun
<1> DEFINE b == Cancel(a, ids)
<1>1. /\ SameFields(a, b) /\ SameRuns(a, b) /\ RoundOf(b) = RoundOf(a) /\ b.pending = a.pending
  BY CancelFields
<1> HIDE DEF b
<1>2. PendingOK(b)
  BY <1>1 DEF SteadyOK, TurnOK, PendingOK, SameFields
<1>3. SteadyOK(b)
  BY <1>1, <1>2, SameSteady
<1> QED BY <1>1, <1>3 DEF SameFields, b

LEMMA CancelWhole ==
  ASSUME NEW a, AgentOK(a), WholeOK(a), NEW ids,
         a.pending # None => Wake(a.pending, a.control) \notin ids
  PROVE  WholeOK(Cancel(a, ids)) /\ Cancel(a, ids).lastRun = a.lastRun
<1> DEFINE b == Cancel(a, ids)
<1>1. /\ SameFields(a, b) /\ b.pending = a.pending /\ b.schedules = a.schedules \ ids
  BY CancelFields
<1>2. SteadyOK(b) /\ b.lastRun = a.lastRun
  BY CancelSteady DEF WholeOK
<1> HIDE DEF b
<1>3. Booked(b)
  BY <1>1 DEF WholeOK, Booked, SameFields
<1> QED BY <1>2, <1>3 DEF WholeOK, b

\* What is pending is scheduled.
LEMMA ScheduleWakeWhole ==
  ASSUME NEW a, AgentOK(a), SteadyOK(a), NEW next, NextOK(next)
  PROVE  WholeOK(ScheduleWake(a, next)) /\ ScheduleWake(a, next).lastRun = a.lastRun
<1>1. next # Return => ~IsRun(next) /\ CallShape(next)
  BY NextShape
<1>2. CASE a.pending = None \/ ~a.enabled
  <2>1. a.pending = None
    BY <1>2 DEF SteadyOK, TurnOK, PendingOK
  <2>2. WholeOK(a)
    BY <2>1 DEF WholeOK, Booked
  <2> QED BY <1>1, <1>2, <2>2, WaitsWhole DEF ScheduleWake
<1>3. CASE ~(a.pending = None \/ ~a.enabled)
  <2> DEFINE wake == Wake(a.pending, a.control)
             b == [a EXCEPT !.schedules = @ \cup {wake}]
             c == [at |-> "scheduled", wake |-> wake, old |-> a.pending.id, next |-> next]
  <2>1. ScheduleWake(a, next) = Waits(b, c)
    BY <1>3 DEF ScheduleWake
  <2>2. wake = Wake(wake, wake.control)
    BY DEF Wake
  <2>3. wake.does = "wake"
    BY DEF Wake
  <2>4. /\ DOMAIN b = AgentFields /\ b.latest = a.latest /\ b.pending = a.pending
        /\ b.schedules = a.schedules \cup {wake} /\ b.calls = a.calls
        /\ b.roundRequests = a.roundRequests /\ b.daily = a.daily /\ b.asked = a.asked
        /\ SameFields(a, b)
    BY DEF AgentOK, NamesOK, AgentFields, SameFields
  <2>5. c.at = "scheduled" /\ c.wake = wake
    OBVIOUS
  <2>6. ~IsRun(c) /\ CallShape(c)
    <3> HIDE DEF wake, c
    <3> QED BY <2>2, <2>5 DEF IsRun, CallShape
  <2> HIDE DEF b, c
  <2>7. AgentOK(b)
    <3> HIDE DEF wake
    <3> QED BY <2>3, <2>4, ChangedOK DEF AgentOK, NamesOK
  <2>8. RoundOf(b) = RoundOf(a) /\ SameRuns(a, b)
    BY <2>4, SameCalls DEF RoundOf
  <2>9. PendingOK(b) /\ Booked(b)
    BY <2>4, <2>8 DEF SteadyOK, TurnOK, PendingOK, Booked, SameFields
  <2>10. SteadyOK(b)
    BY <2>4, <2>8, <2>9, SameSteady
  <2>11. WholeOK(b) /\ b.lastRun = a.lastRun
    BY <2>4, <2>9, <2>10 DEF WholeOK, SameFields
  <2> HIDE DEF wake
  <2> QED BY <2>1, <2>6, <2>7, <2>11, WaitsWhole
<1> QED BY <1>2, <1>3

LEMMA ScheduledWhole ==
  ASSUME NEW a, AgentOK(a), WholeOK(a), NEW c, NextOK(c.next), c.wake = Wake(c.wake, c.wake.control)
  PROVE  WholeOK(Scheduled(a, c)) /\ Scheduled(a, c).lastRun = a.lastRun
<1> DEFINE wanted == /\ a.pending # None /\ a.enabled /\ a.control = c.wake.control
                     /\ a.pending.round = c.wake.round /\ a.pending.due = c.wake.due
           b == [a EXCEPT !.pending.id = c.wake]
<1>1. c.next # Return => ~IsRun(c.next) /\ CallShape(c.next)
  BY NextShape
<1>2. CASE ~wanted
  <2>1. Scheduled(a, c) = Waits(Cancel(a, {c.wake}), c.next)
    BY <1>2 DEF Scheduled
  <2>2. a.pending # None => a.enabled
    BY DEF WholeOK, SteadyOK, TurnOK, PendingOK
  <2>3. a.pending # None => Wake(a.pending, a.control) # c.wake
    BY <1>2, <2>2 DEF Wake
  <2>4. WholeOK(Cancel(a, {c.wake})) /\ Cancel(a, {c.wake}).lastRun = a.lastRun
    BY <2>3, CancelWhole
  <2>5. AgentOK(Cancel(a, {c.wake}))
    BY CancelOK
  <2> QED BY <1>1, <2>1, <2>4, <2>5, WaitsWhole
<1>3. CASE wanted
  <2> DEFINE ids == {c.old} \ {c.wake}
  <2>1. Scheduled(a, c) = Waits(Cancel(b, ids), c.next)
    BY <1>3 DEF Scheduled
  <2>2. /\ DOMAIN b = AgentFields /\ b.latest = a.latest
        /\ b.schedules = a.schedules /\ b.calls = a.calls
        /\ b.roundRequests = a.roundRequests /\ b.daily = a.daily /\ b.asked = a.asked
        /\ b.pending = [a.pending EXCEPT !.id = c.wake] /\ SameFields(a, b)
    BY DEF AgentOK, NamesOK, AgentFields, SameFields
  <2>3. /\ DOMAIN b.pending = {"round", "due", "id"}
        /\ b.pending.round = a.pending.round /\ b.pending.due = a.pending.due
        /\ b.pending.round # NoRound
    BY <1>3, <2>2 DEF AgentOK, NamesOK
  <2>4. Wake(b.pending, b.control) = Wake(a.pending, a.control) /\ Wake(a.pending, a.control) = c.wake
    BY <1>3, <2>2, <2>3 DEF Wake, SameFields
  <2> HIDE DEF b
  <2>5. AgentOK(b)
    BY <2>2, <2>3, ChangedOK
  <2>6. RoundOf(b) = RoundOf(a) /\ SameRuns(a, b)
    BY <2>2, SameCalls DEF RoundOf
  <2>7. PendingOK(b) /\ Booked(b)
    BY <1>3, <2>2, <2>3, <2>4, <2>6 DEF WholeOK, SteadyOK, TurnOK, PendingOK, Booked, SameFields
  <2>8. WholeOK(b) /\ b.lastRun = a.lastRun
    BY <2>2, <2>6, <2>7, SameSteady DEF WholeOK, SameFields
  <2>9. WholeOK(Cancel(b, ids)) /\ Cancel(b, ids).lastRun = a.lastRun
    BY <2>4, <2>5, <2>8, CancelWhole
  <2>10. AgentOK(Cancel(b, ids))
    BY <2>5, CancelOK
  <2> HIDE DEF ids
  <2> QED BY <1>1, <2>1, <2>9, <2>10, WaitsWhole
<1> QED BY <1>2, <1>3

\* What is due after a run is due no sooner than the cooldown allows.
LEMMA DueLate ==
  ASSUME Clock, NEW a, a.lastRun \in Int, NEW t \in Int
  PROVE  DueAfter(a, t) \in Int /\ DueAfter(a, t) >= a.lastRun + Cooldown
<1> DEFINE x == now + 1
           y == a.lastRun + Cooldown
<1>1. x \in Int /\ y \in Int
  BY LimitsAssumption DEF Clock
<1>2. DueAfter(a, t) = Max({x, y, t})
  BY DEF DueAfter
<1> HIDE DEF x, y
<1>3. \E m \in {x, y, t} : \A z \in {x, y, t} : m >= z
  BY <1>1
<1>4. Max({x, y, t}) \in {x, y, t} /\ Max({x, y, t}) >= y
  BY <1>3 DEF Max
<1> QED BY <1>1, <1>2, <1>4 DEF y

LEMMA EnqueueWhole ==
  ASSUME Clock, NEW a, AgentOK(a), WholeOK(a), NEW r, r # NoRound, NEW next, NextOK(next)
  PROVE  WholeOK(Enqueue(a, r, next)) /\ Enqueue(a, r, next).lastRun = a.lastRun
<1>1. CASE ~a.enabled \/ RoundOf(a) # r
  BY <1>1, WaitsWhole, NextShape DEF Enqueue
<1>2. CASE ~(~a.enabled \/ RoundOf(a) # r)
  <2> DEFINE t == IF a.active = None THEN 0 ELSE a.active.expires
             due == DueAfter(a, t)
             old == IF a.pending = None THEN None ELSE a.pending.id
             b == [a EXCEPT !.pending = [round |-> r, due |-> due, id |-> old]]
  <2>1. Enqueue(a, r, next) = ScheduleWake(b, next)
    BY <1>2 DEF Enqueue
  <2>2. t \in Int /\ a.lastRun \in Int
    BY DEF WholeOK, SteadyOK, TurnOK, RunsOK
  <2>3. due \in Int /\ due >= a.lastRun + Cooldown
    <3> HIDE DEF t
    <3> QED BY <2>2, DueLate
  <2> HIDE DEF due, old
  <2>4. /\ DOMAIN b = AgentFields /\ b.latest = a.latest
        /\ b.schedules = a.schedules /\ b.calls = a.calls
        /\ b.roundRequests = a.roundRequests /\ b.daily = a.daily /\ b.asked = a.asked
        /\ b.pending = [round |-> r, due |-> due, id |-> old] /\ SameFields(a, b)
    BY DEF AgentOK, NamesOK, AgentFields, SameFields
  <2>5. DOMAIN b.pending = {"round", "due", "id"} /\ b.pending.round = r /\ b.pending.due = due
    BY <2>4
  <2> HIDE DEF b
  <2>6. AgentOK(b)
    BY <2>4, <2>5, ChangedOK
  <2>7. RoundOf(b) = RoundOf(a) /\ SameRuns(a, b)
    BY <2>4, SameCalls DEF RoundOf
  <2>8. PendingOK(b)
    BY <1>2, <2>3, <2>4, <2>5, <2>7 DEF PendingOK, SameFields
  <2>9. SteadyOK(b)
    BY <2>4, <2>7, <2>8, SameSteady DEF WholeOK
  <2> QED BY <2>1, <2>4, <2>6, <2>9, ScheduleWakeWhole DEF SameFields
<1> QED BY <1>1, <1>2

LEMMA TriggeredWhole ==
  ASSUME Clock, NEW a, AgentOK(a), WholeOK(a), NEW r, NEW next, NextOK(next)
  PROVE  WholeOK(Triggered(a, r, next)) /\ Triggered(a, r, next).lastRun = a.lastRun
BY WaitsWhole, EnqueueWhole, NextShape DEF Triggered

\* What came up during a run is scheduled when it ends.
LEMMA FinishWhole ==
  ASSUME Clock, NEW a, AgentOK(a), NEW run, LeftOK(a, run)
  PROVE  WholeOK(Finish(a, run)) /\ Finish(a, run).lastRun = a.lastRun
<1>1. CASE a.active = None \/ a.active.run # run
  BY <1>1 DEF Finish, LeftOK, WholeOK, SteadyOK
<1>2. CASE ~(a.active = None \/ a.active.run # run)
  <2> DEFINE b == [a EXCEPT !.active = None]
             due == DueAfter(a, 0)
             c == [b EXCEPT !.pending.due = due]
  <2>1. /\ DOMAIN b = AgentFields /\ b.latest = a.latest /\ b.pending = a.pending
        /\ b.schedules = a.schedules /\ b.calls = a.calls
        /\ b.roundRequests = a.roundRequests /\ b.daily = a.daily /\ b.asked = a.asked
        /\ b.active = None /\ b.enabled = a.enabled /\ b.control = a.control
        /\ b.followUps = a.followUps /\ b.runs = a.runs /\ b.lastRun = a.lastRun
    BY DEF AgentOK, NamesOK, AgentFields
  <2>2. Finish(a, run) = IF a.pending = None \/ ~a.enabled THEN b ELSE ScheduleWake(c, Return)
    BY <1>2 DEF Finish
  <2>3. due \in Int /\ due >= a.lastRun + Cooldown
    BY DueLate DEF LeftOK, TurnOK, RunsOK
  <2> HIDE DEF due
  <2>4. a.pending # None =>
          /\ DOMAIN c = AgentFields /\ c.latest = b.latest
          /\ c.schedules = b.schedules /\ c.calls = b.calls
          /\ c.roundRequests = b.roundRequests /\ c.daily = b.daily /\ c.asked = b.asked
          /\ SameFields(b, c)
          /\ DOMAIN c.pending = {"round", "due", "id"} /\ c.pending.round = a.pending.round
          /\ c.pending.due = due
    <3>1. /\ DOMAIN c = AgentFields /\ c.latest = b.latest
          /\ c.schedules = b.schedules /\ c.calls = b.calls
          /\ c.roundRequests = b.roundRequests /\ c.daily = b.daily /\ c.asked = b.asked
          /\ SameFields(b, c) /\ c.pending = [b.pending EXCEPT !.due = due]
      BY <2>1 DEF AgentFields, SameFields
    <3>2. a.pending # None => DOMAIN a.pending = {"round", "due", "id"}
      BY DEF AgentOK, NamesOK
    <3> HIDE DEF b, c
    <3> QED BY <2>1, <3>1, <3>2
  <2> HIDE DEF b, c
  <2>5. RoundOf(b) = RoundOf(a)
    BY <2>1 DEF RoundOf
  <2>6. RunsOK(b) /\ FollowsOK(b) /\ PendingOK(b)
    BY <2>1, <2>5 DEF LeftOK, TurnOK, RunsOK, FollowsOK, PendingOK
  <2>7. SteadyOK(b) /\ AgentOK(b)
    BY <2>1, <2>6, ChangedOK DEF SteadyOK, TurnOK, AgentOK, NamesOK
  <2>8. CASE a.pending = None \/ ~a.enabled
    <3>1. a.pending = None
      BY <2>8 DEF LeftOK, TurnOK, PendingOK
    <3> QED BY <2>1, <2>2, <2>7, <3>1 DEF WholeOK, Booked
  <2>9. CASE ~(a.pending = None \/ ~a.enabled)
    <3>1. RoundOf(c) = RoundOf(b) /\ SameRuns(b, c)
      BY <2>4, <2>9, SameCalls DEF RoundOf
    <3>2. PendingOK(c)
      BY <2>1, <2>3, <2>4, <2>5, <2>9, <3>1 DEF LeftOK, TurnOK, PendingOK, SameFields
    <3>3. SteadyOK(c)
      BY <2>4, <2>7, <2>9, <3>1, <3>2, SameSteady
    <3>4. AgentOK(c)
      BY <2>4, <2>7, <2>9, ChangedOK DEF AgentOK, NamesOK
    <3>5. NextOK(Return)
      BY DEF NextOK
    <3> QED BY <2>1, <2>2, <2>4, <2>9, <3>3, <3>4, <3>5, ScheduleWakeWhole DEF SameFields
  <2> QED BY <2>8, <2>9
<1> QED BY <1>1, <1>2

\* What is seen of the same round, or of another.
LEMMA SeenSame ==
  ASSUME NEW a, AgentOK(a), TurnOK(a), NEW r, RoundAt(r) = RoundOf(a)
  PROVE  LET b == [a EXCEPT !.latest = r] IN
         /\ TurnOK(b) /\ SameFields(a, b) /\ b.calls = a.calls /\ b.pending = a.pending
         /\ b.schedules = a.schedules
<1> DEFINE b == [a EXCEPT !.latest = r]
<1>1. /\ b.latest = r /\ b.pending = a.pending /\ b.schedules = a.schedules /\ b.calls = a.calls
      /\ SameFields(a, b)
  BY DEF AgentOK, NamesOK, AgentFields, SameFields
<1> HIDE DEF b
<1>2. RoundOf(b) = RoundOf(a) /\ SameRuns(a, b)
  BY <1>1, SameCalls DEF RoundOf
<1>3. PendingOK(b)
  BY <1>1, <1>2 DEF TurnOK, PendingOK, SameFields
<1>4. TurnOK(b)
  BY <1>1, <1>2, <1>3, SameTurn
<1> QED BY <1>1, <1>4 DEF b

LEMMA SeenMoved ==
  ASSUME NEW a, AgentOK(a), WholeOK(a), NEW r
  PROVE  LET b == [a EXCEPT !.latest = r, !.roundRequests = 0, !.followUps = {}, !.pending = None]
         IN  WholeOK(b) /\ b.lastRun = a.lastRun /\ b.pending = None
<1> DEFINE b == [a EXCEPT !.latest = r, !.roundRequests = 0, !.followUps = {}, !.pending = None]
<1>1. /\ b.followUps = {} /\ b.pending = None /\ b.calls = a.calls
      /\ b.enabled = a.enabled /\ b.control = a.control
      /\ b.runs = a.runs /\ b.lastRun = a.lastRun /\ b.active = a.active
  BY DEF AgentOK, NamesOK, AgentFields
<1> HIDE DEF b
<1>2. RunsOK(b) /\ PendingOK(b) /\ Booked(b) /\ (b.active # None => OneCall(b, b.active.run))
  BY <1>1 DEF WholeOK, SteadyOK, TurnOK, RunsOK, PendingOK, Booked, OneCall
<1>3. FollowsOK(b)
  <2>1. IsFiniteSet({}) /\ Cardinality({}) = 0
    BY FS_EmptySet
  <2>2. Cardinality(a.followUps) \in Nat /\ MaxFollowUps \in Nat
    BY FS_CardinalityType, LimitsAssumption DEF WholeOK, SteadyOK, TurnOK, FollowsOK
  <2> QED BY <1>1, <2>1, <2>2 DEF WholeOK, SteadyOK, TurnOK, FollowsOK
<1> QED BY <1>1, <1>2, <1>3 DEF WholeOK, SteadyOK, TurnOK, b

LEMMA ObserveWhole ==
  ASSUME Clock, NEW a, AgentOK(a), WholeOK(a), NEW r, Seen(r), NEW next, NextOK(next)
  PROVE  WholeOK(Observe(a, r, next)) /\ Observe(a, r, next).lastRun = a.lastRun
<1> DEFINE moved    == Moves(a, r)
           obsolete == IF moved THEN a.followUps \cup (OldWake(a) \ {None}) ELSE {}
           start    == [a EXCEPT !.latest = r, !.roundRequests = 0, !.followUps = {},
                                 !.pending = None]
           seen     == IF moved THEN start ELSE [a EXCEPT !.latest = r]
           trigger  == IF Matters(a, r) THEN RoundAt(r) ELSE NoRound
           waiting  == [at |-> "observed", round |-> trigger, next |-> next]
<1>1. CASE Stale(a, r)
  BY <1>1, WaitsWhole, NextShape DEF Observe
<1>2. CASE ~Stale(a, r)
  <2>1. a.latest = None \/ a.latest <= r
    BY <1>2, SeenTypes DEF Stale, AgentOK, NamesOK
  <2>2. AgentOK(seen)
    <3>1. CASE ~moved
      BY <2>1, <3>1, SameRound DEF Moves
    <3>2. CASE moved
      <4>1. /\ DOMAIN start = AgentFields /\ start.latest = r /\ start.pending = None
            /\ start.schedules = a.schedules /\ start.calls = a.calls
            /\ start.roundRequests = 0 /\ start.daily = a.daily /\ start.asked = a.asked
        BY DEF AgentOK, NamesOK, AgentFields
      <4>2. seen = start
        BY <3>2
      <4>3. RoundAt(r) # RoundOf(a)
        BY <3>2 DEF Moves
      <4> HIDE DEF start, seen
      <4>4. NamesOK(start)
        BY <4>1 DEF AgentOK, NamesOK
      <4> QED BY <2>1, <4>1, <4>2, <4>3, <4>4, NewRound
    <3> QED BY <3>1, <3>2
  <2>3. WholeOK(seen) /\ seen.lastRun = a.lastRun /\ (moved => seen.pending = None)
    <3>1. CASE moved
      BY <3>1, SeenMoved
    <3>2. CASE ~moved
      <4> DEFINE b == [a EXCEPT !.latest = r]
      <4>1. RoundAt(r) = RoundOf(a) /\ seen = b
        BY <3>2 DEF Moves
      <4>2. /\ TurnOK(b) /\ SameFields(a, b) /\ b.calls = a.calls /\ b.pending = a.pending
            /\ b.schedules = a.schedules
        BY <4>1, SeenSame DEF WholeOK, SteadyOK
      <4> HIDE DEF b, seen
      <4>3. WholeOK(b)
        BY <4>2 DEF WholeOK, SteadyOK, Booked, OneCall, SameFields
      <4> QED BY <3>2, <4>1, <4>2, <4>3 DEF SameFields
    <3> QED BY <3>1, <3>2
  <2>4. WholeOK(Triggered(seen, trigger, next)) /\ Triggered(seen, trigger, next).lastRun = a.lastRun
    <3> HIDE DEF seen, trigger
    <3> QED BY <2>2, <2>3, TriggeredWhole
  <2>5. waiting # Return /\ ~IsRun(waiting) /\ CallShape(waiting)
    <3>1. waiting.at = "observed"
      OBVIOUS
    <3> HIDE DEF waiting
    <3> QED BY <3>1 DEF IsRun, CallShape, Return
  <2>6. WholeOK(Cancel(seen, obsolete)) /\ Cancel(seen, obsolete).lastRun = a.lastRun
    <3>1. seen.pending # None => obsolete = {}
      BY <2>3
    <3> HIDE DEF seen, obsolete
    <3> QED BY <2>2, <2>3, <3>1, CancelWhole
  <2>7. /\ WholeOK(Waits(Cancel(seen, obsolete), waiting))
        /\ Waits(Cancel(seen, obsolete), waiting).lastRun = a.lastRun
    <3> HIDE DEF seen, obsolete, waiting
    <3> QED BY <2>2, <2>5, <2>6, CancelOK, WaitsWhole
  <2>8. \/ Observe(a, r, next) = Triggered(seen, trigger, next)
        \/ Observe(a, r, next) = Waits(Cancel(seen, obsolete), waiting)
    BY <1>2 DEF Observe
  <2> HIDE DEF seen, trigger, obsolete, waiting
  <2> QED BY <2>4, <2>7, <2>8
<1> QED BY <1>1, <1>2

LEMMA SwitchedWhole ==
  ASSUME NEW a, AgentOK(a), WholeOK(a), NEW on, NEW r, Seen(r)
  PROVE  WholeOK(Switched(a, on, r)) /\ Switched(a, on, r).lastRun = a.lastRun
<1> DEFINE b   == [a EXCEPT !.enabled = on, !.control = @ + 1, !.pending = None,
                            !.active = None, !.followUps = {}]
           ids == OldWake(a) \cup a.followUps
           c   == [at |-> "switched", control |-> a.control + 1, seen |-> r]
<1>1. /\ DOMAIN b = AgentFields /\ b.latest = a.latest /\ b.pending = None
      /\ b.schedules = a.schedules /\ b.calls = a.calls
      /\ b.roundRequests = a.roundRequests /\ b.daily = a.daily /\ b.asked = a.asked
      /\ b.active = None /\ b.followUps = {} /\ b.runs = a.runs /\ b.lastRun = a.lastRun
  BY DEF AgentOK, NamesOK, AgentFields
<1>2. c # Return /\ ~IsRun(c) /\ CallShape(c)
  <2>1. c.at = "switched"
    OBVIOUS
  <2> HIDE DEF c
  <2> QED BY <2>1 DEF IsRun, CallShape, Return
<1>3. Switched(a, on, r) = Waits(Cancel(b, ids), c)
  BY DEF Switched
<1> HIDE DEF b, ids, c
<1>4. AgentOK(b)
  BY <1>1, ChangedOK
<1>5. RunsOK(b) /\ PendingOK(b) /\ Booked(b) /\ FollowsOK(b)
  BY <1>1, FS_EmptySet, LimitsAssumption
     DEF WholeOK, SteadyOK, TurnOK, RunsOK, PendingOK, Booked, FollowsOK
<1>6. WholeOK(b)
  BY <1>1, <1>5 DEF WholeOK, SteadyOK, TurnOK
<1>7. WholeOK(Cancel(b, ids)) /\ Cancel(b, ids).lastRun = a.lastRun /\ AgentOK(Cancel(b, ids))
  BY <1>1, <1>4, <1>6, CancelWhole, CancelOK
<1> QED BY <1>2, <1>3, <1>7, WaitsWhole

LEMMA LookAgainWhole ==
  ASSUME Clock, NEW a, AgentOK(a), WholeOK(a), NEW c, Seen(c.seen)
  PROVE  WholeOK(LookAgain(a, c)) /\ LookAgain(a, c).lastRun = a.lastRun
<1>1. NextOK([at |-> "enabling", control |-> c.control])
  BY DEF NextOK
<1> QED BY <1>1, ObserveWhole DEF LookAgain

LEMMA EnablingWhole ==
  ASSUME Clock, NEW a, AgentOK(a), WholeOK(a), NEW c
  PROVE  WholeOK(Enabling(a, c)) /\ Enabling(a, c).lastRun = a.lastRun
<1>1. NextOK(Return)
  BY DEF NextOK
<1> QED BY <1>1, EnqueueWhole DEF Enabling

\* A call that goes on is no longer there; if it was the call of the run that is
\* active, that run has none.
LEMMA GoesOnFields ==
  ASSUME NEW a, AgentOK(a), NEW c
  PROVE  LET b == GoesOn(a, c) IN
         /\ SameFields(a, b) /\ b.latest = a.latest /\ b.pending = a.pending
         /\ b.schedules = a.schedules
         /\ DOMAIN b.calls \subseteq DOMAIN a.calls
         /\ \A d \in DOMAIN a.calls : d # c => d \in DOMAIN b.calls /\ b.calls[d] = a.calls[d]
         /\ c \in DOMAIN a.calls /\ a.calls[c] = 1 => c \notin DOMAIN b.calls
<1> DEFINE b == [a EXCEPT !.calls = BagOps!BagRemove(a.calls, c)]
<1>1. GoesOn(a, c) = b
  BY DEF GoesOn
<1>2. LET B == BagOps!BagRemove(a.calls, c) IN
      /\ DOMAIN B \subseteq DOMAIN a.calls
      /\ \A d \in DOMAIN a.calls : d # c => d \in DOMAIN B /\ B[d] = a.calls[d]
      /\ c \in DOMAIN a.calls /\ a.calls[c] = 1 => c \notin DOMAIN B
  BY DEF BagOps!BagRemove
<1>3. /\ SameFields(a, b) /\ b.latest = a.latest /\ b.pending = a.pending
      /\ b.schedules = a.schedules /\ b.calls = BagOps!BagRemove(a.calls, c)
  BY DEF AgentOK, NamesOK, AgentFields, SameFields
<1> HIDE DEF b
<1> QED BY <1>1, <1>2, <1>3

LEMMA GoesOnTurn ==
  ASSUME NEW a, AgentOK(a), WholeOK(a), NEW c \in DOMAIN a.calls
  PROVE  /\ TurnOK(GoesOn(a, c)) /\ Booked(GoesOn(a, c)) /\ SameFields(a, GoesOn(a, c))
         /\ RoundOf(GoesOn(a, c)) = RoundOf(a)
         /\ a.active # None /\ (IsRun(c) => c.run # a.active.run) => OneCall(GoesOn(a, c), a.active.run)
         /\ a.active # None /\ IsRun(c) /\ c.run = a.active.run => ~HasCall(GoesOn(a, c), c.run)
<1> DEFINE b == GoesOn(a, c)
<1>1. /\ SameFields(a, b) /\ b.latest = a.latest /\ b.pending = a.pending
      /\ b.schedules = a.schedules
      /\ DOMAIN b.calls \subseteq DOMAIN a.calls
      /\ \A d \in DOMAIN a.calls : d # c => d \in DOMAIN b.calls /\ b.calls[d] = a.calls[d]
      /\ a.calls[c] = 1 => c \notin DOMAIN b.calls
  BY GoesOnFields
<1> HIDE DEF b
<1>2. RoundOf(b) = RoundOf(a)
  BY <1>1 DEF RoundOf
<1>3. RunsOK(b) /\ PendingOK(b) /\ FollowsOK(b) /\ Booked(b)
  BY <1>1, <1>2 DEF WholeOK, SteadyOK, TurnOK, RunsOK, PendingOK, FollowsOK, Booked, SameFields
<1>4. ASSUME a.active # None
      PROVE  \E d \in DOMAIN a.calls :
               /\ IsRun(d) /\ d.run = a.active.run /\ a.calls[d] = 1
               /\ \A e \in DOMAIN a.calls : IsRun(e) /\ e.run = a.active.run => e = d
  BY <1>4 DEF WholeOK, SteadyOK, OneCall
<1>5. ASSUME a.active # None, IsRun(c) => c.run # a.active.run PROVE OneCall(b, a.active.run)
  BY <1>1, <1>4, <1>5 DEF OneCall
<1>6. ASSUME a.active # None, IsRun(c), c.run = a.active.run PROVE ~HasCall(b, c.run)
  BY <1>1, <1>4, <1>6 DEF HasCall
<1> QED BY <1>1, <1>2, <1>3, <1>5, <1>6 DEF TurnOK, b

LEMMA GoesOnWhole ==
  ASSUME NEW a, AgentOK(a), WholeOK(a), NEW c \in DOMAIN a.calls
  PROVE  /\ GoesOn(a, c).lastRun = a.lastRun
         /\ ~IsRun(c) => WholeOK(GoesOn(a, c))
         /\ IsRun(c) => LeftOK(GoesOn(a, c), c.run)
BY GoesOnTurn DEF WholeOK, SteadyOK, LeftOK, SameFields

-----------------------------------------------------------------------------
\* A run goes on.

LEMMA LeftSame ==
  ASSUME NEW a, NEW run, LeftOK(a, run), NEW b, SameFields(a, b), b.calls = a.calls,
         b.pending = a.pending, b.schedules = a.schedules, RoundOf(b) = RoundOf(a)
  PROVE  LeftOK(b, run)
<1>1. SameRuns(a, b)
  BY SameCalls
<1>2. PendingOK(b) /\ Booked(b)
  BY DEF LeftOK, TurnOK, PendingOK, Booked, SameFields
<1>3. TurnOK(b)
  BY <1>1, <1>2, SameTurn DEF LeftOK
<1> QED BY <1>2, <1>3 DEF LeftOK, HasCall, OneCall, SameFields

LEMMA StepWhole ==
  ASSUME Clock, NEW a, AgentOK(a), NEW run \in Nat, LeftOK(a, run),
         NEW r, Seen(r), RoundAt(r) # NoRound, NEW step
  PROVE  WholeOK(Step(a, run, r, step)) /\ Step(a, run, r, step).lastRun = a.lastRun
<1> DEFINE c == [at |-> "thinking", run |-> run, snap |-> r, step |-> step]
           b == Reserved(a)
<1>1. ASSUME Current(a, run, r), Usage(a).requests < DailyLimit, a.roundRequests < RoundLimit
      PROVE  WholeOK(Waits(b, c)) /\ Waits(b, c).lastRun = a.lastRun
  <2>1. a.latest # None /\ RoundOf(a) # NoRound
    BY <1>1, SeenTypes DEF Current
  <2>2. AgentOK(b)
    BY <1>1, <2>1, ReservedOK
  <2>3. /\ SameFields(a, b) /\ b.calls = a.calls /\ b.pending = a.pending
        /\ b.schedules = a.schedules /\ b.latest = a.latest
    BY DEF Reserved, AgentOK, NamesOK, AgentFields, SameFields
  <2>4. c.at = "thinking" /\ c.run = run /\ DOMAIN c = {"at", "run", "snap", "step"}
    OBVIOUS
  <2> HIDE DEF b, c
  <2>5. IsRun(c) /\ CallShape(c)
    BY <2>4 DEF IsRun, CallShape
  <2>6. LeftOK(b, run)
    BY <2>3, LeftSame DEF RoundOf
  <2>7. b.active # None /\ b.active.run = run
    BY <1>1, <2>3 DEF Current, SameFields
  <2> QED BY <2>2, <2>3, <2>4, <2>5, <2>6, <2>7, WaitsInRun DEF LeftOK, SameFields
<1>2. WholeOK(Finish(a, run)) /\ Finish(a, run).lastRun = a.lastRun
  BY FinishWhole
<1> QED BY <1>1, <1>2 DEF Step

LEMMA LookedWhole ==
  ASSUME Clock, NEW a, AgentOK(a), NEW c, c.run \in Nat, LeftOK(a, c.run), c.round # NoRound,
         NEW r, Seen(r)
  PROVE  WholeOK(Looked(a, c, r)) /\ Looked(a, c, r).lastRun = a.lastRun
<1> DEFINE b == [a EXCEPT !.latest = r]
<1>1. CASE RoundAt(r) = c.round /\ RoundOf(a) = c.round /\ a.latest <= r
  <2>1. AgentOK(b)
    BY <1>1, SameRound
  <2>2. /\ TurnOK(b) /\ SameFields(a, b) /\ b.calls = a.calls /\ b.pending = a.pending
        /\ b.schedules = a.schedules
    BY <1>1, SeenSame DEF LeftOK
  <2>3. b.latest = r
    BY DEF AgentOK, NamesOK, AgentFields
  <2>4. Looked(a, c, r) \in {Step(b, c.run, r, 1), Finish(a, c.run)}
    BY DEF Looked
  <2> HIDE DEF b
  <2>5. LeftOK(b, c.run)
    BY <1>1, <2>2, <2>3, LeftSame DEF RoundOf
  <2> QED BY <1>1, <2>1, <2>2, <2>4, <2>5, StepWhole, FinishWhole DEF SameFields
<1>2. CASE ~(RoundAt(r) = c.round /\ RoundOf(a) = c.round /\ a.latest <= r)
  BY <1>2, FinishWhole DEF Looked
<1> QED BY <1>1, <1>2

LEMMA ThoughtWhole ==
  ASSUME Clock, NEW a, AgentOK(a), NEW c, c.run \in Nat, LeftOK(a, c.run)
  PROVE  WholeOK(Thought(a, c)) /\ Thought(a, c).lastRun = a.lastRun
<1> DEFINE d == [at |-> "checking", run |-> c.run, snap |-> c.snap, step |-> c.step,
                 from |-> revision]
<1>1. d.at = "checking" /\ d.run = c.run /\ DOMAIN d = {"at", "run", "snap", "step", "from"}
  OBVIOUS
<1>2. Thought(a, c) = IF Current(a, c.run, c.snap) /\ c.step < RequestsPerRun
                      THEN Waits(a, d) ELSE Finish(a, c.run)
  BY DEF Thought
<1> HIDE DEF d
<1>3. IsRun(d) /\ CallShape(d)
  BY <1>1 DEF IsRun, CallShape
<1>4. ASSUME Current(a, c.run, c.snap)
      PROVE  WholeOK(Waits(a, d)) /\ Waits(a, d).lastRun = a.lastRun
  BY <1>1, <1>3, <1>4, WaitsInRun DEF LeftOK, Current
<1> QED BY <1>2, <1>4, FinishWhole

LEMMA AsksFollowUpWhole ==
  ASSUME Clock, NEW a, AgentOK(a), NEW c, c.run \in Nat, LeftOK(a, c.run),
         Seen(c.snap), RoundAt(c.snap) # NoRound,
         a.control = agent.control, a.active # None, a.active.run = c.run,
         Cardinality(a.followUps) < MaxFollowUps
  PROVE  WholeOK(AsksFollowUp(a, c)) /\ AsksFollowUp(a, c).lastRun = a.lastRun
<1> DEFINE f == FollowUp(c)
           b == [a EXCEPT !.schedules = @ \cup {f}]
           d == [at |-> "following", run |-> c.run, snap |-> c.snap, step |-> c.step, id |-> f]
<1>1. f.does = "followUp" /\ f.round = RoundAt(c.snap) /\ f.control = agent.control
  BY DEF FollowUp
<1>2. /\ d.at = "following" /\ d.run = c.run /\ d.snap = c.snap /\ d.id = f
      /\ DOMAIN d = {"at", "run", "snap", "step", "id"}
  OBVIOUS
<1>3. AsksFollowUp(a, c) = Waits(b, d)
  BY DEF AsksFollowUp
<1>4. /\ DOMAIN b = AgentFields /\ b.latest = a.latest /\ b.pending = a.pending
      /\ b.schedules = a.schedules \cup {f} /\ b.calls = a.calls
      /\ b.roundRequests = a.roundRequests /\ b.daily = a.daily /\ b.asked = a.asked
      /\ SameFields(a, b)
  BY DEF AgentOK, NamesOK, AgentFields, SameFields
<1> HIDE DEF f, b, d
<1>5. AgentOK(b)
  BY <1>1, <1>4, ChangedOK DEF AgentOK, NamesOK
<1>6. RoundOf(b) = RoundOf(a) /\ SameRuns(a, b)
  BY <1>4, SameCalls DEF RoundOf
<1>7. PendingOK(b) /\ Booked(b)
  BY <1>4, <1>6 DEF LeftOK, TurnOK, PendingOK, Booked, SameFields
<1>8. TurnOK(b)
  BY <1>4, <1>6, <1>7, SameTurn DEF LeftOK
<1>9. ~HasCall(b, c.run)
  BY <1>4 DEF LeftOK, HasCall
<1>10. IsRun(d) /\ CallShape(d)
  BY <1>1, <1>2 DEF IsRun, CallShape
<1>11. b.active # None /\ b.active.run = c.run /\ b.control = a.control
       /\ b.followUps = a.followUps /\ b.lastRun = a.lastRun
  BY <1>4 DEF SameFields
<1> QED BY <1>1, <1>2, <1>3, <1>5, <1>7, <1>8, <1>9, <1>10, <1>11, WaitsInRun

\* A follow-up that is kept is of the round of the run that asked for it.
LEMMA FollowingWhole ==
  ASSUME Clock, NEW a, AgentOK(a), NEW c, c.run \in Nat, LeftOK(a, c.run),
         Seen(c.snap), RoundAt(c.snap) # NoRound,
         c.id.does = "followUp", c.id.round = RoundAt(c.snap),
         a.active # None /\ a.active.run = c.run =>
           c.id.control = a.control /\ Cardinality(a.followUps) < MaxFollowUps
  PROVE  WholeOK(Following(a, c)) /\ Following(a, c).lastRun = a.lastRun
<1>1. CASE Current(a, c.run, c.snap)
  <2> DEFINE b == [a EXCEPT !.followUps = @ \cup {c.id}]
  <2>1. Following(a, c) = Step(b, c.run, c.snap, c.step + 1)
    BY <1>1 DEF Following
  <2>2. /\ DOMAIN b = AgentFields /\ b.latest = a.latest /\ b.pending = a.pending
        /\ b.schedules = a.schedules /\ b.calls = a.calls
        /\ b.roundRequests = a.roundRequests /\ b.daily = a.daily /\ b.asked = a.asked
        /\ b.enabled = a.enabled /\ b.control = a.control /\ b.runs = a.runs
        /\ b.lastRun = a.lastRun /\ b.active = a.active
        /\ b.followUps = a.followUps \cup {c.id}
    BY DEF AgentOK, NamesOK, AgentFields
  <2> HIDE DEF b
  <2>3. AgentOK(b)
    BY <2>2, ChangedOK DEF AgentOK, NamesOK
  <2>4. RoundOf(b) = RoundOf(a)
    BY <2>2 DEF RoundOf
  <2>5. RunsOK(b) /\ PendingOK(b) /\ Booked(b)
    BY <2>2, <2>4 DEF LeftOK, TurnOK, RunsOK, PendingOK, Booked
  <2>6. /\ a.active # None /\ a.active.run = c.run /\ a.enabled
        /\ RoundOf(a) = RoundAt(c.snap)
    BY <1>1 DEF Current
  <2>7. ~HasCall(a, c.run)
    BY <2>6 DEF LeftOK
  <2>8. FollowsOK(b)
    <3>1. /\ IsFiniteSet(a.followUps) /\ Cardinality(a.followUps) \in Nat
          /\ Cardinality(a.followUps) < MaxFollowUps /\ MaxFollowUps \in Nat
      BY <2>6, FS_CardinalityType, LimitsAssumption DEF LeftOK, TurnOK, FollowsOK
    <3> DEFINE F == a.followUps \cup {c.id}
    <3>2. /\ IsFiniteSet(F)
          /\ Cardinality(F) = Cardinality(a.followUps) \/ Cardinality(F) = Cardinality(a.followUps) + 1
      BY <3>1, FS_AddElement
    <3>3. Cardinality(F) <= MaxFollowUps
      BY <3>1, <3>2
    <3>4. \A f \in F :
            f.does = "followUp" /\ f.round = RoundOf(b) /\ b.enabled /\ f.control = b.control
      BY <2>2, <2>4, <2>6 DEF LeftOK, TurnOK, FollowsOK
    <3>5. \A d \in DOMAIN b.calls : ~(d.at = "following" /\ b.active # None /\ b.active.run = d.run)
      BY <2>2, <2>6, <2>7 DEF HasCall, IsRun
    <3> QED BY <2>2, <3>2, <3>3, <3>4, <3>5 DEF FollowsOK
  <2>9. LeftOK(b, c.run)
    BY <2>2, <2>5, <2>6, <2>7, <2>8 DEF LeftOK, TurnOK, HasCall
  <2> QED BY <2>1, <2>2, <2>3, <2>9, StepWhole
<1>2. CASE ~Current(a, c.run, c.snap)
  <2> DEFINE b == Cancel(a, {c.id})
  <2>1. Following(a, c) = Step(b, c.run, c.snap, c.step + 1)
    BY <1>2 DEF Following
  <2>2. /\ SameFields(a, b) /\ SameRuns(a, b) /\ RoundOf(b) = RoundOf(a)
        /\ b.pending = a.pending /\ b.calls = a.calls /\ b.schedules = a.schedules \ {c.id}
    BY CancelFields
  <2>3. AgentOK(b)
    BY CancelOK
  <2> HIDE DEF b
  <2>4. Wake(a.pending, a.control) # c.id
    BY DEF Wake
  <2>5. PendingOK(b) /\ Booked(b)
    BY <2>2, <2>4 DEF LeftOK, TurnOK, PendingOK, Booked, SameFields
  <2>6. TurnOK(b)
    BY <2>2, <2>5, SameTurn DEF LeftOK
  <2>7. LeftOK(b, c.run)
    BY <2>2, <2>5, <2>6 DEF LeftOK, HasCall, OneCall, SameFields
  <2> QED BY <2>1, <2>2, <2>3, <2>7, StepWhole DEF SameFields
<1> QED BY <1>1, <1>2

-----------------------------------------------------------------------------
\* Schedules that fire, and a restart.

\* No call is of a run that has yet to begin.
LEMMA RunTurnWhole ==
  ASSUME Clock, NEW a, AgentOK(a), TurnOK(a), NEW r
  PROVE  WholeOK(RunTurn(a, r)) /\ RunTurn(a, r).lastRun = now
<1> DEFINE b == [a EXCEPT !.pending = None, !.lastRun = now, !.runs = @ + 1,
                          !.active = [run |-> a.runs + 1, expires |-> now + MaxRun]]
           c == [at |-> "looking", run |-> a.runs + 1, round |-> r, from |-> revision]
<1>1. /\ DOMAIN b = AgentFields /\ b.latest = a.latest /\ b.pending = None
      /\ b.schedules = a.schedules /\ b.calls = a.calls
      /\ b.roundRequests = a.roundRequests /\ b.daily = a.daily /\ b.asked = a.asked
      /\ b.enabled = a.enabled /\ b.control = a.control /\ b.followUps = a.followUps
      /\ b.lastRun = now /\ b.runs = a.runs + 1
      /\ b.active = [run |-> a.runs + 1, expires |-> now + MaxRun]
  BY DEF AgentOK, NamesOK, AgentFields
<1>2. b.active.run = a.runs + 1 /\ b.active.expires = now + MaxRun /\ b.active # None
  <2>1. b.active.run = a.runs + 1 /\ b.active.expires = now + MaxRun
    BY <1>1
  <2>2. b.active # None
    <3>1. a.runs + 1 \in Nat /\ now + MaxRun \in Nat
      BY LimitsAssumption DEF TurnOK, RunsOK, Clock
    <3> QED BY <1>1, <3>1, LimitsAssumption
  <2> QED BY <2>1, <2>2
<1>3. c.at = "looking" /\ c.run = a.runs + 1 /\ DOMAIN c = {"at", "run", "round", "from"}
  OBVIOUS
<1>4. RunTurn(a, r) = Waits(b, c)
  BY DEF RunTurn
<1> HIDE DEF b, c
<1>5. AgentOK(b) /\ RoundOf(b) = RoundOf(a)
  BY <1>1, ChangedOK DEF RoundOf
<1>6. a.runs \in Nat /\ now \in Int /\ now + MaxRun \in Int
  BY LimitsAssumption DEF TurnOK, RunsOK, Clock
<1>7. RunsOK(b)
  BY <1>1, <1>2, <1>6 DEF TurnOK, RunsOK, CallShape
<1>8. \A d \in DOMAIN b.calls : IsRun(d) => d.run # a.runs + 1
  BY <1>1, <1>6 DEF TurnOK, RunsOK, CallShape
<1>9. FollowsOK(b)
  BY <1>1, <1>2, <1>5, <1>8 DEF TurnOK, FollowsOK, IsRun
<1>10. PendingOK(b) /\ Booked(b) /\ TurnOK(b) /\ ~HasCall(b, c.run)
  BY <1>1, <1>3, <1>7, <1>8, <1>9 DEF TurnOK, PendingOK, Booked, HasCall
<1>11. IsRun(c) /\ CallShape(c)
  BY <1>3, <1>6 DEF IsRun, CallShape
<1> QED BY <1>1, <1>2, <1>3, <1>4, <1>5, <1>10, <1>11, WaitsInRun

\* A wake-up that is the one of what is pending begins a run, unless one is
\* active; a run that begins is due.
LEMMA WokenWhole ==
  ASSUME Clock, NEW a, AgentOK(a), SteadyOK(a), NEW wake, wake.due <= now,
         a.pending # None =>
           \/ Wake(a.pending, a.control) \in a.schedules \cup {wake}
           \/ a.active # None
  PROVE  /\ WholeOK(Woken(a, wake))
         /\ Woken(a, wake).lastRun # a.lastRun => Woken(a, wake).lastRun >= a.lastRun + Cooldown
<1> DEFINE begins == /\ a.pending # None /\ a.pending.round = wake.round
                     /\ a.pending.due = wake.due /\ RoundOf(a) = wake.round /\ a.enabled
                     /\ a.control = wake.control
                     /\ a.active = None \/ a.active.expires <= now
<1>1. CASE begins
  <2>1. Woken(a, wake) = RunTurn(a, wake.round)
    BY <1>1 DEF Woken
  <2>2. WholeOK(RunTurn(a, wake.round)) /\ RunTurn(a, wake.round).lastRun = now
    BY RunTurnWhole DEF SteadyOK
  <2>3. /\ a.pending.due \in Int /\ a.pending.due >= a.lastRun + Cooldown
        /\ a.pending.due <= now /\ a.lastRun \in Int
    BY <1>1 DEF SteadyOK, TurnOK, PendingOK, RunsOK
  <2>4. now >= a.lastRun + Cooldown
    BY <2>3, LimitsAssumption DEF Clock
  <2> QED BY <2>1, <2>2, <2>4
<1>2. CASE ~begins
  <2>1. Woken(a, wake) = a
    BY <1>2 DEF Woken
  <2>2. Booked(a)
    <3>1. ASSUME a.pending # None, a.active = None, Wake(a.pending, a.control) = wake PROVE FALSE
      <4>1. /\ a.pending.round = wake.round /\ a.pending.due = wake.due
            /\ a.control = wake.control
        BY <3>1 DEF Wake
      <4>2. RoundOf(a) = wake.round /\ a.enabled
        BY <3>1, <4>1 DEF SteadyOK, TurnOK, PendingOK
      <4> QED BY <1>2, <3>1, <4>1, <4>2
    <3> QED BY <3>1 DEF Booked
  <2> QED BY <2>1, <2>2 DEF WholeOK
<1> QED BY <1>1, <1>2

LEMMA FollowedUpWhole ==
  ASSUME NEW a, AgentOK(a), WholeOK(a), NEW f
  PROVE  WholeOK(FollowedUp(a, f)) /\ FollowedUp(a, f).lastRun = a.lastRun
<1> DEFINE b == [a EXCEPT !.followUps = @ \ {f}]
           c == [at |-> "refreshing", round |-> f.round, control |-> a.control,
                 from |-> revision]
<1>1. /\ DOMAIN b = AgentFields /\ b.latest = a.latest /\ b.pending = a.pending
      /\ b.schedules = a.schedules /\ b.calls = a.calls
      /\ b.roundRequests = a.roundRequests /\ b.daily = a.daily /\ b.asked = a.asked
      /\ b.enabled = a.enabled /\ b.control = a.control /\ b.runs = a.runs
      /\ b.lastRun = a.lastRun /\ b.active = a.active /\ b.followUps = a.followUps \ {f}
  BY DEF AgentOK, NamesOK, AgentFields
<1>2. c # Return /\ ~IsRun(c) /\ CallShape(c)
  <2>1. c.at = "refreshing"
    OBVIOUS
  <2> HIDE DEF c
  <2> QED BY <2>1 DEF IsRun, CallShape, Return
<1>3. FollowedUp(a, f) \in {b, Waits(b, c)}
  BY DEF FollowedUp
<1> HIDE DEF b, c
<1>4. AgentOK(b) /\ RoundOf(b) = RoundOf(a)
  BY <1>1, ChangedOK DEF AgentOK, NamesOK, RoundOf
<1>5. RunsOK(b) /\ PendingOK(b) /\ Booked(b) /\ (b.active # None => OneCall(b, b.active.run))
  BY <1>1, <1>4 DEF WholeOK, SteadyOK, TurnOK, RunsOK, PendingOK, Booked, OneCall
<1>6. FollowsOK(b)
  <2> DEFINE F == a.followUps \ {f}
  <2>1. IsFiniteSet(a.followUps) /\ F \subseteq a.followUps
    BY DEF WholeOK, SteadyOK, TurnOK, FollowsOK
  <2>2. IsFiniteSet(F) /\ Cardinality(F) <= Cardinality(a.followUps)
    BY <2>1, FS_Subset
  <2>3. Cardinality(F) \in Nat /\ Cardinality(a.followUps) \in Nat /\ MaxFollowUps \in Nat
    BY <2>1, <2>2, FS_CardinalityType, LimitsAssumption
  <2>4. b.followUps = F /\ F \subseteq a.followUps
    BY <1>1
  <2> HIDE DEF F
  <2> QED BY <1>1, <1>4, <2>2, <2>3, <2>4 DEF WholeOK, SteadyOK, TurnOK, FollowsOK
<1>7. WholeOK(b)
  BY <1>5, <1>6 DEF WholeOK, SteadyOK, TurnOK
<1> QED BY <1>1, <1>2, <1>3, <1>4, <1>7, WaitsWhole

LEMMA RefreshedWhole ==
  ASSUME Clock, NEW a, AgentOK(a), WholeOK(a), NEW c, c.round # NoRound, NEW r, Seen(r)
  PROVE  WholeOK(Refreshed(a, c, r)) /\ Refreshed(a, c, r).lastRun = a.lastRun
<1>1. NextOK(Return) /\ NextOK([at |-> "refreshed", round |-> c.round])
  BY DEF NextOK
<1> QED BY <1>1, ObserveWhole DEF Refreshed

\* A restart ends the runs, and schedules what is pending again.
LEMMA RestartedWhole ==
  ASSUME NEW a, AgentOK(a), WholeOK(a)
  PROVE  WholeOK(Restarted(a)) /\ Restarted(a).lastRun = a.lastRun
<1> DEFINE b == [a EXCEPT !.active = None, !.calls = EmptyBag]
<1>1. /\ DOMAIN b = AgentFields /\ b.latest = a.latest /\ b.pending = a.pending
      /\ b.schedules = a.schedules /\ b.calls = EmptyBag
      /\ b.roundRequests = a.roundRequests /\ b.daily = a.daily /\ b.asked = a.asked
      /\ b.enabled = a.enabled /\ b.control = a.control /\ b.runs = a.runs
      /\ b.lastRun = a.lastRun /\ b.active = None /\ b.followUps = a.followUps
  BY DEF AgentOK, NamesOK, AgentFields
<1>2. DOMAIN EmptyBag = {}
  BY DEF EmptyBag, SetToBag
<1>3. Restarted(a) = ScheduleWake(b, Return) /\ NextOK(Return)
  BY DEF Restarted, NextOK
<1> HIDE DEF b
<1>4. NamesOK(b)
  BY <1>1, <1>2 DEF AgentOK, NamesOK
<1>5. AgentOK(b) /\ RoundOf(b) = RoundOf(a)
  BY <1>1, <1>4, SameBudget DEF RoundOf
<1>6. RunsOK(b) /\ PendingOK(b) /\ FollowsOK(b)
  BY <1>1, <1>2, <1>5 DEF WholeOK, SteadyOK, TurnOK, RunsOK, PendingOK, FollowsOK
<1>7. SteadyOK(b)
  BY <1>1, <1>6 DEF SteadyOK, TurnOK
<1> QED BY <1>1, <1>3, <1>5, <1>7, ScheduleWakeWhole

-----------------------------------------------------------------------------
\* The steps.

\* The agent's record is in order, and a step from it, if it begins a run, begins
\* it in time.
RunsInv == WholeOK(agent)
InTime(b) == b.lastRun # agent.lastRun => b.lastRun >= agent.lastRun + Cooldown

LEMMA WaitingWhole ==
  ASSUME DirectorInv, RunsInv, NEW at, NEW c \in Waiting(at)
  PROVE  /\ c \in DOMAIN agent.calls /\ c.at = at /\ CallShape(c) /\ CallOK(c)
         /\ AgentOK(GoesOn(agent, c)) /\ GoesOn(agent, c).lastRun = agent.lastRun
         /\ ~IsRun(c) => WholeOK(GoesOn(agent, c))
         /\ IsRun(c) => c.run \in Nat /\ LeftOK(GoesOn(agent, c), c.run)
<1>1. c \in DOMAIN agent.calls
  BY DEF Waiting, BagToSet
<1>2. c.at = at /\ CallOK(c) /\ AgentOK(GoesOn(agent, c)) /\ AgentOK(agent)
  BY WaitingOK DEF DirectorInv
<1>3. CallShape(c)
  BY <1>1 DEF RunsInv, WholeOK, SteadyOK, TurnOK, RunsOK
<1>4. IsRun(c) => c.run \in Nat
  BY <1>3 DEF CallShape
<1> QED BY <1>1, <1>2, <1>3, <1>4, GoesOnWhole DEF RunsInv

THEOREM RunsStart == Init => RunsInv
<1> SUFFICES ASSUME Init PROVE RunsInv
  OBVIOUS
<1>1. DOMAIN EmptyBag = {}
  BY DEF EmptyBag, SetToBag
<1>2. /\ agent.runs = 0 /\ agent.lastRun = -Cooldown /\ agent.active = None
      /\ agent.pending = None /\ agent.followUps = {} /\ agent.calls = EmptyBag
  BY DEF Init
<1>3. -Cooldown \in Int /\ 0 <= MaxFollowUps
  BY LimitsAssumption
<1>4. RunsOK(agent) /\ PendingOK(agent) /\ Booked(agent)
  BY <1>1, <1>2, <1>3 DEF RunsOK, PendingOK, Booked
<1>5. FollowsOK(agent)
  BY <1>1, <1>2, <1>3, FS_EmptySet DEF FollowsOK
<1> QED BY <1>2, <1>4, <1>5 DEF RunsInv, WholeOK, SteadyOK, TurnOK

THEOREM RunsStep ==
  DirectorInv /\ RunsInv /\ [Next]_directorVars => RunsInv' /\ InTime(agent')
<1> SUFFICES ASSUME DirectorInv, RunsInv, [Next]_directorVars
             PROVE  WholeOK(agent') /\ InTime(agent')
  BY DEF RunsInv, WholeOK, SteadyOK, TurnOK, RunsOK, PendingOK, FollowsOK, Booked, OneCall,
         IsRun, CallShape, RoundOf, RoundAt, Wake
<1>a. Clock /\ AgentOK(agent) /\ WholeOK(agent)
  BY DEF DirectorInv, RunsInv
<1>b. ASSUME NEW b, WholeOK(b), b.lastRun = agent.lastRun, Does(b)
      PROVE  WholeOK(agent') /\ InTime(agent')
  BY <1>b DEF Does, InTime
<1>c. NextOK(Return)
  BY DEF NextOK
<1>1. CASE UNCHANGED agent
  BY <1>1, <1>a DEF InTime
<1>3. CASE Notice
  BY <1>3, <1>a, <1>b, <1>c, ObserveWhole DEF Notice, Seen
<1>4. CASE SetEnabled
  BY <1>4, <1>a, <1>b, SwitchedWhole DEF SetEnabled, Seen
<1>5. CASE FireWake
  <2>1. PICK s \in Fires("wake") : Does(Woken(Cancel(agent, {s}), s))
    BY <1>5 DEF FireWake
  <2> DEFINE a == Cancel(agent, {s})
  <2>2. /\ AgentOK(a) /\ SteadyOK(a) /\ a.lastRun = agent.lastRun
        /\ SameFields(agent, a) /\ a.pending = agent.pending
        /\ a.schedules = agent.schedules \ {s} /\ s.due <= now
    BY <1>a, CancelOK, CancelSteady, CancelFields DEF WholeOK, Fires
  <2> HIDE DEF a
  <2>3. a.pending # None =>
          Wake(a.pending, a.control) \in a.schedules \cup {s} \/ a.active # None
    BY <1>a, <2>2 DEF WholeOK, Booked, SameFields
  <2>4. /\ WholeOK(Woken(a, s))
        /\ Woken(a, s).lastRun # a.lastRun => Woken(a, s).lastRun >= a.lastRun + Cooldown
    BY <1>a, <2>2, <2>3, WokenWhole
  <2> QED BY <2>1, <2>2, <2>4 DEF Does, InTime, a
<1>6. CASE FireFollowUp
  <2>1. PICK s \in Fires("followUp") : Does(FollowedUp(Cancel(agent, {s}), s))
    BY <1>6 DEF FireFollowUp
  <2>2. Wake(agent.pending, agent.control) \notin {s}
    BY DEF Fires, Wake
  <2>3. /\ WholeOK(Cancel(agent, {s})) /\ AgentOK(Cancel(agent, {s}))
        /\ Cancel(agent, {s}).lastRun = agent.lastRun
    BY <1>a, <2>2, CancelWhole, CancelOK
  <2> QED BY <1>b, <2>1, <2>3, FollowedUpWhole
<1>7. CASE Resume
  <2>1. ASSUME NEW c \in Waiting("scheduled"), Does(Scheduled(GoesOn(agent, c), c))
        PROVE  WholeOK(agent') /\ InTime(agent')
    <3>1. /\ AgentOK(GoesOn(agent, c)) /\ GoesOn(agent, c).lastRun = agent.lastRun
          /\ WholeOK(GoesOn(agent, c))
      BY WaitingWhole DEF IsRun
    <3>2. NextOK(c.next) /\ c.wake = Wake(c.wake, c.wake.control)
      BY WaitingWhole DEF CallOK, NextOK, Return, CallShape
    <3> QED BY <1>a, <1>b, <2>1, <3>1, <3>2, ScheduledWhole
  <2>2. ASSUME NEW c \in Waiting("observed"),
               Does(Triggered(GoesOn(agent, c), c.round, c.next))
        PROVE  WholeOK(agent') /\ InTime(agent')
    <3>1. /\ AgentOK(GoesOn(agent, c)) /\ GoesOn(agent, c).lastRun = agent.lastRun
          /\ WholeOK(GoesOn(agent, c))
      BY WaitingWhole DEF IsRun
    <3>2. NextOK(c.next)
      BY WaitingWhole DEF CallOK, NextOK, Return
    <3> QED BY <1>a, <1>b, <2>2, <3>1, <3>2, TriggeredWhole
  <2>3. ASSUME NEW c \in Waiting("switched"), Does(LookAgain(GoesOn(agent, c), c))
        PROVE  WholeOK(agent') /\ InTime(agent')
    <3>1. /\ AgentOK(GoesOn(agent, c)) /\ GoesOn(agent, c).lastRun = agent.lastRun
          /\ WholeOK(GoesOn(agent, c))
      BY WaitingWhole DEF IsRun
    <3>2. Seen(c.seen)
      BY WaitingWhole DEF CallOK, NextOK, Return
    <3> QED BY <1>a, <1>b, <2>3, <3>1, <3>2, LookAgainWhole
  <2>4. ASSUME NEW c \in Waiting("enabling"), Does(Enabling(GoesOn(agent, c), c))
        PROVE  WholeOK(agent') /\ InTime(agent')
    <3>1. /\ AgentOK(GoesOn(agent, c)) /\ GoesOn(agent, c).lastRun = agent.lastRun
          /\ WholeOK(GoesOn(agent, c))
      BY WaitingWhole DEF IsRun
    <3> QED BY <1>a, <1>b, <2>4, <3>1, EnablingWhole
  <2>5. ASSUME NEW c \in Waiting("refreshed"),
               Does(Enqueue(GoesOn(agent, c), c.round, Return))
        PROVE  WholeOK(agent') /\ InTime(agent')
    <3>1. /\ AgentOK(GoesOn(agent, c)) /\ GoesOn(agent, c).lastRun = agent.lastRun
          /\ WholeOK(GoesOn(agent, c))
      BY WaitingWhole DEF IsRun
    <3>2. c.round # NoRound
      BY WaitingWhole DEF CallOK, NextOK, Return
    <3> QED BY <1>a, <1>b, <1>c, <2>5, <3>1, <3>2, EnqueueWhole
  <2> QED BY <1>7, <2>1, <2>2, <2>3, <2>4, <2>5 DEF Resume
<1>8. CASE Look
  <2>1. PICK c \in Waiting("looking") :
          \/ \E r \in c.from..revision : Does(Looked(GoesOn(agent, c), c, r))
          \/ Does(Finish(GoesOn(agent, c), c.run))
    BY <1>8 DEF Look
  <2>2. Seen(c.from) /\ c.round # NoRound
    BY WaitingWhole DEF CallOK, NextOK, Return
  <2>3. \A r \in c.from..revision : Seen(r)
    BY <1>a, <2>2, HistoryTypes DEF Seen, Clock
  <2>4. /\ AgentOK(GoesOn(agent, c)) /\ GoesOn(agent, c).lastRun = agent.lastRun
        /\ c.run \in Nat /\ LeftOK(GoesOn(agent, c), c.run)
    BY WaitingWhole DEF IsRun
  <2> QED BY <1>a, <1>b, <2>1, <2>2, <2>3, <2>4, LookedWhole, FinishWhole
<1>9. CASE Think
  <2>1. PICK c \in Waiting("thinking") :
          \/ Does(Thought(GoesOn(agent, c), c))
          \/ Does(Finish(GoesOn(agent, c), c.run))
          \/ Does(Step(GoesOn(agent, c), c.run, c.snap, c.step + 1))
    BY <1>9 DEF Think
  <2>2. Seen(c.snap) /\ RoundAt(c.snap) # NoRound
    BY WaitingWhole DEF CallOK, NextOK, Return
  <2>3. /\ AgentOK(GoesOn(agent, c)) /\ GoesOn(agent, c).lastRun = agent.lastRun
        /\ c.run \in Nat /\ LeftOK(GoesOn(agent, c), c.run)
    BY WaitingWhole DEF IsRun
  <2> QED BY <1>a, <1>b, <2>1, <2>2, <2>3, ThoughtWhole, FinishWhole, StepWhole
<1>10. CASE Check
  <2>1. PICK c \in Waiting("checking") :
          \/ Does(Step(GoesOn(agent, c), c.run, c.snap, c.step + 1))
          \/ /\ Current(agent, c.run, c.snap)
             /\ Cardinality(agent.followUps) < MaxFollowUps
             /\ Does(AsksFollowUp(GoesOn(agent, c), c))
    BY <1>10 DEF Check
  <2>2. Seen(c.snap) /\ RoundAt(c.snap) # NoRound /\ c \in DOMAIN agent.calls
    BY WaitingWhole DEF CallOK, NextOK, Return
  <2>3. /\ AgentOK(GoesOn(agent, c)) /\ GoesOn(agent, c).lastRun = agent.lastRun
        /\ c.run \in Nat /\ LeftOK(GoesOn(agent, c), c.run)
    BY WaitingWhole DEF IsRun
  <2>4. SameFields(agent, GoesOn(agent, c))
    BY <1>a, <2>2, GoesOnTurn
  <2>5. CASE Does(Step(GoesOn(agent, c), c.run, c.snap, c.step + 1))
    BY <1>a, <1>b, <2>2, <2>3, <2>5, StepWhole
  <2>6. CASE /\ Current(agent, c.run, c.snap)
             /\ Cardinality(agent.followUps) < MaxFollowUps
             /\ Does(AsksFollowUp(GoesOn(agent, c), c))
    <3> DEFINE a == GoesOn(agent, c)
    <3>1. /\ a.control = agent.control /\ a.active # None /\ a.active.run = c.run
          /\ Cardinality(a.followUps) < MaxFollowUps
      BY <2>4, <2>6 DEF SameFields, Current
    <3> HIDE DEF a
    <3>2. WholeOK(AsksFollowUp(a, c)) /\ AsksFollowUp(a, c).lastRun = a.lastRun
      BY <1>a, <2>2, <2>3, <3>1, AsksFollowUpWhole DEF a
    <3> QED BY <1>b, <2>3, <2>6, <3>2 DEF a
  <2> QED BY <2>1, <2>5, <2>6
<1>11. CASE Follow
  <2>1. PICK c \in Waiting("following") : Does(Following(GoesOn(agent, c), c))
    BY <1>11 DEF Follow
  <2>2. /\ Seen(c.snap) /\ RoundAt(c.snap) # NoRound /\ c \in DOMAIN agent.calls
        /\ c.at = "following"
    BY WaitingWhole DEF CallOK, NextOK, Return
  <2>3. /\ AgentOK(GoesOn(agent, c)) /\ GoesOn(agent, c).lastRun = agent.lastRun
        /\ c.run \in Nat /\ LeftOK(GoesOn(agent, c), c.run) /\ CallShape(c)
    BY WaitingWhole DEF IsRun
  <2>4. SameFields(agent, GoesOn(agent, c))
    BY <1>a, <2>2, GoesOnTurn
  <2> DEFINE a == GoesOn(agent, c)
  <2>5. a.active # None /\ a.active.run = c.run =>
          c.id.control = a.control /\ Cardinality(a.followUps) < MaxFollowUps
    BY <1>a, <2>2, <2>4 DEF WholeOK, SteadyOK, TurnOK, FollowsOK, SameFields
  <2>6. c.id.does = "followUp" /\ c.id.round = RoundAt(c.snap)
    BY <2>2, <2>3 DEF CallShape
  <2> HIDE DEF a
  <2>7. WholeOK(Following(a, c)) /\ Following(a, c).lastRun = a.lastRun
    BY <1>a, <2>2, <2>3, <2>5, <2>6, FollowingWhole DEF a
  <2> QED BY <1>b, <2>1, <2>3, <2>7 DEF a
<1>12. CASE Refresh
  <2>1. PICK c \in Waiting("refreshing") :
          \/ \E r \in c.from..revision : Does(Refreshed(GoesOn(agent, c), c, r))
          \/ Does(GoesOn(agent, c))
    BY <1>12 DEF Refresh
  <2>2. Seen(c.from) /\ c.round # NoRound
    BY WaitingWhole DEF CallOK, NextOK, Return
  <2>3. \A r \in c.from..revision : Seen(r)
    BY <1>a, <2>2, HistoryTypes DEF Seen, Clock
  <2>4. /\ AgentOK(GoesOn(agent, c)) /\ GoesOn(agent, c).lastRun = agent.lastRun
        /\ WholeOK(GoesOn(agent, c))
    BY WaitingWhole DEF IsRun
  <2> QED BY <1>a, <1>b, <2>1, <2>2, <2>3, <2>4, RefreshedWhole
<1>13. CASE Restart
  BY <1>13, <1>a, RestartedWhole DEF Restart, InTime
<1> QED BY <1>1, <1>3, <1>4, <1>5, <1>6, <1>7, <1>8, <1>9, <1>10, <1>11, <1>12, <1>13
        DEF Next, Play, Tick, directorVars

\* The follow-ups kept are of the round that is observed and of a director that is
\* enabled, were asked for since it was switched on, and are few, although a call
\* that keeps one has waited (executeTool, setEnabled, observe).
THEOREM FollowUpsStayCurrent == Spec => []FollowUpsCurrent
<1>1. RunsInv => FollowUpsCurrent
  BY DEF RunsInv, WholeOK, SteadyOK, TurnOK, FollowsOK, FollowUpsCurrent
<1> QED BY <1>1, DirectorStarts, DirectorStep, RunsStart, RunsStep, PTL DEF Spec

\* What has come up is looked at: a pending wake-up is scheduled as it stands, or
\* the run that is under way has a call that will schedule it when it ends
\* (scheduleWake, wake, the end of runTurn).
THEOREM NoWakeIsLost == Spec => []NoLostWake
<1>1. ASSUME RunsInv, agent.active # None PROVE Live(agent.active.run)
  <2>1. PICK c \in DOMAIN agent.calls : IsRun(c) /\ c.run = agent.active.run
    BY <1>1 DEF RunsInv, WholeOK, SteadyOK, OneCall
  <2>2. "run" \in DOMAIN c
    BY <1>1, <2>1 DEF RunsInv, WholeOK, SteadyOK, TurnOK, RunsOK, CallShape
  <2> QED BY <2>1, <2>2 DEF Live, BagToSet
<1>2. RunsInv => NoLostWake
  BY <1>1 DEF RunsInv, WholeOK, SteadyOK, TurnOK, PendingOK, Booked, NoLostWake
<1> QED BY <1>2, DirectorStarts, DirectorStep, RunsStart, RunsStep, PTL DEF Spec

\* Two runs start at least the cooldown apart, whatever wakes the director
\* (enqueue, the end of runTurn).
THEOREM RunsAreSpaced == Spec => Spaced
<1>1. DirectorInv /\ RunsInv /\ [Next]_directorVars =>
        [agent'.lastRun # agent.lastRun =>
           agent'.lastRun >= agent.lastRun + Cooldown]_directorVars
  BY RunsStep DEF InTime
<1> QED BY <1>1, DirectorStarts, DirectorStep, RunsStart, RunsStep, PTL DEF Spec, Spaced
================================================================================
