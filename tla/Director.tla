------------------------------- MODULE Director -------------------------------
(***************************************************************************)
(* The outbreak director: backend/src/outbreak-director.ts.                *)
(*                                                                         *)
(* The agent watches the game, and lets a language model look at it after  *)
(* something has happened: an observation that matters sets `pending' and  *)
(* schedules a wake-up, the wake-up starts a run, a run asks the model a   *)
(* few times and carries out one tool between two requests.  At every      *)
(* await another call may run: an observation, the operator's switch, a    *)
(* wake-up, a follow-up.  A restart loses the calls; state and schedules   *)
(* are kept.                                                               *)
(*                                                                         *)
(* The game is the sequence History of what an observation can show, and   *)
(* `revision' says how far it has come; an observation is its place in     *)
(* History.  Two observations of one revision are not told apart.  Recaps, *)
(* the log of actions and what is displayed are left out.                  *)
(*                                                                         *)
(* An operator on the agent's record does what the code does between two   *)
(* awaits.  A call that waits is a record of `calls' that says where it    *)
(* goes on (`at'); a call that waits for another (`next') is in it.  A     *)
(* schedule is the record of its payload, it is inserted or deleted before *)
(* the call that asks for it waits, and it is gone when it fires: fired    *)
(* again it would find neither `pending' nor its follow-up.                *)
(***************************************************************************)
EXTENDS Integers, Sequences, FiniteSets, FiniteSetsExt, Bags

BagOps == INSTANCE BagsExt

CONSTANTS
  History,                   \* what the game looks like at each revision
  DailyLimit, RoundLimit,    \* limits(env)
  RequestsPerRun,            \* MAX_REQUESTS_PER_RUN, 4
  Cooldown,                  \* COOLDOWN_MS; the unit of time is a second
  MaxRun,                    \* MAX_RUN_MS
  DayLength,
  FollowUpDelay,             \* what a model asks for, 15 to 120
  MaxFollowUps,              \* 2
  MaxNow, MaxCrashes, MaxUpsets, MaxCalls,    \* bounds
  None

\* `news' stands for the numbers meaningfulChange compares: infections, events,
\* start, end and result; `over' says that the round has ended.
ASSUME HistoryAssumption ==
  History # <<>> /\ History \in Seq([round: Nat, news: Nat, over: BOOLEAN])
ASSUME LimitsAssumption ==
  /\ {DailyLimit, RoundLimit, RequestsPerRun, Cooldown, MaxRun, FollowUpDelay, MaxFollowUps,
      MaxNow, MaxCrashes, MaxUpsets, MaxCalls} \subseteq Nat
  /\ DayLength \in Nat \ {0}
  /\ None \notin Nat \cup [run: Nat, expires: Nat]   \* null is no number and no run

NoRound == 0
\* Round identities are drawn at random: a round that is over does not return.
ASSUME RoundsAssumption ==
  \A i, j, k \in DOMAIN History :
    i < j /\ j < k /\ History[i].round = History[k].round /\ History[i].round # NoRound =>
      History[j].round = History[i].round

Rounds == {History[r].round : r \in DOMAIN History}
Days   == 0..(MaxNow \div DayLength)

VARIABLES revision, now, agent, crashes
directorVars == <<revision, now, agent, crashes>>

RoundAt(r) == IF r = None THEN NoRound ELSE History[r].round
RoundOf(a) == RoundAt(a.latest)

\* initialDirectorState, and no schedule and no call.  `asked' counts the
\* requests sent to the model, by round and by day.
Init ==
  /\ revision = 1 /\ now = 0 /\ crashes = 0
  /\ agent = [enabled |-> TRUE, control |-> 0, latest |-> None, pending |-> None,
              active |-> None, followUps |-> {}, lastRun |-> -Cooldown, runs |-> 0,
              roundRequests |-> 0, daily |-> [day |-> 0, requests |-> 0],
              schedules |-> {}, calls |-> EmptyBag,
              asked |-> [round |-> [r \in Rounds |-> 0], day |-> [d \in Days |-> 0]]]

-----------------------------------------------------------------------------
\* Calls that wait, and schedules.

Return == [at |-> "return"]
Waits(a, c)    == IF c = Return THEN a ELSE [a EXCEPT !.calls = BagOps!BagAdd(@, c)]
GoesOn(a, c)   == [a EXCEPT !.calls = BagOps!BagRemove(@, c)]
Cancel(a, ids) == [a EXCEPT !.schedules = @ \ ids]
OldWake(a)     == IF a.pending = None THEN {} ELSE {a.pending.id}

Wake(p, control) == [does |-> "wake", round |-> p.round, due |-> p.due, control |-> control]

\* scheduleWake, up to its await.  What is scheduled is not scheduled twice.
ScheduleWake(a, next) ==
  LET wake == Wake(a.pending, a.control) IN
  IF a.pending = None \/ ~a.enabled THEN Waits(a, next)
  ELSE Waits([a EXCEPT !.schedules = @ \cup {wake}],
             [at |-> "scheduled", wake |-> wake, old |-> a.pending.id, next |-> next])

\* scheduleWake, after its await: keep the wake-up if it is still wanted.
\* Mutant: only the first call to come back keeps it.
ScheduledOnce(a, c) ==
  LET wanted == /\ a.pending # None /\ a.enabled /\ a.control = c.wake.control
                /\ a.pending.id = c.old /\ a.pending.due = c.wake.due
  IN  IF wanted
      THEN Waits(Cancel([a EXCEPT !.pending.id = c.wake], {c.old} \ {c.wake}), c.next)
      ELSE Waits(Cancel(a, {c.wake}), c.next)

Scheduled(a, c) ==
  LET wanted == /\ a.pending # None /\ a.enabled /\ a.control = c.wake.control
                /\ a.pending.round = c.wake.round /\ a.pending.due = c.wake.due
  IN  IF wanted
      THEN Waits(Cancel([a EXCEPT !.pending.id = c.wake], {c.old} \ {c.wake}), c.next)
      ELSE Waits(Cancel(a, {c.wake}), c.next)

DueAfter(a, t) == Max({now + 1, a.lastRun + Cooldown, t})

\* enqueue.
Enqueue(a, r, next) ==
  IF ~a.enabled \/ RoundOf(a) # r THEN Waits(a, next)
  ELSE LET due == DueAfter(a, IF a.active = None THEN 0 ELSE a.active.expires)
           old == IF a.pending = None THEN None ELSE a.pending.id
       IN  ScheduleWake([a EXCEPT !.pending = [round |-> r, due |-> due, id |-> old]], next)

-----------------------------------------------------------------------------
\* Observations.

\* meaningfulChange.
Matters(a, r) ==
  /\ RoundAt(r) # NoRound
  /\ RoundOf(a) # RoundAt(r) \/ History[a.latest].news # History[r].news

\* Mutant: what matters starts the round's budget anew.
MovesOnNews(a, r) == Matters(a, r)

Moves(a, r) == RoundOf(a) # RoundAt(r)
Stale(a, r) == a.latest # None /\ r < a.latest

\* observe, after its awaits: what triggers, if the director is still enabled.
Triggered(a, r, next) == IF r = NoRound THEN Waits(a, next) ELSE Enqueue(a, r, next)

\* observe.  The wake-up and the follow-ups of an old round are cancelled one
\* after another; those that fire meanwhile find nothing to do.
Observe(a, r, next) ==
  LET moved    == Moves(a, r)
      obsolete == IF moved THEN a.followUps \cup (OldWake(a) \ {None}) ELSE {}
      seen     == IF moved
                  THEN [a EXCEPT !.latest = r, !.roundRequests = 0, !.followUps = {},
                                 !.pending = None]
                  ELSE [a EXCEPT !.latest = r]
      trigger  == IF Matters(a, r) THEN RoundAt(r) ELSE NoRound
  IN  IF Stale(a, r) THEN Waits(a, next)
      ELSE IF obsolete = {} THEN Triggered(seen, trigger, next)
      ELSE Waits(Cancel(seen, obsolete), [at |-> "observed", round |-> trigger, next |-> next])

-----------------------------------------------------------------------------
\* The operator's switch.

\* setEnabled, up to its await.
Switched(a, on, r) ==
  Waits(Cancel([a EXCEPT !.enabled = on, !.control = @ + 1, !.pending = None, !.active = None,
                         !.followUps = {}],
               OldWake(a) \cup a.followUps),
        [at |-> "switched", control |-> a.control + 1, seen |-> r])

\* setEnabled, after its await: look at the game if this is still the last word,
\* and again after observe.
LookAgain(a, c) ==
  IF a.control # c.control \/ ~a.enabled THEN a
  ELSE Observe(a, c.seen, [at |-> "enabling", control |-> c.control])

Enabling(a, c) ==
  IF /\ a.control = c.control /\ a.enabled /\ RoundOf(a) # NoRound
     /\ a.pending = None /\ a.active = None
  THEN Enqueue(a, RoundOf(a), Return) ELSE a

-----------------------------------------------------------------------------
\* A run.

\* assertCurrent.
Current(a, run, r) ==
  /\ a.enabled /\ a.active # None /\ a.active.run = run /\ now <= a.active.expires
  /\ RoundOf(a) = RoundAt(r) /\ a.latest = r

\* The end of runTurn, however it comes.
\* Mutant: what came up during the run is looked at without the cooldown.
FinishSoon(a, run) ==
  IF a.active = None \/ a.active.run # run THEN a
  ELSE LET b == [a EXCEPT !.active = None] IN
       IF a.pending = None \/ ~a.enabled THEN b
       ELSE ScheduleWake([b EXCEPT !.pending.due = now + 1], Return)

Finish(a, run) ==
  IF a.active = None \/ a.active.run # run THEN a
  ELSE LET b == [a EXCEPT !.active = None] IN
       IF a.pending = None \/ ~a.enabled THEN b
       ELSE ScheduleWake([b EXCEPT !.pending.due = DueAfter(a, 0)], Return)

\* reserveRequest, and the request to the model.
Day == now \div DayLength
Usage(a) == IF a.daily.day = Day THEN a.daily ELSE [day |-> Day, requests |-> 0]
Reserved(a) ==
  [a EXCEPT !.daily = [day |-> Day, requests |-> Usage(a).requests + 1],
            !.roundRequests = @ + 1,
            !.asked.round[RoundOf(a)] = @ + 1, !.asked.day[Day] = @ + 1]

\* The head of runTurn's loop.
Step(a, run, r, step) ==
  IF /\ step <= RequestsPerRun /\ Current(a, run, r)
     /\ Usage(a).requests < DailyLimit /\ a.roundRequests < RoundLimit
  THEN Waits(Reserved(a), [at |-> "thinking", run |-> run, snap |-> r, step |-> step])
  ELSE Finish(a, run)

\* runTurn, up to its await.
RunTurn(a, r) ==
  Waits([a EXCEPT !.pending = None, !.lastRun = now, !.runs = @ + 1,
                  !.active = [run |-> a.runs + 1, expires |-> now + MaxRun]],
        [at |-> "looking", run |-> a.runs + 1, round |-> r, from |-> revision])

\* runTurn, with the room's answer.
Looked(a, c, r) ==
  IF /\ a.enabled /\ a.active # None /\ a.active.run = c.run
     /\ RoundAt(r) = c.round /\ RoundOf(a) = c.round /\ a.latest <= r
  THEN Step([a EXCEPT !.latest = r], c.run, r, 1)
  ELSE Finish(a, c.run)

\* runTurn, with the model's answer; one that calls a tool is followed by
\* executeTool, which asks the room whether the game is still the same.  The
\* last request of a run allows no tool.
Thought(a, c) ==
  IF Current(a, c.run, c.snap) /\ c.step < RequestsPerRun
  THEN Waits(a, [at |-> "checking", run |-> c.run, snap |-> c.snap, step |-> c.step,
                 from |-> revision])
  ELSE Finish(a, c.run)

\* executeTool: schedule_follow_up, up to its await.
FollowUp(c) == [does |-> "followUp", token |-> <<c.run, c.step>>, round |-> RoundAt(c.snap),
                due |-> now + FollowUpDelay, control |-> agent.control]
AsksFollowUp(a, c) ==
  Waits([a EXCEPT !.schedules = @ \cup {FollowUp(c)}],
        [at |-> "following", run |-> c.run, snap |-> c.snap, step |-> c.step,
         id |-> FollowUp(c)])

\* schedule_follow_up, after its await.
\* Mutant: the follow-up is kept, whatever has happened.
FollowingAnyhow(a, c) ==
  Step([a EXCEPT !.followUps = @ \cup {c.id}], c.run, c.snap, c.step + 1)

Following(a, c) ==
  Step(IF Current(a, c.run, c.snap) THEN [a EXCEPT !.followUps = @ \cup {c.id}]
       ELSE Cancel(a, {c.id}),
       c.run, c.snap, c.step + 1)

-----------------------------------------------------------------------------
\* Schedules that fire.

\* wake.  A run that has expired does not stand in the way of the next.
Woken(a, wake) ==
  IF /\ a.pending # None /\ a.pending.round = wake.round /\ a.pending.due = wake.due
     /\ RoundOf(a) = wake.round /\ a.enabled /\ a.control = wake.control
     /\ a.active = None \/ a.active.expires <= now
  THEN RunTurn(a, wake.round) ELSE a

\* followUp, up to its await, with the room's answer, and after observe.
FollowedUp(a, f) ==
  LET b == [a EXCEPT !.followUps = @ \ {f}] IN
  IF f \notin a.followUps \/ ~a.enabled \/ a.control # f.control \/ RoundOf(a) # f.round THEN b
  ELSE Waits(b, [at |-> "refreshing", round |-> f.round, control |-> a.control,
                 from |-> revision])

Refreshed(a, c, r) ==
  IF a.control # c.control THEN a
  ELSE Observe(a, r, IF RoundAt(r) = c.round THEN [at |-> "refreshed", round |-> c.round]
                     ELSE Return)

-----------------------------------------------------------------------------
Does(a) == agent' = a /\ UNCHANGED <<revision, now, crashes>>
Waiting(at) == {c \in BagToSet(agent.calls) : c.at = at}
Fires(what) == {s \in agent.schedules : s.does = what /\ s.due <= now}

\* The game moves on; time passes.
Play == /\ revision < Len(History) /\ revision' = revision + 1
        /\ UNCHANGED <<now, agent, crashes>>
Tick == /\ now < MaxNow /\ now' = now + 1
        /\ UNCHANGED <<revision, agent, crashes>>

\* No more than MaxCalls calls wait when another begins.
MayBegin == BagCardinality(agent.calls) < MaxCalls

\* The room's notice of a change, which may come late and out of order.
Notice == MayBegin /\ \E r \in 1..revision : Does(Observe(agent, r, Return))

SetEnabled == /\ MayBegin /\ agent.control + crashes < MaxUpsets
              /\ \E r \in 1..revision : Does(Switched(agent, ~agent.enabled, r))

FireWake     == MayBegin /\ \E s \in Fires("wake") : Does(Woken(Cancel(agent, {s}), s))
FireFollowUp == MayBegin /\ \E s \in Fires("followUp") : Does(FollowedUp(Cancel(agent, {s}), s))

\* A call goes on.  What it asked the room for is the game at some moment since;
\* the room and the model may fail to answer.
Resume ==
  \/ \E c \in Waiting("scheduled") : Does(Scheduled(GoesOn(agent, c), c))
  \/ \E c \in Waiting("observed") : Does(Triggered(GoesOn(agent, c), c.round, c.next))
  \/ \E c \in Waiting("switched") : Does(LookAgain(GoesOn(agent, c), c))
  \/ \E c \in Waiting("enabling") : Does(Enabling(GoesOn(agent, c), c))
  \/ \E c \in Waiting("refreshed") : Does(Enqueue(GoesOn(agent, c), c.round, Return))

Look == \E c \in Waiting("looking") :
  \/ \E r \in c.from..revision : Does(Looked(GoesOn(agent, c), c, r))
  \/ Does(Finish(GoesOn(agent, c), c.run))

\* A tool's arguments may be refused at once.
Think == \E c \in Waiting("thinking") :
  \/ Does(Thought(GoesOn(agent, c), c))
  \/ Does(Finish(GoesOn(agent, c), c.run))
  \/ c.step < RequestsPerRun /\ Does(Step(GoesOn(agent, c), c.run, c.snap, c.step + 1))

\* executeTool, with the room's answer: a tool that reads, announces or recaps,
\* or that is refused, goes on to the next request.
Check == \E c \in Waiting("checking") :
  \/ Does(Step(GoesOn(agent, c), c.run, c.snap, c.step + 1))
  \/ /\ c.snap >= c.from
     /\ Current(agent, c.run, c.snap) /\ ~History[c.snap].over
     /\ Cardinality(agent.followUps) < MaxFollowUps
     /\ Does(AsksFollowUp(GoesOn(agent, c), c))

Follow == \E c \in Waiting("following") : Does(Following(GoesOn(agent, c), c))

Refresh == \E c \in Waiting("refreshing") :
  \/ \E r \in c.from..revision : Does(Refreshed(GoesOn(agent, c), c, r))
  \/ Does(GoesOn(agent, c))

\* onStart.
Restarted(a) == ScheduleWake([a EXCEPT !.active = None, !.calls = EmptyBag], Return)
Restart == /\ crashes < MaxCrashes /\ agent.control + crashes < MaxUpsets
           /\ crashes' = crashes + 1
           /\ agent' = Restarted(agent)
           /\ UNCHANGED <<revision, now>>

Next == \/ Play \/ Tick \/ Notice \/ SetEnabled \/ FireWake \/ FireFollowUp
        \/ Resume \/ Look \/ Think \/ Check \/ Follow \/ Refresh \/ Restart

Spec == Init /\ [][Next]_directorVars

-----------------------------------------------------------------------------
Live(run) == \E c \in BagToSet(agent.calls) : "run" \in DOMAIN c /\ c.run = run

DirectorTypeOK ==
  /\ revision \in DOMAIN History /\ now \in 0..MaxNow /\ crashes \in 0..MaxCrashes
  /\ agent.enabled \in BOOLEAN /\ agent.control \in 0..MaxUpsets
  /\ agent.latest \in DOMAIN History \cup {None}
  /\ agent.followUps \subseteq [does: {"followUp"}, token: Nat \X Nat, round: Rounds,
                                due: Nat, control: 0..MaxUpsets]
  /\ agent.lastRun \in Int /\ agent.roundRequests \in 0..RoundLimit
  /\ agent.daily \in [day: Days, requests: 0..DailyLimit]

\* The model is asked no more often in a round, and no more often on a day, than
\* the limits allow: whatever notices come late, whatever runs overlap, are
\* switched off and on, or end in a restart (reserveRequest).
BudgetHolds ==
  /\ \A r \in Rounds : agent.asked.round[r] <= RoundLimit
  /\ \A d \in Days : agent.asked.day[d] <= DailyLimit

\* Two runs start at least the cooldown apart (enqueue, the end of runTurn).
Spaced == [][agent'.lastRun # agent.lastRun =>
               agent'.lastRun >= agent.lastRun + Cooldown]_directorVars

\* The follow-ups kept are of the round that is observed and of a director that is
\* enabled, were asked for since it was switched on, and are few, although a call
\* that keeps one has waited (executeTool, setEnabled, observe).
FollowUpsCurrent ==
  /\ Cardinality(agent.followUps) <= MaxFollowUps
  /\ \A f \in agent.followUps :
       f.round = RoundOf(agent) /\ agent.enabled /\ f.control = agent.control

\* What has come up is looked at: a pending wake-up is scheduled as it stands, or
\* a run is under way that will schedule it when it ends, whichever of the calls
\* that replaced one another's wake-ups came back last (scheduleWake, wake).
NoLostWake == agent.pending # None =>
  /\ agent.enabled /\ agent.pending.round = RoundOf(agent)
  /\ \/ Wake(agent.pending, agent.control) \in agent.schedules
     \/ agent.active # None /\ Live(agent.active.run)
=============================================================================
