----------------------------- MODULE Dashboard -----------------------------
(***************************************************************************)
(* The live page (frontend/src/components/PopulationState.tsx and App.tsx) *)
(* against a room that keeps the promise of Feed: it is pushed the state   *)
(* when its socket opens and after every mutation, polls it over HTTP as   *)
(* well, and shows the answer to its own reset at once.                    *)
(*                                                                         *)
(* A state is its number in the order in which the room took them; what a  *)
(* frame holds and how it is drawn are left out.  The backend is out of    *)
(* reach from time to time, and a socket may go dead without the browser   *)
(* noticing.  `fresh' stands for the comparison of updateSequence with its *)
(* value when the request began.                                           *)
(***************************************************************************)
EXTENDS Integers, Sequences

CONSTANTS
  MaxState,      \* bound on the states of the room
  MaxFailures,   \* bound on outages and dead sockets
  Idle, Asked    \* no request, and one the room has not answered

ASSUME DashboardAssumption ==
  /\ MaxState \in Nat \ {0} /\ MaxFailures \in Nat
  /\ Idle \notin Nat /\ Asked \notin Nat /\ Idle # Asked

VARIABLES
  state,         \* the room's state
  reachable,     \* the backend answers
  failures,      \* outages and dead sockets so far
  socket,        \* "waiting" (2 s timer), "connecting", "open", "dead" (not noticed)
  pushed,        \* frames under way on the socket
  poll,          \* the HTTP request (httpPending): Idle, Asked or the state read
  fresh,         \* nothing was applied since it began
  resetting,     \* the operator's reset: Idle, Asked or the state after it
  page,          \* PopulationState's state; 0 before the first
  app,           \* App's state
  connected      \* isConnected

dashboardVars == <<state, reachable, failures, socket, pushed, poll, fresh, resetting,
                   page, app, connected>>
network == <<state, reachable, failures>>
display == <<page, app, connected>>

States == 1..MaxState

DashboardTypeOK ==
  /\ state \in States /\ reachable \in BOOLEAN /\ failures \in 0..MaxFailures
  /\ socket \in {"waiting", "connecting", "open", "dead"}
  /\ pushed \in Seq(States)
  /\ poll \in {Idle, Asked} \cup States /\ fresh \in BOOLEAN
  /\ resetting \in {Idle, Asked} \cup States
  /\ page \in 0..MaxState /\ app \in 0..MaxState /\ connected \in BOOLEAN

DashboardInit ==
  /\ state = 1 /\ reachable = TRUE /\ failures = 0
  /\ socket = "connecting" /\ pushed = <<>>
  /\ poll = Asked /\ fresh = TRUE
  /\ resetting = Idle
  /\ page = 0 /\ app = 0 /\ connected = FALSE

-----------------------------------------------------------------------------
\* The room and the network.

\* The room's next state is pushed to an open socket.
Next1 == state + 1
Delivered == IF socket = "open" THEN Append(pushed, state + 1) ELSE pushed
Mutate ==
  /\ reachable /\ state < MaxState
  /\ state' = Next1
  /\ pushed' = Delivered
  /\ UNCHANGED <<reachable, failures, socket, poll, fresh, resetting, page, app, connected>>

Outage ==
  /\ reachable /\ failures < MaxFailures
  /\ reachable' = FALSE /\ failures' = failures + 1
  /\ UNCHANGED <<state, socket, pushed, poll, fresh, resetting, page, app, connected>>

Return ==
  /\ ~reachable
  /\ reachable' = TRUE
  /\ UNCHANGED <<state, failures, socket, pushed, poll, fresh, resetting, page, app, connected>>

\* What was under way is lost, and the browser does not notice.
GoesDead ==
  /\ socket = "open" /\ failures < MaxFailures
  /\ socket' = "dead" /\ pushed' = <<>> /\ failures' = failures + 1
  /\ UNCHANGED <<state, reachable, poll, fresh, resetting, page, app, connected>>

-----------------------------------------------------------------------------
\* The socket.

Connect ==
  /\ socket = "waiting"
  /\ socket' = "connecting"
  /\ UNCHANGED <<network, pushed, poll, fresh, resetting, display>>

\* onopen; the room sends its state to a socket it accepts.
Opens ==
  /\ socket = "connecting" /\ reachable
  /\ socket' = "open" /\ pushed' = <<state>>
  /\ UNCHANGED <<network, poll, fresh, resetting, display>>

\* onerror and onclose: of an attempt that fails, of a socket that an outage
\* has broken, or of a dead one that is noticed in the end.
Closes(was) ==
  /\ socket = was /\ (was \in {"connecting", "open"} => ~reachable)
  /\ socket' = "waiting" /\ pushed' = <<>>
  /\ connected' = FALSE
  /\ UNCHANGED <<network, poll, fresh, resetting, page, app>>

\* applyState, and App's handleStateUpdate under it.
Apply(s) ==
  /\ page' = s /\ app' = s
  /\ connected' = TRUE
  /\ fresh' = FALSE

Receive ==
  /\ socket = "open" /\ pushed # <<>>
  /\ Apply(Head(pushed))
  /\ pushed' = Tail(pushed)
  /\ UNCHANGED <<network, socket, poll, resetting>>

-----------------------------------------------------------------------------
\* fetchHttpState.

Poll ==
  /\ poll = Idle
  /\ poll' = Asked /\ fresh' = TRUE
  /\ UNCHANGED <<network, socket, pushed, resetting, display>>

PollRead ==
  /\ poll = Asked /\ reachable
  /\ poll' = state
  /\ UNCHANGED <<network, socket, pushed, fresh, resetting, display>>

\* Mutant: any answer is shown.
PollAnsweredAnyhow ==
  /\ poll \in States
  /\ poll' = Idle
  /\ Apply(poll)
  /\ UNCHANGED <<network, socket, pushed, resetting>>

PollAnswered ==
  /\ poll \in States
  /\ poll' = Idle
  /\ IF fresh THEN Apply(poll) ELSE UNCHANGED <<fresh, display>>
  /\ UNCHANGED <<network, socket, pushed, resetting>>

\* Mutant: a failed request is never over.
PollFailsPending ==
  /\ poll # Idle /\ ~reachable
  /\ connected' = (connected /\ ~fresh)
  /\ UNCHANGED <<network, socket, pushed, poll, fresh, resetting, page, app>>

\* The abort after eight seconds, or an error.
PollFails ==
  /\ poll # Idle /\ ~reachable
  /\ poll' = Idle
  /\ connected' = (connected /\ ~fresh)
  /\ UNCHANGED <<network, socket, pushed, fresh, resetting, page, app>>

-----------------------------------------------------------------------------
\* App's resetGame.  Its answer goes to App alone, and counts as no update.

ResetAsk ==
  /\ resetting = Idle
  /\ resetting' = Asked
  /\ UNCHANGED <<network, socket, pushed, poll, fresh, display>>

ResetRead ==
  /\ resetting = Asked /\ reachable /\ state < MaxState
  /\ state' = Next1 /\ resetting' = state'
  /\ pushed' = Delivered
  /\ UNCHANGED <<reachable, failures, socket, poll, fresh, display>>

ResetAnswered ==
  /\ resetting \in States
  /\ app' = resetting /\ resetting' = Idle
  /\ UNCHANGED <<network, socket, pushed, poll, fresh, page, connected>>

ResetFails ==
  /\ resetting # Idle /\ ~reachable
  /\ resetting' = Idle
  /\ UNCHANGED <<network, socket, pushed, poll, fresh, display>>

DashboardNext ==
  \/ Mutate \/ Outage \/ Return \/ GoesDead
  \/ Connect \/ Opens \/ Receive
  \/ \E was \in {"connecting", "open", "dead"} : Closes(was)
  \/ Poll \/ PollRead \/ PollAnswered \/ PollFails
  \/ ResetAsk \/ ResetRead \/ ResetAnswered \/ ResetFails

DashboardSpec == DashboardInit /\ [][DashboardNext]_dashboardVars

\* The browser's timers and the network's answers come in the end; outages,
\* dead sockets, the game and the operator do as they like.
DashboardFairness ==
  /\ WF_dashboardVars(Connect) /\ WF_dashboardVars(Opens) /\ WF_dashboardVars(Closes("connecting"))
  /\ WF_dashboardVars(Receive)
  /\ WF_dashboardVars(Poll) /\ WF_dashboardVars(PollRead)
  /\ WF_dashboardVars(PollAnswered) /\ WF_dashboardVars(PollFails)
  /\ WF_dashboardVars(ResetAnswered) /\ WF_dashboardVars(ResetFails)

-----------------------------------------------------------------------------
\* Properties.

\* An HTTP answer never takes the display back, whatever was pushed while it
\* was under way ("An older HTTP request must not overwrite a more recent
\* pushed state", PopulationState.tsx:142).
Forward == [][pushed' = pushed => page' >= page]_dashboardVars

\* However sockets died and requests failed before, a page whose backend can
\* be reached for good ends up showing the room's state as connected, and one
\* whose backend cannot be ends up saying so.
Truthful ==
  /\ <>[]reachable => <>[](page = state /\ app = state /\ connected)
  /\ <>[]~reachable => <>[]~connected
=============================================================================
