---------------------------- MODULE DashboardProofs ----------------------------
(***************************************************************************)
(* The displays of the live page never go back on their own: proofs about  *)
(* Dashboard and Panel for any number of states, statuses and failures.    *)
(***************************************************************************)
EXTENDS Dashboard, Panel, TLAPS

\* What is under way was read in the past; an answer that may still be shown
\* is no older than the display.
PageInv ==
  /\ DashboardTypeOK
  /\ page <= state
  /\ \A i \in 1..Len(pushed) : pushed[i] <= state
  /\ poll \in States => poll <= state /\ (fresh => page <= poll)

\* The room's next state is pushed behind those under way.
LEMMA NextState ==
  ASSUME PageInv, state < MaxState
  PROVE  /\ Next1 \in States /\ state <= Next1
         /\ Delivered \in Seq(States)
         /\ \A i \in 1..Len(Delivered) : Delivered[i] <= Next1
<1>1. Next1 \in States /\ state <= Next1
  BY DashboardAssumption DEF PageInv, DashboardTypeOK, States, Next1
<1>2. Delivered \in Seq(States)
  BY <1>1 DEF Delivered, Next1, PageInv, DashboardTypeOK
<1>3. CASE socket = "open"
  <2> DEFINE d == Append(pushed, Next1)
  <2>1. Delivered = d /\ Len(d) = Len(pushed) + 1 /\ pushed \in Seq(States)
    BY <1>1, <1>3 DEF Delivered, Next1, PageInv, DashboardTypeOK
  <2>2. ASSUME NEW i \in 1..Len(d) PROVE d[i] <= Next1
    <3>1. CASE i = Len(pushed) + 1
      BY <1>1, <2>1, <3>1 DEF States
    <3>2. CASE i \in 1..Len(pushed)
      <4>1. d[i] = pushed[i] /\ pushed[i] <= state /\ pushed[i] \in States
        BY <1>1, <2>1, <3>2 DEF PageInv
      <4> QED BY <1>1, <4>1 DEF PageInv, DashboardTypeOK, States
    <3> QED BY <2>1, <3>1, <3>2
  <2> QED BY <1>1, <1>2, <2>1, <2>2
<1>4. CASE socket # "open"
  <2>1. Delivered = pushed
    BY <1>4 DEF Delivered
  <2>2. ASSUME NEW i \in 1..Len(pushed) PROVE pushed[i] <= Next1
    <3>1. pushed[i] \in States /\ pushed[i] <= state
      BY DEF PageInv, DashboardTypeOK
    <3> QED BY <1>1, <3>1 DEF PageInv, DashboardTypeOK, States
  <2> QED BY <1>1, <1>2, <2>1, <2>2
<1> QED BY <1>3, <1>4

LEMMA PageTypes ==
  PageInv => state \in Nat /\ page \in Nat /\ state \in States
  BY DEF PageInv, DashboardTypeOK, States

\* A step that changes none of these, or only empties the socket.
LEMMA PageStands ==
  ASSUME PageInv, DashboardTypeOK', UNCHANGED <<state, page, poll, fresh>>,
         pushed' = pushed \/ pushed' = <<>> \/ pushed' = <<state>>
  PROVE  PageInv'
<1>1. CASE pushed' = pushed
  BY <1>1 DEF PageInv
<1>2. CASE pushed' = <<>>
  BY <1>2 DEF PageInv
<1>3. CASE pushed' = <<state>>
  <2>1. Len(pushed') = 1 /\ pushed'[1] = state
    BY <1>3
  <2>2. \A i \in 1..Len(pushed') : pushed'[i] <= state'
    BY <2>1 DEF PageInv, DashboardTypeOK, States
  <2> QED BY <2>2 DEF PageInv
<1> QED BY <1>1, <1>2, <1>3

\* The room, the network and the socket.
LEMMA NetworkKeeps ==
  ASSUME PageInv,
         \/ Mutate \/ Outage \/ Return \/ GoesDead \/ Connect \/ Opens
         \/ \E was \in {"connecting", "open", "dead"} : Closes(was)
  PROVE  PageInv'
<1>1. CASE Mutate
  <2>1. /\ state' = Next1 /\ pushed' = Delivered
        /\ UNCHANGED <<reachable, failures, socket, poll, fresh, resetting, page, app, connected>>
    BY <1>1 DEF Mutate
  <2>2. state' \in States /\ state <= state' /\ pushed' \in Seq(States)
        /\ \A i \in 1..Len(pushed') : pushed'[i] <= state'
    BY <1>1, <2>1, NextState DEF Mutate
  <2>3. page <= state'
    BY <2>2, PageTypes DEF PageInv, States
  <2> QED BY <2>1, <2>2, <2>3 DEF PageInv, DashboardTypeOK, States
<1>2. CASE Outage
  <2>1. failures' \in 0..MaxFailures
    BY <1>2, DashboardAssumption DEF Outage, PageInv, DashboardTypeOK
  <2>2. DashboardTypeOK'
    BY <1>2, <2>1 DEF Outage, PageInv, DashboardTypeOK
  <2> QED BY <1>2, <2>2, PageStands DEF Outage
<1>3. CASE Return
  BY <1>3 DEF Return, PageInv, DashboardTypeOK, States
<1>4. CASE GoesDead
  BY <1>4, DashboardAssumption DEF GoesDead, PageInv, DashboardTypeOK, States
<1>5. CASE Connect
  BY <1>5 DEF Connect, network, display, PageInv, DashboardTypeOK, States
<1>6. CASE Opens
  BY <1>6 DEF Opens, network, display, PageInv, DashboardTypeOK, States
<1>7. ASSUME NEW was, Closes(was) PROVE PageInv'
  <2>1. DashboardTypeOK'
    <3>1. /\ socket' = "waiting" /\ pushed' = <<>> /\ connected' = FALSE
          /\ UNCHANGED <<state, reachable, failures, poll, fresh, resetting, page, app>>
      BY <1>7 DEF Closes, network
    <3>2. socket' \in {"waiting", "connecting", "open", "dead"} /\ connected' \in BOOLEAN
      BY <3>1
    <3>3. pushed' \in Seq(States)
      BY <3>1
    <3>4. /\ state' \in States /\ reachable' \in BOOLEAN /\ failures' \in 0..MaxFailures
          /\ poll' \in {Idle, Asked} \cup States /\ fresh' \in BOOLEAN
          /\ resetting' \in {Idle, Asked} \cup States
          /\ page' \in 0..MaxState /\ app' \in 0..MaxState
      BY <3>1 DEF PageInv, DashboardTypeOK
    <3> QED BY <3>2, <3>3, <3>4 DEF DashboardTypeOK
  <2> QED BY <1>7, <2>1, PageStands DEF Closes, network
<1> QED BY <1>1, <1>2, <1>3, <1>4, <1>5, <1>6, <1>7

LEMMA ReceiveKeeps ==
  ASSUME PageInv, Receive
  PROVE  PageInv' /\ pushed' # pushed
<1>1. pushed \in Seq(States) /\ Len(pushed) \in Nat /\ Len(pushed) > 0
  BY DEF Receive, PageInv, DashboardTypeOK
<1>2. /\ Head(pushed) = pushed[1] /\ Head(pushed) \in States
      /\ Tail(pushed) \in Seq(States) /\ Len(Tail(pushed)) = Len(pushed) - 1
      /\ \A i \in 1..Len(Tail(pushed)) : Tail(pushed)[i] = pushed[i + 1]
  BY <1>1
<1>3. /\ page' = Head(pushed) /\ app' = Head(pushed) /\ connected' = TRUE /\ fresh' = FALSE
      /\ pushed' = Tail(pushed)
      /\ UNCHANGED <<network, socket, poll, resetting>>
  BY DEF Receive, Apply
<1>4. DashboardTypeOK'
  <2>1. page' \in 0..MaxState /\ app' \in 0..MaxState
    BY <1>2, <1>3, DashboardAssumption DEF States
  <2> QED BY <1>2, <1>3, <2>1 DEF PageInv, DashboardTypeOK, network
<1>5. page' <= state'
  BY <1>1, <1>2, <1>3 DEF PageInv, network
<1>6. \A i \in 1..Len(pushed') : pushed'[i] <= state'
  BY <1>1, <1>2, <1>3 DEF PageInv, network
<1>7. pushed' # pushed
  <2>1. Len(pushed) \in Nat /\ Len(Tail(pushed)) = Len(pushed) - 1
    BY <1>1, <1>2
  <2>2. Len(Tail(pushed)) # Len(pushed)
    BY <2>1
  <2> QED BY <1>3, <2>2
<1>8. poll' \in States => poll' <= state' /\ (fresh' => page' <= poll')
  BY <1>3 DEF network, PageInv
<1> QED BY <1>4, <1>5, <1>6, <1>7, <1>8 DEF PageInv

\* The polls and the reset.
LEMMA RequestsKeep ==
  ASSUME PageInv,
         \/ Poll \/ PollRead \/ PollAnswered \/ PollFails
         \/ ResetAsk \/ ResetRead \/ ResetAnswered \/ ResetFails
  PROVE  PageInv' /\ page' >= page
<1>1. CASE Poll
  BY <1>1, DashboardAssumption DEF Poll, network, display, PageInv, DashboardTypeOK, States
<1>2. CASE PollRead
  BY <1>2 DEF PollRead, network, display, PageInv, DashboardTypeOK, States
<1>3. CASE PollAnswered
  <2>1. CASE fresh
    <3>1. /\ poll \in States /\ page <= poll /\ poll' = Idle
          /\ page' = poll /\ app' = poll /\ connected' = TRUE /\ fresh' = FALSE
          /\ UNCHANGED <<network, socket, pushed, resetting>>
      BY <1>3, <2>1 DEF PollAnswered, Apply, PageInv
    <3>2. DashboardTypeOK'
      <4>1. page' \in 0..MaxState /\ app' \in 0..MaxState
        BY <3>1, DashboardAssumption DEF States
      <4> QED BY <3>1, <4>1 DEF network, PageInv, DashboardTypeOK
    <3>3. page' <= state' /\ poll' \notin States
      BY <3>1, DashboardAssumption DEF network, PageInv, States
    <3>4. \A i \in 1..Len(pushed') : pushed'[i] <= state'
      BY <3>1 DEF network, PageInv
    <3> QED BY <3>1, <3>2, <3>3, <3>4 DEF PageInv
  <2>2. CASE ~fresh
    BY <1>3, <2>2, DashboardAssumption
    DEF PollAnswered, network, display, PageInv, DashboardTypeOK, States
  <2> QED BY <2>1, <2>2
<1>4. CASE PollFails
  BY <1>4, DashboardAssumption DEF PollFails, network, PageInv, DashboardTypeOK, States
<1>5. CASE ResetAsk
  BY <1>5 DEF ResetAsk, network, display, PageInv, DashboardTypeOK, States
<1>6. CASE ResetRead
  <2>1. /\ state' = Next1 /\ resetting' = Next1 /\ pushed' = Delivered
        /\ UNCHANGED <<reachable, failures, socket, poll, fresh, page, app, connected>>
    BY <1>6 DEF ResetRead, display
  <2>2. state' \in States /\ state <= state' /\ pushed' \in Seq(States)
        /\ \A i \in 1..Len(pushed') : pushed'[i] <= state'
    BY <1>6, <2>1, NextState DEF ResetRead
  <2>3. page <= state' /\ page' >= page
    BY <2>1, <2>2, PageTypes DEF PageInv, States
  <2> QED BY <2>1, <2>2, <2>3 DEF PageInv, DashboardTypeOK, States
<1>7. CASE ResetAnswered
  BY <1>7 DEF ResetAnswered, network, PageInv, DashboardTypeOK, States
<1>8. CASE ResetFails
  BY <1>8 DEF ResetFails, network, display, PageInv, DashboardTypeOK, States
<1> QED BY <1>1, <1>2, <1>3, <1>4, <1>5, <1>6, <1>7, <1>8

LEMMA InitKeeps == DashboardInit => PageInv
<1> SUFFICES ASSUME DashboardInit PROVE PageInv
  OBVIOUS
<1>1. DashboardTypeOK
  <2>1. 1 \in States /\ 0 \in 0..MaxState /\ 0 \in 0..MaxFailures /\ <<>> \in Seq(States)
    BY DashboardAssumption DEF States
  <2> QED BY <2>1 DEF DashboardInit, DashboardTypeOK
<1>2. page <= state /\ pushed = <<>> /\ poll \notin States
  BY DashboardAssumption DEF DashboardInit, States
<1> QED BY <1>1, <1>2 DEF PageInv

LEMMA NextKeeps ==
  ASSUME PageInv, [DashboardNext]_dashboardVars
  PROVE  PageInv' /\ (pushed' = pushed => page' >= page)
<1>1. CASE \/ Mutate \/ Outage \/ Return \/ GoesDead \/ Connect \/ Opens
           \/ \E was \in {"connecting", "open", "dead"} : Closes(was)
  <2>1. page' = page
    BY <1>1 DEF Mutate, Outage, Return, GoesDead, Connect, Opens, Closes, display
  <2> QED BY <1>1, <2>1, NetworkKeeps, PageTypes
<1>2. CASE Receive
  BY <1>2, ReceiveKeeps
<1>3. CASE \/ Poll \/ PollRead \/ PollAnswered \/ PollFails
           \/ ResetAsk \/ ResetRead \/ ResetAnswered \/ ResetFails
  BY <1>3, RequestsKeep
<1>4. CASE UNCHANGED dashboardVars
  <2>1. DashboardTypeOK'
    BY <1>4 DEF dashboardVars, PageInv, DashboardTypeOK
  <2> QED BY <1>4, <2>1, PageStands, PageTypes DEF dashboardVars
<1> QED BY <1>1, <1>2, <1>3, <1>4 DEF DashboardNext

\* What the page, its polls and its socket hold is of these kinds throughout.
THEOREM DashboardTypes == DashboardSpec => []DashboardTypeOK
<1>1. PageInv /\ [DashboardNext]_dashboardVars => PageInv'
  BY NextKeeps
<1>2. PageInv => DashboardTypeOK
  BY DEF PageInv
<1> QED BY InitKeeps, <1>1, <1>2, PTL DEF DashboardSpec

\* An HTTP answer never takes the display back, whatever was pushed while it
\* was under way (PopulationState.tsx, updateSequence).
THEOREM PageMovesForward == DashboardSpec => Forward
<1>1. PageInv /\ [DashboardNext]_dashboardVars => PageInv'
  BY NextKeeps
<1>2. PageInv /\ [DashboardNext]_dashboardVars => [pushed' = pushed => page' >= page]_dashboardVars
  BY NextKeeps
<1> QED BY InitKeeps, <1>1, <1>2, PTL DEF DashboardSpec, Forward

-----------------------------------------------------------------------------
\* The director's panel.

\* Whatever was read or confirmed is a past status, and what may still be
\* shown is no older than the display: while a switch is under way no poll
\* counts.
PanelInv ==
  /\ status.at \in Nat /\ read.at \in Nat /\ confirmed.at \in Nat /\ shown.at \in Nat
  /\ read.at <= status.at /\ confirmed.at <= status.at /\ shown.at <= status.at
  /\ chain = "read" /\ current => shown.at <= read.at
  /\ switch = "answered" => shown.at <= confirmed.at
  /\ switch # "off" /\ chain \in {"asked", "read"} => ~current

\* A step of the server: the status moves on, and nothing is shown.
LEMMA ServerKeeps ==
  ASSUME PanelInv, status'.at \in Nat, status'.at >= status.at,
         UNCHANGED <<chain, read, current, confirmed, shown>>,
         switch' = switch \/ (switch = "asked" /\ switch' = "served")
  PROVE  PanelInv' /\ shown'.at >= shown.at
  BY DEF PanelInv

LEMMA SetMovesOn ==
  ASSUME PanelInv, NEW on, Set(on)
  PROVE  status'.at \in Nat /\ status'.at >= status.at
<1>1. CASE status' = status
  BY <1>1 DEF PanelInv
<1>2. CASE status' = [at |-> status.at + 1, on |-> on]
  <2>1. status'.at = status.at + 1
    BY <1>2
  <2> QED BY <2>1 DEF PanelInv
<1> QED BY <1>1, <1>2 DEF Set

\* The panel never goes back to a status older than one it has shown, however
\* polls, switches and their late answers cross (requestVersion in
\* OutbreakDirector.tsx).
THEOREM PanelNeverOlder == PanelSpec => NeverOlder
<1>1. PanelInit => PanelInv
  BY DEF PanelInit, Unread, PanelInv
<1>2. PanelInv /\ [PanelNext]_panelVars => PanelInv' /\ (shown'.at >= shown.at \/ UNCHANGED panelVars)
  <2> SUFFICES ASSUME PanelInv, [PanelNext]_panelVars
               PROVE  PanelInv' /\ shown'.at >= shown.at
    OBVIOUS
  <2>1. ASSUME NEW on \in BOOLEAN, Changes(on) PROVE PanelInv' /\ shown'.at >= shown.at
    <3>1. status'.at = status.at + 1
      BY <2>1 DEF Changes
    <3> QED BY <2>1, <3>1, ServerKeeps DEF Changes, polling, switching, panel, PanelInv
  <2>2. ASSUME NEW on \in BOOLEAN, ServedLate(on) PROVE PanelInv' /\ shown'.at >= shown.at
    BY <2>2, SetMovesOn, ServerKeeps DEF ServedLate, polling, switching, panel
  <2>3. CASE Stalls \/ Returns
    BY <2>3, ServerKeeps DEF Stalls, Returns, polling, switching, panel, PanelInv
  <2>4. CASE Served
    BY <2>4, SetMovesOn, ServerKeeps DEF Served, polling, panel
  <2>5. CASE Answers
    BY <2>5 DEF Answers, server, polling, panel, PanelInv
  <2>6. CASE Reads
    BY <2>6 DEF Reads, server, switching, panel, PanelInv
  <2>7. CASE Asks
    BY <2>7 DEF Asks, server, switching, panel, PanelInv
  <2>8. CASE Shows
    BY <2>8 DEF Shows, server, switching, panel, PanelInv
  <2>9. CASE Fails
    BY <2>9 DEF Fails, server, switching, PanelInv
  <2>10. CASE Toggle
    BY <2>10 DEF Toggle, server, panel, PanelInv
  <2>11. CASE Confirms
    BY <2>11 DEF Confirms, server, polling, PanelInv
  <2>12. CASE GivesUp
    BY <2>12 DEF GivesUp, polling, PanelInv
  <2>13. CASE UNCHANGED panelVars
    BY <2>13 DEF panelVars, PanelInv
  <2> QED BY <2>1, <2>2, <2>3, <2>4, <2>5, <2>6, <2>7, <2>8, <2>9, <2>10, <2>11, <2>12, <2>13
          DEF PanelNext
<1>3. PanelInv /\ [PanelNext]_panelVars /\ PanelInv' => [shown'.at >= shown.at]_panelVars
  BY <1>2
<1> QED BY <1>1, <1>2, <1>3, PTL DEF PanelSpec, NeverOlder
===============================================================================
