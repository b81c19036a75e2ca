------------------------------- MODULE Panel -------------------------------
(***************************************************************************)
(* The director's panel on the live page                                   *)
(* (frontend/src/components/OutbreakDirector.tsx) and the routes it uses   *)
(* (GET /director, POST /director/enabled): a chain of polls, each of      *)
(* which starts the next, and a switch whose request interrupts them.      *)
(*                                                                         *)
(* The director's status is its number in the order in which it changed,   *)
(* and whether the operator has it switched on; the director is configured *)
(* and enabled by its server.  `current' stands for the comparison of      *)
(* requestVersion with its value when the poll began: only the switch      *)
(* raises that, and one switch is under way at a time.                     *)
(***************************************************************************)
EXTENDS Integers

CONSTANTS
  MaxStatus,     \* bound on the statuses of the director
  MaxOutages     \* bound on outages

ASSUME PanelAssumption == MaxStatus \in Nat /\ MaxOutages \in Nat

VARIABLES
  status,        \* the director's status
  answering,     \* the server answers in time
  outages,       \* outages so far
  late,          \* settings asked for by switches that the page gave up
  chain,         \* the poll: "timer", "asked", "aborted" or "read"
  read,          \* the status it read
  current,       \* no switch was made since it began
  switch,        \* the switch: "off", "asked", "served" or "answered"
  wanted,        \* the setting it asks for
  confirmed,     \* the status it was answered with
  shown,         \* the status on display
  failing        \* the panel says that it has no feed

panelVars == <<status, answering, outages, late, chain, read, current, switch, wanted,
               confirmed, shown, failing>>
server    == <<status, answering, outages, late>>
polling   == <<chain, read, current>>
switching == <<switch, wanted, confirmed>>
panel     == <<shown, failing>>

Statuses == [at : 0..MaxStatus, on : BOOLEAN]
Unread == [at |-> 0, on |-> FALSE]

PanelInit ==
  /\ status = [at |-> 1, on |-> TRUE] /\ answering = TRUE /\ outages = 0 /\ late = {}
  /\ chain = "asked" /\ read = Unread /\ current = TRUE
  /\ switch = "off" /\ wanted = FALSE /\ confirmed = Unread
  /\ shown = Unread /\ failing = FALSE

-----------------------------------------------------------------------------
\* The server.

\* The director works, or another operator switches it.
Changes(on) ==
  /\ answering /\ status.at < MaxStatus
  /\ status' = [at |-> status.at + 1, on |-> on]
  /\ UNCHANGED <<answering, outages, late, polling, switching, panel>>

Stalls ==
  /\ answering /\ outages < MaxOutages
  /\ answering' = FALSE /\ outages' = outages + 1
  /\ UNCHANGED <<status, late, polling, switching, panel>>

Returns ==
  /\ ~answering
  /\ answering' = TRUE
  /\ UNCHANGED <<status, outages, late, polling, switching, panel>>

\* setDirectorEnabled: a setting that is the present one changes nothing.
Set(on) ==
  IF status.on = on THEN status' = status
  ELSE status.at < MaxStatus /\ status' = [at |-> status.at + 1, on |-> on]

Served ==
  /\ switch = "asked" /\ answering
  /\ Set(wanted)
  /\ switch' = "served"
  /\ UNCHANGED <<answering, outages, late, wanted, confirmed, polling, panel>>

\* The answer is the status when the call is through.
Answers ==
  /\ switch = "served" /\ answering
  /\ switch' = "answered" /\ confirmed' = status
  /\ UNCHANGED <<server, wanted, polling, panel>>

ServedLate(on) ==
  /\ on \in late /\ answering
  /\ Set(on)
  /\ late' = late \ {on}
  /\ UNCHANGED <<answering, outages, polling, switching, panel>>

Reads ==
  /\ chain = "asked" /\ answering
  /\ chain' = "read" /\ read' = status
  /\ UNCHANGED <<server, current, switching, panel>>

-----------------------------------------------------------------------------
\* poll.

\* The timer; while a switch is under way it is only set again.
Asks ==
  /\ chain = "timer" /\ switch = "off"
  /\ chain' = "asked" /\ current' = TRUE
  /\ UNCHANGED <<server, read, switching, panel>>

Shows ==
  /\ chain = "read"
  /\ chain' = "timer"
  /\ IF current THEN shown' = read /\ failing' = FALSE ELSE UNCHANGED panel
  /\ UNCHANGED <<server, read, current, switching>>

\* Mutant: an aborted poll times no other.
FailsForGood ==
  /\ chain \in {"asked", "read"} /\ ~answering
  /\ chain' = "timer"
  /\ failing' = (failing \/ current)
  /\ UNCHANGED <<server, read, current, switching, shown>>

\* The poll is aborted by the switch or after eight seconds.  Whatever became
\* of it, the next is timed.
Fails ==
  /\ chain = "aborted" \/ (chain \in {"asked", "read"} /\ ~answering)
  /\ chain' = "timer"
  /\ failing' = (failing \/ current)
  /\ UNCHANGED <<server, read, current, switching, shown>>

-----------------------------------------------------------------------------
\* toggleDirector.

\* Mutant: the poll under way counts.
ToggleBeside ==
  /\ switch = "off" /\ shown # Unread /\ ~failing
  /\ switch' = "asked" /\ wanted' = ~shown.on
  /\ UNCHANGED <<server, polling, confirmed, panel>>

Toggle ==
  /\ switch = "off" /\ shown # Unread /\ ~failing
  /\ switch' = "asked" /\ wanted' = ~shown.on
  /\ current' = FALSE
  /\ chain' = IF chain = "asked" THEN "aborted" ELSE chain
  /\ UNCHANGED <<server, read, confirmed, panel>>

Confirms ==
  /\ switch = "answered"
  /\ switch' = "off"
  /\ shown' = confirmed /\ failing' = FALSE
  /\ UNCHANGED <<server, polling, wanted, confirmed>>

\* The switch is given up after eight seconds.  Its request may have been
\* lost, or be served later.
GivesUp ==
  /\ switch # "off" /\ ~answering
  /\ switch' = "off"
  /\ failing' = TRUE
  /\ late' \in {late, late \cup (IF switch = "asked" THEN {wanted} ELSE {})}
  /\ UNCHANGED <<status, answering, outages, polling, wanted, confirmed, shown>>

PanelNext ==
  \/ \E on \in BOOLEAN : Changes(on) \/ ServedLate(on)
  \/ Stalls \/ Returns \/ Served \/ Answers \/ Reads
  \/ Asks \/ Shows \/ Fails
  \/ Toggle \/ Confirms \/ GivesUp

PanelSpec == PanelInit /\ [][PanelNext]_panelVars

\* Timers and answers come in the end; the director, the operators and the
\* network do as they like.
PanelFairness ==
  /\ WF_panelVars(Served) /\ WF_panelVars(Answers) /\ WF_panelVars(Reads)
  /\ WF_panelVars(Asks) /\ WF_panelVars(Shows) /\ WF_panelVars(Fails)
  /\ WF_panelVars(Confirms) /\ WF_panelVars(GivesUp)

-----------------------------------------------------------------------------
\* Properties.

\* The panel never goes back to a status older than one it has shown, however
\* polls, switches and their late answers cross.
NeverOlder == [][shown'.at >= shown.at]_panelVars

\* Once the server answers in time for good and its status stands, the panel
\* shows it as current: neither an abort nor a failure ends the polls.
Shown ==
  <>[](answering /\ late = {} /\ status.at < MaxStatus) => <>[](shown = status /\ ~failing)
=============================================================================
