-------------------------------- MODULE Feed --------------------------------
(***************************************************************************)
(* What the server promises a dashboard (backend/README.md, WebSockets):   *)
(* the full state when it connects and after every mutation, so that the   *)
(* last frame sent to an open socket is never behind the state.  GameRoom  *)
(* implements this; Dashboard builds on it.                                *)
(***************************************************************************)
CONSTANTS
  Viewers,    \* dashboard sockets
  Shut        \* no socket

VARIABLES
  state,      \* what the server would answer a read with
  shown       \* the last frame sent to each viewer

watch == <<state, shown>>

Nobody == [v \in Viewers |-> Shut]
Pushed(frame) == [v \in Viewers |-> IF shown[v] = Shut THEN Shut ELSE frame]

Init == shown = Nobody

\* A mutation reaches every open socket in the step that makes it.
Mutate == shown' = Pushed(state')

Join(v) ==
  /\ shown[v] = Shut
  /\ shown' = [shown EXCEPT ![v] = state]
  /\ state' = state

Leave(v) ==
  /\ shown' = [shown EXCEPT ![v] = Shut]
  /\ state' = state

\* The server restarts: no socket survives, and what was due is done.
Restart == shown' = Nobody

Next == Mutate \/ Restart \/ \E v \in Viewers : Join(v) \/ Leave(v)

Spec == Init /\ [][Next]_watch
=============================================================================
