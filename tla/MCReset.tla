------------------------------ MODULE MCReset ------------------------------
(***************************************************************************)
(* RoundControl in two scenes: Reset Game and host controls, and a lobby   *)
(* that nobody resets and that must get under way.                         *)
(***************************************************************************)
EXTENDS RoundControl

VARIABLE scene
sceneVars == <<scene, controlVars>>

\* There is a key left for every badge that has none.
KeysLeft == Cardinality({b \in Badges : key[b] = NoKey}) <= MaxKeys - Len(owner)

MCInit == Init /\ scene \in {"reset", "live"}
MCNext ==
  /\ scene' = scene
  /\ Next
  /\ scene = "live" => presses' = <<>> /\ archives' = {} /\ KeysLeft'

MCSpec == MCInit /\ [][MCNext]_sceneVars /\ (scene = "live" => Retries)

\* In the live scene a frozen lobby always gets under way, whoever restarts
\* before it was ready (prepareImpl, replay and maybeStart).
LiveStarts == scene = "live" => Starts
=============================================================================
