----------------------------- MODULE MCDelivery -----------------------------
(***************************************************************************)
(* Delivery in five scenes, each with the little that makes its case.      *)
(***************************************************************************)
EXTENDS Delivery

VARIABLE scene

Scenes == {"commands", "results", "events", "announcement", "cleanup"}
allVars == <<scene, vars>>

MCInit ==
  /\ scene \in Scenes
  /\ Init
  /\ roster = IF scene = "cleanup" THEN Slots ELSE {HostSlot, 1}
  /\ scene \in {"commands", "results", "events"} => offline = {1}
  /\ scene = "cleanup" => 1 \in offline

\* What is published in a scene, and in which phase.
Same(c, d) == c.type = d.type /\ c.target = d.target
Published == {round'.log[i].type : i \in DOMAIN round'.log}
InScene ==
  /\ scene # "commands" => "ROLE_SET" \notin Published
  /\ scene = "commands" =>
       /\ round'.phase # "final"
       /\ \A i, j \in DOMAIN round'.log : i # j => ~Same(round'.log[i], round'.log[j])
  /\ scene \in {"commands", "results"} => drops' = 0
  /\ scene = "announcement" => Len(round'.log) <= 3
  /\ scene = "events" => Len(round'.log) <= 2
  /\ scene # "events" => round'.events = round.events
  /\ scene # "announcement" => actions' = actions
  /\ scene = "cleanup" => round'.log = round.log
  /\ scene \in {"announcement", "cleanup"} \/ ~archive'.reset

MCNext == Next /\ scene' = scene /\ InScene

MCSpec == MCInit /\ [][MCNext]_allVars /\ Fairness
=============================================================================
