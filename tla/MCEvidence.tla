----------------------------- MODULE MCEvidence -----------------------------
(***************************************************************************)
(* Three badges, patient zero in slot 0, in two scenes.  In "chain" the    *)
(* uploads hold a chain of infections, a second report by the same victim, *)
(* a conflicting body and an event that names the roles the other way      *)
(* round; they come two at a time, from the countdown on.  In "disorder"   *)
(* they hold a cycle, a stranger and a reused attempt; they come singly,   *)
(* after the countdown, with decision frontiers.                           *)
(***************************************************************************)
EXTENDS Evidence

Event(v, q, a, c, ar, vr, k, t) ==
  [victim |-> v, seq |-> q, actor |-> a, cause |-> [slot |-> a, seq |-> c],
   actor_role_rev |-> ar, victim_role_rev |-> vr, attempt |-> k,
   elapsed |-> t, uncertainty |-> 0, heard |-> TRUE]

ChainBodies ==
  {Event(1, 1, 0, 0, 1, 1, 1, 0),   \* patient zero tags 1
   Event(2, 1, 1, 1, 1, 1, 1, 1),   \* 1, still unconfirmed, tags 2
   Event(2, 1, 0, 0, 1, 1, 2, 1),   \* a second body under that identity
   Event(2, 2, 1, 1, 2, 1, 2, 2),   \* 2 was tagged again
   Event(1, 2, 2, 1, 1, 1, 3, 2)}   \* 2 tags 1, were 1 human again

ChainReceipts == {[slot |-> s, produced |-> IF s = 0 THEN 0 ELSE 1] : s \in {0, 1, 2}}
                 \cup {[slot |-> 2, produced |-> 2]}

\* Slot 3 may be named but is not in the roster.
DisorderBodies ==
  {Event(1, 1, 2, 1, 1, 1, 1, 1),   \* 2 tags 1 while 1 tags 2:
   Event(2, 1, 1, 1, 1, 1, 1, 1),   \* a cycle
   Event(1, 2, 0, 0, 1, 1, 2, 1),   \* patient zero tags 1
   Event(2, 2, 0, 0, 1, 2, 2, 1),   \* the same attempt heard by 2
   Event(3, 1, 0, 0, 1, 1, 3, 0),   \* a stranger
   Event(2, 3, 1, 2, 1, 1, 4, 2)}   \* 1 tags 2

\* One receipt says less than its badge reported, as after a reboot.
LateReceipts == {[slot |-> 0, produced |-> 0], [slot |-> 1, produced |-> 1],
                 [slot |-> 2, produced |-> 1], [slot |-> 2, produced |-> 2]}
LateFrontiers == {[slot |-> 2, through |-> 1], [slot |-> 2, through |-> 2]}

VARIABLE scene
sceneVars == <<scene, vars>>

SceneBodies    == IF scene = "chain" THEN ChainBodies ELSE DisorderBodies
SceneReceipts  == IF scene = "chain" THEN ChainReceipts ELSE LateReceipts
SceneFrontiers == IF scene = "chain" THEN {} ELSE LateFrontiers
AllBodies   == ChainBodies \cup DisorderBodies
AllReceipts == ChainReceipts \cup LateReceipts

Loads(S) == {b \in Batches(S) : scene = "disorder" => Cardinality(b) <= 1}

MCInit == Init /\ scene \in {"chain", "disorder"}

\* Next, with the inputs of the scene.
MCNext ==
  /\ scene' = scene
  /\ \/ Tick \/ CheckDue
     \/ (scene = "disorder" => now >= StartTime) /\
          \/ \E batch \in Loads(SceneBodies) \ {{}} : Ingest(batch)
          \/ \E batch \in Loads(SceneBodies) : \E e \in batch : IngestConflict(batch, e)
          \/ \E receipts \in Loads(SceneReceipts), frontiers \in Loads(SceneFrontiers) :
               Ack(receipts, frontiers)
     \/ (\E i \in Ids : SettleRow(i)) \/ SettleDone

MCSpec == MCInit /\ [][MCNext]_sceneVars /\ Fairness
=============================================================================
