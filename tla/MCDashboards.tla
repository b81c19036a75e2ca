---------------------------- MODULE MCDashboards ----------------------------
(***************************************************************************)
(* What the room shows, from its tables to the screen: the room and its    *)
(* pushes, a live page, and the page's panel of the director.  They share  *)
(* no state (the page's room is Feed's promise, which GameRoom is shown    *)
(* to keep), so a behaviour is one of one of the three.                    *)
(***************************************************************************)
EXTENDS GameRoom, Dashboard, Panel

VARIABLE part

allVars == <<part, roomVars, dashboardVars, panelVars>>

MCInit ==
  /\ part \in {"room", "page", "panel"}
  /\ RoomInit /\ DashboardInit /\ PanelInit

MCNext ==
  /\ part' = part
  /\ \/ part = "room"  /\ RoomNext      /\ UNCHANGED <<dashboardVars, panelVars>>
     \/ part = "page"  /\ DashboardNext /\ UNCHANGED <<roomVars, panelVars>>
     \/ part = "panel" /\ PanelNext     /\ UNCHANGED <<roomVars, dashboardVars>>

MCSpec == MCInit /\ [][MCNext]_allVars /\ (part = "page" => DashboardFairness)
          /\ (part = "panel" => PanelFairness)

\* The page ends up showing the truth (Dashboard.tla).
PageTruthful == part = "page" => Truthful

\* The panel ends up showing the director's status (Panel.tla).
PanelShows == part = "panel" => Shown
=============================================================================
