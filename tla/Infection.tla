----------------------------- MODULE Infection -----------------------------
(***************************************************************************)
(* What a round promises to its players: patient zero starts infected, who *)
(* is infected may infect who is not, nobody is cured or infected twice,   *)
(* and once the round has ended the winner is what the infections say,     *)
(* until a final verdict after which nothing changes.  Evidence, with its  *)
(* late, repeated and contradictory uploads, implements this.              *)
(***************************************************************************)
CONSTANTS
  Players,
  PatientZero,   \* one of them
  Nobody         \* the tagger of a human, none of them

VARIABLES
  tagger,        \* who infected each player; patient zero infected itself
  verdict        \* how far the round has come, and who won

Infected(p) == tagger[p] # Nobody
Winner == IF \A p \in Players : Infected(p) THEN "Z" ELSE "H"

Init ==
  /\ tagger = [p \in Players |-> IF p = PatientZero THEN p ELSE Nobody]
  /\ verdict = [phase |-> "running", winner |-> "H"]

Infect(by, victim) ==
  /\ verdict.phase # "final"
  /\ Infected(by) /\ ~Infected(victim)
  /\ tagger' = [tagger EXCEPT ![victim] = by]
  /\ UNCHANGED verdict

\* The round ends, or a provisional end is judged again.
Close ==
  /\ verdict.phase # "final"
  /\ \E phase \in {"expired_pending_sync", "final"} :
       verdict' = [phase |-> phase, winner |-> Winner]
  /\ UNCHANGED tagger

Next == Close \/ \E by, victim \in Players : Infect(by, victim)

Spec == Init /\ [][Next]_<<tagger, verdict>>
=============================================================================
