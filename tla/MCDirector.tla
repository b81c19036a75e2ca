----------------------------- MODULE MCDirector -----------------------------
(***************************************************************************)
(* A round that ends, and another round after it.                          *)
(***************************************************************************)
EXTENDS Director

Seen(round, news) == [round |-> round, news |-> news, over |-> news = 1]
TwoRounds == <<Seen(1, 0), Seen(1, 1), Seen(2, 0)>>
=============================================================================
