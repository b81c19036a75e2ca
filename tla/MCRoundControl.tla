--------------------------- MODULE MCRoundControl ---------------------------
(***************************************************************************)
(* Two badges, the host among them, and a third where one must register    *)
(* while the digest of the roster of the others is computed.               *)
(***************************************************************************)
EXTENDS RoundControl, TLC

\* Handlers are only names of calls, and badges other than the host differ only
\* in what they did: slots are given in the order of registration.
Symmetry == Permutations(Handlers) \cup Permutations(Badges \ {Host})
=============================================================================
