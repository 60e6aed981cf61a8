----------------------------- MODULE MCTtsPool -----------------------------
(* TtsPool on small instances. *)
EXTENDS TtsPool, TLC

CONSTANTS c1, c2, c3, c4, e1, e2

MCNone == {}
MCOne == {c1}
MCTwo == {c1, c2}
MCFour == {c1, c2, c3, c4}
MCTwoConns == {e1, e2}

\* Clients of whom none is cancelled are alike, and so are entries.
MCSymFour == Permutations(MCFour) \cup Permutations(MCTwoConns)
=============================================================================
