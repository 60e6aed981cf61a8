----------------------------- MODULE Selection -----------------------------
(***************************************************************************)
(* What is kept of a sequence, in its order.                               *)
(***************************************************************************)
EXTENDS Integers, SequencesExt

\* The elements of s that are in S, in order.
Only(s, S) ==
    LET only[n \in 0..Len(s)] ==
            IF n = 0 THEN <<>>
            ELSE IF s[n] \in S THEN Append(only[n - 1], s[n]) ELSE only[n - 1]
    IN  only[Len(s)]

\* The elements of s that are not in S, in order.
Without(s, S) == Only(s, Range(s) \ S)

\* The places of s that are in P, in order.
PlacesOf(s, P) == Only([i \in DOMAIN s |-> i], P)

=============================================================================
