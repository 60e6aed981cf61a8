------------------------------- MODULE Floor -------------------------------
(***************************************************************************)
(* What a voice session promises about who answers (the policy stated at   *)
(* the head of session/mod.rs): turns begin, wait while they are being     *)
(* understood, and at most one of them speaks; a turn that has something   *)
(* to say silences the one that speaks; an interruption silences all.      *)
(***************************************************************************)
EXTENDS Naturals

CONSTANT Turns      \* a set of numbers: the order in which turns may begin

VARIABLE turn       \* the status of each turn

Statuses == {"unborn", "waiting", "speaking", "over"}

Init == turn = [t \in Turns |-> "unborn"]

Unborn(t) == turn[t] = "unborn"

Begin(t) ==
    /\ Unborn(t)
    /\ turn' = [turn EXCEPT ![t] = "waiting"]

\* A turn takes the floor from whoever holds it.
Take(t) ==
    /\ turn[t] = "waiting"
    /\ turn' = [u \in Turns |-> IF u = t THEN "speaking"
                                ELSE IF turn[u] = "speaking" THEN "over"
                                ELSE turn[u]]

Leave(t) ==
    /\ turn[t] \in {"waiting", "speaking"}
    /\ turn' = [turn EXCEPT ![t] = "over"]

Silenced == [u \in Turns |-> IF Unborn(u) THEN "unborn" ELSE "over"]

Silence == turn' = Silenced

\* The last utterance is played again: silence, and a new turn.
Replay(t) ==
    /\ Unborn(t)
    /\ turn' = [Silenced EXCEPT ![t] = "waiting"]

Next == Silence \/ \E t \in Turns : Begin(t) \/ Take(t) \/ Leave(t) \/ Replay(t)

Spec == Init /\ [][Next]_turn
=============================================================================
