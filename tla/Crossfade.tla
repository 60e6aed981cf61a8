----------------------------- MODULE Crossfade -----------------------------
(***************************************************************************)
(* SentenceCrossfader (pipeline/crossfade.rs): the end of each sentence is *)
(* held back and mixed with the beginning of the next.  A fader is a       *)
(* record, an operation takes the fader it finds and gives the one it      *)
(* leaves and the bytes to be sent.  A byte sent is the set of the bytes   *)
(* of audio it was made from: one, or the two that were mixed.             *)
(***************************************************************************)
EXTENDS Integers, Sequences

CONSTANT Fade    \* FADE_BYTES

ASSUME FadeAssumption == Fade \in Nat /\ Fade > 0 /\ Fade % 2 = 0

\* asserted: no debug_assert of crossfade() has failed.
NewFader == [tail |-> <<>>, head |-> <<>>, hold |-> <<>>, done |-> FALSE, asserted |-> TRUE]

Lesser(m, n) == IF m < n THEN m ELSE n

Keep(bytes, n) == SubSeq(bytes, 1, n)
Past(bytes, n) == SubSeq(bytes, n + 1, Len(bytes))

Plain(bytes) == [i \in DOMAIN bytes |-> {bytes[i]}]

\* crossfade(): as many bytes as a has, in whole samples.
Mix(a, b) == [i \in 1..(2 * (Len(a) \div 2)) |-> {a[i], b[i]}]

\* Fault: what was held back is forgotten at the next sentence.
BeginSentenceAnew(f) == [f EXCEPT !.tail = <<>>, !.head = <<>>, !.hold = <<>>, !.done = TRUE]

\* No mixing when nothing was held back.
BeginSentence(f) == [f EXCEPT !.head = <<>>, !.hold = <<>>, !.done = (f.tail = <<>>)]

\* Fault: one byte more is held back.
RollLate(f, bytes) ==
    LET held == f.hold \o bytes
        extra == IF Len(held) > Fade + 1 THEN Len(held) - Fade - 1 ELSE 0
    IN  [fader |-> [f EXCEPT !.hold = Past(held, extra)], sent |-> Plain(Keep(held, extra))]

\* The last Fade bytes stay behind.
Roll(f, bytes) ==
    LET held == f.hold \o bytes
        extra == IF Len(held) > Fade THEN Len(held) - Fade ELSE 0
    IN  [fader |-> [f EXCEPT !.hold = Past(held, extra)], sent |-> Plain(Keep(held, extra))]

\* feed(): first the head is filled and mixed, the rest rolls on.
Feed(f, bytes) ==
    LET take == Lesser(Fade - Len(f.head), Len(bytes))
        head == f.head \o Keep(bytes, take)
        mixed == [f EXCEPT !.tail = <<>>, !.head = <<>>, !.done = TRUE,
                           !.asserted = @ /\ Len(f.tail) = Fade]
        rolled == Roll(mixed, Past(bytes, take))
    IN  IF f.done THEN Roll(f, bytes)
        ELSE IF Len(head) < Fade THEN [fader |-> [f EXCEPT !.head = head], sent |-> <<>>]
        ELSE [rolled EXCEPT !.sent = Mix(f.tail, head) \o @]

\* A sentence too short to be mixed with what was held back of the one before.
EndShort(f) ==
    LET n == 2 * (Lesser(Len(f.tail), Len(f.head)) \div 2)
    IN  [fader |-> [f EXCEPT !.tail = <<>>, !.head = <<>>, !.done = TRUE],
         sent  |-> Mix(Keep(f.tail, n), Keep(f.head, n)) \o Plain(Past(f.head, n))]

EndSentence(f) ==
    IF f.done THEN [fader |-> [f EXCEPT !.tail = f.hold, !.hold = <<>>], sent |-> <<>>]
    ELSE EndShort(f)

FinishFader(f) == Plain(f.tail \o f.hold \o f.head)

=============================================================================
