------------------------------- MODULE Agent -------------------------------
(***************************************************************************)
(* LlmAgent (agent/llmagent.rs): the turns of ONE session, each a stream   *)
(* that its reader task polls, over the short-term memory of the session   *)
(* (agent/memory.rs, agent/redis_store.rs) and two models, fast and        *)
(* strong.  A turn may be dropped where the code awaits, and a turn that   *)
(* is no longer wanted may run beside its successor until it notices.      *)
(*                                                                         *)
(* A text is what tells answers apart: the user's input is its length, and *)
(* a delta is named by the turn and the model that said it and by its      *)
(* place in that attempt.                                                  *)
(***************************************************************************)
EXTENDS Integers, Sequences, FiniteSets, SequencesExt

CONSTANTS
    Turns,       \* calls of chat() on this session
    Lengths,     \* lengths of the user's inputs, after trim
    Window,      \* messages the memory keeps
    Backends,    \* memory backends considered: "in_memory", "redis"
    AttemptEvents  \* events of one attempt (bound)

ASSUME WindowAssumption == Window \in Nat
ASSUME EventsAssumption == AttemptEvents \in Nat \ {0}
ASSUME BackendsAssumption == Backends \subseteq {"in_memory", "redis"}

DEFAULT_STRONG_MIN_CHARS == 15

Tiers == {"fast", "strong"}
Events == [delta : BOOLEAN, is_final : BOOLEAN]

VARIABLES
    backend,     \* the backend chosen at startup
    stored,      \* the session's list: newest at the END in memory, at the HEAD in Redis
    turn,        \* the stream of each call
    log          \* every message a store accepted, in order (history)

vars == <<backend, stored, turn, log>>

Message(t, role, text) == [role |-> role, turn |-> t, text |-> text]

----------------------------------------------------------------------------
(* The memory.                                                             *)

\* A window of 0 keeps one message all the same.
Capacity == IF Window = 0 THEN 1 ELSE Window

\* Fault: a full window gives up its newest message.
PushOverNewest(items, m) == Append(IF Len(items) = Capacity THEN Front(items) ELSE items, m)

\* ShortTermMemory::push
PushItem(items, m) == Append(IF Len(items) = Capacity THEN Tail(items) ELSE items, m)

LPush(list, m) == <<m>> \o list
LTrim(list) == SubSeq(list, 1, IF Len(list) < Capacity THEN Len(list) ELSE Capacity)

\* RedisStore::history reverses what LRANGE returned (newest first) and then
\* reverses it once more.
RedisHistory(list) == Reverse(Reverse(list))

History == IF backend = "in_memory" THEN stored ELSE RedisHistory(stored)

\* The same list, oldest first, whatever the backend.
Chronological == IF backend = "in_memory" THEN stored ELSE Reverse(stored)

----------------------------------------------------------------------------
Silence == [delta |-> FALSE, is_final |-> FALSE]

Idle == [pc |-> "idle", tier |-> "fast", asked |-> <<>>, event |-> Silence,
         visible |-> FALSE, buf |-> <<>>, recorded |-> FALSE, out |-> <<>>, heard |-> 0, then |-> "none"]

Init ==
    /\ backend \in Backends
    /\ stored = <<>>
    /\ turn = [t \in Turns |-> Idle]
    /\ log = <<>>

At(t, pc) == turn[t].pc = pc
Becomes(t, stream) == turn' = [turn EXCEPT ![t] = stream]

\* ModelRouter::route
Route(length) == IF length < DEFAULT_STRONG_MIN_CHARS THEN "fast" ELSE "strong"

\* chat(): the model is chosen and the history read before the stream is polled.
\* A failed LRANGE is a warning and an empty history.
BeginChat(t) ==
    /\ At(t, "idle")
    /\ \E length \in Lengths, past \in {History} \cup (IF backend = "redis" THEN {<<>>} ELSE {}) :
           Becomes(t, [Idle EXCEPT !.pc = "asking", !.tier = Route(length),
                                   !.asked = Append(past, Message(t, "user", <<>>))])
    /\ UNCHANGED <<backend, stored, log>>

\* The next attempt is made with the strong model and the same messages.
Escalate(t) ==
    Becomes(t, [turn[t] EXCEPT !.pc = "asking", !.tier = "strong", !.heard = 0, !.event = Silence])

\* A stream that ended, in whatever way, is not polled again.
End(t, how) ==
    Becomes(t, [Idle EXCEPT !.pc = how, !.tier = turn[t].tier, !.out = turn[t].out])

\* Fault: the strong model is tried again for ever.
GiveUpNever(t) ==
    \/ ~turn[t].visible /\ Escalate(t)
    \/ turn[t].visible /\ End(t, "failed")

\* Fault: a fast model is replaced though the user heard it.
GiveUpLate(t) ==
    \/ turn[t].tier = "fast" /\ Escalate(t)
    \/ turn[t].tier = "strong" /\ End(t, "failed")

\* Before the user heard anything a fast model is given up for the strong one;
\* after that, and for the strong model, the turn fails.
GiveUp(t) ==
    \/ /\ turn[t].tier = "fast" /\ ~turn[t].visible
       /\ Escalate(t)
    \/ /\ turn[t].tier = "strong" \/ turn[t].visible
       /\ End(t, "failed")

\* chat_with_messages() of the model returns a stream.
Asked(t) ==
    /\ At(t, "asking")
    /\ Becomes(t, [turn[t] EXCEPT !.pc = "reading", !.visible = FALSE])
    /\ UNCHANGED <<backend, stored, log>>

AskFails(t) ==
    /\ At(t, "asking")
    /\ \/ turn[t].tier = "fast" /\ Escalate(t)
       \/ turn[t].tier = "strong" /\ End(t, "failed")
    /\ UNCHANGED <<backend, stored, log>>

StreamFails(t) ==
    /\ At(t, "reading")
    /\ GiveUp(t)
    /\ UNCHANGED <<backend, stored, log>>

\* The stream ended without is_final.
StreamEnds(t) ==
    /\ At(t, "reading")
    /\ \/ /\ turn[t].visible
          /\ End(t, "done")
       \/ /\ ~turn[t].visible
          /\ GiveUp(t)
    /\ UNCHANGED <<backend, stored, log>>

Receive(t) ==
    /\ At(t, "reading")
    /\ turn[t].heard < AttemptEvents
    /\ \E e \in Events :
           Becomes(t, [turn[t] EXCEPT !.event = e, !.heard = @ + 1, !.recorded = @ \/ e.delta,
                                      !.pc = IF e.delta /\ ~turn[t].recorded THEN "user" ELSE "heard"])
    /\ UNCHANGED <<backend, stored, log>>

\* MemoryStore::append, then on to pc.  In memory it cannot be left half way;
\* in Redis LPUSH may fail, and LTRIM is an await of its own.
Record(t, m, pc) ==
    \/ /\ backend = "in_memory"
       /\ stored' = PushItem(stored, m)
       /\ log' = Append(log, m)
       /\ Becomes(t, [turn[t] EXCEPT !.pc = pc])
    \/ /\ backend = "redis"
       /\ stored' = LPush(stored, m)
       /\ log' = Append(log, m)
       /\ Becomes(t, [turn[t] EXCEPT !.pc = "trim", !.then = pc])
    \/ /\ backend = "redis"
       /\ Becomes(t, [turn[t] EXCEPT !.pc = pc])
       /\ UNCHANGED <<stored, log>>

Trim(t) ==
    /\ At(t, "trim")
    /\ stored' \in {LTrim(stored), stored}
    /\ Becomes(t, [turn[t] EXCEPT !.pc = turn[t].then, !.then = "none"])
    /\ UNCHANGED <<backend, log>>

\* The user's message is recorded with the first text of the answer.
RecordUser(t) ==
    /\ At(t, "user")
    /\ Record(t, Message(t, "user", <<>>), "heard")
    /\ UNCHANGED backend

\* What the delta adds to the answer.
Said(t) == IF turn[t].event.delta THEN <<[turn |-> t, tier |-> turn[t].tier, n |-> turn[t].heard]>> ELSE <<>>

Visible(t) == turn[t].visible \/ turn[t].event.delta

Yielded(t) == Append(turn[t].out, [said |-> Said(t), is_final |-> turn[t].event.is_final])

\* Fault: the text of the final event is not part of what is recorded.
HeardLosingLast(t) ==
    /\ At(t, "heard") /\ (turn[t].event.is_final => Visible(t))
    /\ Becomes(t, [turn[t] EXCEPT !.pc = IF turn[t].event.is_final THEN "answer" ELSE "reading",
                                  !.visible = Visible(t),
                                  !.buf = IF turn[t].event.is_final THEN @ ELSE @ \o Said(t),
                                  !.out = IF Visible(t) /\ ~turn[t].event.is_final THEN Yielded(t) ELSE @])
    /\ UNCHANGED <<backend, stored, log>>

\* The event is taken in: a final one ends the answer, any other is passed on
\* once something was said.
Heard(t) ==
    /\ At(t, "heard")
    /\ \/ /\ ~turn[t].event.is_final
          /\ Becomes(t, [turn[t] EXCEPT !.pc = "reading", !.visible = Visible(t), !.buf = @ \o Said(t),
                                        !.out = IF Visible(t) THEN Yielded(t) ELSE @])
       \/ /\ turn[t].event.is_final /\ Visible(t)
          /\ Becomes(t, [turn[t] EXCEPT !.pc = "answer", !.visible = TRUE, !.buf = @ \o Said(t)])
       \/ /\ turn[t].event.is_final /\ ~Visible(t)
          /\ GiveUp(t)
    /\ UNCHANGED <<backend, stored, log>>

\* Fault: the answer is passed on and not recorded.
RecordAnswerSkipped(t) ==
    /\ At(t, "answer")
    /\ Becomes(t, [turn[t] EXCEPT !.pc = "deliver"])
    /\ UNCHANGED <<backend, stored, log>>

RecordAnswer(t) ==
    /\ At(t, "answer")
    /\ Record(t, Message(t, "assistant", turn[t].buf), "deliver")
    /\ UNCHANGED backend

Deliver(t) ==
    /\ At(t, "deliver")
    /\ Becomes(t, [Idle EXCEPT !.pc = "done", !.tier = turn[t].tier, !.out = Yielded(t)])
    /\ UNCHANGED <<backend, stored, log>>

\* The reader task is cancelled: the stream is dropped at the await it is at.
Awaits(t) ==
    \/ turn[t].pc \in {"asking", "reading", "trim"}
    \/ backend = "redis" /\ turn[t].pc \in {"user", "answer", "deliver"}

Drop(t) ==
    /\ Awaits(t)
    /\ End(t, "dropped")
    /\ UNCHANGED <<backend, stored, log>>

\* The TTL of an idle Redis list runs out.
Expire ==
    /\ backend = "redis" /\ stored # <<>>
    /\ stored' = <<>>
    /\ UNCHANGED <<backend, turn, log>>

Ended == {"done", "failed", "dropped"}

Step(t) ==
    \/ Asked(t) \/ AskFails(t) \/ StreamFails(t) \/ StreamEnds(t) \/ Receive(t)
    \/ RecordUser(t) \/ Trim(t) \/ Heard(t) \/ RecordAnswer(t) \/ Deliver(t)

Next == Expire \/ \E t \in Turns : BeginChat(t) \/ Step(t) \/ Drop(t)

Spec == Init /\ [][Next]_vars

(* The stream is polled by a task that does nothing else, and each request *)
(* to a model or to Redis is answered or times out (the clients are built  *)
(* with a timeout).                                                        *)
TurnFairness == \A t \in Turns : WF_vars(Step(t))

FairSpec == Spec /\ TurnFairness

----------------------------------------------------------------------------
\* What the consumer of a turn's stream has been given.
Given(t) == FlattenSeq([i \in DOMAIN turn[t].out |-> turn[t].out[i].said])

Finished(t) == turn[t].out # <<>> /\ Last(turn[t].out).is_final

\* The memory is the END of what was recorded, however many turns record at
\* once: no message is lost from the middle, repeated, or out of order; and in
\* memory it is as long as the window allows (memory.rs ShortTermMemory::push,
\* redis_store.rs append).
StoreIsRecent ==
    /\ IsSuffix(Chronological, log)
    /\ backend = "in_memory" =>
           Len(stored) = IF Len(log) < Capacity THEN Len(log) ELSE Capacity

\* An answer in the memory is a whole answer of one attempt of one model: all
\* that its listener was given, and at most the last event, not passed on yet,
\* more.  In memory the question stands before it (llmagent.rs chat).
AnswersWhole ==
    \A i \in DOMAIN log : log[i].role = "assistant" =>
        LET answer == log[i].text
            t == log[i].turn
        IN  /\ IsPrefix(Given(t), answer) /\ Len(answer) \leq Len(Given(t)) + 1
            /\ \A d, e \in Range(answer) : d.turn = t /\ d.tier = e.tier
            /\ \A j \in DOMAIN log : log[j] = log[i] => j = i
            /\ backend = "in_memory" => Message(t, "user", <<>>) \in Range(SubSeq(log, 1, i))

\* A listener that was told the answer is complete was given text, was told so
\* once and last, and (in memory) the next turn will know the answer.
CompleteAnswersKnown ==
    \A t \in Turns :
        /\ At(t, "done") => Given(t) # <<>>
        /\ \A i \in DOMAIN turn[t].out : turn[t].out[i].is_final => i = Len(turn[t].out)
        /\ Finished(t) /\ backend = "in_memory" => Message(t, "assistant", Given(t)) \in Range(log)

\* Once a listener was given text no other model answers in its place
\* (llmagent.rs: escalation only before visible).
OneVoice == [][\A t \in Turns : turn[t].out # <<>> => turn'[t].tier = turn[t].tier]_vars

\* A turn that began ends, with an answer, an error or by being dropped: the
\* fast model is given up for the strong one at most once.
TurnsEnd == <>[](\A t \in Turns : turn[t].pc \in Ended \cup {"idle"})

\* memory.rs:55 says of history(): the oldest message first, the newest last.
\* What a model is asked is then in the order things were said.
PromptsInOrder ==
    \A t \in Turns :
        LET past == IF turn[t].asked = <<>> THEN <<>> ELSE Front(turn[t].asked)
        IN  \A i, j \in DOMAIN past : i < j => SelectInSeq(log, LAMBDA m : m = past[i])
                                              < SelectInSeq(log, LAMBDA m : m = past[j])

=============================================================================
