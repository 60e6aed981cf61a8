---------------------------- MODULE AgentProofs ----------------------------
(***************************************************************************)
(* Proofs about Agent, for any set of turns, any inputs, any window and    *)
(* any number of events: the memory is the end of what was recorded, the   *)
(* model does not change under a listener, and what is recorded of an      *)
(* answer is what its listener is given.                                   *)
(***************************************************************************)
EXTENDS Agent, SequenceLemmas

Deltas == [turn : Turns, tier : Tiers, n : Nat]
Messages == [role : {"user", "assistant"}, turn : Turns, text : Seq(Deltas)]
Items == [said : Seq(Deltas), is_final : BOOLEAN]
Running == {"asking", "reading", "user", "trim", "heard", "answer", "deliver"}

Streams ==
    [pc : {"idle"} \cup Running \cup Ended, tier : Tiers, asked : Seq(Messages), event : Events,
     visible : BOOLEAN, buf : Seq(Deltas), recorded : BOOLEAN, out : Seq(Items), heard : Nat,
     then : {"none", "heard", "deliver"}]

\* Every variable has its type.
AgentTypes ==
    /\ backend \in {"in_memory", "redis"}
    /\ stored \in Seq(Messages)
    /\ log \in Seq(Messages)
    /\ turn \in [Turns -> Streams]

\* Nothing was given to the listener of a stream that has not begun or is
\* being asked for, nor of a running one that is not visible; only an append
\* waits for the trimming, and it knows where to go on.
Good(s) ==
    /\ s.pc \in {"idle", "asking"} => s.out = <<>>
    /\ s.pc \in Running /\ ~s.visible => s.out = <<>>
    /\ s.pc = "trim" => s.then # "none"

Unheard == \A t \in Turns : Good(turn[t])

LEMMA EmptyIsSeq == \A S : <<>> \in Seq(S)
OBVIOUS

-----------------------------------------------------------------------------
(* What a step of a turn does to its stream.                                *)

\* The stream becomes a good one, and keeps its model if it was heard.
Advances(t) ==
    \E s \in Streams :
        Becomes(t, s) /\ Good(s) /\ (turn[t].out # <<>> => s.tier = turn[t].tier)

LEMMA AdvanceKeeps ==
    ASSUME AgentTypes, Unheard, NEW t \in Turns, Advances(t)
    PROVE  /\ turn' \in [Turns -> Streams] /\ Unheard'
           /\ \A u \in Turns : turn[u].out # <<>> => turn'[u].tier = turn[u].tier
<1>1. PICK s \in Streams :
          Becomes(t, s) /\ Good(s) /\ (turn[t].out # <<>> => s.tier = turn[t].tier)
  BY DEF Advances
<1>2. turn' = [turn EXCEPT ![t] = s] /\ turn \in [Turns -> Streams]
  BY <1>1 DEF Becomes, AgentTypes
<1>3. turn'[t] = s /\ \A u \in Turns : u # t => turn'[u] = turn[u]
  BY <1>2
<1>4. turn' \in [Turns -> Streams]
  BY <1>2
<1>5. Unheard'
  BY <1>1, <1>3 DEF Unheard
<1> QED BY <1>1, <1>3, <1>4, <1>5

LEMMA IdleStream == Idle \in Streams
BY EmptyIsSeq DEF Idle, Streams, Silence, Events, Tiers

\* The question, behind any past.
LEMMA MessageType ==
    ASSUME NEW t \in Turns, NEW role \in {"user", "assistant"}, NEW text \in Seq(Deltas)
    PROVE  Message(t, role, text) \in Messages
BY DEF Message, Messages

LEMMA ReverseType ==
    ASSUME NEW S, NEW list \in Seq(S)
    PROVE  /\ Reverse(list) \in Seq(S) /\ Len(Reverse(list)) = Len(list)
           /\ \A i \in 1..Len(list) : Reverse(list)[i] = list[Len(list) - i + 1]
<1>1. \A i \in 1..Len(list) : list[Len(list) - i + 1] \in S
  OBVIOUS
<1>2. Reverse(list) = [i \in 1..Len(list) |-> list[(Len(list) - i) + 1]]
  BY DEF Reverse
<1>3. Reverse(list) \in [1..Len(list) -> S] /\ Len(list) \in Nat
  BY <1>1, <1>2
<1>4. Reverse(list) \in Seq(S)
  BY <1>3, SeqDef
<1>5. Len(Reverse(list)) = Len(list)
  BY <1>3, <1>4, LenProperties
<1> QED BY <1>2, <1>4, <1>5

LEMMA HistoryType == AgentTypes => History \in Seq(Messages)
BY ReverseType DEF AgentTypes, History, RedisHistory

LEMMA ChatAdvances ==
    ASSUME AgentTypes, Unheard, NEW t \in Turns, BeginChat(t)
    PROVE  Advances(t)
<1>1. PICK length \in Lengths, past \in {History} \cup (IF backend = "redis" THEN {<<>>} ELSE {}) :
          Becomes(t, [Idle EXCEPT !.pc = "asking", !.tier = Route(length),
                                  !.asked = Append(past, Message(t, "user", <<>>))])
  BY DEF BeginChat
<1>2. past \in Seq(Messages)
  BY <1>1, HistoryType, EmptyIsSeq
<1>3. Append(past, Message(t, "user", <<>>)) \in Seq(Messages)
  <2>1. <<>> \in Seq(Deltas) /\ "user" \in {"user", "assistant"}
    BY EmptyIsSeq
  <2>2. Message(t, "user", <<>>) \in Messages
    BY <2>1, MessageType
  <2> QED BY <1>2, <2>2, AppendProperties
<1>4. Route(length) \in Tiers
  BY DEF Route, Tiers
<1> DEFINE s == [Idle EXCEPT !.pc = "asking", !.tier = Route(length),
                             !.asked = Append(past, Message(t, "user", <<>>))]
<1>5. s \in Streams
  BY <1>3, <1>4, IdleStream DEF Streams, Running
<1>6. s.pc = "asking" /\ s.out = <<>>
  BY DEF Idle
<1>7. turn[t].out = <<>>
  BY DEF BeginChat, At, Unheard, Good
<1> QED BY <1>1, <1>5, <1>6, <1>7 DEF Advances, Good

\* A model is replaced before it was heard.
LEMMA EscalateAdvances ==
    ASSUME AgentTypes, NEW t \in Turns, turn[t].out = <<>>, Escalate(t)
    PROVE  Advances(t)
<1> DEFINE s == [turn[t] EXCEPT !.pc = "asking", !.tier = "strong", !.heard = 0, !.event = Silence]
<1>1. turn[t] \in Streams /\ Silence \in Events
  BY DEF AgentTypes, Silence, Events
<1>2. s \in Streams
  BY <1>1 DEF Streams, Running, Tiers
<1>3. s.pc = "asking" /\ s.out = <<>>
  BY <1>1 DEF Streams
<1>4. Becomes(t, s)
  BY DEF Escalate
<1> QED BY <1>2, <1>3, <1>4 DEF Advances, Good

LEMMA EndAdvances ==
    ASSUME AgentTypes, NEW t \in Turns, NEW how \in Ended, End(t, how)
    PROVE  Advances(t)
<1> DEFINE s == [Idle EXCEPT !.pc = how, !.tier = turn[t].tier, !.out = turn[t].out]
<1>1. turn[t] \in Streams
  BY DEF AgentTypes
<1>2. turn[t].tier \in Tiers /\ turn[t].out \in Seq(Items)
  BY <1>1 DEF Streams
<1>3. s \in Streams
  BY <1>2, IdleStream DEF Streams
<1>4. s.pc = how /\ s.tier = turn[t].tier
  BY DEF Idle
<1>5. Becomes(t, s)
  BY DEF End
<1>6. Good(s)
  BY <1>4 DEF Good, Running, Ended
<1> QED BY <1>3, <1>4, <1>5, <1>6 DEF Advances

LEMMA GiveUpAdvances ==
    ASSUME AgentTypes, Unheard, NEW t \in Turns, turn[t].pc \in Running, GiveUp(t)
    PROVE  Advances(t)
<1>1. CASE turn[t].tier = "fast" /\ ~turn[t].visible /\ Escalate(t)
  BY <1>1, EscalateAdvances DEF Unheard, Good
<1>2. CASE End(t, "failed")
  BY <1>2, EndAdvances DEF Ended
<1> QED BY <1>1, <1>2 DEF GiveUp

LEMMA AskedAdvances ==
    ASSUME AgentTypes, Unheard, NEW t \in Turns, Asked(t)
    PROVE  Advances(t)
<1> DEFINE s == [turn[t] EXCEPT !.pc = "reading", !.visible = FALSE]
<1>1. turn[t] \in Streams /\ turn[t].out = <<>>
  BY DEF AgentTypes, Asked, At, Unheard, Good
<1>2. s \in Streams
  BY <1>1 DEF Streams, Running
<1>3. s.pc = "reading" /\ s.out = <<>> /\ s.tier = turn[t].tier
  BY <1>1 DEF Streams
<1>4. Becomes(t, s)
  BY DEF Asked
<1> QED BY <1>2, <1>3, <1>4 DEF Advances, Good

LEMMA ReceiveAdvances ==
    ASSUME AgentTypes, Unheard, NEW t \in Turns, Receive(t)
    PROVE  Advances(t)
<1>1. PICK e \in Events :
          Becomes(t, [turn[t] EXCEPT !.event = e, !.heard = @ + 1, !.recorded = @ \/ e.delta,
                                     !.pc = IF e.delta /\ ~turn[t].recorded THEN "user" ELSE "heard"])
  BY DEF Receive
<1> DEFINE s == [turn[t] EXCEPT !.event = e, !.heard = @ + 1, !.recorded = @ \/ e.delta,
                                !.pc = IF e.delta /\ ~turn[t].recorded THEN "user" ELSE "heard"]
<1>2. turn[t] \in Streams /\ turn[t].pc = "reading" /\ e.delta \in BOOLEAN
  BY DEF AgentTypes, Receive, At, Events
<1>3. turn[t].heard + 1 \in Nat /\ (turn[t].recorded \/ e.delta) \in BOOLEAN
  BY <1>2 DEF Streams
<1>4. s \in Streams
  BY <1>2, <1>3 DEF Streams, Running
<1>5. /\ s.pc \in {"user", "heard"} /\ s.out = turn[t].out /\ s.tier = turn[t].tier
      /\ s.visible = turn[t].visible
  BY <1>2 DEF Streams
<1>6. ~turn[t].visible => turn[t].out = <<>>
  BY <1>2 DEF Unheard, Good, Running
<1> QED BY <1>1, <1>4, <1>5, <1>6 DEF Advances, Good

\* A running stream goes on at another place, with the text it has.
LEMMA MovesOn ==
    ASSUME AgentTypes, Unheard, NEW t \in Turns, turn[t].pc \in Running \ {"asking"},
           NEW pc \in Running \ {"asking"}, NEW then \in {"none", "heard", "deliver"},
           pc = "trim" => then # "none",
           Becomes(t, [turn[t] EXCEPT !.pc = pc, !.then = then])
    PROVE  Advances(t)
<1> DEFINE s == [turn[t] EXCEPT !.pc = pc, !.then = then]
<1>1. turn[t] \in Streams
  BY DEF AgentTypes
<1>2. s \in Streams
  BY <1>1 DEF Streams
<1>3. /\ s.pc = pc /\ s.then = then /\ s.out = turn[t].out /\ s.tier = turn[t].tier
      /\ s.visible = turn[t].visible
  BY <1>1 DEF Streams
<1>4. ~turn[t].visible => turn[t].out = <<>>
  BY DEF Unheard, Good
<1>5. Good(s)
  BY <1>3, <1>4 DEF Good, Running
<1> QED BY <1>2, <1>3, <1>5 DEF Advances

LEMMA RecordAdvances ==
    ASSUME AgentTypes, Unheard, NEW t \in Turns, turn[t].pc \in {"user", "answer"},
           NEW m, NEW pc \in {"heard", "deliver"}, Record(t, m, pc)
    PROVE  Advances(t)
<1>1. turn[t] \in Streams /\ turn[t].pc \in Running \ {"asking"}
  BY DEF AgentTypes, Running
<1>2. turn[t].then \in {"none", "heard", "deliver"} /\ pc \in Running \ {"asking"} /\ pc # "trim"
  BY <1>1 DEF Streams, Running
<1>3. [turn[t] EXCEPT !.pc = pc] = [turn[t] EXCEPT !.pc = pc, !.then = turn[t].then]
  BY <1>1 DEF Streams
<1>4. CASE Becomes(t, [turn[t] EXCEPT !.pc = pc])
  BY <1>1, <1>2, <1>3, <1>4, MovesOn
<1>5. CASE Becomes(t, [turn[t] EXCEPT !.pc = "trim", !.then = pc])
  <2>1. "trim" \in Running \ {"asking"} /\ pc # "none" /\ pc \in {"none", "heard", "deliver"}
    BY DEF Running
  <2> QED BY <1>1, <1>5, <2>1, MovesOn
<1> QED BY <1>4, <1>5 DEF Record

LEMMA TrimAdvances ==
    ASSUME AgentTypes, Unheard, NEW t \in Turns, Trim(t)
    PROVE  Advances(t)
<1>1. turn[t].then \in {"none", "heard", "deliver"} /\ turn[t].then # "none" /\ turn[t].pc = "trim"
  BY DEF AgentTypes, Streams, Trim, At, Unheard, Good
<1>2. /\ turn[t].then \in Running \ {"asking"} /\ turn[t].then # "trim"
      /\ turn[t].pc \in Running \ {"asking"}
  BY <1>1 DEF Running
<1>3. Becomes(t, [turn[t] EXCEPT !.pc = turn[t].then, !.then = "none"])
  BY DEF Trim
<1> QED BY <1>2, <1>3, MovesOn

LEMMA SaidType ==
    ASSUME AgentTypes, NEW t \in Turns
    PROVE  /\ Said(t) \in Seq(Deltas) /\ turn[t].buf \o Said(t) \in Seq(Deltas)
           /\ Yielded(t) \in Seq(Items) /\ Visible(t) \in BOOLEAN
<1>1. turn[t] \in Streams
  BY DEF AgentTypes
<1>2. /\ turn[t].tier \in Tiers /\ turn[t].heard \in Nat /\ turn[t].event \in Events
      /\ turn[t].buf \in Seq(Deltas) /\ turn[t].out \in Seq(Items) /\ turn[t].visible \in BOOLEAN
  BY <1>1 DEF Streams
<1>3. [turn |-> t, tier |-> turn[t].tier, n |-> turn[t].heard] \in Deltas
  BY <1>2 DEF Deltas
<1>4. Said(t) \in Seq(Deltas)
  BY <1>3, EmptyIsSeq DEF Said
<1>5. turn[t].event.delta \in BOOLEAN /\ turn[t].event.is_final \in BOOLEAN
  BY <1>2 DEF Events
<1>6. [said |-> Said(t), is_final |-> turn[t].event.is_final] \in Items
  BY <1>4, <1>5 DEF Items
<1>7. Yielded(t) \in Seq(Items)
  BY <1>2, <1>6 DEF Yielded
<1>8. Visible(t) \in BOOLEAN
  BY <1>2, <1>5 DEF Visible
<1>9. turn[t].buf \o Said(t) \in Seq(Deltas)
  BY <1>2, <1>4
<1> QED BY <1>4, <1>7, <1>8, <1>9

LEMMA HeardAdvances ==
    ASSUME AgentTypes, Unheard, NEW t \in Turns, Heard(t)
    PROVE  Advances(t)
<1>1. turn[t] \in Streams /\ turn[t].pc = "heard" /\ turn[t].pc \in Running
  BY DEF AgentTypes, Heard, At, Running
<1>2. ~turn[t].visible => turn[t].out = <<>>
  BY <1>1 DEF Unheard, Good
<1>3. ~Visible(t) => turn[t].out = <<>>
  BY <1>2 DEF Visible
<1>4. CASE Becomes(t, [turn[t] EXCEPT !.pc = "reading", !.visible = Visible(t), !.buf = @ \o Said(t),
                                      !.out = IF Visible(t) THEN Yielded(t) ELSE @])
  <2> DEFINE s == [turn[t] EXCEPT !.pc = "reading", !.visible = Visible(t), !.buf = @ \o Said(t),
                                  !.out = IF Visible(t) THEN Yielded(t) ELSE @]
  <2>1. (IF Visible(t) THEN Yielded(t) ELSE turn[t].out) \in Seq(Items)
    BY <1>1, SaidType DEF Streams
  <2>2. s \in Streams
    BY <1>1, <2>1, SaidType DEF Streams, Running
  <2>3. /\ s.pc = "reading" /\ s.visible = Visible(t) /\ s.tier = turn[t].tier
        /\ s.out = IF Visible(t) THEN Yielded(t) ELSE turn[t].out
    BY <1>1 DEF Streams
  <2>4. Good(s)
    BY <1>3, <2>3 DEF Good
  <2> QED BY <1>4, <2>2, <2>3, <2>4 DEF Advances
<1>5. CASE Becomes(t, [turn[t] EXCEPT !.pc = "answer", !.visible = TRUE, !.buf = @ \o Said(t)])
  <2> DEFINE s == [turn[t] EXCEPT !.pc = "answer", !.visible = TRUE, !.buf = @ \o Said(t)]
  <2>1. s \in Streams
    BY <1>1, SaidType DEF Streams, Running
  <2>2. s.pc = "answer" /\ s.visible = TRUE /\ s.tier = turn[t].tier
    BY <1>1 DEF Streams
  <2> QED BY <1>5, <2>1, <2>2 DEF Advances, Good
<1>6. CASE GiveUp(t)
  BY <1>1, <1>6, GiveUpAdvances
<1> QED BY <1>4, <1>5, <1>6 DEF Heard

LEMMA DeliverAdvances ==
    ASSUME AgentTypes, Unheard, NEW t \in Turns, Deliver(t)
    PROVE  Advances(t)
<1> DEFINE s == [Idle EXCEPT !.pc = "done", !.tier = turn[t].tier, !.out = Yielded(t)]
<1>1. turn[t] \in Streams /\ turn[t].tier \in Tiers
  BY DEF AgentTypes, Streams
<1>2. s \in Streams
  BY <1>1, SaidType, IdleStream DEF Streams, Ended
<1>3. s.pc = "done" /\ s.tier = turn[t].tier
  BY DEF Idle
<1>4. Becomes(t, s)
  BY DEF Deliver
<1> QED BY <1>2, <1>3, <1>4 DEF Advances, Good, Running

\* Every step of a turn is one of these.
LEMMA TurnAdvances ==
    ASSUME AgentTypes, Unheard, NEW t \in Turns, BeginChat(t) \/ Step(t) \/ Drop(t)
    PROVE  Advances(t)
<1>1. CASE AskFails(t)
  <2>1. turn[t].out = <<>>
    BY <1>1 DEF AskFails, At, Unheard, Good
  <2> QED BY <1>1, <2>1, EscalateAdvances, EndAdvances DEF AskFails, Ended
<1>2. CASE StreamFails(t) \/ StreamEnds(t)
  <2>1. turn[t].pc \in Running
    BY <1>2 DEF StreamFails, StreamEnds, At, Running
  <2> QED BY <1>2, <2>1, GiveUpAdvances, EndAdvances DEF StreamFails, StreamEnds, Ended
<1>3. CASE RecordUser(t)
  BY <1>3, RecordAdvances DEF RecordUser, At
<1>4. CASE RecordAnswer(t)
  BY <1>4, RecordAdvances DEF RecordAnswer, At
<1>5. CASE Drop(t)
  BY <1>5, EndAdvances DEF Drop, Ended
<1> QED
  BY <1>1, <1>2, <1>3, <1>4, <1>5, ChatAdvances, AskedAdvances, ReceiveAdvances, TrimAdvances,
     HeardAdvances, DeliverAdvances DEF Step

-----------------------------------------------------------------------------
(* The memory.                                                              *)

\* s is the end of l; and read backwards.
Ending(s, l) == Len(s) <= Len(l) /\ \A i \in 1..Len(s) : s[i] = l[Len(l) - Len(s) + i]
Beginning(s, l) == Len(s) <= Len(l) /\ \A i \in 1..Len(s) : s[i] = l[Len(l) - i + 1]

Least(m, n) == IF m < n THEN m ELSE n

\* What is stored is the end of the log: in memory as long as the window
\* allows, in Redis the other way round.
Recent ==
    /\ backend = "in_memory" => Ending(stored, log) /\ Len(stored) = Least(Len(log), Capacity)
    /\ backend = "redis" => Beginning(stored, log)

LEMMA CapacityType == Capacity \in Nat /\ Capacity > 0
BY WindowAssumption DEF Capacity

\* An element-wise end is a suffix.
LEMMA EndingIsSuffix ==
    ASSUME NEW S, NEW s \in Seq(S), NEW l \in Seq(S), Ending(s, l)
    PROVE  IsSuffix(s, l)
<1> DEFINE rs == Reverse(s)
           rl == Reverse(l)
<1>1. /\ rs \in Seq(S) /\ Len(rs) = Len(s) /\ \A i \in 1..Len(s) : rs[i] = s[Len(s) - i + 1]
      /\ rl \in Seq(S) /\ Len(rl) = Len(l) /\ \A i \in 1..Len(l) : rl[i] = l[Len(l) - i + 1]
  BY ReverseType
<1> HIDE DEF rs, rl
<1>2. Len(s) \in Nat /\ Len(l) \in Nat /\ Len(s) <= Len(l)
  BY DEF Ending
<1>3. \A i \in 1..Len(s) : rs[i] = rl[i]
  <2> TAKE i \in 1..Len(s)
  <2>1. Len(s) - i + 1 \in 1..Len(s) /\ i \in 1..Len(l)
    BY <1>2
  <2>2. s[Len(s) - i + 1] = l[Len(l) - Len(s) + (Len(s) - i + 1)]
    BY <2>1 DEF Ending
  <2>3. Len(l) - Len(s) + (Len(s) - i + 1) = Len(l) - i + 1
    BY <1>2
  <2> QED BY <1>1, <2>1, <2>2, <2>3
<1>4. SubSeq(rs, 1, Len(rs)) = SubSeq(rl, 1, Len(rs))
  <2>1. SubSeq(rs, 1, Len(s)) = [i \in 1..Len(s) |-> rs[i]]
    BY <1>1, <1>2
  <2>2. SubSeq(rl, 1, Len(s)) = [i \in 1..Len(s) |-> rl[i]]
    BY <1>1, <1>2
  <2> QED BY <1>1, <1>3, <2>1, <2>2
<1>5. IsPrefix(rs, rl)
  BY <1>1, <1>2, <1>4 DEF IsPrefix
<1> QED BY <1>5 DEF IsSuffix, rs, rl

LEMMA BeginningIsSuffix ==
    ASSUME NEW S, NEW s \in Seq(S), NEW l \in Seq(S), Beginning(s, l)
    PROVE  IsSuffix(Reverse(s), l)
<1> DEFINE rs == Reverse(s)
<1>1. rs \in Seq(S) /\ Len(rs) = Len(s) /\ \A i \in 1..Len(s) : rs[i] = s[Len(s) - i + 1]
  BY ReverseType
<1> HIDE DEF rs
<1>2. Len(s) \in Nat /\ Len(l) \in Nat /\ Len(s) <= Len(l)
  BY DEF Beginning
<1>3. \A i \in 1..Len(s) : rs[i] = l[Len(l) - Len(s) + i]
  <2> TAKE i \in 1..Len(s)
  <2>1. Len(s) - i + 1 \in 1..Len(s)
    BY <1>2
  <2>2. s[Len(s) - i + 1] = l[Len(l) - (Len(s) - i + 1) + 1]
    BY <2>1 DEF Beginning
  <2>3. Len(l) - (Len(s) - i + 1) + 1 = Len(l) - Len(s) + i
    BY <1>2
  <2> QED BY <1>1, <2>2, <2>3
<1>4. Ending(rs, l)
  BY <1>1, <1>2, <1>3 DEF Ending
<1> QED BY <1>1, <1>4, EndingIsSuffix DEF rs

\* A message pushed into the ring: the end of the log, one message later.
LEMMA PushKeepsEnding ==
    ASSUME NEW S, NEW s \in Seq(S), NEW l \in Seq(S), NEW m \in S, Ending(s, l),
           Len(s) = Least(Len(l), Capacity)
    PROVE  /\ PushItem(s, m) \in Seq(S) /\ Ending(PushItem(s, m), Append(l, m))
           /\ Len(PushItem(s, m)) = Least(Len(Append(l, m)), Capacity)
<1> DEFINE k == IF Len(s) = Capacity THEN Tail(s) ELSE s
           a == Append(l, m)
<1>1. Len(s) \in Nat /\ Len(l) \in Nat /\ Len(s) <= Len(l)
  BY DEF Ending
<1>2. a \in Seq(S) /\ Len(a) = Len(l) + 1 /\ a[Len(l) + 1] = m /\ \A i \in 1..Len(l) : a[i] = l[i]
  BY <1>1
<1>3. /\ k \in Seq(S) /\ Len(k) \in Nat /\ Len(k) <= Len(l)
      /\ Len(k) + 1 = Least(Len(l) + 1, Capacity)
      /\ \A i \in 1..Len(k) : k[i] = l[Len(l) - Len(k) + i]
  <2>1. CASE Len(s) = Capacity
    <3>1. s # <<>>
      BY <2>1, CapacityType
    <3>2. /\ Tail(s) \in Seq(S) /\ Len(Tail(s)) = Len(s) - 1
          /\ \A i \in 1..(Len(s) - 1) : Tail(s)[i] = s[i + 1]
      BY <3>1, <1>1
    <3>3. k = Tail(s)
      BY <2>1
    <3>4. \A i \in 1..(Len(s) - 1) : s[i + 1] = l[Len(l) - Len(s) + (i + 1)]
      BY <1>1 DEF Ending
    <3>5. \A i \in 1..(Len(s) - 1) : k[i] = l[Len(l) - (Len(s) - 1) + i]
      <4> TAKE i \in 1..(Len(s) - 1)
      <4>1. Len(l) - Len(s) + (i + 1) = Len(l) - (Len(s) - 1) + i
        BY <1>1
      <4> QED BY <3>2, <3>3, <3>4, <4>1
    <3>6. Len(s) = Least(Len(l) + 1, Capacity)
      BY <1>1, <2>1, CapacityType DEF Least
    <3> HIDE DEF k
    <3>7. Len(k) = Len(s) - 1 /\ Len(s) - 1 \in Nat
      BY <1>1, <2>1, <3>2, <3>3, CapacityType
    <3>8. \A i \in 1..Len(k) : k[i] = l[Len(l) - Len(k) + i]
      BY <3>5, <3>7
    <3>9. Len(k) + 1 = Least(Len(l) + 1, Capacity) /\ Len(k) <= Len(l)
      BY <1>1, <3>6, <3>7
    <3> QED BY <3>2, <3>3, <3>7, <3>8, <3>9
  <2>2. CASE Len(s) # Capacity
    <3>1. k = s /\ Len(s) = Len(l) /\ Len(l) + 1 <= Capacity
      BY <1>1, <2>2, CapacityType DEF Least
    <3>2. Len(s) + 1 = Least(Len(l) + 1, Capacity)
      BY <1>1, <3>1, CapacityType DEF Least
    <3> HIDE DEF k
    <3> QED BY <1>1, <3>1, <3>2 DEF Ending
  <2> QED BY <2>1, <2>2
<1>4. PushItem(s, m) = Append(k, m)
  BY DEF PushItem
<1> HIDE DEF k, a
<1> DEFINE p == Append(k, m)
<1>5. p \in Seq(S) /\ Len(p) = Len(k) + 1 /\ p[Len(k) + 1] = m /\ \A i \in 1..Len(k) : p[i] = k[i]
  BY <1>3
<1> HIDE DEF p
<1>6. \A i \in 1..Len(p) : p[i] = a[Len(a) - Len(p) + i]
  <2> TAKE i \in 1..Len(p)
  <2>1. Len(a) - Len(p) + i = Len(l) - Len(k) + i
    BY <1>1, <1>2, <1>3, <1>5
  <2>2. CASE i = Len(k) + 1
    BY <1>1, <1>2, <1>3, <1>5, <2>1, <2>2
  <2>3. CASE i # Len(k) + 1
    <3>1. i \in 1..Len(k) /\ Len(l) - Len(k) + i \in 1..Len(l)
      BY <1>1, <1>3, <1>5, <2>3
    <3> QED BY <1>2, <1>3, <1>5, <2>1, <3>1
  <2> QED BY <2>2, <2>3
<1>7. Len(p) <= Len(a)
  BY <1>1, <1>2, <1>3, <1>5
<1> QED BY <1>2, <1>3, <1>4, <1>5, <1>6, <1>7 DEF Ending, p, a

LEMMA LPushKeepsBeginning ==
    ASSUME NEW S, NEW s \in Seq(S), NEW l \in Seq(S), NEW m \in S, Beginning(s, l)
    PROVE  LPush(s, m) \in Seq(S) /\ Beginning(LPush(s, m), Append(l, m))
<1> DEFINE a == Append(l, m)
           p == LPush(s, m)
<1>1. Len(s) \in Nat /\ Len(l) \in Nat /\ Len(s) <= Len(l)
  BY DEF Beginning
<1>2. a \in Seq(S) /\ Len(a) = Len(l) + 1 /\ a[Len(l) + 1] = m /\ \A i \in 1..Len(l) : a[i] = l[i]
  BY <1>1
<1>3. p \in Seq(S) /\ Len(p) = Len(s) + 1 /\ p[1] = m /\ \A i \in 2..Len(p) : p[i] = s[i - 1]
  BY <1>1 DEF LPush
<1> HIDE DEF a, p
<1>4. \A i \in 1..Len(p) : p[i] = a[Len(a) - i + 1]
  <2> TAKE i \in 1..Len(p)
  <2>1. CASE i = 1
    BY <1>1, <1>2, <1>3, <2>1
  <2>2. CASE i # 1
    <3>1. i \in 2..Len(p) /\ i - 1 \in 1..Len(s)
      BY <1>1, <1>3, <2>2
    <3>2. s[i - 1] = l[Len(l) - (i - 1) + 1]
      BY <3>1 DEF Beginning
    <3>3. Len(l) - (i - 1) + 1 = Len(a) - i + 1 /\ Len(a) - i + 1 \in 1..Len(l)
      BY <1>1, <1>2, <3>1
    <3> QED BY <1>2, <1>3, <3>1, <3>2, <3>3
  <2> QED BY <2>1, <2>2
<1>5. Len(p) <= Len(a)
  BY <1>1, <1>2, <1>3
<1> QED BY <1>3, <1>4, <1>5 DEF Beginning, p, a

LEMMA LTrimKeepsBeginning ==
    ASSUME NEW S, NEW s \in Seq(S), NEW l \in Seq(S), Beginning(s, l)
    PROVE  LTrim(s) \in Seq(S) /\ Beginning(LTrim(s), l)
<1> DEFINE n == IF Len(s) < Capacity THEN Len(s) ELSE Capacity
<1>1. Len(s) \in Nat /\ n \in Nat /\ n <= Len(s)
  BY CapacityType
<1>2. LTrim(s) = SubSeq(s, 1, n)
  BY DEF LTrim
<1> HIDE DEF n
<1>3. /\ SubSeq(s, 1, n) \in Seq(S) /\ Len(SubSeq(s, 1, n)) = n
      /\ \A i \in 1..n : SubSeq(s, 1, n)[i] = s[i]
  BY <1>1
<1>4. Len(l) \in Nat
  OBVIOUS
<1> QED BY <1>1, <1>2, <1>3, <1>4 DEF Beginning

-----------------------------------------------------------------------------
(* The invariant.                                                           *)

IInv == AgentTypes /\ Unheard /\ Recent

\* A message is accepted, or not, without a change of the rest of the memory.
LEMMA RecordKeepsRecent ==
    ASSUME AgentTypes, Recent, NEW t \in Turns, NEW m \in Messages, NEW pc, Record(t, m, pc),
           backend' = backend
    PROVE  stored' \in Seq(Messages) /\ log' \in Seq(Messages) /\ Recent'
<1>1. CASE backend = "in_memory" /\ stored' = PushItem(stored, m) /\ log' = Append(log, m)
  <2>1. stored \in Seq(Messages) /\ log \in Seq(Messages)
    BY DEF AgentTypes
  <2>2. Ending(stored, log) /\ Len(stored) = Least(Len(log), Capacity)
    BY <1>1 DEF Recent
  <2>3. /\ stored' \in Seq(Messages) /\ Ending(stored', log')
        /\ Len(stored') = Least(Len(log'), Capacity)
    BY <1>1, <2>1, <2>2, PushKeepsEnding
  <2>4. log' \in Seq(Messages)
    BY <1>1, <2>1
  <2> QED BY <1>1, <2>3, <2>4 DEF Recent
<1>2. CASE backend = "redis" /\ stored' = LPush(stored, m) /\ log' = Append(log, m)
  <2>1. stored \in Seq(Messages) /\ log \in Seq(Messages) /\ Beginning(stored, log)
    BY <1>2 DEF AgentTypes, Recent
  <2>2. stored' \in Seq(Messages) /\ Beginning(stored', log')
    BY <1>2, <2>1, LPushKeepsBeginning
  <2>3. log' \in Seq(Messages)
    BY <1>2, <2>1
  <2> QED BY <1>2, <2>2, <2>3 DEF Recent
<1>3. CASE UNCHANGED <<stored, log>>
  BY <1>3 DEF AgentTypes, Recent, Ending, Beginning
<1> QED BY <1>1, <1>2, <1>3 DEF Record

\* In memory there is nothing to trim.
LEMMA TrimKeepsRecent ==
    ASSUME AgentTypes, Recent, NEW t \in Turns, Trim(t)
    PROVE  stored' \in Seq(Messages) /\ log' \in Seq(Messages) /\ Recent'
<1>1. backend' = backend /\ log' = log /\ stored' \in {LTrim(stored), stored}
  BY DEF Trim
<1>2. stored \in Seq(Messages) /\ log \in Seq(Messages)
  BY DEF AgentTypes
<1>3. CASE stored' = stored
  BY <1>1, <1>2, <1>3 DEF Recent, Ending, Beginning
<1>4. CASE stored' = LTrim(stored) /\ backend = "in_memory"
  <2>1. Len(stored) <= Capacity /\ Len(stored) \in Nat
    BY <1>2, <1>4, CapacityType DEF Recent, Least
  <2>2. LTrim(stored) = SubSeq(stored, 1, Len(stored))
    BY <2>1, CapacityType DEF LTrim
  <2>3. SubSeq(stored, 1, Len(stored)) = stored
    BY <1>2
  <2> QED BY <1>1, <1>2, <1>4, <2>2, <2>3 DEF Recent, Ending, Beginning
<1>5. CASE stored' = LTrim(stored) /\ backend = "redis"
  <2>1. Beginning(stored, log)
    BY <1>5 DEF Recent
  <2>2. stored' \in Seq(Messages) /\ Beginning(stored', log')
    BY <1>1, <1>2, <1>5, <2>1, LTrimKeepsBeginning
  <2> QED BY <1>1, <1>2, <1>5, <2>2 DEF Recent
<1> QED BY <1>1, <1>3, <1>4, <1>5 DEF AgentTypes

LEMMA InvariantInit == Init => IInv
<1> SUFFICES ASSUME Init PROVE IInv
  OBVIOUS
<1>1. AgentTypes
  BY IdleStream, EmptyIsSeq, BackendsAssumption DEF Init, AgentTypes
<1>2. Unheard
  BY DEF Init, Unheard, Good, Idle, Running
<1>3. Recent
  BY CapacityType DEF Init, Recent, Ending, Beginning, Least
<1> QED BY <1>1, <1>2, <1>3 DEF IInv

\* A step of a turn.
LEMMA InvariantTurn ==
    ASSUME IInv, NEW t \in Turns, BeginChat(t) \/ Step(t) \/ Drop(t)
    PROVE  IInv'
<1>1. AgentTypes /\ Unheard /\ Recent
  BY DEF IInv
<1>2. turn' \in [Turns -> Streams] /\ Unheard'
  BY <1>1, TurnAdvances, AdvanceKeeps
<1>3. backend' = backend
  BY DEF BeginChat, Step, Drop, Asked, AskFails, StreamFails, StreamEnds, Receive, RecordUser, Trim, Heard,
         RecordAnswer, Deliver
<1>4. stored' \in Seq(Messages) /\ log' \in Seq(Messages) /\ Recent'
  <2>1. CASE RecordUser(t)
    <3>1. <<>> \in Seq(Deltas) /\ "user" \in {"user", "assistant"}
      BY EmptyIsSeq
    <3>2. Message(t, "user", <<>>) \in Messages
      BY <3>1, MessageType
    <3> QED BY <1>1, <1>3, <2>1, <3>2, RecordKeepsRecent DEF RecordUser
  <2>2. CASE RecordAnswer(t)
    <3>1. turn[t].buf \in Seq(Deltas) /\ "assistant" \in {"user", "assistant"}
      BY <1>1 DEF AgentTypes, Streams
    <3>2. Message(t, "assistant", turn[t].buf) \in Messages
      BY <3>1, MessageType
    <3> QED BY <1>1, <1>3, <2>2, <3>2, RecordKeepsRecent DEF RecordAnswer
  <2>3. CASE Trim(t)
    BY <1>1, <2>3, TrimKeepsRecent
  <2>4. CASE UNCHANGED <<backend, stored, log>>
    BY <1>1, <2>4 DEF AgentTypes, Recent, Ending, Beginning
  <2> QED
    BY <2>1, <2>2, <2>3, <2>4
    DEF BeginChat, Step, Drop, Asked, AskFails, StreamFails, StreamEnds, Receive, Heard, Deliver
<1> QED BY <1>1, <1>2, <1>3, <1>4 DEF IInv, AgentTypes

LEMMA InvariantNext == IInv /\ [Next]_vars => IInv'
<1> SUFFICES ASSUME IInv, [Next]_vars PROVE IInv'
  OBVIOUS
<1>1. CASE Expire
  <2>1. /\ backend = "redis" /\ backend' = backend /\ stored' = <<>> /\ turn' = turn /\ log' = log
    BY <1>1 DEF Expire
  <2>2. AgentTypes'
    BY <2>1, EmptyIsSeq DEF IInv, AgentTypes
  <2>3. Len(log) \in Nat
    BY DEF IInv, AgentTypes
  <2>4. Recent'
    BY <2>1, <2>3 DEF Recent, Beginning
  <2> QED BY <2>1, <2>2, <2>4 DEF IInv, Unheard
<1>2. ASSUME NEW t \in Turns, BeginChat(t) \/ Step(t) \/ Drop(t)
      PROVE  IInv'
  BY <1>2, InvariantTurn
<1>3. CASE UNCHANGED vars
  BY <1>3 DEF vars, IInv, AgentTypes, Unheard, Recent, Ending, Beginning
<1> QED BY <1>1, <1>2, <1>3 DEF Next

LEMMA AlwaysInvariant == Spec => []IInv
BY InvariantInit, InvariantNext, PTL DEF Spec

-----------------------------------------------------------------------------
(* What follows.                                                            *)

\* Every variable has its type, for any number of turns (Agent.tla has no
\* other type invariant: a stream that leaves its places shows here).
THEOREM AgentTypesAlways == Spec => []AgentTypes
<1>1. IInv => AgentTypes
  BY DEF IInv
<1> QED BY <1>1, AlwaysInvariant, PTL

\* Whichever turns record at once, whatever LPUSH, LTRIM and the TTL do, the
\* memory is the end of what was recorded, and in memory as much of it as the
\* window allows (memory.rs push, redis_store.rs append).
THEOREM StoreIsAlwaysRecent == Spec => []StoreIsRecent
<1>1. IInv => StoreIsRecent
  <2> SUFFICES ASSUME IInv PROVE StoreIsRecent
    OBVIOUS
  <2>1. stored \in Seq(Messages) /\ log \in Seq(Messages)
    BY DEF IInv, AgentTypes
  <2>2. CASE backend = "in_memory"
    <3>1. Ending(stored, log) /\ Len(stored) = IF Len(log) < Capacity THEN Len(log) ELSE Capacity
      BY <2>2 DEF IInv, Recent, Least
    <3>2. IsSuffix(stored, log)
      BY <2>1, <3>1, EndingIsSuffix
    <3> QED BY <2>2, <3>1, <3>2 DEF StoreIsRecent, Chronological
  <2>3. CASE backend = "redis"
    <3>1. Beginning(stored, log)
      BY <2>3 DEF IInv, Recent
    <3>2. IsSuffix(Reverse(stored), log)
      BY <2>1, <3>1, BeginningIsSuffix
    <3> QED BY <2>3, <3>2 DEF StoreIsRecent, Chronological
  <2> QED BY <2>2, <2>3 DEF IInv, AgentTypes
<1> QED BY <1>1, AlwaysInvariant, PTL

\* A listener who was given text hears one model to the end, however the
\* attempts before failed (llmagent.rs: escalation only before visible).
THEOREM AlwaysOneVoice == Spec => OneVoice
<1>1. IInv /\ [Next]_vars =>
          [\A t \in Turns : turn[t].out # <<>> => turn'[t].tier = turn[t].tier]_vars
  <2> SUFFICES ASSUME IInv, Next
               PROVE  \A t \in Turns : turn[t].out # <<>> => turn'[t].tier = turn[t].tier
    OBVIOUS
  <2>1. CASE Expire
    BY <2>1 DEF Expire
  <2>2. ASSUME NEW t \in Turns, BeginChat(t) \/ Step(t) \/ Drop(t)
        PROVE  \A u \in Turns : turn[u].out # <<>> => turn'[u].tier = turn[u].tier
    BY <2>2, TurnAdvances, AdvanceKeeps DEF IInv
  <2> QED BY <2>1, <2>2 DEF Next
<1> QED BY <1>1, AlwaysInvariant, PTL DEF Spec, OneVoice

-----------------------------------------------------------------------------
(* Answers.                                                                 *)

\* The text of what a listener was given; the text of the event taken in.
Text(out) == FlattenSeq([i \in DOMAIN out |-> out[i].said])
Latest(t, s) == IF s.event.delta THEN <<[turn |-> t, tier |-> s.tier, n |-> s.heard]>> ELSE <<>>

OfOne(t, tier, said) == \A i \in 1..Len(said) : said[i].turn = t /\ said[i].tier = tier

\* An answer grows, is closed by its final event, and recorded before that
\* event is passed on.
Gathering(s) == s.pc \in {"reading", "user", "heard"} \/ (s.pc = "trim" /\ s.then = "heard")
Recorded(s) == s.pc = "deliver" \/ (s.pc = "trim" /\ s.then = "deliver")
Closed(s) == s.pc = "answer" \/ Recorded(s)

\* What is kept of an answer is what its listener was given, and its last event.
Kept(t, s) ==
    /\ s.pc = "asking" => ~s.visible /\ s.buf = <<>>
    /\ Gathering(s) => s.buf = Text(s.out) /\ (s.visible <=> s.buf # <<>>)
    /\ Closed(s) => /\ s.buf = Text(s.out) \o Latest(t, s)
                    /\ s.buf # <<>> /\ s.event.is_final /\ s.recorded
    /\ s.pc \in Running => OfOne(t, s.tier, s.buf)
    /\ Gathering(s) /\ (s.visible \/ (s.pc # "reading" /\ s.event.delta)) => s.recorded

\* The end is told last, and of an answer that is not empty.
Concluded(s) ==
    /\ \A i \in 1..Len(s.out) : s.out[i].is_final => s.pc = "done" /\ i = Len(s.out)
    /\ s.pc = "done" => Text(s.out) # <<>>

\* The text that was recorded of an answer, while its last event is passed on,
\* and after.
Told(s, text) ==
    \/ Recorded(s) /\ text = s.buf
    \/ /\ s.pc \in {"done", "dropped"}
       /\ IsPrefix(Text(s.out), text) /\ Len(text) <= Len(Text(s.out)) + 1

Has(messages, m) == \E j \in 1..Len(messages) : messages[j] = m
Question(t) == Message(t, "user", <<>>)
Answer(t, text) == Message(t, "assistant", text)

\* In memory nothing that is recorded is lost.
Remembered(t) ==
    LET s == turn[t] IN
    backend = "in_memory" =>
        /\ s.recorded /\ s.pc # "user" => Has(log, Question(t))
        /\ Recorded(s) => Has(log, Answer(t, s.buf))
        /\ s.pc = "done" /\ Finished(t) => Has(log, Answer(t, Text(s.out)))

\* The answer of a turn is recorded once, behind its question.
Entry(i) ==
    log[i].role = "assistant" =>
        LET u == log[i].turn
        IN  /\ Told(turn[u], log[i].text)
            /\ \E tier \in Tiers : OfOne(u, tier, log[i].text)
            /\ \A j \in 1..Len(log) : log[j].role = "assistant" /\ log[j].turn = u => j = i
            /\ backend = "in_memory" => \E j \in 1..i : log[j] = Question(u)

AnswerInv ==
    /\ \A t \in Turns : Kept(t, turn[t]) /\ Concluded(turn[t]) /\ Remembered(t)
    /\ \A i \in 1..Len(log) : Entry(i)

LEMMA TextType ==
    ASSUME NEW out \in Seq(Items)
    PROVE  Text(out) \in Seq(Deltas) /\ [i \in DOMAIN out |-> out[i].said] \in Seq(Seq(Deltas))
<1> DEFINE saids == [i \in DOMAIN out |-> out[i].said]
<1>1. \A i \in 1..Len(out) : out[i].said \in Seq(Deltas)
  <2>1. \A i \in 1..Len(out) : out[i] \in Items
    BY ElementOfSeq
  <2> QED BY <2>1 DEF Items
<1>2. saids \in [1..Len(out) -> Seq(Deltas)] /\ Len(out) \in Nat
  BY <1>1
<1>3. saids \in Seq(Seq(Deltas))
  BY <1>2, IsASeq
<1> QED BY <1>3, FlattenType DEF Text

LEMMA TextGrows ==
    ASSUME NEW out \in Seq(Items), NEW item \in Items
    PROVE  Text(Append(out, item)) = Text(out) \o item.said
<1> DEFINE saids == [i \in DOMAIN out |-> out[i].said]
           longer == [i \in DOMAIN Append(out, item) |-> Append(out, item)[i].said]
<1>1. saids \in Seq(Seq(Deltas)) /\ item.said \in Seq(Deltas) /\ Append(out, item) \in Seq(Items)
  BY TextType, AppendProperties DEF Items
<1>2. longer \in Seq(Seq(Deltas))
  BY <1>1, TextType
<1>3. longer = Append(saids, item.said)
  <2>1. Len(out) \in Nat /\ Len(Append(out, item)) = Len(out) + 1
    OBVIOUS
  <2>2. DOMAIN longer = 1..(Len(out) + 1) /\ DOMAIN saids = 1..Len(out)
    BY <2>1
  <2>3. Len(saids) = Len(out) /\ Len(longer) = Len(out) + 1
    BY <1>1, <1>2, <2>1, <2>2, LenProperties
  <2>4. \A i \in 1..Len(out) : longer[i] = saids[i]
    BY <2>1
  <2>5. longer[Len(out) + 1] = item.said
    BY <2>1
  <2> HIDE DEF saids, longer
  <2>6. /\ Append(saids, item.said) \in Seq(Seq(Deltas))
        /\ Len(Append(saids, item.said)) = Len(out) + 1
        /\ \A i \in 1..Len(out) : Append(saids, item.said)[i] = saids[i]
        /\ Append(saids, item.said)[Len(out) + 1] = item.said
    BY <1>1, <2>1, <2>3, AppendProperties
  <2>7. \A i \in 1..(Len(out) + 1) : longer[i] = Append(saids, item.said)[i]
    BY <2>1, <2>4, <2>5, <2>6
  <2> QED BY <1>2, <2>3, <2>6, <2>7, SeqEqual
<1> HIDE DEF saids
<1>4. FlattenSeq(Append(saids, item.said)) = FlattenSeq(saids) \o item.said
  BY <1>1, FlattenAppend
<1> HIDE DEF longer
<1> QED BY <1>3, <1>4 DEF Text, saids, longer

LEMMA TextEmpty == Text(<<>>) = <<>>
<1>1. [i \in DOMAIN <<>> |-> <<>>[i].said] = <<>>
  OBVIOUS
<1> QED BY <1>1, FlattenEmpty DEF Text

LEMMA LatestType ==
    ASSUME NEW t \in Turns, NEW s \in Streams
    PROVE  /\ Latest(t, s) \in Seq(Deltas) /\ Len(Latest(t, s)) <= 1
           /\ OfOne(t, s.tier, Latest(t, s)) /\ (s.event.delta <=> Latest(t, s) # <<>>)
<1>1. s.tier \in Tiers /\ s.heard \in Nat /\ s.event.delta \in BOOLEAN
  BY DEF Streams, Events
<1> DEFINE d == [turn |-> t, tier |-> s.tier, n |-> s.heard]
<1>2. d \in Deltas /\ d.turn = t /\ d.tier = s.tier
  BY <1>1 DEF Deltas
<1>3. Latest(t, s) = IF s.event.delta THEN <<d>> ELSE <<>>
  BY DEF Latest
<1> HIDE DEF d
<1> QED BY <1>1, <1>2, <1>3 DEF OfOne

LEMMA OfOneGrows ==
    ASSUME NEW t \in Turns, NEW tier \in Tiers, NEW a \in Seq(Deltas), NEW b \in Seq(Deltas),
           OfOne(t, tier, a), OfOne(t, tier, b)
    PROVE  OfOne(t, tier, a \o b)
<1>1. /\ Len(a) \in Nat /\ Len(b) \in Nat /\ Len(a \o b) = Len(a) + Len(b)
      /\ \A i \in 1..Len(a \o b) : (a \o b)[i] = IF i <= Len(a) THEN a[i] ELSE b[i - Len(a)]
  BY ConcatProperties
<1>2. \A i \in 1..(Len(a) + Len(b)) : i \in 1..Len(a) \/ (~(i <= Len(a)) /\ i - Len(a) \in 1..Len(b))
  BY <1>1
<1> QED BY <1>1, <1>2 DEF OfOne

LEMMA PrefixOfConcat ==
    ASSUME NEW a \in Seq(Deltas), NEW b \in Seq(Deltas)
    PROVE  IsPrefix(a, a \o b) /\ Len(a \o b) = Len(a) + Len(b)
<1>1. /\ Len(a) \in Nat /\ Len(b) \in Nat /\ a \o b \in Seq(Deltas) /\ Len(a \o b) = Len(a) + Len(b)
      /\ SubSeq(a \o b, 1, Len(a)) = a
  BY ConcatProperties, SubSeqOfConcat1, SubSeqFull
<1>2. SubSeq(a, 1, Len(a)) = a
  BY SubSeqFull
<1> QED BY <1>1, <1>2 DEF IsPrefix

-----------------------------------------------------------------------------
(* What a step of a turn does to its answer.                                *)

\* The turn keeps its answer, and remembers as before.
Keeps(t) ==
    /\ Kept(t, turn'[t]) /\ Concluded(turn'[t])
    /\ \A text \in Seq(Deltas) : Told(turn[t], text) => Told(turn'[t], text)
    /\ Remembered(t)'

LEMMA Turned ==
    ASSUME IInv, NEW t \in Turns, BeginChat(t) \/ Step(t) \/ Drop(t)
    PROVE  /\ turn[t] \in Streams /\ turn'[t] \in Streams /\ turn \in [Turns -> Streams]
           /\ Good(turn[t]) /\ Good(turn'[t])
           /\ \A u \in Turns : u # t => turn'[u] = turn[u]
<1>1. Advances(t) /\ turn \in [Turns -> Streams] /\ turn' \in [Turns -> Streams] /\ Unheard /\ Unheard'
  BY TurnAdvances, AdvanceKeeps DEF IInv, AgentTypes
<1>2. \A u \in Turns : u # t => turn'[u] = turn[u]
  BY <1>1 DEF Advances, Becomes
<1> QED BY <1>1, <1>2 DEF Unheard

\* What a stream that is given up keeps: nothing.
LEMMA EscalateKept ==
    ASSUME IInv, AnswerInv, NEW t \in Turns, Step(t), Escalate(t), log' = log, backend' = backend,
           turn[t].pc \in {"asking", "reading", "heard"}, ~turn[t].visible
    PROVE  Keeps(t)
<1> DEFINE s == turn[t]
           n == turn'[t]
<1>1. s \in Streams /\ n \in Streams /\ turn \in [Turns -> Streams] /\ Good(s) /\ Good(n)
  BY Turned
<1>2. /\ n.pc = "asking" /\ n.tier = "strong" /\ n.visible = s.visible /\ n.buf = s.buf
      /\ n.recorded = s.recorded /\ n.out = s.out
  BY <1>1 DEF Escalate, Becomes, Streams
<1>3. Kept(t, s) /\ Concluded(s) /\ Remembered(t)
  BY DEF AnswerInv
<1> HIDE DEF s, n
<1>4. s.buf = <<>>
  BY <1>3 DEF Kept, Gathering, s
<1>5. n.out = <<>>
  BY <1>1, <1>2 DEF Good
<1>6. Kept(t, n)
  BY <1>2, <1>4 DEF Kept, Gathering, Closed, Recorded, OfOne, s
<1>7. Concluded(n)
  BY <1>2, <1>5 DEF Concluded
<1>8. ~Recorded(s) /\ s.pc \notin {"done", "dropped", "user"}
  BY DEF Recorded, s
<1>9. Remembered(t)'
  <2>1. backend = "in_memory" /\ n.recorded => Has(log', Question(t))
    BY <1>2, <1>3, <1>8 DEF Remembered, s
  <2> QED BY <1>2, <2>1 DEF Remembered, Recorded, n
<1> QED BY <1>6, <1>7, <1>8, <1>9 DEF Keeps, Told, s, n

LEMMA EndKept ==
    ASSUME IInv, AnswerInv, NEW t \in Turns, Step(t) \/ Drop(t), NEW how \in Ended, End(t, how),
           log' = log, backend' = backend, turn[t].pc \in Running,
           how = "done" => Gathering(turn[t]) /\ turn[t].visible,
           Recorded(turn[t]) => how = "dropped"
    PROVE  Keeps(t)
<1> DEFINE s == turn[t]
           n == turn'[t]
<1>1. s \in Streams /\ n \in Streams /\ turn \in [Turns -> Streams]
  BY Turned
<1>2. /\ n.pc = how /\ n.tier = s.tier /\ ~n.visible /\ n.buf = <<>> /\ ~n.recorded
      /\ n.out = s.out
  BY <1>1 DEF End, Becomes, Idle
<1>3. Kept(t, s) /\ Concluded(s) /\ Remembered(t)
  BY DEF AnswerInv
<1>4. s.pc \in Running /\ s.out \in Seq(Items) /\ s.pc # "done"
  BY <1>1 DEF Streams, Running
<1> HIDE DEF s, n
<1>5. n.pc \notin Running /\ ~Gathering(n) /\ ~Closed(n) /\ ~Recorded(n) /\ n.pc # "asking"
  BY <1>2 DEF Running, Ended, Gathering, Closed, Recorded
<1>6. Kept(t, n)
  BY <1>5 DEF Kept
<1>7. Concluded(n)
  <2>1. how = "done" => Text(s.out) # <<>>
    BY <1>3 DEF Kept, s
  <2> QED BY <1>2, <1>3, <1>4, <2>1 DEF Concluded
<1>8. ASSUME NEW text \in Seq(Deltas), Told(s, text)
      PROVE  Told(n, text)
  <2>1. Recorded(s) /\ text = s.buf
    BY <1>4, <1>8 DEF Told, Running
  <2>2. text = Text(s.out) \o Latest(t, s)
    BY <1>3, <2>1 DEF Kept, Closed
  <2>3. IsPrefix(Text(s.out), text) /\ Len(text) <= Len(Text(s.out)) + 1
    <3>1. /\ Text(s.out) \in Seq(Deltas) /\ Latest(t, s) \in Seq(Deltas) /\ Len(Latest(t, s)) <= 1
          /\ Len(Text(s.out)) \in Nat /\ Len(Latest(t, s)) \in Nat
      BY <1>1, <1>4, TextType, LatestType, LenProperties
    <3> QED BY <2>2, <3>1, PrefixOfConcat
  <2> QED BY <1>2, <2>1, <2>3 DEF Told, s
<1>9. Remembered(t)'
  <2>1. ~Finished(t)'
    <3>1. n.out # <<>> => ~n.out[Len(n.out)].is_final
      BY <1>2, <1>3, <1>4 DEF Concluded
    <3> QED BY <3>1 DEF Finished, Last, n
  <2> QED BY <1>2, <1>5, <2>1 DEF Remembered, n
<1> QED BY <1>6, <1>7, <1>8, <1>9 DEF Keeps, s, n

LEMMA GiveUpKept ==
    ASSUME IInv, AnswerInv, NEW t \in Turns, Step(t), GiveUp(t), log' = log, backend' = backend,
           turn[t].pc \in {"reading", "heard"}
    PROVE  Keeps(t)
<1>1. turn[t].pc \in Running /\ ~Recorded(turn[t])
  BY DEF Running, Recorded
<1> QED BY <1>1, EscalateKept, EndKept DEF GiveUp, Ended

\* Where nothing is given to the listener, nor said, nor recorded.
LEMMA BegunKept ==
    ASSUME IInv, AnswerInv, NEW t \in Turns, BeginChat(t) \/ Asked(t)
    PROVE  Keeps(t)
<1> DEFINE s == turn[t]
           n == turn'[t]
<1>1. s \in Streams /\ n \in Streams /\ turn \in [Turns -> Streams] /\ Good(s) /\ Good(n)
  BY Turned DEF Step
<1>2. Kept(t, s) /\ Remembered(t) /\ log' = log /\ backend' = backend
  BY DEF AnswerInv, BeginChat, Asked
<1>3. CASE BeginChat(t)
  <2>1. n.pc = "asking" /\ ~n.visible /\ n.buf = <<>> /\ ~n.recorded /\ n.out = <<>>
    <3>1. \E tier, asked : turn' = [turn EXCEPT ![t] =
              [Idle EXCEPT !.pc = "asking", !.tier = tier, !.asked = asked]]
      BY <1>3 DEF BeginChat, Becomes
    <3>2. \E tier, asked : n = [Idle EXCEPT !.pc = "asking", !.tier = tier, !.asked = asked]
      BY <1>1, <3>1
    <3> QED BY <3>2 DEF Idle
  <2>2. s.pc = "idle"
    BY <1>3 DEF BeginChat, At
  <2> HIDE DEF s, n
  <2>3. Kept(t, n) /\ Concluded(n)
    BY <2>1 DEF Kept, Concluded, Gathering, Closed, Recorded, OfOne
  <2>4. Remembered(t)'
    BY <2>1 DEF Remembered, Recorded, n
  <2> QED BY <2>2, <2>3, <2>4 DEF Keeps, Told, Recorded, s, n
<1>4. CASE Asked(t)
  <2>1. /\ n.pc = "reading" /\ ~n.visible /\ n.buf = s.buf /\ n.recorded = s.recorded /\ n.out = s.out
        /\ s.pc = "asking"
    BY <1>1, <1>4 DEF Asked, At, Becomes, Streams
  <2> HIDE DEF s, n
  <2>2. n.buf = <<>> /\ n.out = <<>>
    BY <1>1, <1>2, <2>1 DEF Kept, Good
  <2>3. Kept(t, n) /\ Concluded(n)
    BY <2>1, <2>2, TextEmpty DEF Kept, Concluded, Gathering, Closed, Recorded, OfOne
  <2>4. Remembered(t)'
    <3>1. backend = "in_memory" /\ n.recorded => Has(log', Question(t))
      BY <1>2, <2>1 DEF Remembered, s
    <3> QED BY <1>2, <2>1, <3>1 DEF Remembered, Recorded, n
  <2> QED BY <2>1, <2>3, <2>4 DEF Keeps, Told, Recorded, s, n
<1> QED BY <1>3, <1>4

LEMMA ReceiveKept ==
    ASSUME IInv, AnswerInv, NEW t \in Turns, Receive(t)
    PROVE  Keeps(t)
<1> DEFINE s == turn[t]
           n == turn'[t]
<1>1. s \in Streams /\ n \in Streams /\ turn \in [Turns -> Streams]
  BY Turned DEF Step
<1>2. Kept(t, s) /\ Concluded(s) /\ Remembered(t) /\ log' = log /\ backend' = backend
  BY DEF AnswerInv, Receive
<1>3. PICK e \in Events :
          turn'[t] = [turn[t] EXCEPT !.event = e, !.heard = @ + 1, !.recorded = @ \/ e.delta,
                                     !.pc = IF e.delta /\ ~turn[t].recorded THEN "user" ELSE "heard"]
  BY <1>1 DEF Receive, Becomes
<1>4. s.pc = "reading"
  BY DEF Receive, At
<1>5. /\ n.pc = IF e.delta /\ ~s.recorded THEN "user" ELSE "heard"
      /\ n.event = e /\ n.recorded = (s.recorded \/ e.delta) /\ n.visible = s.visible
      /\ n.buf = s.buf /\ n.out = s.out /\ n.tier = s.tier
  BY <1>1, <1>3 DEF Streams
<1> HIDE DEF s, n
<1>6. Kept(t, n) /\ Concluded(n)
  BY <1>2, <1>4, <1>5 DEF Kept, Concluded, Gathering, Closed, Recorded, Running
<1>7. Remembered(t)'
  <2>1. s.recorded \in BOOLEAN /\ e.delta \in BOOLEAN
    BY <1>1 DEF Streams, Events
  <2>2. n.recorded /\ n.pc # "user" => s.recorded
    BY <1>5, <2>1
  <2>3. backend = "in_memory" /\ s.recorded => Has(log', Question(t))
    BY <1>2, <1>4 DEF Remembered, s
  <2> QED BY <1>2, <1>5, <2>2, <2>3 DEF Remembered, Recorded, n
<1> QED BY <1>4, <1>6, <1>7 DEF Keeps, Told, Recorded, s, n

LEMMA HeardKept ==
    ASSUME IInv, AnswerInv, NEW t \in Turns, Heard(t)
    PROVE  Keeps(t)
<1> DEFINE s == turn[t]
           n == turn'[t]
<1>1. s \in Streams /\ n \in Streams /\ turn \in [Turns -> Streams]
  BY Turned DEF Step
<1>2. Kept(t, s) /\ Concluded(s) /\ Remembered(t) /\ log' = log /\ backend' = backend
  BY DEF AnswerInv, Heard
<1>3. s.pc = "heard"
  BY DEF Heard, At
<1>4. /\ Said(t) = Latest(t, s) /\ Latest(t, s) \in Seq(Deltas) /\ OfOne(t, s.tier, Latest(t, s))
      /\ Visible(t) = (s.visible \/ s.event.delta) /\ (s.event.delta <=> Latest(t, s) # <<>>)
      /\ s.buf \in Seq(Deltas) /\ s.out \in Seq(Items) /\ Text(s.out) \in Seq(Deltas) /\ s.tier \in Tiers
      /\ s.visible \in BOOLEAN /\ s.event.delta \in BOOLEAN /\ s.event.is_final \in BOOLEAN
  BY <1>1, LatestType, TextType DEF Said, Latest, Visible, Streams, Events
<1>5. /\ s.buf = Text(s.out) /\ (s.visible <=> s.buf # <<>>) /\ OfOne(t, s.tier, s.buf)
      /\ (s.visible \/ s.event.delta) => s.recorded
  BY <1>2, <1>3 DEF Kept, Gathering, Running
<1>6. OfOne(t, s.tier, s.buf \o Latest(t, s))
  BY <1>4, <1>5, OfOneGrows
<1>7. s.buf \o Latest(t, s) = <<>> <=> s.buf = <<>> /\ Latest(t, s) = <<>>
  BY <1>4, ConcatEqualIffEmpty
<1>8. CASE ~turn[t].event.is_final /\ ~GiveUp(t)
  <2>1. turn'[t] = [turn[t] EXCEPT !.pc = "reading", !.visible = Visible(t), !.buf = @ \o Said(t),
                                   !.out = IF Visible(t) THEN Yielded(t) ELSE @]
    BY <1>1, <1>8 DEF Heard, Becomes
  <2>2. /\ n.pc = "reading" /\ n.visible = Visible(t) /\ n.buf = s.buf \o Latest(t, s)
        /\ n.out = (IF Visible(t) THEN Yielded(t) ELSE s.out) /\ n.tier = s.tier /\ n.recorded = s.recorded
    <3> DEFINE out == IF Visible(t) THEN Yielded(t) ELSE s.out
               buf == s.buf \o Said(t)
               seen == Visible(t)
    <3>1. n = [s EXCEPT !.pc = "reading", !.visible = seen, !.buf = buf, !.out = out]
      BY <2>1
    <3> HIDE DEF s, n, out, buf, seen
    <3>2. /\ n.pc = "reading" /\ n.visible = seen /\ n.buf = buf
          /\ n.out = out /\ n.tier = s.tier /\ n.recorded = s.recorded
      BY <1>1, <3>1 DEF Streams
    <3> QED BY <1>4, <3>2 DEF out, buf, seen
  <2> DEFINE item == [said |-> Latest(t, s), is_final |-> FALSE]
  <2>3. Yielded(t) = Append(s.out, item) /\ item \in Items /\ item.said = Latest(t, s) /\ ~item.is_final
    BY <1>4, <1>8 DEF Yielded, Items
  <2> HIDE DEF s, n, item
  <2>4. n.buf = Text(n.out)
    <3>1. CASE Visible(t)
      BY <1>4, <1>5, <2>2, <2>3, <3>1, TextGrows
    <3>2. CASE ~Visible(t)
      <4>1. Latest(t, s) = <<>>
        BY <1>4, <3>2
      <4> QED BY <1>4, <1>5, <2>2, <3>2, <4>1, ConcatEmptySeq
    <3> QED BY <3>1, <3>2
  <2>5. n.visible <=> n.buf # <<>>
    BY <1>4, <1>5, <1>7, <2>2
  <2>6. Kept(t, n)
    BY <1>4, <1>5, <1>6, <2>2, <2>4, <2>5 DEF Kept, Gathering, Closed, Recorded
  <2>7. \A i \in 1..Len(n.out) : ~n.out[i].is_final
    <3>1. \A i \in 1..Len(s.out) : ~s.out[i].is_final
      BY <1>2, <1>3 DEF Concluded
    <3>2. /\ Len(s.out) \in Nat /\ Len(Yielded(t)) = Len(s.out) + 1 /\ Yielded(t)[Len(s.out) + 1] = item
          /\ \A i \in 1..Len(s.out) : Yielded(t)[i] = s.out[i]
      BY <1>4, <2>3, AppendProperties, LenProperties
    <3>3. \A i \in 1..(Len(s.out) + 1) : i \in 1..Len(s.out) \/ i = Len(s.out) + 1
      BY <3>2
    <3> QED BY <2>2, <2>3, <3>1, <3>2, <3>3
  <2>8. Concluded(n)
    BY <2>2, <2>7 DEF Concluded
  <2>9. Remembered(t)'
    <3>1. backend = "in_memory" /\ n.recorded => Has(log', Question(t))
      BY <1>2, <1>3, <2>2 DEF Remembered, s
    <3> QED BY <1>2, <2>2, <3>1 DEF Remembered, Recorded, n
  <2> QED BY <1>3, <2>6, <2>8, <2>9 DEF Keeps, Told, Recorded, s, n
<1>9. CASE turn[t].event.is_final /\ Visible(t) /\ ~GiveUp(t)
  <2>1. turn'[t] = [turn[t] EXCEPT !.pc = "answer", !.visible = TRUE, !.buf = @ \o Said(t)]
    BY <1>1, <1>9 DEF Heard, Becomes
  <2>2. /\ n.pc = "answer" /\ n.buf = s.buf \o Latest(t, s) /\ n.out = s.out /\ n.tier = s.tier
        /\ n.recorded = s.recorded /\ n.event = s.event /\ n.heard = s.heard
    BY <1>1, <1>4, <2>1 DEF Streams
  <2>3. s.event.is_final
    BY <1>9
  <2> HIDE DEF s, n
  <2>4. n.buf = Text(n.out) \o Latest(t, n) /\ n.buf # <<>> /\ n.recorded
    BY <1>4, <1>5, <1>7, <1>9, <2>2 DEF Latest
  <2>5. Kept(t, n)
    BY <1>6, <2>2, <2>3, <2>4 DEF Kept, Gathering, Closed, Recorded
  <2>6. Concluded(n)
    BY <1>2, <1>3, <2>2 DEF Concluded
  <2>7. Remembered(t)'
    <3>1. backend = "in_memory" /\ n.recorded => Has(log', Question(t))
      BY <1>2, <1>3, <2>2 DEF Remembered, s
    <3> QED BY <1>2, <2>2, <3>1 DEF Remembered, Recorded, n
  <2> QED BY <1>3, <2>5, <2>6, <2>7 DEF Keeps, Told, Recorded, s, n
<1>10. CASE GiveUp(t)
  BY <1>2, <1>3, <1>10, GiveUpKept DEF Step
<1> QED BY <1>8, <1>9, <1>10 DEF Heard

LEMMA DeliverKept ==
    ASSUME IInv, AnswerInv, NEW t \in Turns, Deliver(t)
    PROVE  Keeps(t)
<1> DEFINE s == turn[t]
           n == turn'[t]
<1>1. s \in Streams /\ n \in Streams /\ turn \in [Turns -> Streams]
  BY Turned DEF Step
<1>2. Kept(t, s) /\ Concluded(s) /\ Remembered(t) /\ log' = log /\ backend' = backend
  BY DEF AnswerInv, Deliver
<1>3. s.pc = "deliver"
  BY DEF Deliver, At
<1>4. /\ Said(t) = Latest(t, s) /\ Latest(t, s) \in Seq(Deltas)
      /\ s.out \in Seq(Items) /\ Text(s.out) \in Seq(Deltas)
      /\ s.event.is_final \in BOOLEAN
  BY <1>1, LatestType, TextType DEF Said, Latest, Streams, Events
<1>5. /\ n.pc = "done" /\ n.buf = <<>> /\ n.out = Yielded(t) /\ ~n.recorded /\ ~n.visible
  BY <1>1 DEF Deliver, Becomes, Idle
<1> DEFINE item == [said |-> Latest(t, s), is_final |-> s.event.is_final]
<1>6. Yielded(t) = Append(s.out, item) /\ item \in Items /\ item.said = Latest(t, s)
  BY <1>4 DEF Yielded, Items
<1> HIDE DEF s, n, item
<1>7. s.buf = Text(s.out) \o Latest(t, s) /\ s.buf # <<>>
  BY <1>2, <1>3 DEF Kept, Closed, Recorded
<1>8. Text(n.out) = s.buf
  BY <1>4, <1>5, <1>6, <1>7, TextGrows
<1>9. Kept(t, n)
  BY <1>5 DEF Kept, Gathering, Closed, Recorded, Running
<1>10. Concluded(n)
  <2>1. \A i \in 1..Len(s.out) : ~s.out[i].is_final
    BY <1>2, <1>3 DEF Concluded
  <2>2. /\ Len(s.out) \in Nat /\ Len(n.out) = Len(s.out) + 1
        /\ \A i \in 1..Len(s.out) : n.out[i] = s.out[i]
    BY <1>4, <1>5, <1>6, AppendProperties, LenProperties
  <2>3. \A i \in 1..Len(n.out) : i \in 1..Len(s.out) \/ i = Len(n.out)
    BY <2>2
  <2> QED BY <1>5, <1>7, <1>8, <2>1, <2>2, <2>3 DEF Concluded
<1>11. ASSUME NEW text \in Seq(Deltas), Told(s, text)
       PROVE  Told(n, text)
  <2>1. text = s.buf
    BY <1>3, <1>11 DEF Told
  <2>2. IsPrefix(text, text \o <<>>) /\ text \o <<>> = text /\ Len(text) \in Nat
    BY PrefixOfConcat, ConcatEmptySeq, EmptyIsSeq, LenProperties
  <2> QED BY <1>5, <1>8, <2>1, <2>2 DEF Told
<1>12. Remembered(t)'
  <2>1. backend = "in_memory" => Has(log', Answer(t, s.buf))
    BY <1>2, <1>3 DEF Remembered, Recorded, s
  <2> QED BY <1>2, <1>5, <1>8, <2>1 DEF Remembered, Recorded, n
<1> QED BY <1>9, <1>10, <1>11, <1>12 DEF Keeps, s, n

LEMMA DropKept ==
    ASSUME IInv, AnswerInv, NEW t \in Turns, Drop(t)
    PROVE  Keeps(t)
<1>1. turn[t].pc \in Running
  BY DEF Drop, Awaits, Running
<1> QED BY <1>1, EndKept DEF Drop, Ended

\* A stream that goes on at another place of the same half of its way keeps
\* everything.
LEMMA PlaceKept ==
    ASSUME IInv, AnswerInv, NEW t \in Turns, NEW n \in Streams, turn'[t] = n,
           turn[t].pc \in Running, n.pc \in Running \ {"asking", "reading", "answer", "user"},
           Gathering(turn[t]) => Gathering(n), Closed(turn[t]) => Recorded(n),
           Recorded(turn[t]) => Recorded(n), Recorded(n) => Closed(turn[t]), Gathering(n) => Gathering(turn[t]),
           turn[t].pc \notin {"asking", "reading"},
           n.visible = turn[t].visible, n.buf = turn[t].buf, n.out = turn[t].out, n.tier = turn[t].tier,
           n.event = turn[t].event, n.recorded = turn[t].recorded, n.heard = turn[t].heard
    PROVE  Kept(t, n) /\ Concluded(n) /\ \A text \in Seq(Deltas) : Told(turn[t], text) => Told(n, text)
<1> DEFINE s == turn[t]
<1>1. Kept(t, s) /\ Concluded(s)
  BY DEF AnswerInv
<1>2. s.pc # "done" /\ s.pc # "dropped" /\ n.pc # "done" /\ n.pc # "asking" /\ n.pc # "answer"
  BY DEF Running
<1>3. Latest(t, n) = Latest(t, s)
  BY DEF Latest
<1> HIDE DEF s
<1>4. Kept(t, n)
  <2>1. Gathering(n) => n.buf = Text(n.out) /\ (n.visible <=> n.buf # <<>>)
    BY <1>1 DEF Kept, s
  <2>2. Closed(n) => /\ n.buf = Text(n.out) \o Latest(t, n) /\ n.buf # <<>> /\ n.event.is_final /\ n.recorded
    BY <1>1, <1>2, <1>3 DEF Kept, Closed, s
  <2>3. OfOne(t, n.tier, n.buf)
    BY <1>1 DEF Kept, s
  <2>4. Gathering(n) /\ (n.visible \/ (n.pc # "reading" /\ n.event.delta)) => n.recorded
    BY <1>1 DEF Kept, s
  <2> QED BY <1>2, <2>1, <2>2, <2>3, <2>4 DEF Kept
<1>5. Concluded(n)
  BY <1>1, <1>2 DEF Concluded, s
<1>6. \A text : Told(s, text) => Told(n, text)
  BY <1>2 DEF Told, s
<1> QED BY <1>4, <1>5, <1>6 DEF s

LEMMA TrimKept ==
    ASSUME IInv, AnswerInv, NEW t \in Turns, Trim(t)
    PROVE  Keeps(t)
<1> DEFINE s == turn[t]
           n == turn'[t]
<1>1. s \in Streams /\ n \in Streams /\ turn \in [Turns -> Streams] /\ Good(s)
  BY Turned DEF Step
<1>2. Kept(t, s) /\ Concluded(s) /\ Remembered(t) /\ log' = log /\ backend' = backend
  BY DEF AnswerInv, Trim
<1>3. s.pc = "trim" /\ s.then \in {"heard", "deliver"}
  BY <1>1 DEF Trim, At, Good, Streams
<1>4. /\ n.pc = s.then /\ n.visible = s.visible /\ n.buf = s.buf /\ n.out = s.out /\ n.tier = s.tier
      /\ n.event = s.event /\ n.recorded = s.recorded /\ n.heard = s.heard
  BY <1>1 DEF Trim, Becomes, Streams
<1> HIDE DEF s, n
<1>5. /\ s.pc \in Running /\ n.pc \in Running \ {"asking", "reading", "answer", "user"}
      /\ Gathering(s) <=> Gathering(n)
      /\ Closed(s) <=> Recorded(n)
      /\ Recorded(s) <=> Recorded(n)
  BY <1>3, <1>4 DEF Running, Gathering, Closed, Recorded
<1>6. Kept(t, n) /\ Concluded(n) /\ \A text \in Seq(Deltas) : Told(s, text) => Told(n, text)
  BY <1>1, <1>3, <1>4, <1>5, PlaceKept DEF s, n
<1>7. Remembered(t)'
  <2>1. /\ backend = "in_memory" /\ n.recorded => Has(log', Question(t))
        /\ backend = "in_memory" /\ Recorded(n) => Has(log', Answer(t, n.buf))
    BY <1>2, <1>3, <1>4, <1>5 DEF Remembered, s
  <2>2. n.pc # "done"
    BY <1>3, <1>4
  <2> QED BY <1>2, <2>1, <2>2 DEF Remembered, n
<1> QED BY <1>6, <1>7 DEF Keeps, s, n

\* What a log has, a longer one has.
LEMMA LogGrows ==
    ASSUME IInv, NEW m \in Messages, log' = Append(log, m)
    PROVE  /\ Len(log) \in Nat /\ Len(log') = Len(log) + 1 /\ log'[Len(log) + 1] = m
           /\ \A i \in 1..Len(log) : log'[i] = log[i] /\ log[i] \in Messages
           /\ \A x : Has(log, x) => Has(log', x)
           /\ Has(log', m)
<1>1. log \in Seq(Messages)
  BY DEF IInv, AgentTypes
<1>2. /\ Len(log) \in Nat /\ Len(log') = Len(log) + 1 /\ log'[Len(log) + 1] = m
      /\ \A i \in 1..Len(log) : log'[i] = log[i] /\ log[i] \in Messages
  BY <1>1, AppendProperties, LenProperties
<1>3. 1..Len(log) \subseteq 1..Len(log') /\ Len(log) + 1 \in 1..Len(log')
  BY <1>2
<1>4. \A x : Has(log, x) => Has(log', x)
  BY <1>2, <1>3 DEF Has
<1>5. Has(log', m)
  BY <1>2, <1>3 DEF Has
<1> QED BY <1>2, <1>4, <1>5

\* Where a recording turn goes: its message is accepted, or (in Redis) not.
LEMMA RecordKept ==
    ASSUME IInv, AnswerInv, NEW t \in Turns, RecordUser(t) \/ RecordAnswer(t)
    PROVE  /\ Keeps(t) /\ backend' = backend
           /\ \/ log' = log
              \/ /\ log' = Append(log, Question(t)) /\ Question(t) \in Messages
                 /\ RecordUser(t)
              \/ /\ log' = Append(log, Answer(t, turn'[t].buf)) /\ Answer(t, turn'[t].buf) \in Messages
                 /\ turn[t].pc = "answer" /\ Recorded(turn'[t])
<1> DEFINE s == turn[t]
           n == turn'[t]
           m == IF s.pc = "user" THEN Question(t) ELSE Answer(t, s.buf)
           next == IF s.pc = "user" THEN "heard" ELSE "deliver"
<1>1. s \in Streams /\ n \in Streams /\ turn \in [Turns -> Streams]
  BY Turned DEF Step
<1>2. Kept(t, s) /\ Remembered(t) /\ backend' = backend
  BY DEF AnswerInv, RecordUser, RecordAnswer
<1>3. /\ s.pc \in {"user", "answer"} /\ Record(t, m, next)
      /\ (s.pc = "user" <=> RecordUser(t))
  BY DEF RecordUser, RecordAnswer, At, Question, Answer
<1>4. m \in Messages
  <2>1. <<>> \in Seq(Deltas) /\ s.buf \in Seq(Deltas)
    BY <1>1, EmptyIsSeq DEF Streams
  <2>2. Message(t, "user", <<>>) \in Messages /\ Message(t, "assistant", s.buf) \in Messages
    BY <2>1, MessageType
  <2> QED BY <2>2 DEF Question, Answer
<1>5. \/ turn' = [turn EXCEPT ![t] = [turn[t] EXCEPT !.pc = next]] /\ log' \in {log, Append(log, m)}
      \/ turn' = [turn EXCEPT ![t] = [turn[t] EXCEPT !.pc = "trim", !.then = next]] /\ log' = Append(log, m)
  BY <1>3 DEF Record, Becomes
<1>6. /\ n.pc = next \/ (n.pc = "trim" /\ n.then = next)
      /\ n.visible = s.visible /\ n.buf = s.buf /\ n.out = s.out /\ n.tier = s.tier
      /\ n.event = s.event /\ n.recorded = s.recorded /\ n.heard = s.heard
  <2>1. n = [s EXCEPT !.pc = next] \/ n = [s EXCEPT !.pc = "trim", !.then = next]
    BY <1>1, <1>5
  <2> HIDE DEF s, n, m, next
  <2>2. CASE n = [s EXCEPT !.pc = next]
    BY <1>1, <2>2 DEF Streams
  <2>3. CASE n = [s EXCEPT !.pc = "trim", !.then = next]
    BY <1>1, <2>3 DEF Streams
  <2> QED BY <2>1, <2>2, <2>3
<1>7. log' = log \/ log' = Append(log, m)
  BY <1>5
<1>8. backend = "in_memory" => log' = Append(log, m)
  BY <1>3 DEF Record
<1> HIDE DEF s, n, m, next
<1>9. /\ s.pc \in Running /\ n.pc \in Running \ {"asking", "reading", "answer", "user"}
      /\ Gathering(s) <=> Gathering(n)
      /\ Closed(s) <=> Recorded(n)
      /\ ~Recorded(s) /\ (s.pc = "answer" <=> Recorded(n))
  BY <1>3, <1>6 DEF Running, Gathering, Closed, Recorded, next
<1>10. Kept(t, n) /\ Concluded(n) /\ \A text \in Seq(Deltas) : Told(s, text) => Told(n, text)
  BY <1>1, <1>3, <1>6, <1>9, PlaceKept DEF s, n
<1>11. Remembered(t)'
  <2>1. CASE backend = "in_memory"
    <3>1. log' = Append(log, m) /\ Has(log', m) /\ \A x : Has(log, x) => Has(log', x)
      BY <1>4, <1>8, <2>1, LogGrows
    <3>2. n.recorded => Has(log', Question(t))
      <4>1. CASE s.pc = "user"
        BY <3>1, <4>1 DEF m
      <4>2. CASE s.pc # "user"
        <5>1. n.recorded => Has(log, Question(t))
          BY <1>2, <1>6, <2>1, <4>2 DEF Remembered, s
        <5> QED BY <3>1, <5>1
      <4> QED BY <4>1, <4>2
    <3>3. Recorded(n) => Has(log', Answer(t, n.buf))
      BY <1>6, <1>9, <3>1 DEF m
    <3>4. n.pc # "done"
      BY <1>9 DEF Running
    <3> QED BY <3>2, <3>3, <3>4 DEF Remembered, n
  <2>2. CASE backend # "in_memory"
    BY <1>2, <2>2 DEF Remembered
  <2> QED BY <2>1, <2>2
<1>12. Keeps(t)
  BY <1>10, <1>11 DEF Keeps, s, n
<1>13. CASE s.pc = "user"
  BY <1>2, <1>3, <1>4, <1>7, <1>12, <1>13 DEF m
<1>14. CASE s.pc = "answer"
  <2>1. m = Answer(t, turn'[t].buf)
    BY <1>6, <1>14 DEF m, n
  <2> QED BY <1>2, <1>4, <1>7, <1>9, <1>12, <1>14, <2>1 DEF s, n
<1> QED BY <1>3, <1>13, <1>14

-----------------------------------------------------------------------------
(* The log of a step.                                                       *)

LEMMA LogKept ==
    ASSUME IInv, AnswerInv, NEW t \in Turns, Keeps(t), log' = log, backend' = backend,
           \A u \in Turns : u # t => turn'[u] = turn[u]
    PROVE  AnswerInv'
<1>1. log \in Seq(Messages) /\ \A i \in 1..Len(log) : log[i] \in Messages
  <2>1. log \in Seq(Messages)
    BY DEF IInv, AgentTypes
  <2> QED BY <2>1, ElementOfSeq
<1>2. ASSUME NEW u \in Turns
      PROVE  Kept(u, turn'[u]) /\ Concluded(turn'[u]) /\ Remembered(u)'
  <2>1. CASE u = t
    BY <2>1 DEF Keeps
  <2>2. CASE u # t
    <3>1. turn'[u] = turn[u] /\ (Finished(u)' <=> Finished(u))
      BY <2>2 DEF Finished
    <3> QED BY <3>1 DEF AnswerInv, Remembered
  <2> QED BY <2>1, <2>2
<1>3. ASSUME NEW i \in 1..Len(log), log[i].role = "assistant"
      PROVE  Told(turn'[log[i].turn], log[i].text)
  <2>1. log[i].turn \in Turns /\ log[i].text \in Seq(Deltas) /\ Told(turn[log[i].turn], log[i].text)
    BY <1>1, <1>3 DEF Messages, AnswerInv, Entry
  <2> QED BY <2>1 DEF Keeps
<1>4. ASSUME NEW i \in 1..Len(log)
      PROVE  Entry(i)'
  BY <1>3 DEF AnswerInv, Entry
<1> QED BY <1>2, <1>4 DEF AnswerInv

LEMMA LogLonger ==
    ASSUME IInv, AnswerInv, NEW t \in Turns, Keeps(t), backend' = backend,
           NEW m \in Messages, log' = Append(log, m), m.turn = t,
           \/ m.role = "user"
           \/ /\ m = Answer(t, turn'[t].buf) /\ turn[t].pc = "answer" /\ Recorded(turn'[t]),
           turn'[t] \in Streams,
           \A u \in Turns : u # t => turn'[u] = turn[u]
    PROVE  AnswerInv'
<1>1. /\ Len(log) \in Nat /\ Len(log') = Len(log) + 1 /\ log'[Len(log) + 1] = m
      /\ \A i \in 1..Len(log) : log'[i] = log[i] /\ log[i] \in Messages
      /\ \A x : Has(log, x) => Has(log', x)
  BY LogGrows
<1>2. ASSUME NEW u \in Turns
      PROVE  Kept(u, turn'[u]) /\ Concluded(turn'[u]) /\ Remembered(u)'
  <2>1. CASE u = t
    BY <2>1 DEF Keeps
  <2>2. CASE u # t
    <3>1. turn'[u] = turn[u] /\ (Finished(u)' <=> Finished(u))
      BY <2>2 DEF Finished
    <3> QED BY <1>1, <3>1 DEF AnswerInv, Remembered
  <2> QED BY <2>1, <2>2
<1>3. ASSUME NEW i \in 1..Len(log), log[i].role = "assistant"
      PROVE  /\ Told(turn'[log[i].turn], log[i].text)
             /\ m.role = "assistant" => log[i].turn # t
  <2>1. log[i].turn \in Turns /\ log[i].text \in Seq(Deltas) /\ Told(turn[log[i].turn], log[i].text)
    BY <1>1, <1>3 DEF Messages, AnswerInv, Entry
  <2>2. m.role = "assistant" => ~Told(turn[t], log[i].text)
    BY DEF Told, Recorded
  <2> QED BY <2>1, <2>2 DEF Keeps
<1>4. ASSUME NEW i \in 1..Len(log)
      PROVE  Entry(i)'
  <2>1. SUFFICES ASSUME log[i].role = "assistant"
                 PROVE  Entry(i)'
    BY <1>1 DEF Entry
  <2>2. Entry(i)
    BY DEF AnswerInv
  <2>3. \A j \in 1..Len(log') : log'[j].role = "assistant" /\ log'[j].turn = log[i].turn => j = i
    <3> TAKE j \in 1..Len(log')
    <3>1. CASE j \in 1..Len(log)
      BY <1>1, <2>1, <2>2, <3>1 DEF Entry
    <3>2. CASE j = Len(log) + 1
      BY <1>1, <1>3, <2>1, <3>2
    <3> QED BY <1>1, <3>1, <3>2
  <2>4. backend = "in_memory" => \E j \in 1..i : log'[j] = Question(log[i].turn)
    <3>1. 1..i \subseteq 1..Len(log)
      BY <1>1
    <3> QED BY <1>1, <2>1, <2>2, <3>1 DEF Entry
  <2>5. log'[i] = log[i]
    BY <1>1
  <2>6. Told(turn'[log[i].turn], log[i].text) /\ \E tier \in Tiers : OfOne(log[i].turn, tier, log[i].text)
    BY <1>3, <2>1, <2>2 DEF Entry
  <2> QED BY <2>3, <2>4, <2>5, <2>6 DEF Entry
<1>5. ASSUME NEW i, i = Len(log) + 1
      PROVE  Entry(i)'
  <2>1. log'[i] = m
    BY <1>1, <1>5
  <2> SUFFICES ASSUME m.role = "assistant"
               PROVE  Entry(i)'
    BY <2>1 DEF Entry
  <2>2. /\ m = Answer(t, turn'[t].buf) /\ turn[t].pc = "answer" /\ Recorded(turn'[t])
        /\ m.text = turn'[t].buf
    BY DEF Answer, Message
  <2>3. Told(turn'[t], m.text)
    BY <2>2 DEF Told
  <2>4. \E tier \in Tiers : OfOne(t, tier, m.text)
    <3>1. turn'[t].tier \in Tiers /\ turn'[t].pc \in Running
      BY <2>2 DEF Streams, Recorded, Running
    <3>2. OfOne(t, turn'[t].tier, m.text)
      BY <2>2, <3>1 DEF Keeps, Kept
    <3> QED BY <3>1, <3>2
  <2>5. \A j \in 1..Len(log') : log'[j].role = "assistant" /\ log'[j].turn = t => j = i
    <3> TAKE j \in 1..Len(log')
    <3>1. CASE j \in 1..Len(log)
      BY <1>1, <1>3, <3>1
    <3>2. CASE j \notin 1..Len(log)
      BY <1>1, <1>5, <3>2
    <3> QED BY <3>1, <3>2
  <2>6. backend = "in_memory" => \E j \in 1..i : log'[j] = Question(t)
    <3>1. turn[t].recorded
      BY <2>2 DEF AnswerInv, Kept, Closed
    <3>2. backend = "in_memory" => Has(log, Question(t))
      BY <2>2, <3>1 DEF AnswerInv, Remembered
    <3>3. 1..Len(log) \subseteq 1..i
      BY <1>1, <1>5
    <3> QED BY <1>1, <3>2, <3>3 DEF Has
  <2> QED BY <2>1, <2>3, <2>4, <2>5, <2>6 DEF Entry
<1>6. \A i \in 1..Len(log') : i \in 1..Len(log) \/ i = Len(log) + 1
  BY <1>1
<1> QED BY <1>2, <1>4, <1>5, <1>6 DEF AnswerInv

LEMMA AnswerTurn ==
    ASSUME IInv, AnswerInv, NEW t \in Turns, BeginChat(t) \/ Step(t) \/ Drop(t)
    PROVE  AnswerInv'
<1>1. turn'[t] \in Streams /\ \A u \in Turns : u # t => turn'[u] = turn[u]
  BY Turned
<1>2. CASE RecordUser(t) \/ RecordAnswer(t)
  <2>1. Keeps(t) /\ backend' = backend
    BY <1>2, RecordKept
  <2>2. CASE log' = log
    BY <1>1, <2>1, <2>2, LogKept
  <2>3. CASE log' = Append(log, Question(t)) /\ Question(t) \in Messages
    <3>1. Question(t).role = "user" /\ Question(t).turn = t
      BY DEF Question, Message
    <3> QED BY <1>1, <2>1, <2>3, <3>1, LogLonger
  <2>4. CASE /\ log' = Append(log, Answer(t, turn'[t].buf)) /\ Answer(t, turn'[t].buf) \in Messages
             /\ turn[t].pc = "answer" /\ Recorded(turn'[t])
    <3>1. Answer(t, turn'[t].buf).turn = t
      BY DEF Answer, Message
    <3> QED BY <1>1, <2>1, <2>4, <3>1, LogLonger
  <2> QED BY <1>2, <2>2, <2>3, <2>4, RecordKept
<1>3. CASE UNCHANGED <<backend, log>> /\ Keeps(t)
  BY <1>1, <1>3, LogKept
<1>4. CASE AskFails(t)
  <2>1. /\ turn[t].pc = "asking" /\ turn[t].pc \in Running /\ ~Recorded(turn[t])
        /\ log' = log /\ backend' = backend
    BY <1>4 DEF AskFails, At, Running, Recorded
  <2>2. ~turn[t].visible
    BY <2>1 DEF AnswerInv, Kept
  <2>3. Keeps(t)
    BY <1>4, <2>1, <2>2, EscalateKept, EndKept DEF AskFails, Ended, Step
  <2> QED BY <1>3, <2>1, <2>3
<1>5. CASE StreamFails(t) \/ StreamEnds(t)
  <2>1. /\ turn[t].pc = "reading" /\ turn[t].pc \in Running /\ ~Recorded(turn[t]) /\ Gathering(turn[t])
        /\ log' = log /\ backend' = backend
    BY <1>5 DEF StreamFails, StreamEnds, At, Running, Recorded, Gathering
  <2>2. Keeps(t)
    BY <1>5, <2>1, GiveUpKept, EndKept DEF StreamFails, StreamEnds, Ended, Step
  <2> QED BY <1>3, <2>1, <2>2
<1>6. CASE BeginChat(t) \/ Asked(t)
  BY <1>3, <1>6, BegunKept DEF BeginChat, Asked
<1>7. CASE Receive(t)
  BY <1>3, <1>7, ReceiveKept DEF Receive
<1>8. CASE Heard(t)
  BY <1>3, <1>8, HeardKept DEF Heard
<1>9. CASE Deliver(t)
  BY <1>3, <1>9, DeliverKept DEF Deliver
<1>10. CASE Trim(t)
  BY <1>3, <1>10, TrimKept DEF Trim
<1>11. CASE Drop(t)
  BY <1>3, <1>11, DropKept DEF Drop
<1> QED BY <1>2, <1>4, <1>5, <1>6, <1>7, <1>8, <1>9, <1>10, <1>11 DEF Step

LEMMA AnswerInit == Init => AnswerInv
<1> SUFFICES ASSUME Init PROVE AnswerInv
  OBVIOUS
<1>1. ASSUME NEW t \in Turns
      PROVE  /\ turn[t].pc = "idle" /\ turn[t].out = <<>> /\ turn[t].buf = <<>> /\ ~turn[t].visible
             /\ ~turn[t].recorded
  BY DEF Init, Idle
<1>2. \A t \in Turns : Kept(t, turn[t])
  BY <1>1 DEF Kept, Gathering, Closed, Recorded, Running
<1>3. \A t \in Turns : Concluded(turn[t])
  BY <1>1 DEF Concluded
<1>4. \A t \in Turns : Remembered(t)
  BY <1>1 DEF Remembered, Recorded
<1>5. Len(log) = 0
  BY DEF Init
<1> QED BY <1>2, <1>3, <1>4, <1>5 DEF AnswerInv

LEMMA AnswerNext == IInv /\ AnswerInv /\ [Next]_vars => AnswerInv'
<1> SUFFICES ASSUME IInv, AnswerInv, [Next]_vars PROVE AnswerInv'
  OBVIOUS
<1>1. CASE UNCHANGED <<backend, turn, log>>
  BY <1>1 DEF AnswerInv, Remembered, Entry, Finished
<1>2. CASE Expire \/ UNCHANGED vars
  BY <1>1, <1>2 DEF Expire, vars
<1> QED BY <1>2, AnswerTurn DEF Next

LEMMA AlwaysAnswerInv == Spec => []AnswerInv
BY AnswerInit, AnswerNext, AlwaysInvariant, PTL DEF Spec

LEMMA AnswersFollow == IInv /\ AnswerInv => AnswersWhole
<1> SUFFICES ASSUME IInv, AnswerInv, NEW i \in DOMAIN log, log[i].role = "assistant"
             PROVE  LET answer == log[i].text
                        t == log[i].turn
                    IN  /\ IsPrefix(Given(t), answer) /\ Len(answer) <= Len(Given(t)) + 1
                        /\ \A d, e \in Range(answer) : d.turn = t /\ d.tier = e.tier
                        /\ \A j \in DOMAIN log : log[j] = log[i] => j = i
                        /\ backend = "in_memory" => Message(t, "user", <<>>) \in Range(SubSeq(log, 1, i))
  BY DEF AnswersWhole
<1> DEFINE answer == log[i].text
           t == log[i].turn
<1>1. log \in Seq(Messages) /\ Len(log) \in Nat /\ DOMAIN log = 1..Len(log) /\ i \in 1..Len(log)
  BY LenProperties DEF IInv, AgentTypes
<1>2. log[i] \in Messages
  BY <1>1, ElementOfSeq
<1>3. /\ t \in Turns /\ answer \in Seq(Deltas) /\ turn[t] \in Streams
  BY <1>2 DEF Messages, IInv, AgentTypes
<1>4. /\ Told(turn[t], answer)
      /\ \E tier \in Tiers : OfOne(t, tier, answer)
      /\ \A j \in 1..Len(log) : log[j].role = "assistant" /\ log[j].turn = t => j = i
      /\ backend = "in_memory" => \E j \in 1..i : log[j] = Question(t)
  BY <1>1 DEF AnswerInv, Entry
<1> HIDE DEF answer, t
<1>5. Given(t) = Text(turn[t].out)
  BY DEF Given, Text
<1>6. IsPrefix(Given(t), answer) /\ Len(answer) <= Len(Given(t)) + 1
  <2>1. CASE Recorded(turn[t]) /\ answer = turn[t].buf
    <3>1. answer = Text(turn[t].out) \o Latest(t, turn[t])
      BY <1>3, <2>1 DEF AnswerInv, Kept, Closed
    <3>2. turn[t].out \in Seq(Items)
      BY <1>3 DEF Streams
    <3>3. /\ Text(turn[t].out) \in Seq(Deltas) /\ Latest(t, turn[t]) \in Seq(Deltas)
          /\ Len(Latest(t, turn[t])) <= 1
          /\ Len(Text(turn[t].out)) \in Nat /\ Len(Latest(t, turn[t])) \in Nat
      BY <1>3, <3>2, TextType, LatestType, LenProperties
    <3> QED BY <1>5, <3>1, <3>3, PrefixOfConcat
  <2> QED BY <1>4, <1>5, <2>1 DEF Told
<1>7. \A d, e \in Range(answer) : d.turn = t /\ d.tier = e.tier
  <2>1. Range(answer) = {answer[k] : k \in 1..Len(answer)}
    BY <1>3, LenProperties DEF Range
  <2> QED BY <1>4, <2>1 DEF OfOne
<1>8. \A j \in DOMAIN log : log[j] = log[i] => j = i
  BY <1>1, <1>4 DEF t
<1>9. backend = "in_memory" => Message(t, "user", <<>>) \in Range(SubSeq(log, 1, i))
  <2>1. SubSeq(log, 1, i) = [j \in 1..i |-> log[j]]
    BY <1>1
  <2>2. Range(SubSeq(log, 1, i)) = {log[j] : j \in 1..i}
    BY <2>1 DEF Range
  <2> QED BY <1>4, <2>2 DEF Question
<1> QED BY <1>6, <1>7, <1>8, <1>9 DEF answer, t

LEMMA KnowledgeFollows == IInv /\ AnswerInv => CompleteAnswersKnown
<1> SUFFICES ASSUME IInv, AnswerInv, NEW t \in Turns
             PROVE  /\ At(t, "done") => Given(t) # <<>>
                    /\ \A i \in DOMAIN turn[t].out : turn[t].out[i].is_final => i = Len(turn[t].out)
                    /\ Finished(t) /\ backend = "in_memory" => Message(t, "assistant", Given(t)) \in Range(log)
  BY DEF CompleteAnswersKnown
<1>1. Concluded(turn[t]) /\ Remembered(t) /\ Given(t) = Text(turn[t].out)
  BY DEF AnswerInv, Given, Text
<1>2. log \in Seq(Messages) /\ DOMAIN log = 1..Len(log)
  BY LenProperties DEF IInv, AgentTypes
<1>3. turn[t].out \in Seq(Items) /\ DOMAIN turn[t].out = 1..Len(turn[t].out) /\ Len(turn[t].out) \in Nat
  BY LenProperties DEF IInv, AgentTypes, Streams
<1>4. ASSUME Finished(t), backend = "in_memory"
      PROVE  Message(t, "assistant", Given(t)) \in Range(log)
  <2>1. turn[t].out # <<>> /\ turn[t].out[Len(turn[t].out)].is_final
    BY <1>4 DEF Finished, Last
  <2>2. Len(turn[t].out) \in 1..Len(turn[t].out)
    BY <1>3, <2>1
  <2>3. turn[t].pc = "done"
    BY <1>1, <2>1, <2>2 DEF Concluded
  <2>4. Has(log, Answer(t, Text(turn[t].out)))
    BY <1>1, <1>4, <2>3 DEF Remembered
  <2> QED BY <1>1, <1>2, <2>4 DEF Has, Answer, Range
<1> QED BY <1>1, <1>3, <1>4 DEF At, Concluded

\* Whoever fails, is replaced or is dropped where: an answer in the memory is a
\* whole one of one model, recorded once, and at most the event ahead of its
\* listener; in memory its question stands before it (llmagent.rs chat).
THEOREM AnswersAlwaysWhole == Spec => []AnswersWhole
BY AlwaysInvariant, AlwaysAnswerInv, AnswersFollow, PTL

\* A listener told that the answer is complete was given text, is told once and
\* last, and in memory the next turn knows exactly the text that was given
\* (llmagent.rs: the answer is recorded before its last event is yielded).
THEOREM CompleteAnswersAlwaysKnown == Spec => []CompleteAnswersKnown
BY AlwaysInvariant, AlwaysAnswerInv, KnowledgeFollows, PTL

=============================================================================
