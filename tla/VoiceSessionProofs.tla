------------------------- MODULE VoiceSessionProofs -------------------------
(***************************************************************************)
(* Proofs about VoiceSession, for every value of its constants.            *)
(***************************************************************************)
EXTENDS VoiceSession, SequenceTheorems, TLAPS

LEMMA EmptyIsSeq == \A S : <<>> \in Seq(S)
OBVIOUS

-----------------------------------------------------------------------------
(* What sending does to the mailbox.                                        *)

\* What a burst adds to the mailbox is a prefix of the burst: frames of the
\* burst, after the frames that were there.
LEMMA SendAppends ==
    ASSUME TypeOK, NEW burst \in Seq(Frames), Send(burst)
    PROVE  /\ mailbox' \in Seq(Frames)
           /\ Len(mailbox') >= Len(mailbox)
           /\ \A i \in DOMAIN mailbox' : i > Len(mailbox) =>
                 \E j \in DOMAIN burst : mailbox'[i] = burst[j]
<1> DEFINE n == IF Len(burst) <= Room THEN Len(burst) ELSE Room
           part == SubSeq(burst, 1, n)
<1>1. mailbox \in Seq(Frames) /\ Len(mailbox) \in Nat /\ Len(burst) \in Nat
  BY DEF TypeOK
<1>2. Room \in Int
  BY <1>1, BoundsAssumption DEF Room
<1>3. n \in Int /\ n <= Len(burst)
  BY <1>1, <1>2
<1>4. part \in Seq(Frames)
  BY <1>3, SubSeqProperties
<1>5. /\ Len(part) \in Nat /\ Len(part) <= Len(burst)
      /\ \A j \in 1..Len(part) : part[j] = burst[j]
  BY <1>1, <1>3
<1>6. mailbox' = mailbox \o part
  BY DEF Send
<1> HIDE DEF n, part
<1>7. mailbox' \in Seq(Frames) /\ Len(mailbox') = Len(mailbox) + Len(part)
  BY <1>1, <1>4, <1>6
<1>8. ASSUME NEW i \in DOMAIN mailbox', i > Len(mailbox)
      PROVE  \E j \in DOMAIN burst : mailbox'[i] = burst[j]
  <2>1. i \in Nat /\ i <= Len(mailbox) + Len(part)
    BY <1>1, <1>7
  <2>2. mailbox'[i] = part[i - Len(mailbox)]
    BY <1>1, <1>4, <1>6, <1>8, <2>1
  <2>3. i - Len(mailbox) \in 1..Len(part)
    BY <1>1, <1>5, <1>8, <2>1
  <2> QED BY <1>1, <1>5, <2>2, <2>3
<1> QED BY <1>1, <1>5, <1>7, <1>8

-----------------------------------------------------------------------------
(* Type correctness.                                                        *)

LEMMA FrameType ==
    ASSUME TypeOK, NEW r \in Requests, NEW kind \in Kinds
    PROVE  Frame(r, kind) \in Frames
BY DEF TypeOK, Frame, Frames

LEMMA StartedRequests == TypeOK => Started \subseteq Requests
BY BoundsAssumption DEF TypeOK, Started, Requests

LEMMA TypeInit == Init => TypeOK
<1> SUFFICES ASSUME Init PROVE TypeOK
  OBVIOUS
<1>1. /\ buf \in Seq(Msgs) /\ lastAudio \in Seq(Msgs) /\ mailbox \in Seq(Frames)
      /\ NoTurn \in [msg : Msgs \cup {NoMsg}, audio : Seq(Msgs)]
  BY EmptyIsSeq DEF Init, NoTurn
<1>2. /\ stage \in [Requests -> Stages] /\ result \in [Requests -> Results]
      /\ asr \in [Requests -> [prompt : Texts, events : Nat]]
      /\ out \in [Requests -> [voice : {"quiet", "speaking", "ended"}, items : Nat]]
  BY DEF Init, Stages, Results, Texts, NoAsr, NoOut
<1>3. turn \in [Requests -> [msg : Msgs \cup {NoMsg}, audio : Seq(Msgs)]]
  BY <1>1 DEF Init
<1>4. /\ born \in 0..MaxRequests /\ real \in Requests \cup {Nobody}
      /\ cancelled \in SUBSET Requests /\ refused \in SUBSET Requests
      /\ curMsg \in Msgs \cup {NoMsg} /\ lastMsg \in Msgs \cup {NoMsg}
  BY BoundsAssumption DEF Init
<1> QED BY <1>1, <1>2, <1>3, <1>4 DEF Init, TypeOK

\* What the handlers and the socket do keeps the types.
LEMMA TypeTrigger ==
    ASSUME TypeOK, NEW audio \in Seq(Msgs), NEW m \in Msgs \cup {NoMsg},
           Trigger(audio, m)
    PROVE  /\ buf' \in Seq(Msgs) /\ lastAudio' \in Seq(Msgs)
           /\ curMsg' \in Msgs \cup {NoMsg} /\ lastMsg' \in Msgs \cup {NoMsg}
           /\ born' \in 0..MaxRequests
           /\ stage' \in [Requests -> Stages]
           /\ turn' \in [Requests -> [msg : Msgs \cup {NoMsg}, audio : Seq(Msgs)]]
           /\ UNCHANGED <<asr, out, result, refused>>
<1>1. CASE Len(audio) < MinChunks
  BY <1>1, EmptyIsSeq DEF Trigger, TypeOK
<1>2. CASE ~(Len(audio) < MinChunks)
  <2>1. born + 1 \in 0..MaxRequests /\ born + 1 \in Requests
    BY <1>2, BoundsAssumption DEF Trigger, TypeOK, Requests
  <2>2. [msg |-> m, audio |-> audio] \in [msg : Msgs \cup {NoMsg}, audio : Seq(Msgs)]
    OBVIOUS
  <2>3. stage' \in [Requests -> Stages]
    BY <1>2, <2>1 DEF Trigger, TypeOK, Stages
  <2>4. turn' \in [Requests -> [msg : Msgs \cup {NoMsg}, audio : Seq(Msgs)]]
    BY <1>2, <2>1, <2>2 DEF Trigger, TypeOK
  <2> QED BY <1>2, <2>1, <2>3, <2>4, EmptyIsSeq DEF Trigger
<1> QED BY <1>1, <1>2

LEMMA TypeHandler == TypeOK /\ Handler => TypeOK'
<1> SUFFICES ASSUME TypeOK, Handler PROVE TypeOK'
  OBVIOUS
<1>1. CASE SessionStart
  BY <1>1 DEF SessionStart, TypeOK, tokenVars, taskVars
<1>2. ASSUME NEW m \in Msgs, NEW isLast \in BOOLEAN, NEW late \in BOOLEAN,
             NEW chunk \in {<<>>, <<m>>}, AudioChunk(m, chunk, isLast, late)
      PROVE  TypeOK'
  <2>1. buf \o chunk \in Seq(Msgs) /\ ChunkId(m) \in Msgs \cup {NoMsg}
    <3>1. <<>> \in Seq(Msgs) /\ <<m>> \in Seq(Msgs)
      BY EmptyIsSeq
    <3>2. chunk \in Seq(Msgs) /\ buf \in Seq(Msgs)
      BY <3>1 DEF TypeOK
    <3>3. ChunkId(m) \in Msgs \cup {NoMsg}
      BY DEF TypeOK, ChunkId
    <3>4. buf \o chunk \in Seq(Msgs)
      BY <3>2
    <3> QED BY <3>3, <3>4
  <2>2. CASE isLast \/ late \/ BufferFull(buf \o chunk)
    <3>1. Trigger(buf \o chunk, ChunkId(m))
      BY <1>2, <2>2 DEF AudioChunk
    <3> HIDE DEF Trigger
    <3> QED BY <1>2, <2>1, <3>1, TypeTrigger DEF AudioChunk, TypeOK, tokenVars
  <2>3. CASE ~(isLast \/ late \/ BufferFull(buf \o chunk))
    BY <1>2, <2>1, <2>3 DEF AudioChunk, TypeOK, tokenVars, taskVars
  <2> QED BY <2>2, <2>3
<1>3. CASE Interrupt
  <2> DEFINE burst == <<[kind |-> "interrupted", msg |-> lastMsg, from |-> Nobody]>>
  <2>1. burst \in Seq(Frames) /\ Send(burst)
    BY <1>3 DEF Interrupt, TypeOK, Frames, Kinds
  <2>2. mailbox' \in Seq(Frames)
    BY <2>1, SendAppends
  <2> QED BY <1>3, <2>2, StartedRequests
       DEF Interrupt, CancelAll, TypeOK, taskVars
<1>4. CASE Retry
  <2>1. Trigger(lastAudio, lastMsg) /\ lastAudio \in Seq(Msgs) /\ lastMsg \in Msgs \cup {NoMsg}
    BY <1>4 DEF Retry, TypeOK
  <2> QED BY <1>4, <2>1, TypeTrigger, StartedRequests DEF Retry, CancelAll, TypeOK
<1>5. CASE SessionEnd
  BY <1>5, StartedRequests DEF SessionEnd, TypeOK, taskVars
<1> QED BY <1>1, <1>2, <1>3, <1>4, <1>5 DEF Handler

LEMMA TypeSocket == TypeOK /\ Socket => TypeOK'
<1> SUFFICES ASSUME TypeOK, Socket PROVE TypeOK'
  OBVIOUS
<1> USE DEF TypeOK, inputVars, tokenVars, taskVars
<1>1. CASE SocketLost
  BY <1>1, EmptyIsSeq DEF SocketLost
<1>2. CASE Disconnect
  BY <1>2, StartedRequests DEF Disconnect
<1>3. CASE Deliver
  BY <1>3 DEF Deliver
<1> QED BY <1>1, <1>2, <1>3 DEF Socket

\* Ending a pipeline keeps the types of all it assigns.
LEMMA TypeExit ==
    ASSUME TypeOK, NEW r \in Requests, NEW why \in Results, Exit(r, why),
           mailbox' \in Seq(Frames), refused' \in SUBSET Requests
    PROVE  TypeOK'
BY DEF Exit, Unregister, TypeOK, pipelineFrame, inputVars, Stages, Texts, NoAsr, NoOut

LEMMA TypeGiveUp ==
    ASSUME TypeOK, NEW r \in Requests, GiveUp(r)
    PROVE  TypeOK'
<1>1. Exit(r, "Cancelled") /\ "Cancelled" \in Results /\ UNCHANGED <<refused, mailbox>>
  BY DEF GiveUp, Results
<1> HIDE DEF Exit
<1> QED BY <1>1, TypeExit DEF TypeOK

LEMMA TypeFail ==
    ASSUME TypeOK, NEW r \in Requests, NEW why \in Results, Fail(r, why)
    PROVE  TypeOK'
<1>1. ErrorFrames(r, why) \in Seq(Frames)
  BY FrameType DEF ErrorFrames, Kinds
<1>2. mailbox' \in Seq(Frames)
  BY <1>1, SendAppends DEF Fail, TypeOK
<1>3. Exit(r, why) /\ UNCHANGED refused
  BY DEF Fail
<1> QED BY <1>2, <1>3, TypeExit DEF TypeOK

LEMMA TypeTakeFloor ==
    ASSUME TypeOK, NEW r \in Requests, NEW events \in Nat, TakeFloor(r, events)
    PROVE  TypeOK'
<1>1. FloorFrames(r, events) \in Seq(Frames)
  <2>1. Frame(r, "asr") \in Frames /\ Frame(r, "composing") \in Frames
    BY FrameType DEF Kinds
  <2>2. [i \in 1..events |-> Frame(r, "asr")] \in Seq(Frames)
    BY <2>1
  <2>3. <<Frame(r, "composing")>> \in Seq(Frames)
    BY <2>1
  <2> QED BY <2>2, <2>3 DEF FloorFrames
<1>2. mailbox' \in Seq(Frames)
  BY <1>1, SendAppends DEF TakeFloor
<1>3. cancelled' \in SUBSET Requests
  BY DEF TakeFloor, Evicted, TypeOK
<1> QED BY <1>2, <1>3 DEF TakeFloor, TypeOK, pipelineFrame, inputVars, Stages, Texts, NoAsr

LEMMA TypeConclude ==
    ASSUME TypeOK, NEW r \in Requests, NEW prompt \in Texts, NEW events \in Nat,
           Conclude(r, prompt, events)
    PROVE  TypeOK'
<1>1. CASE EndEmpty(r)
  <2>1. Exit(r, "EmptyResponse") /\ "EmptyResponse" \in Results
    BY <1>1 DEF EndEmpty, Results
  <2> QED BY <1>1, <2>1, TypeExit DEF EndEmpty, TypeOK
<1>2. CASE GiveUp(r)
  BY <1>2, TypeGiveUp
<1>3. CASE TakeFloor(r, events)
  BY <1>3, TypeTakeFloor
<1> QED BY <1>1, <1>2, <1>3 DEF Conclude

LEMMA TypePipeline ==
    ASSUME TypeOK, NEW r \in Requests, Pipeline(r)
    PROVE  TypeOK'
<1>1. CASE Start(r)
  <2>1. CASE GiveUp(r)
    BY <2>1, TypeGiveUp
  <2>2. CASE ~GiveUp(r)
    <3>1. <<Frame(r, "transcribing")>> \in Seq(Frames)
      BY FrameType DEF Kinds
    <3>2. mailbox' \in Seq(Frames)
      BY <1>1, <2>2, <3>1, SendAppends DEF Start
    <3> QED BY <1>1, <2>2, <3>2
         DEF Start, TypeOK, Stages, pipelineFrame, inputVars, tokenVars
  <2> QED BY <2>1, <2>2
<1>2. CASE ObserveCancel(r)
  BY <1>2, TypeGiveUp DEF ObserveCancel
<1>3. CASE Recognized(r)
  BY <1>3 DEF Recognized, TypeOK, Stages, pipelineFrame, inputVars, tokenVars
<1>4. CASE RecognizeFails(r)
  BY <1>4, TypeFail DEF RecognizeFails, Results
<1>5. ASSUME NEW text \in Texts, AsrPartial(r, text)
      PROVE  TypeOK'
  <2>1. Heard(r, text) \in Texts /\ asr[r].events + 1 \in Nat
    BY DEF Heard, TypeOK
  <2>2. asr' = [asr EXCEPT ![r] = [prompt |-> Heard(r, text), events |-> asr[r].events + 1]]
    BY <1>5 DEF AsrPartial
  <2>3. asr' \in [Requests -> [prompt : Texts, events : Nat]]
    BY <2>1, <2>2 DEF TypeOK
  <2> QED BY <1>5, <2>3 DEF AsrPartial, TypeOK, pipelineFrame, inputVars, tokenVars
<1>6. ASSUME NEW text \in Texts, AsrFinal(r, text)
      PROVE  TypeOK'
  <2>1. Heard(r, text) \in Texts /\ asr[r].events + 1 \in Nat
    BY DEF Heard, TypeOK
  <2> QED BY <1>6, <2>1, TypeConclude DEF AsrFinal
<1>7. CASE AsrEnds(r)
  <2>1. asr[r].prompt \in Texts /\ asr[r].events \in Nat
    BY DEF TypeOK
  <2> QED BY <1>7, <2>1, TypeConclude DEF AsrEnds
<1>8. CASE AsrBreaks(r)
  BY <1>8, TypeFail DEF AsrBreaks, Results
<1>9. CASE ItemText(r)
  <2>1. CASE GiveUp(r)
    BY <2>1, TypeGiveUp
  <2>2. CASE ~GiveUp(r)
    <3>1. <<Frame(r, "delta")>> \in Seq(Frames)
      BY FrameType DEF Kinds
    <3>2. mailbox' \in Seq(Frames)
      BY <1>9, <2>2, <3>1, SendAppends DEF ItemText
    <3>3. out' \in [Requests -> [voice : {"quiet", "speaking", "ended"}, items : Nat]]
      <4>1. out' = [out EXCEPT ![r] = [voice |-> out[r].voice, items |-> out[r].items + 1]]
        BY <1>9, <2>2 DEF ItemText
      <4>2. [voice |-> out[r].voice, items |-> out[r].items + 1] 
            \in [voice : {"quiet", "speaking", "ended"}, items : Nat]
        BY DEF TypeOK
      <4> QED BY <4>1, <4>2 DEF TypeOK
    <3> QED BY <1>9, <2>2, <3>2, <3>3
         DEF ItemText, TypeOK, pipelineFrame, inputVars, tokenVars
  <2> QED BY <2>1, <2>2
<1>10. ASSUME NEW last \in BOOLEAN, ItemAudio(r, last)
       PROVE  TypeOK'
  <2> DEFINE opening == IF out[r].voice = "quiet" THEN <<Frame(r, "speaking")>> ELSE <<>>
             closing == IF last THEN <<Frame(r, "spoken")>> ELSE <<>>
             audio == <<Frame(r, IF last THEN "audio_last" ELSE "audio")>>
             step == IF last THEN [voice |-> "ended", items |-> out[r].items]
                     ELSE [voice |-> "speaking", items |-> out[r].items + 1]
  <2>1. CASE GiveUp(r)
    BY <2>1, TypeGiveUp
  <2>2. CASE ~GiveUp(r)
    <3>1. opening \in Seq(Frames) /\ closing \in Seq(Frames) /\ audio \in Seq(Frames)
      BY FrameType, EmptyIsSeq DEF Kinds
    <3>2. Send(opening \o audio \o closing)
      BY <1>10, <2>2 DEF ItemAudio
    <3> HIDE DEF opening, closing, audio
    <3>3. opening \o audio \o closing \in Seq(Frames)
      BY <3>1
    <3>4. mailbox' \in Seq(Frames)
      BY <3>2, <3>3, SendAppends
    <3>5. refused' \in SUBSET Requests
      BY <1>10, <2>2 DEF ItemAudio, TypeOK
    <3>6. CASE Exit(r, "Cancelled")
      BY <3>4, <3>5, <3>6, TypeExit DEF Results
    <3>7. CASE ~Exit(r, "Cancelled")
      <4>1. /\ out' = [out EXCEPT ![r] = step]
            /\ UNCHANGED <<tokenVars, stage, asr, result, pipelineFrame>>
        BY <1>10, <2>2, <3>7 DEF ItemAudio
      <4>2. step \in [voice : {"quiet", "speaking", "ended"}, items : Nat]
        <5>1. out[r].voice \in {"quiet", "speaking", "ended"} /\ out[r].items \in Nat
          BY DEF TypeOK
        <5> QED BY <5>1
      <4>3. out' \in [Requests -> [voice : {"quiet", "speaking", "ended"}, items : Nat]]
        BY <4>1, <4>2 DEF TypeOK
      <4> QED BY <3>4, <3>5, <4>1, <4>3 DEF TypeOK, pipelineFrame, inputVars, tokenVars
    <3> QED BY <3>6, <3>7
  <2> QED BY <2>1, <2>2
<1>11. CASE ItemsFail(r)
  BY <1>11, TypeFail DEF ItemsFail, Results
<1>12. CASE ItemsEnd(r)
  <2>1. Exit(r, "Success") /\ "Success" \in Results
    BY <1>12 DEF ItemsEnd, Results
  <2> QED BY <1>12, <2>1, TypeExit DEF ItemsEnd, TypeOK
<1> QED BY <1>1, <1>2, <1>3, <1>4, <1>5, <1>6, <1>7, <1>8, <1>9, <1>10, <1>11, <1>12
     DEF Pipeline

LEMMA TypeStep == TypeOK /\ [Next]_vars => TypeOK'
<1> SUFFICES ASSUME TypeOK, [Next]_vars PROVE TypeOK'
  OBVIOUS
<1>1. CASE UNCHANGED vars
  BY <1>1 DEF TypeOK, vars, inputVars, tokenVars, taskVars
<1> QED BY <1>1, TypeHandler, TypeSocket, TypePipeline DEF Next

\* Every variable keeps its type, in every session.
THEOREM TypeCorrect == Spec => []TypeOK
BY TypeInit, TypeStep, PTL DEF Spec

-----------------------------------------------------------------------------
(* What a step can do to the stages and the tokens. The safety proofs and   *)
(* the refinement rest on these few cases, not on the thirty-odd actions.   *)

coreVars == <<alive, closed, born, stage, real, cancelled>>

Moves(r) ==
    /\ stage[r] \in {"spawned", "recognizing"}
    /\ \/ stage' = [stage EXCEPT ![r] = "recognizing"]
       \/ stage' = [stage EXCEPT ![r] = "streaming"]
    /\ UNCHANGED <<alive, closed, born, real, cancelled>>

Ends(r) ==
    /\ stage[r] \in {"spawned", "recognizing", "streaming", "answering"}
    /\ stage' = [stage EXCEPT ![r] = "over"]
    /\ real' = Unregister(r)
    /\ UNCHANGED <<alive, closed, born, cancelled>>

Takes(r) ==
    /\ stage[r] = "streaming" /\ r \notin cancelled
    /\ stage' = [stage EXCEPT ![r] = "answering"]
    /\ real' = r /\ cancelled' = cancelled \cup Evicted
    /\ UNCHANGED <<alive, closed, born>>

Spawns ==
    /\ alive /\ ~closed
    /\ born < MaxRequests /\ born' = born + 1
    /\ stage' = [stage EXCEPT ![born + 1] = "spawned"]
    /\ UNCHANGED <<real, cancelled>> \/ CancelAll
    /\ UNCHANGED <<alive, closed>>

Cancels ==
    /\ cancelled' = Started /\ real' \in {real, Nobody}
    /\ UNCHANGED <<stage, born>>

LEMMA ExitEnds ==
    ASSUME NEW r \in Requests, NEW why, Exit(r, why),
           stage[r] \in {"spawned", "recognizing", "streaming", "answering"}
    PROVE  Ends(r)
BY DEF Exit, Ends, pipelineFrame, inputVars

LEMMA ConcludeEffect ==
    ASSUME NEW r \in Requests, NEW prompt, NEW events, stage[r] = "streaming",
           Conclude(r, prompt, events)
    PROVE  Ends(r) \/ Takes(r)
<1>1. CASE EndEmpty(r)
  BY <1>1, ExitEnds DEF EndEmpty
<1>2. CASE GiveUp(r)
  BY <1>2, ExitEnds DEF GiveUp
<1>3. CASE r \notin cancelled /\ TakeFloor(r, events)
  BY <1>3 DEF TakeFloor, Takes, pipelineFrame, inputVars
<1> QED BY <1>1, <1>2, <1>3 DEF Conclude

LEMMA PipelineEffect ==
    ASSUME NEW r \in Requests, Pipeline(r)
    PROVE  UNCHANGED coreVars \/ Moves(r) \/ Ends(r) \/ Takes(r)
<1> USE DEF coreVars, pipelineFrame, inputVars, tokenVars
<1>1. CASE Start(r)
  BY <1>1, ExitEnds DEF Start, GiveUp, Moves
<1>2. CASE ObserveCancel(r)
  BY <1>2, ExitEnds DEF ObserveCancel, GiveUp
<1>3. CASE Recognized(r)
  BY <1>3 DEF Recognized, Moves
<1>4. CASE RecognizeFails(r)
  BY <1>4, ExitEnds DEF RecognizeFails, Fail
<1>5. ASSUME NEW text \in Texts, AsrPartial(r, text)
      PROVE  UNCHANGED coreVars
  BY <1>5 DEF AsrPartial
<1>6. ASSUME NEW text \in Texts, AsrFinal(r, text)
      PROVE  Ends(r) \/ Takes(r)
  BY <1>6, ConcludeEffect DEF AsrFinal
<1>7. CASE AsrEnds(r)
  BY <1>7, ConcludeEffect DEF AsrEnds
<1>8. CASE AsrBreaks(r)
  BY <1>8, ExitEnds DEF AsrBreaks, Fail
<1>9. CASE ItemText(r)
  BY <1>9, ExitEnds DEF ItemText, GiveUp
<1>10. ASSUME NEW last \in BOOLEAN, ItemAudio(r, last)
       PROVE  UNCHANGED coreVars \/ Ends(r)
  <2>1. stage[r] = "answering"
    BY <1>10 DEF ItemAudio
  <2>2. \/ Exit(r, "Cancelled")
        \/ UNCHANGED <<tokenVars, stage, asr, result, pipelineFrame>>
    BY <1>10 DEF ItemAudio, GiveUp
  <2> QED BY <2>1, <2>2, ExitEnds
<1>11. CASE ItemsFail(r)
  BY <1>11, ExitEnds DEF ItemsFail, Fail
<1>12. CASE ItemsEnd(r)
  BY <1>12, ExitEnds DEF ItemsEnd
<1> QED BY <1>1, <1>2, <1>3, <1>4, <1>5, <1>6, <1>7, <1>8, <1>9, <1>10, <1>11, <1>12
     DEF Pipeline

LEMMA HandlerEffect ==
    ASSUME Handler
    PROVE  UNCHANGED coreVars \/ Spawns \/ Cancels
<1> USE DEF coreVars, tokenVars, taskVars
<1>1. CASE SessionStart
  BY <1>1 DEF SessionStart
<1>2. ASSUME NEW m \in Msgs, NEW isLast \in BOOLEAN, NEW late \in BOOLEAN,
             NEW chunk, AudioChunk(m, chunk, isLast, late)
      PROVE  UNCHANGED coreVars \/ Spawns
  BY <1>2 DEF AudioChunk, Trigger, Open, Spawns
<1>3. CASE Interrupt
  BY <1>3 DEF Interrupt, CancelAll, Cancels
<1>4. CASE Retry
  BY <1>4 DEF Retry, Trigger, CancelAll, Open, Spawns, Cancels
<1>5. CASE SessionEnd
  BY <1>5 DEF SessionEnd, Cancels
<1> QED BY <1>1, <1>2, <1>3, <1>4, <1>5 DEF Handler

LEMMA SocketEffect ==
    ASSUME Socket
    PROVE  UNCHANGED coreVars \/ Cancels
BY DEF Socket, SocketLost, Disconnect, Deliver, Cancels, coreVars, inputVars,
       tokenVars, taskVars

LEMMA StepEffect ==
    ASSUME [Next]_vars
    PROVE  \/ UNCHANGED coreVars \/ Spawns \/ Cancels
           \/ \E r \in Requests : Moves(r) \/ Ends(r) \/ Takes(r)
<1>1. CASE UNCHANGED vars
  BY <1>1 DEF vars, coreVars, inputVars, tokenVars, taskVars
<1>2. CASE Next
  BY <1>2, HandlerEffect, SocketEffect, PipelineEffect DEF Next
<1> QED BY <1>1, <1>2

-----------------------------------------------------------------------------
(* The inductive invariant: who holds the floor cannot be kept exact without *)
(* knowing which tokens exist and which of them are cancelled.               *)

IInv == TypeOK /\ FreshTokens /\ ClosedCancelsAll /\ RegistrationExact

LEMMA SafeInit == Init => IInv
<1> SUFFICES ASSUME Init PROVE IInv
  OBVIOUS
<1>1. \A r \in Requests : stage[r] = "unborn" /\ r > born
  BY BoundsAssumption DEF Init, Requests
<1>2. FreshTokens /\ RegistrationExact
  BY <1>1 DEF Init, FreshTokens, RegistrationExact, Answering
<1>3. ClosedCancelsAll
  BY DEF Init, ClosedCancelsAll
<1> QED BY <1>2, <1>3, TypeInit DEF IInv

LEMMA SafeStep == IInv /\ [Next]_vars => IInv'
<1> SUFFICES ASSUME IInv, [Next]_vars
             PROVE  FreshTokens' /\ ClosedCancelsAll' /\ RegistrationExact'
  BY TypeStep DEF IInv
<1> USE DEF IInv
<1>1. /\ born \in Nat /\ stage \in [Requests -> Stages] /\ cancelled \subseteq Requests
      /\ real \in Requests \cup {Nobody} /\ Nobody \notin Requests
      /\ Started = {r \in Requests : stage[r] # "unborn"}
  <2>1. born \in Nat /\ born <= MaxRequests /\ MaxRequests \in Nat
    BY BoundsAssumption DEF TypeOK
  <2>2. Started = {r \in Requests : ~(r > born)}
    BY <2>1 DEF Started, Requests
  <2>3. \A r \in Requests : stage[r] = "unborn" <=> r > born
    BY DEF FreshTokens
  <2>4. Nobody \notin Requests
    BY DEF Nobody, Requests
  <2> QED BY <2>1, <2>2, <2>3, <2>4 DEF TypeOK
<1>2. CASE UNCHANGED coreVars
  BY <1>2 DEF coreVars, FreshTokens, ClosedCancelsAll, RegistrationExact, Answering, Started
<1>3. CASE Spawns
  <2>1. born + 1 \in Requests /\ stage[born + 1] = "unborn" /\ Started' = Started \cup {born + 1}
    BY <1>1, <1>3, BoundsAssumption DEF Spawns, FreshTokens, Requests, Started
  <2>2. cancelled' \subseteq Started
    BY <1>1, <1>3 DEF Spawns, CancelAll, FreshTokens
  <2>3. \A r \in Requests : stage'[r] = IF r = born + 1 THEN "spawned" ELSE stage[r]
    BY <1>1, <1>3 DEF Spawns
  <2>4. \A r \in Requests : r > born' <=> r > born /\ r # born + 1
    BY <1>1, <1>3 DEF Spawns, Requests
  <2>5. FreshTokens'
    BY <2>1, <2>2, <2>3, <2>4 DEF FreshTokens
  <2>6. ClosedCancelsAll'
    BY <1>3 DEF Spawns, ClosedCancelsAll
  <2>7. RegistrationExact'
    <3>1. CASE UNCHANGED <<real, cancelled>>
      BY <1>1, <2>1, <2>3, <3>1 DEF RegistrationExact, Answering
    <3>2. CASE CancelAll
      BY <1>1, <2>3, <3>2 DEF CancelAll, RegistrationExact, Answering
    <3> QED BY <1>3, <3>1, <3>2 DEF Spawns
  <2> QED BY <2>5, <2>6, <2>7
<1>4. CASE Cancels
  <2>1. Started' = Started /\ cancelled' = Started /\ stage' = stage /\ real' \in {real, Nobody}
    BY <1>4 DEF Cancels, Started
  <2>2. \A r \in Requests : ~Answering(r)'
    BY <1>1, <2>1 DEF Answering
  <2> QED BY <1>1, <1>4, <2>1, <2>2
       DEF Cancels, FreshTokens, ClosedCancelsAll, RegistrationExact
<1>5. ASSUME NEW r \in Requests, Moves(r)
      PROVE  FreshTokens' /\ ClosedCancelsAll' /\ RegistrationExact'
  <2>1. /\ stage[r] \in {"spawned", "recognizing"} /\ stage'[r] \in {"recognizing", "streaming"}
        /\ \A q \in Requests : q # r => stage'[q] = stage[q]
        /\ UNCHANGED <<alive, closed, born, real, cancelled, Started>>
    BY <1>1, <1>5 DEF Moves, Started
  <2>2. FreshTokens'
    BY <2>1 DEF FreshTokens
  <2>3. ClosedCancelsAll'
    BY <2>1 DEF ClosedCancelsAll
  <2>4. RegistrationExact'
    BY <1>1, <2>1 DEF RegistrationExact, Answering
  <2> QED BY <2>2, <2>3, <2>4
<1>6. ASSUME NEW r \in Requests, Ends(r)
      PROVE  FreshTokens' /\ ClosedCancelsAll' /\ RegistrationExact'
  <2>1. /\ stage[r] # "unborn" /\ stage'[r] = "over"
        /\ \A q \in Requests : q # r => stage'[q] = stage[q]
        /\ real' = IF real = r THEN Nobody ELSE real
        /\ UNCHANGED <<alive, closed, born, cancelled, Started>>
    BY <1>1, <1>6 DEF Ends, Unregister, Started
  <2>2. FreshTokens'
    BY <2>1 DEF FreshTokens
  <2>3. ClosedCancelsAll'
    BY <2>1 DEF ClosedCancelsAll
  <2>4. RegistrationExact'
    BY <1>1, <2>1 DEF RegistrationExact, Answering
  <2> QED BY <2>2, <2>3, <2>4
<1>7. ASSUME NEW r \in Requests, Takes(r)
      PROVE  FreshTokens' /\ ClosedCancelsAll' /\ RegistrationExact'
  <2>1. /\ stage[r] = "streaming" /\ r \notin cancelled /\ stage'[r] = "answering"
        /\ \A q \in Requests : q # r => stage'[q] = stage[q]
        /\ real' = r /\ cancelled' = cancelled \cup ({real} \ {Nobody})
        /\ UNCHANGED <<alive, closed, born, Started>>
    BY <1>1, <1>7 DEF Takes, Evicted, Started
  <2>2. real # Nobody => real \in Started /\ real # r
    BY <1>1, <2>1 DEF RegistrationExact
  <2>3. FreshTokens'
    BY <2>1, <2>2 DEF FreshTokens
  <2>4. ClosedCancelsAll'
    BY <1>1, <2>1, <2>2 DEF ClosedCancelsAll
  <2>5. \A q \in Requests : Answering(q)' => q = r
    BY <1>1, <2>1 DEF RegistrationExact, Answering
  <2> QED BY <1>1, <2>1, <2>3, <2>4, <2>5 DEF RegistrationExact
<1> QED BY <1>2, <1>3, <1>4, <1>5, <1>6, <1>7, StepEffect

THEOREM Safe == Spec => []IInv
BY SafeInit, SafeStep, PTL DEF Spec

LEMMA ExactMeansOne == RegistrationExact => OneFloor
BY DEF RegistrationExact, OneFloor

\* In every session at most one pipeline answers, whatever the number of
\* utterances and however their recognitions, interruptions and retries overlap.
THEOREM OneFloorAlways == Spec => []OneFloor
<1>1. IInv => OneFloor
  BY ExactMeansOne DEF IInv
<1> QED BY <1>1, Safe, PTL

\* The registration is never stale and never missing.
THEOREM RegistrationAlwaysExact == Spec => []RegistrationExact
<1>1. IInv => RegistrationExact
  BY DEF IInv
<1> QED BY <1>1, Safe, PTL

\* A session that ended or was dropped has cancelled all it ever spawned.
THEOREM ClosedAlwaysCancelsAll == Spec => []ClosedCancelsAll
<1>1. IInv => ClosedCancelsAll
  BY DEF IInv
<1> QED BY <1>1, Safe, PTL

-----------------------------------------------------------------------------
(* A pipeline that ends leaves the others alone.                            *)

LEMMA EndingStep ==
    ASSUME TypeOK, [Next]_vars, NEW r \in Requests, stage[r] # "over", stage'[r] = "over"
    PROVE  cancelled' = cancelled
<1>1. ~UNCHANGED coreVars /\ ~Cancels
  BY DEF coreVars, Cancels
<1>2. ~Spawns
  BY DEF TypeOK, Spawns
<1>3. ASSUME NEW q \in Requests, Moves(q) PROVE FALSE
  BY <1>3 DEF TypeOK, Moves
<1>4. ASSUME NEW q \in Requests, Takes(q) PROVE FALSE
  BY <1>4 DEF TypeOK, Takes
<1>5. PICK q \in Requests : Ends(q)
  BY <1>1, <1>2, <1>3, <1>4, StepEffect
<1> QED BY <1>5 DEF Ends

\* Silence, tags alone, a failure, a timeout or the end of an answer never cancels
\* another pipeline.
THEOREM EndingAlwaysDisturbsNobody == Spec => EndingDisturbsNobody
<1>1. TypeOK /\ [Next]_vars
      => [\A r \in Requests : stage[r] # "over" /\ stage'[r] = "over"
             => cancelled' = cancelled]_vars
  BY EndingStep
<1> QED BY <1>1, TypeCorrect, PTL DEF Spec, EndingDisturbsNobody

-----------------------------------------------------------------------------
(* Nothing is sent for a request after it was cancelled.                    *)

Silent == \A i \in DOMAIN mailbox' : i > Len(mailbox) => mailbox'[i].from \notin cancelled

LEMMA KeptSilent ==
    ASSUME TypeOK, mailbox' = mailbox \/ mailbox' = <<>> \/ (mailbox # <<>> /\ mailbox' = Tail(mailbox))
    PROVE  Silent
<1>1. mailbox \in Seq(Frames) /\ Len(mailbox) \in Nat
  BY DEF TypeOK
<1>2. mailbox' \in Seq(Frames) /\ Len(mailbox') <= Len(mailbox)
  <2>1. mailbox # <<>> => Tail(mailbox) \in Seq(Frames) /\ Len(Tail(mailbox)) = Len(mailbox) - 1
    BY <1>1
  <2>2. <<>> \in Seq(Frames) /\ Len(<<>>) = 0
    BY EmptyIsSeq
  <2>3. CASE mailbox' = mailbox
    BY <1>1, <2>3
  <2>4. CASE mailbox' = <<>>
    BY <1>1, <2>2, <2>4
  <2>5. CASE mailbox # <<>> /\ mailbox' = Tail(mailbox)
    BY <1>1, <2>1, <2>5
  <2> QED BY <2>3, <2>4, <2>5
<1>3. DOMAIN mailbox' = 1..Len(mailbox')
  BY <1>2
<1> QED BY <1>1, <1>2, <1>3 DEF Silent

LEMMA SentSilent ==
    ASSUME TypeOK, NEW sender, sender \notin cancelled, NEW burst \in Seq(Frames),
           \A j \in DOMAIN burst : burst[j].from = sender,
           Send(burst)
    PROVE  Silent
BY SendAppends DEF Silent

\* The bursts of request r: frames of r.
LEMMA BurstTypes ==
    ASSUME TypeOK, NEW r \in Requests, NEW events \in Nat, NEW why
    PROVE  /\ \A kind \in Kinds : Frame(r, kind).from = r /\ <<Frame(r, kind)>> \in Seq(Frames)
           /\ FloorFrames(r, events) \in Seq(Frames)
           /\ \A j \in DOMAIN FloorFrames(r, events) : FloorFrames(r, events)[j].from = r
           /\ ErrorFrames(r, why) \in Seq(Frames)
           /\ \A j \in DOMAIN ErrorFrames(r, why) : ErrorFrames(r, why)[j].from = r
<1>1. \A kind \in Kinds : Frame(r, kind).from = r /\ <<Frame(r, kind)>> \in Seq(Frames)
  BY FrameType DEF Frame
<1>2. /\ ErrorFrames(r, why) \in Seq(Frames)
      /\ \A j \in DOMAIN ErrorFrames(r, why) : ErrorFrames(r, why)[j].from = r
  <2>1. Frame(r, "error_status") \in Frames /\ Frame(r, "error") \in Frames
    BY FrameType DEF Kinds
  <2> QED BY <2>1 DEF ErrorFrames, Frame
<1>3. /\ FloorFrames(r, events) \in Seq(Frames)
      /\ \A j \in DOMAIN FloorFrames(r, events) : FloorFrames(r, events)[j].from = r
  <2> DEFINE heard == [i \in 1..events |-> Frame(r, "asr")]
             last == <<Frame(r, "composing")>>
  <2>1. Frame(r, "asr") \in Frames /\ Frame(r, "composing") \in Frames
    BY FrameType DEF Kinds
  <2>2. heard \in Seq(Frames) /\ last \in Seq(Frames)
    BY <2>1
  <2>3. /\ Len(heard) \in Nat /\ Len(last) \in Nat
        /\ \A j \in 1..Len(heard) : heard[j].from = r
        /\ \A j \in 1..Len(last) : last[j].from = r
    BY DEF Frame
  <2> HIDE DEF heard, last
  <2>4. FloorFrames(r, events) = heard \o last
    BY DEF FloorFrames, heard, last
  <2>5. ASSUME NEW j \in DOMAIN (heard \o last)
        PROVE  (heard \o last)[j].from = r
    <3>1. CASE j <= Len(heard)
      BY <2>2, <2>3, <2>5, <3>1
    <3>2. CASE j > Len(heard)
      BY <2>2, <2>3, <2>5, <3>2
    <3> QED BY <2>2, <2>3, <3>1, <3>2
  <2> QED BY <2>2, <2>4, <2>5
<1> QED BY <1>1, <1>2, <1>3

LEMMA SilentFail ==
    ASSUME TypeOK, NEW r \in Requests, NEW why, Fail(r, why)
    PROVE  Silent
<1>1. CASE r \in cancelled
  BY <1>1, KeptSilent DEF Fail
<1>2. CASE r \notin cancelled
  <2>1. Send(ErrorFrames(r, why))
    BY <1>2 DEF Fail
  <2>2. /\ ErrorFrames(r, why) \in Seq(Frames)
        /\ \A j \in DOMAIN ErrorFrames(r, why) : ErrorFrames(r, why)[j].from = r
    BY BurstTypes
  <2> QED BY <1>2, <2>1, <2>2, SentSilent
<1> QED BY <1>1, <1>2

LEMMA SilentConclude ==
    ASSUME TypeOK, NEW r \in Requests, NEW prompt, NEW events \in Nat,
           Conclude(r, prompt, events)
    PROVE  Silent
<1>1. CASE EndEmpty(r) \/ GiveUp(r)
  BY <1>1, KeptSilent DEF EndEmpty, GiveUp
<1>2. CASE r \notin cancelled /\ TakeFloor(r, events)
  <2>1. Send(FloorFrames(r, events))
    BY <1>2 DEF TakeFloor
  <2>2. /\ FloorFrames(r, events) \in Seq(Frames)
        /\ \A j \in DOMAIN FloorFrames(r, events) : FloorFrames(r, events)[j].from = r
    BY BurstTypes
  <2> QED BY <1>2, <2>1, <2>2, SentSilent
<1> QED BY <1>1, <1>2 DEF Conclude

LEMMA SilentPipeline ==
    ASSUME TypeOK, NEW r \in Requests, Pipeline(r)
    PROVE  Silent
<1>1. CASE UNCHANGED mailbox
  BY <1>1, KeptSilent
<1>2. ASSUME NEW kind \in Kinds, r \notin cancelled, Send(<<Frame(r, kind)>>)
      PROVE  Silent
  <2>1. /\ <<Frame(r, kind)>> \in Seq(Frames)
        /\ \A j \in DOMAIN <<Frame(r, kind)>> : <<Frame(r, kind)>>[j].from = r
    BY BurstTypes
  <2> QED BY <1>2, <2>1, SentSilent
<1>3. CASE Start(r)
  <2>1. "transcribing" \in Kinds
    BY DEF Kinds
  <2> QED BY <1>1, <1>2, <1>3, <2>1 DEF Start, GiveUp
<1>4. CASE RecognizeFails(r) \/ AsrBreaks(r) \/ ItemsFail(r)
  BY <1>4, SilentFail DEF RecognizeFails, AsrBreaks, ItemsFail
<1>5. ASSUME NEW text \in Texts, AsrFinal(r, text)
      PROVE  Silent
  <2>1. asr[r].events + 1 \in Nat
    BY DEF TypeOK
  <2> QED BY <1>5, <2>1, SilentConclude DEF AsrFinal
<1>6. CASE AsrEnds(r)
  <2>1. asr[r].events \in Nat
    BY DEF TypeOK
  <2> QED BY <1>6, <2>1, SilentConclude DEF AsrEnds
<1>7. CASE ItemText(r)
  <2>1. "delta" \in Kinds
    BY DEF Kinds
  <2> QED BY <1>1, <1>2, <1>7, <2>1 DEF ItemText, GiveUp
<1>8. ASSUME NEW last \in BOOLEAN, ItemAudio(r, last)
      PROVE  Silent
  <2> DEFINE opening == IF out[r].voice = "quiet" THEN <<Frame(r, "speaking")>> ELSE <<>>
             closing == IF last THEN <<Frame(r, "spoken")>> ELSE <<>>
             audio == <<Frame(r, IF last THEN "audio_last" ELSE "audio")>>
             OfR(burst) == /\ burst \in Seq(Frames) /\ Len(burst) \in Nat
                           /\ \A j \in 1..Len(burst) : burst[j].from = r
  <2>1. \A kind \in Kinds : OfR(<<Frame(r, kind)>>)
    BY BurstTypes
  <2>2. OfR(<<>>)
    BY EmptyIsSeq
  <2>3. OfR(opening) /\ OfR(closing) /\ OfR(audio)
    BY <2>1, <2>2 DEF Kinds
  <2>4. ASSUME NEW a, NEW b, OfR(a), OfR(b)
        PROVE  OfR(a \o b)
    <3>1. a \o b \in Seq(Frames) /\ Len(a \o b) = Len(a) + Len(b)
      BY <2>4
    <3>2. \A j \in 1..(Len(a) + Len(b)) :
             (a \o b)[j] = IF j <= Len(a) THEN a[j] ELSE b[j - Len(a)]
      BY <2>4
    <3> QED BY <2>4, <3>1, <3>2
  <2> HIDE DEF opening, closing, audio
  <2>5. OfR(opening \o audio \o closing)
    BY <2>3, <2>4
  <2>6. UNCHANGED mailbox \/ (r \notin cancelled /\ Send(opening \o audio \o closing))
    BY <1>8 DEF ItemAudio, GiveUp, opening, closing, audio
  <2>7. \A burst : OfR(burst) => \A j \in DOMAIN burst : burst[j].from = r
    OBVIOUS
  <2> HIDE DEF OfR
  <2>8. CASE r \notin cancelled /\ Send(opening \o audio \o closing)
    <3>1. opening \o audio \o closing \in Seq(Frames)
      BY <2>5 DEF OfR
    <3> QED BY <2>5, <2>7, <2>8, <3>1, SentSilent
  <2> QED BY <1>1, <2>6, <2>8
<1> QED BY <1>1, <1>3, <1>4, <1>5, <1>6, <1>7, <1>8
     DEF Pipeline, ObserveCancel, GiveUp, Recognized, AsrPartial, ItemsEnd

LEMMA SilentStep == TypeOK /\ [Next]_vars => Silent
<1> SUFFICES ASSUME TypeOK, [Next]_vars PROVE Silent
  OBVIOUS
<1>1. CASE UNCHANGED vars
  BY <1>1, KeptSilent DEF vars
<1>2. CASE Interrupt
  <2> DEFINE burst == <<[kind |-> "interrupted", msg |-> lastMsg, from |-> Nobody]>>
  <2>1. Send(burst) /\ burst \in Seq(Frames) /\ \A j \in DOMAIN burst : burst[j].from = Nobody
    BY <1>2 DEF Interrupt, TypeOK, Frames, Kinds
  <2>2. Nobody \notin cancelled
    BY DEF TypeOK, Requests, Nobody
  <2> QED BY <2>1, <2>2, SentSilent
<1>3. CASE Handler /\ ~Interrupt
  <2>1. UNCHANGED mailbox
    BY <1>3 DEF Handler, SessionStart, AudioChunk, Retry, SessionEnd
  <2> QED BY <2>1, KeptSilent
<1>4. CASE Socket
  BY <1>4, KeptSilent DEF Socket, SocketLost, Disconnect, Deliver
<1> QED BY <1>1, <1>2, <1>3, <1>4, SilentPipeline DEF Next

\* After an interruption, a retry, the end of the session or the loss of the floor,
\* the session hands the socket no further frame of a request this cancelled.
THEOREM AlwaysSilentAfterCancel == Spec => SilentAfterCancel
<1>1. TypeOK /\ [Next]_vars
      => [\A i \in DOMAIN mailbox' :
             i > Len(mailbox) => mailbox'[i].from \notin cancelled]_vars
  BY SilentStep DEF Silent
<1> QED BY <1>1, TypeCorrect, PTL DEF Spec, SilentAfterCancel

-----------------------------------------------------------------------------
(* The session implements Floor: each case of StepEffect is a step of Floor *)
(* or changes no status.                                                    *)

LEMMA FloorInit == Init => F!Init
BY DEF Init, F!Init, status

LEMMA FloorStep == IInv /\ [Next]_vars => [F!Next]_status
<1> SUFFICES ASSUME IInv, [Next]_vars PROVE [F!Next]_status
  OBVIOUS
<1> USE DEF IInv
<1>1. /\ stage \in [Requests -> Stages]
      /\ real \in Requests \cup {Nobody} /\ Nobody \notin Requests
      /\ Started = {r \in Requests : stage[r] # "unborn"}
      /\ cancelled \subseteq Started
  <2>1. born \in Nat /\ born <= MaxRequests /\ MaxRequests \in Nat
    BY BoundsAssumption DEF TypeOK
  <2>2. Started = {r \in Requests : ~(r > born)}
    BY <2>1 DEF Started, Requests
  <2>3. /\ \A r \in Requests : stage[r] = "unborn" <=> r > born
        /\ cancelled \subseteq Started
    BY DEF FreshTokens
  <2>4. Nobody \notin Requests
    BY DEF Nobody, Requests
  <2> QED BY <2>1, <2>2, <2>3, <2>4 DEF TypeOK
<1> DEFINE S(r) == IF stage[r] = "unborn" THEN "unborn"
                   ELSE IF stage[r] = "over" \/ r \in cancelled THEN "over"
                   ELSE IF stage[r] = "answering" THEN "speaking" ELSE "waiting"
<1>2. status = [r \in Requests |-> S(r)] /\ status' = [r \in Requests |-> S(r)']
  BY DEF status
<1>3. CASE UNCHANGED coreVars
  BY <1>3 DEF coreVars, status
<1>4. CASE Spawns
  <2>1. born + 1 \in Requests /\ stage[born + 1] = "unborn" /\ born + 1 \notin cancelled
    <3>1. born + 1 \in Requests /\ born + 1 > born
      BY <1>4, BoundsAssumption DEF Spawns, TypeOK, Requests
    <3> QED BY <1>1, <3>1 DEF FreshTokens
  <2>2. \A r \in Requests : stage'[r] = IF r = born + 1 THEN "spawned" ELSE stage[r]
    BY <1>1, <1>4 DEF Spawns
  <2>3. CASE UNCHANGED <<real, cancelled>>
    <3>1. status' = [status EXCEPT ![born + 1] = "waiting"]
      BY <1>2, <2>1, <2>2, <2>3
    <3> QED BY <1>2, <2>1, <3>1 DEF F!Next, F!Begin, F!Unborn
  <2>4. CASE CancelAll
    <3>1. cancelled' = {r \in Requests : stage[r] # "unborn"}
      BY <1>1, <2>4 DEF CancelAll
    <3>2. \A r \in Requests : F!Silenced[r] = IF stage[r] = "unborn" THEN "unborn" ELSE "over"
      BY <1>2 DEF F!Silenced, F!Unborn
    <3>3. status' = [F!Silenced EXCEPT ![born + 1] = "waiting"]
      BY <1>2, <2>1, <2>2, <3>1, <3>2 DEF F!Silenced
    <3> QED BY <1>2, <2>1, <3>3 DEF F!Next, F!Replay, F!Unborn
  <2> QED BY <1>4, <2>3, <2>4 DEF Spawns
<1>5. CASE Cancels
  <2>1. cancelled' = {r \in Requests : stage[r] # "unborn"} /\ stage' = stage
    BY <1>1, <1>5 DEF Cancels
  <2>2. status' = F!Silenced
    BY <1>2, <2>1 DEF F!Silenced, F!Unborn
  <2> QED BY <2>2 DEF F!Next, F!Silence
<1>6. ASSUME NEW r \in Requests, Moves(r)
      PROVE  UNCHANGED status
  <2>1. /\ stage[r] \in {"spawned", "recognizing"} /\ stage'[r] \in {"recognizing", "streaming"}
        /\ \A q \in Requests : q # r => stage'[q] = stage[q]
        /\ cancelled' = cancelled
    BY <1>1, <1>6 DEF Moves
  <2> QED BY <1>2, <2>1
<1>7. ASSUME NEW r \in Requests, Ends(r)
      PROVE  [F!Next]_status
  <2>1. /\ stage[r] \notin {"unborn", "over"} /\ stage'[r] = "over"
        /\ \A q \in Requests : q # r => stage'[q] = stage[q]
        /\ cancelled' = cancelled
    BY <1>1, <1>7 DEF Ends
  <2>2. status' = [status EXCEPT ![r] = "over"]
    BY <1>2, <2>1
  <2>3. CASE r \in cancelled
    BY <1>2, <2>1, <2>2, <2>3
  <2>4. CASE r \notin cancelled
    <3>1. status[r] \in {"waiting", "speaking"}
      BY <1>2, <2>1, <2>4
    <3> QED BY <2>2, <3>1 DEF F!Next, F!Leave
  <2> QED BY <2>3, <2>4
<1>8. ASSUME NEW r \in Requests, Takes(r)
      PROVE  F!Next
  <2>1. /\ stage[r] = "streaming" /\ r \notin cancelled /\ stage'[r] = "answering"
        /\ \A q \in Requests : q # r => stage'[q] = stage[q]
        /\ cancelled' = cancelled \cup ({real} \ {Nobody})
    BY <1>1, <1>8 DEF Takes, Evicted
  <2>2. /\ real # Nobody => stage[real] = "answering" /\ real # r
        /\ \A q \in Requests : stage[q] = "answering" /\ q \notin cancelled => q = real
    BY <2>1 DEF RegistrationExact, Answering
  <2>3. status[r] = "waiting"
    BY <1>2, <2>1
  <2>4. \A q \in Requests : q # r =>
           S(q)' = IF S(q) = "speaking" THEN "over" ELSE S(q)
    BY <1>1, <2>1, <2>2
  <2>5. S(r)' = "speaking"
    BY <1>1, <2>1, <2>2
  <2>6. status' = [q \in Requests |-> IF q = r THEN "speaking"
                                      ELSE IF status[q] = "speaking" THEN "over"
                                      ELSE status[q]]
    BY <1>2, <2>4, <2>5
  <2> QED BY <2>3, <2>6 DEF F!Next, F!Take
<1> QED BY <1>3, <1>4, <1>5, <1>6, <1>7, <1>8, StepEffect

\* A session with its handlers, its concurrent pipelines and its tokens is a
\* Floor: one turn speaks, a new one takes over, an interruption silences all.
THEOREM SessionImplementsFloor == Spec => ImplementsFloor
BY FloorInit, FloorStep, Safe, PTL DEF Spec, ImplementsFloor, F!Spec

-----------------------------------------------------------------------------
(***************************************************************************)
(* What a session sends and what it books: the order of the frames in the  *)
(* mailbox, the id a turn carries, and the results of the pipelines.       *)
(***************************************************************************)

-----------------------------------------------------------------------------
(* A turn is named by its first audio.                                      *)

LEMMA HeadOfAppended ==
    ASSUME NEW S, NEW s \in Seq(S), NEW chunk \in Seq(S), s # <<>>
    PROVE  s \o chunk # <<>> /\ Head(s \o chunk) = Head(s)
<1>1. Len(s) \in Nat /\ Len(s) # 0 /\ Len(chunk) \in Nat
  OBVIOUS
<1>2. Len(s \o chunk) = Len(s) + Len(chunk) /\ (s \o chunk)[1] = s[1]
  BY <1>1
<1>3. Len(s \o chunk) # 0
  BY <1>1, <1>2
<1>4. s \o chunk \in Seq(S) /\ s \o chunk # <<>>
  BY <1>3
<1>5. Head(s \o chunk) = (s \o chunk)[1] /\ Head(s) = s[1]
  BY <1>4
<1> QED BY <1>2, <1>4, <1>5

\* Triggering keeps the names right if the drained audio is named right.
LEMMA NamedTrigger ==
    ASSUME TypeOK, TurnNamedByFirstAudio, NEW audio \in Seq(Msgs), NEW m \in Msgs \cup {NoMsg},
           audio # <<>> => m = Head(audio), Trigger(audio, m)
    PROVE  TurnNamedByFirstAudio'
<1>1. buf' = <<>>
  BY DEF Trigger
<1>2. CASE Len(audio) < MinChunks
  <2>1. UNCHANGED <<lastMsg, lastAudio, born, turn>>
    BY <1>2 DEF Trigger
  <2> QED BY <1>1, <2>1 DEF TurnNamedByFirstAudio, Started
<1>3. CASE ~(Len(audio) < MinChunks)
  <2>1. Len(audio) >= MinChunks /\ audio # <<>>
    BY <1>3, BoundsAssumption
  <2>2. born + 1 \in Requests /\ born \in Nat /\ born < MaxRequests /\ MaxRequests \in Nat
    BY <1>3, BoundsAssumption DEF Trigger, TypeOK, Requests
  <2>3. /\ lastAudio' = audio /\ lastMsg' = m /\ born' = born + 1
        /\ \A r \in Requests : turn'[r] = IF r = born + 1 THEN [msg |-> m, audio |-> audio]
                                          ELSE turn[r]
    BY <1>3, <2>2 DEF Trigger, TypeOK
  <2>4. ASSUME NEW r \in Started'
        PROVE  Len(turn'[r].audio) >= MinChunks /\ turn'[r].msg = Head(turn'[r].audio)
    <3>1. r \in Requests /\ (r # born + 1 => r \in Started)
      <4>1. r \in 1..(born + 1)
        BY <2>3 DEF Started
      <4> QED BY <2>2, <4>1 DEF Started, Requests
    <3>2. CASE r = born + 1
      BY <2>1, <2>3, <3>1, <3>2
    <3>3. CASE r # born + 1
      BY <2>3, <3>1, <3>3 DEF TurnNamedByFirstAudio
    <3> QED BY <3>2, <3>3
  <2> QED BY <1>1, <2>1, <2>3, <2>4 DEF TurnNamedByFirstAudio
<1> QED BY <1>2, <1>3

LEMMA NamedStep == TypeOK /\ TurnNamedByFirstAudio /\ [Next]_vars => TurnNamedByFirstAudio'
<1> SUFFICES ASSUME TypeOK, TurnNamedByFirstAudio, [Next]_vars PROVE TurnNamedByFirstAudio'
  OBVIOUS
<1>1. ASSUME UNCHANGED <<buf, curMsg, lastMsg, lastAudio, born, turn>>
      PROVE  TurnNamedByFirstAudio'
  BY <1>1 DEF TurnNamedByFirstAudio, Started
<1>2. ASSUME NEW m \in Msgs, NEW isLast \in BOOLEAN, NEW late \in BOOLEAN,
             NEW chunk \in {<<>>, <<m>>}, AudioChunk(m, chunk, isLast, late)
      PROVE  TurnNamedByFirstAudio'
  <2>1. /\ chunk \in Seq(Msgs) /\ buf \in Seq(Msgs) /\ buf \o chunk \in Seq(Msgs)
        /\ ChunkId(m) \in Msgs \cup {NoMsg}
    <3>1. <<>> \in Seq(Msgs) /\ <<m>> \in Seq(Msgs)
      BY EmptyIsSeq
    <3>2. chunk \in Seq(Msgs) /\ buf \in Seq(Msgs)
      BY <3>1 DEF TypeOK
    <3>3. ChunkId(m) \in Msgs \cup {NoMsg}
      BY DEF TypeOK, ChunkId
    <3>4. buf \o chunk \in Seq(Msgs)
      BY <3>2
    <3> QED BY <3>2, <3>3, <3>4
  <2>2. buf \o chunk # <<>> => ChunkId(m) = Head(buf \o chunk)
    <3>1. CASE buf # <<>>
      BY <2>1, <3>1, HeadOfAppended DEF ChunkId, TurnNamedByFirstAudio
    <3>2. CASE buf = <<>> /\ chunk = <<>>
      BY <2>1, <3>2
    <3>3. CASE buf = <<>> /\ chunk = <<m>>
      <4>1. buf \o chunk = <<m>>
        BY <2>1, <3>3
      <4> QED BY <3>3, <4>1 DEF ChunkId
    <3> QED BY <3>1, <3>2, <3>3
  <2>3. CASE isLast \/ late \/ BufferFull(buf \o chunk)
    <3>1. Trigger(buf \o chunk, ChunkId(m))
      BY <1>2, <2>3 DEF AudioChunk
    <3> HIDE DEF Trigger
    <3> QED BY <2>1, <2>2, <3>1, NamedTrigger
  <2>4. CASE ~(isLast \/ late \/ BufferFull(buf \o chunk))
    <3>1. buf' = buf \o chunk /\ curMsg' = ChunkId(m) /\ UNCHANGED <<lastMsg, lastAudio, born, turn>>
      BY <1>2, <2>4 DEF AudioChunk, taskVars
    <3> QED BY <2>2, <3>1 DEF TurnNamedByFirstAudio, Started
  <2> QED BY <2>3, <2>4
<1>3. CASE Retry
  <2>1. /\ Trigger(lastAudio, lastMsg) /\ lastAudio \in Seq(Msgs)
        /\ lastMsg \in Msgs \cup {NoMsg}
        /\ lastAudio # <<>> => lastMsg = Head(lastAudio)
    BY <1>3 DEF Retry, TypeOK, TurnNamedByFirstAudio
  <2> QED BY <2>1, NamedTrigger
<1>4. CASE SessionStart \/ Interrupt \/ SessionEnd
  BY <1>1, <1>4 DEF SessionStart, Interrupt, SessionEnd, taskVars
<1>5. CASE Socket
  BY <1>1, <1>5 DEF Socket, SocketLost, Disconnect, Deliver, inputVars, taskVars
<1>6. ASSUME NEW r \in Requests, Pipeline(r)
      PROVE  TurnNamedByFirstAudio'
  <2>1. UNCHANGED pipelineFrame
    BY <1>6 DEF Pipeline, Start, ObserveCancel, Recognized, RecognizeFails, AsrPartial, AsrFinal,
                AsrEnds, AsrBreaks, ItemText, ItemAudio, ItemsFail, ItemsEnd, Conclude, EndEmpty,
                TakeFloor, Fail, GiveUp, Exit
  <2> QED BY <1>1, <2>1 DEF pipelineFrame, inputVars
<1>7. CASE UNCHANGED vars
  BY <1>1, <1>7 DEF vars, inputVars, taskVars
<1> QED BY <1>2, <1>3, <1>4, <1>5, <1>6, <1>7 DEF Next, Handler

\* From the buffer to the pipeline and to what Retry replays, a turn carries the
\* message id of its first audio, whatever was dropped in between
\* (handle_audio_chunk, trigger_pipeline, retry).
THEOREM AlwaysNamedByFirstAudio == Spec => []TurnNamedByFirstAudio
<1>1. Init => TurnNamedByFirstAudio
  BY DEF Init, TurnNamedByFirstAudio, Started
<1> QED BY <1>1, NamedStep, TypeCorrect, PTL DEF Spec

-----------------------------------------------------------------------------
(* A success had nothing refused.                                           *)

\* Refusal and success each end a pipeline: it cannot come by both.
Booked ==
    \A r \in Requests :
        /\ r \in refused => stage[r] = "over"
        /\ result[r] = "Success" => stage[r] = "over" /\ r \notin refused

LEMMA BookedStep == IInv /\ Booked /\ [Next]_vars => Booked'
<1> SUFFICES ASSUME IInv, Booked, [Next]_vars PROVE Booked'
  OBVIOUS
<1>1. /\ stage \in [Requests -> Stages] /\ result \in [Requests -> Results]
      /\ refused \subseteq Requests
  BY DEF IInv, TypeOK
<1>2. ASSUME UNCHANGED <<result, refused>>,
             \A r \in Requests : stage[r] = "over" => stage'[r] = "over"
      PROVE  Booked'
  BY <1>2 DEF Booked
<1>3. CASE Handler
  <2>1. UNCHANGED <<result, refused>>
    BY <1>3 DEF Handler, SessionStart, AudioChunk, Interrupt, Retry, SessionEnd, Trigger, taskVars
  <2>2. UNCHANGED stage \/ Spawns
    BY <1>3, HandlerEffect DEF coreVars, Cancels
  <2>3. CASE Spawns
    <3>1. born + 1 \in Requests /\ stage[born + 1] = "unborn"
      BY <2>3, BoundsAssumption DEF Spawns, IInv, FreshTokens, TypeOK, Requests
    <3> QED BY <1>1, <1>2, <2>1, <2>3, <3>1 DEF Spawns
  <2> QED BY <1>2, <2>1, <2>2, <2>3
<1>4. CASE Socket \/ UNCHANGED vars
  BY <1>2, <1>4 DEF Socket, SocketLost, Disconnect, Deliver, taskVars, vars
<1>5. ASSUME NEW r \in Requests, Pipeline(r)
      PROVE  Booked'
  <2>1. ASSUME NEW why \in Results \ {"Success"}, Exit(r, why), refused' \in {refused, refused \cup {r}}
        PROVE  Booked'
    BY <1>1, <2>1 DEF Booked, Exit
  <2>2. ASSUME stage[r] # "over", Exit(r, "Success"), UNCHANGED refused
        PROVE  Booked'
    BY <1>1, <2>2 DEF Booked, Exit, Results
  <2>3. ASSUME NEW s \in Stages, stage[r] # "over",
               stage' = [stage EXCEPT ![r] = s], UNCHANGED <<result, refused>>
        PROVE  Booked'
    BY <1>1, <1>2, <2>3
  <2>4. ASSUME UNCHANGED <<stage, result, refused>>
        PROVE  Booked'
    BY <1>2, <2>4
  <2>5. {"Failed", "Cancelled", "Timeout", "EmptyResponse"} \subseteq Results \ {"Success"}
    BY DEF Results
  <2>6. CASE GiveUp(r)
    BY <2>1, <2>5, <2>6 DEF GiveUp
  <2>7. ASSUME NEW why \in {"Failed", "Timeout"}, Fail(r, why)
        PROVE  Booked'
    BY <2>1, <2>5, <2>7 DEF Fail
  <2>8. ASSUME stage[r] = "streaming", NEW prompt, NEW events, Conclude(r, prompt, events)
        PROVE  Booked'
    <3>1. CASE EndEmpty(r)
      BY <2>1, <2>5, <3>1 DEF EndEmpty
    <3>2. CASE TakeFloor(r, events)
      BY <2>3, <2>8, <3>2 DEF TakeFloor, Stages
    <3> QED BY <2>6, <2>8, <3>1, <3>2 DEF Conclude
  <2>9. CASE Start(r)
    BY <2>3, <2>6, <2>9 DEF Start, Stages
  <2>10. CASE Recognized(r)
    BY <2>3, <2>10 DEF Recognized, Stages
  <2>11. CASE ItemText(r) \/ \E text \in Texts : AsrPartial(r, text)
    BY <2>4, <2>6, <2>11 DEF ItemText, AsrPartial
  <2>12. ASSUME NEW last \in BOOLEAN, ItemAudio(r, last)
         PROVE  Booked'
    <3> DEFINE opening == IF out[r].voice = "quiet" THEN <<Frame(r, "speaking")>> ELSE <<>>
    <3>1. CASE GiveUp(r)
      BY <2>6, <3>1
    <3>2. CASE ~GiveUp(r)
      <4>1. refused' = IF Room > Len(opening) THEN refused ELSE refused \cup {r}
        BY <2>12, <3>2 DEF ItemAudio
      <4>2. CASE Room > Len(opening)
        <5>1. UNCHANGED <<stage, result>>
          BY <2>12, <3>2, <4>2 DEF ItemAudio, Sent
        <5> QED BY <2>4, <4>1, <4>2, <5>1
      <4>3. CASE ~(Room > Len(opening))
        <5>1. Exit(r, "Cancelled")
          BY <2>12, <3>2, <4>3 DEF ItemAudio, Sent
        <5> QED BY <2>1, <2>5, <4>1, <4>3, <5>1
      <4> QED BY <4>2, <4>3
    <3> QED BY <3>1, <3>2
  <2>13. CASE ObserveCancel(r)
    BY <2>6, <2>13 DEF ObserveCancel
  <2>14. CASE RecognizeFails(r) \/ AsrBreaks(r) \/ ItemsFail(r)
    BY <2>7, <2>14 DEF RecognizeFails, AsrBreaks, ItemsFail
  <2>15. CASE AsrEnds(r) \/ \E text \in Texts : AsrFinal(r, text)
    BY <2>8, <2>15 DEF AsrEnds, AsrFinal
  <2>16. CASE ItemsEnd(r)
    BY <2>2, <2>16 DEF ItemsEnd
  <2> QED BY <1>5, <2>9, <2>10, <2>11, <2>12, <2>13, <2>14, <2>15, <2>16 DEF Pipeline
<1> QED BY <1>3, <1>4, <1>5 DEF Next

\* The result counted as a success is that of a pipeline whose audio all went to
\* the socket, however full the mailbox was (PipelineMetricsGuard).
THEOREM SuccessAlwaysDelivered == Spec => []SuccessDelivered
<1>1. Init => Booked
  BY DEF Init, Booked
<1>2. Booked => SuccessDelivered
  BY DEF Booked, SuccessDelivered
<1> QED BY <1>1, <1>2, BookedStep, Safe, PTL DEF Spec

-----------------------------------------------------------------------------
(* What a step does to the mailbox: nothing new, or a burst of one request.  *)

\* How far a request has got, by its stage: the phase its frames may have reached.
Reached(r) ==
    CASE stage[r] \in {"unborn", "spawned"} -> 0
      [] stage[r] \in {"recognizing", "streaming"} -> 1
      [] stage[r] = "answering" /\ out[r].voice # "ended" -> 4
      [] stage[r] = "answering" /\ out[r].voice = "ended" -> 6
      [] OTHER -> 7

\* Frames leave the mailbox from the front, or all at once.
Drains == \/ UNCHANGED mailbox \/ mailbox' = <<>>
          \/ mailbox # <<>> /\ mailbox' = Tail(mailbox)

\* A burst of request r: its phases rise from where r was to where it is now.
Fits(r, burst) ==
    /\ burst \in Seq(Frames)
    /\ \A j \in 1..Len(burst) :
          /\ burst[j].from = r
          /\ Reached(r) <= Phase(burst[j].kind) /\ Phase(burst[j].kind) <= Reached(r)'
          /\ burst[j].kind \in AnswerKinds =>
                Answering(r) \/ (stage[r] = "streaming" /\ Answering(r)')
    /\ \A i, j \in 1..Len(burst) : i < j => Phase(burst[i].kind) <= Phase(burst[j].kind)

Speaks(r, burst) == Fits(r, burst) /\ Send(burst)

Interrupted == <<[kind |-> "interrupted", msg |-> lastMsg, from |-> Nobody]>>

\* The frames that were there stay where they are, those behind are of the burst.
LEMMA SendExtends ==
    ASSUME TypeOK, NEW burst \in Seq(Frames), Send(burst)
    PROVE  /\ mailbox' \in Seq(Frames)
           /\ Len(mailbox') >= Len(mailbox) /\ Len(mailbox') <= Len(mailbox) + Len(burst)
           /\ \A i \in 1..Len(mailbox) : mailbox'[i] = mailbox[i]
           /\ \A i \in 1..Len(mailbox') :
                 i > Len(mailbox) => mailbox'[i] = burst[i - Len(mailbox)]
<1> DEFINE n == IF Len(burst) <= Room THEN Len(burst) ELSE Room
           part == SubSeq(burst, 1, n)
<1>1. mailbox \in Seq(Frames) /\ Len(mailbox) \in Nat /\ Len(burst) \in Nat
  BY DEF TypeOK
<1>2. Room \in Int
  BY <1>1, BoundsAssumption DEF Room
<1>3. n \in Int /\ n <= Len(burst)
  BY <1>1, <1>2
<1>4. part \in Seq(Frames)
  BY <1>3, SubSeqProperties
<1>5. /\ Len(part) \in Nat /\ Len(part) <= Len(burst)
      /\ \A j \in 1..Len(part) : part[j] = burst[j]
  BY <1>1, <1>3
<1>6. mailbox' = mailbox \o part
  BY DEF Send
<1> HIDE DEF n, part
<1>7. mailbox' \in Seq(Frames) /\ Len(mailbox') = Len(mailbox) + Len(part)
  BY <1>1, <1>4, <1>6
<1>8. \A i \in 1..Len(mailbox) : mailbox'[i] = mailbox[i]
  BY <1>1, <1>4, <1>6
<1>9. ASSUME NEW i \in 1..Len(mailbox'), i > Len(mailbox)
      PROVE  mailbox'[i] = burst[i - Len(mailbox)]
  <2>1. mailbox'[i] = part[i - Len(mailbox)]
    BY <1>1, <1>4, <1>6, <1>7, <1>9
  <2>2. i - Len(mailbox) \in 1..Len(part)
    BY <1>1, <1>5, <1>7, <1>9
  <2> QED BY <1>5, <2>1, <2>2
<1> QED BY <1>1, <1>5, <1>7, <1>8, <1>9

\* What drains keeps the order: each frame left was in the mailbox, further back
\* or where it is.
LEMMA DrainShifts ==
    ASSUME TypeOK, Drains
    PROVE  \E d \in Nat : /\ Len(mailbox') + d = Len(mailbox)
                          /\ \A i \in 1..Len(mailbox') : mailbox'[i] = mailbox[i + d]
<1>1. mailbox \in Seq(Frames) /\ Len(mailbox) \in Nat
  BY DEF TypeOK
<1>2. CASE UNCHANGED mailbox
  <2>1. 0 \in Nat /\ Len(mailbox') + 0 = Len(mailbox)
    BY <1>1, <1>2
  <2>2. \A i \in 1..Len(mailbox') : mailbox'[i] = mailbox[i + 0]
    BY <1>1, <1>2
  <2> QED BY <2>1, <2>2
<1>3. CASE mailbox' = <<>>
  <2>1. Len(mailbox') = 0
    BY <1>3
  <2>2. Len(mailbox') + Len(mailbox) = Len(mailbox) /\ 1..Len(mailbox') = {}
    BY <1>1, <2>1
  <2> QED BY <1>1, <2>2
<1>4. CASE mailbox # <<>> /\ mailbox' = Tail(mailbox)
  <2>1. Len(mailbox') = Len(mailbox) - 1 /\ Len(mailbox) >= 1
    BY <1>1, <1>4
  <2>2. \A i \in 1..Len(mailbox') : mailbox'[i] = mailbox[i + 1]
    BY <1>1, <1>4
  <2>3. Len(mailbox') + 1 = Len(mailbox) /\ 1 \in Nat
    BY <1>1, <2>1
  <2> QED BY <2>2, <2>3
<1> QED BY <1>2, <1>3, <1>4 DEF Drains

-----------------------------------------------------------------------------
(* Each stretch of run_pipeline speaks within its phase.                     *)

LEMMA Phases ==
    /\ Phase("transcribing") = 1 /\ Phase("asr") = 2 /\ Phase("composing") = 3
    /\ Phase("delta") = 4 /\ Phase("speaking") = 4 /\ Phase("audio") = 4
    /\ Phase("audio_last") = 5 /\ Phase("spoken") = 6
    /\ Phase("error_status") = 7 /\ Phase("error") = 7
BY DEF Phase

LEMMA PhaseType == \A kind : Phase(kind) \in 1..7
BY DEF Phase

LEMMA ReachedType == \A r : Reached(r) \in 0..7 /\ Reached(r)' \in 0..7
BY DEF Reached

LEMMA ReachedAt ==
    \A r : /\ stage[r] \in {"unborn", "spawned"} => Reached(r) = 0
           /\ stage[r] \in {"recognizing", "streaming"} => Reached(r) = 1
           /\ stage[r] = "answering" /\ out[r].voice # "ended" => Reached(r) = 4
           /\ stage[r] = "answering" /\ out[r].voice = "ended" => Reached(r) = 6
           /\ stage[r] = "over" => Reached(r) = 7
BY DEF Reached

LEMMA ReachedThen ==
    \A r : /\ stage'[r] \in {"unborn", "spawned"} => Reached(r)' = 0
           /\ stage'[r] \in {"recognizing", "streaming"} => Reached(r)' = 1
           /\ stage'[r] = "answering" /\ out'[r].voice # "ended" => Reached(r)' = 4
           /\ stage'[r] = "answering" /\ out'[r].voice = "ended" => Reached(r)' = 6
           /\ stage'[r] = "over" => Reached(r)' = 7
BY DEF Reached

\* A burst of one, two or three frames.
LEMMA FitsOne ==
    ASSUME TypeOK, NEW r \in Requests, NEW a \in Kinds,
           Reached(r) <= Phase(a) /\ Phase(a) <= Reached(r)',
           a \in AnswerKinds => Answering(r)
    PROVE  Fits(r, <<Frame(r, a)>>)
<1>1. Frame(r, a) \in Frames /\ Frame(r, a).from = r /\ Frame(r, a).kind = a
  BY FrameType DEF Frame
<1> DEFINE b == <<Frame(r, a)>>
<1>2. b \in Seq(Frames) /\ Len(b) = 1 /\ b[1] = Frame(r, a)
  BY <1>1
<1> HIDE DEF b
<1>3. Fits(r, b)
  BY <1>1, <1>2 DEF Fits
<1> QED BY <1>3 DEF b

LEMMA FitsTwo ==
    ASSUME TypeOK, NEW r \in Requests, NEW a1 \in Kinds, NEW a2 \in Kinds,
           Reached(r) <= Phase(a1) /\ Phase(a1) <= Phase(a2) /\ Phase(a2) <= Reached(r)',
           {a1, a2} \cap AnswerKinds # {} => Answering(r)
    PROVE  Fits(r, <<Frame(r, a1), Frame(r, a2)>>)
<1>1. /\ Frame(r, a1) \in Frames /\ Frame(r, a1).from = r /\ Frame(r, a1).kind = a1
      /\ Frame(r, a2) \in Frames /\ Frame(r, a2).from = r /\ Frame(r, a2).kind = a2
  BY FrameType DEF Frame
<1> DEFINE b == <<Frame(r, a1), Frame(r, a2)>>
<1>2. b \in Seq(Frames) /\ Len(b) = 2 /\ b[1] = Frame(r, a1) /\ b[2] = Frame(r, a2)
  BY <1>1
<1> HIDE DEF b
<1>3. \A j \in 1..Len(b) : j = 1 \/ j = 2
  BY <1>2
<1>4. Fits(r, b)
  BY <1>1, <1>2, <1>3, PhaseType, ReachedType DEF Fits
<1> QED BY <1>4 DEF b

LEMMA FitsThree ==
    ASSUME TypeOK, NEW r \in Requests, NEW a1 \in Kinds, NEW a2 \in Kinds, NEW a3 \in Kinds,
           Reached(r) <= Phase(a1), Phase(a1) <= Phase(a2), Phase(a2) <= Phase(a3),
           Phase(a3) <= Reached(r)', Answering(r)
    PROVE  Fits(r, <<Frame(r, a1), Frame(r, a2), Frame(r, a3)>>)
<1>1. /\ Frame(r, a1) \in Frames /\ Frame(r, a1).from = r /\ Frame(r, a1).kind = a1
      /\ Frame(r, a2) \in Frames /\ Frame(r, a2).from = r /\ Frame(r, a2).kind = a2
      /\ Frame(r, a3) \in Frames /\ Frame(r, a3).from = r /\ Frame(r, a3).kind = a3
  BY FrameType DEF Frame
<1> DEFINE b == <<Frame(r, a1), Frame(r, a2), Frame(r, a3)>>
<1>2. b \in Seq(Frames) /\ Len(b) = 3 /\ b[1] = Frame(r, a1) /\ b[2] = Frame(r, a2) /\ b[3] = Frame(r, a3)
  BY <1>1
<1> HIDE DEF b
<1>3. \A j \in 1..Len(b) : j = 1 \/ j = 2 \/ j = 3
  BY <1>2
<1>4. Fits(r, b)
  BY <1>1, <1>2, <1>3, PhaseType, ReachedType DEF Fits
<1> QED BY <1>4 DEF b

\* The frames with which a request takes the floor.
LEMMA FitsFloor ==
    ASSUME TypeOK, NEW r \in Requests, NEW events \in Nat,
           Reached(r) <= 1, 4 <= Reached(r)', stage[r] = "streaming", Answering(r)'
    PROVE  Fits(r, FloorFrames(r, events))
<1> DEFINE b == FloorFrames(r, events)
<1>1. /\ Frame(r, "asr") \in Frames /\ Frame(r, "asr").from = r /\ Frame(r, "asr").kind = "asr"
      /\ Frame(r, "composing") \in Frames /\ Frame(r, "composing").from = r
      /\ Frame(r, "composing").kind = "composing"
  BY FrameType DEF Frame, Kinds
<1>2. /\ b \in Seq(Frames) /\ Len(b) = events + 1
      /\ \A j \in 1..events : b[j] = Frame(r, "asr")
      /\ b[events + 1] = Frame(r, "composing")
  <2> DEFINE heard == [i \in 1..events |-> Frame(r, "asr")]
             last == <<Frame(r, "composing")>>
  <2>1. /\ heard \in Seq(Frames) /\ Len(heard) = events
        /\ \A j \in 1..events : heard[j] = Frame(r, "asr")
    BY <1>1
  <2>2. last \in Seq(Frames) /\ Len(last) = 1 /\ last[1] = Frame(r, "composing")
    BY <1>1
  <2> HIDE DEF heard, last
  <2>3. b = heard \o last
    BY DEF FloorFrames, heard, last
  <2> HIDE DEF b
  <2>4. heard \in Seq(Frames) /\ last \in Seq(Frames) /\ Len(heard) \in Nat /\ 1 \in 1..Len(last)
    BY <2>1, <2>2
  <2>5. heard \o last \in Seq(Frames) /\ Len(heard \o last) = Len(heard) + Len(last)
    BY <2>4
  <2>6. \A j \in 1..Len(heard) : (heard \o last)[j] = heard[j]
    BY <2>4
  <2>7. (heard \o last)[Len(heard) + 1] = last[1]
    BY <2>4
  <2> QED BY <2>1, <2>2, <2>3, <2>5, <2>6, <2>7
<1> HIDE DEF b
<1>3. ASSUME NEW j \in 1..Len(b)
      PROVE  \/ j = events + 1 /\ b[j] = Frame(r, "composing")
             \/ j <= events /\ b[j] = Frame(r, "asr")
  BY <1>2
<1>4. Fits(r, b)
  <2>1. \A j \in 1..Len(b) :
           /\ b[j].from = r
           /\ Reached(r) <= Phase(b[j].kind) /\ Phase(b[j].kind) <= Reached(r)'
    BY <1>1, <1>3, Phases, ReachedType
  <2>2. \A i, j \in 1..Len(b) : i < j => b[i] = Frame(r, "asr")
    BY <1>2, <1>3
  <2>3. \A i, j \in 1..Len(b) : i < j => Phase(b[i].kind) <= Phase(b[j].kind)
    <3>1. \A j \in 1..Len(b) : 2 <= Phase(b[j].kind)
      BY <1>1, <1>3, Phases
    <3> QED BY <1>1, <2>2, <3>1, Phases
  <2> QED BY <1>2, <2>1, <2>3 DEF Fits
<1> QED BY <1>4 DEF b

LEMMA PairConcat ==
    ASSUME NEW S, NEW a \in S, NEW b \in S
    PROVE  <<a>> \o <<b>> = <<a, b>> /\ <<a>> \in Seq(S) /\ <<a, b>> \in Seq(S)
<1>1. /\ <<a>> \in Seq(S) /\ <<b>> \in Seq(S) /\ <<a, b>> \in Seq(S)
      /\ Len(<<a>>) = 1 /\ Len(<<b>>) = 1 /\ Len(<<a, b>>) = 2
  OBVIOUS
<1>2. <<a>> \o <<b>> \in Seq(S) /\ Len(<<a>> \o <<b>>) = 2
  BY <1>1, ConcatProperties
<1>3. \A i \in 1..2 : (<<a>> \o <<b>>)[i] = <<a, b>>[i]
  BY <1>1, ConcatProperties
<1> QED BY <1>1, <1>2, <1>3, SeqEqual

LEMMA TripleConcat ==
    ASSUME NEW S, NEW a \in S, NEW b \in S, NEW c \in S
    PROVE  <<a>> \o <<b>> \o <<c>> = <<a, b, c>>
<1>1. <<a>> \o <<b>> = <<a, b>>
  BY PairConcat
<1>2. /\ <<a, b>> \in Seq(S) /\ <<c>> \in Seq(S) /\ <<a, b, c>> \in Seq(S)
      /\ Len(<<a, b>>) = 2 /\ Len(<<c>>) = 1 /\ Len(<<a, b, c>>) = 3
  OBVIOUS
<1>3. <<a, b>> \o <<c>> \in Seq(S) /\ Len(<<a, b>> \o <<c>>) = 3
  BY <1>2, ConcatProperties
<1>4. \A i \in 1..3 : (<<a, b>> \o <<c>>)[i] = <<a, b, c>>[i]
  BY <1>2, ConcatProperties
<1>5. <<a, b>> \o <<c>> = <<a, b, c>>
  BY <1>2, <1>3, <1>4, SeqEqual
<1> QED BY <1>1, <1>5

LEMMA SpeaksFail ==
    ASSUME TypeOK, NEW r \in Requests, NEW why, Fail(r, why)
    PROVE  UNCHANGED mailbox \/ Speaks(r, ErrorFrames(r, why))
<1>1. stage'[r] = "over"
  BY DEF Fail, Exit, TypeOK
<1>2. Fits(r, ErrorFrames(r, why))
  <2>1. "error_status" \in Kinds /\ "error" \in Kinds
    BY DEF Kinds
  <2>2. {"error_status", "error"} \cap AnswerKinds = {}
    BY DEF AnswerKinds
  <2>3. Reached(r) <= 7 /\ Reached(r)' = 7
    BY <1>1, ReachedType, ReachedThen
  <2> QED BY <2>1, <2>2, <2>3, FitsTwo, Phases DEF ErrorFrames
<1> QED BY <1>2 DEF Fail, Speaks

LEMMA SpeaksConclude ==
    ASSUME IInv, NEW r \in Requests, NEW prompt, NEW events \in Nat, stage[r] = "streaming",
           Conclude(r, prompt, events)
    PROVE  UNCHANGED mailbox \/ Speaks(r, FloorFrames(r, events))
<1>1. CASE EndEmpty(r) \/ GiveUp(r)
  BY <1>1 DEF EndEmpty, GiveUp
<1>2. CASE r \notin cancelled /\ TakeFloor(r, events)
  <2>1. stage'[r] = "answering" /\ cancelled' = cancelled \cup Evicted
    BY <1>2 DEF TakeFloor, IInv, TypeOK
  <2>2. Answering(r)'
    BY <1>2, <2>1 DEF Answering, Evicted, IInv, RegistrationExact
  <2>3. Reached(r) = 1 /\ 4 <= Reached(r)'
    BY <2>1, ReachedAt, ReachedThen
  <2>4. Fits(r, FloorFrames(r, events))
    BY <2>2, <2>3, FitsFloor DEF IInv
  <2> QED BY <1>2, <2>4 DEF TakeFloor, Speaks
<1> QED BY <1>1, <1>2 DEF Conclude

LEMMA SpeaksAudio ==
    ASSUME IInv, NEW r \in Requests, NEW last \in BOOLEAN, ItemAudio(r, last)
    PROVE  UNCHANGED mailbox \/ \E burst : Speaks(r, burst)
<1> DEFINE opening == IF out[r].voice = "quiet" THEN <<Frame(r, "speaking")>> ELSE <<>>
           closing == IF last THEN <<Frame(r, "spoken")>> ELSE <<>>
           audio == <<Frame(r, IF last THEN "audio_last" ELSE "audio")>>
           burst == opening \o audio \o closing
<1>1. CASE GiveUp(r)
  BY <1>1 DEF GiveUp
<1>2. CASE ~GiveUp(r)
  <2>1. /\ stage[r] = "answering" /\ out[r].voice # "ended" /\ r \notin cancelled
        /\ Send(burst)
    BY <1>2 DEF ItemAudio
  <2>2. Answering(r) /\ Reached(r) = 4
    BY <2>1, ReachedAt DEF Answering
  <2>3. Reached(r)' >= IF last THEN 6 ELSE 4
    <3>1. CASE stage'[r] = "over"
      BY <3>1, ReachedThen
    <3>2. CASE stage'[r] # "over"
      <4>1. ~Exit(r, "Cancelled")
        BY <3>2 DEF Exit, IInv, TypeOK
      <4>2. /\ UNCHANGED stage
            /\ out' = [out EXCEPT ![r] = IF last THEN [voice |-> "ended", items |-> @.items]
                                         ELSE [voice |-> "speaking", items |-> @.items + 1]]
        BY <1>2, <4>1 DEF ItemAudio
      <4>3. out'[r].voice = IF last THEN "ended" ELSE "speaking"
        BY <4>2 DEF IInv, TypeOK
      <4>4. stage'[r] = "answering"
        BY <2>1, <4>2
      <4> QED BY <4>3, <4>4, ReachedThen
    <3> QED BY <3>1, <3>2
  <2>4. {"speaking", "audio", "audio_last", "spoken"} \subseteq Kinds
    BY DEF Kinds
  <2>5. \A s \in Seq(Frames) : s \o <<>> = s /\ <<>> \o s = s
    BY ConcatEmptySeq
  <2>6. \A a, b \in Frames : /\ <<a>> \o <<b>> = <<a, b>>
                             /\ <<a>> \in Seq(Frames) /\ <<a, b>> \in Seq(Frames)
    BY PairConcat
  <2>7. \A kind \in Kinds : Frame(r, kind) \in Frames
    BY FrameType DEF IInv
  <2> HIDE DEF burst
  <2>8. Fits(r, burst)
    <3>1. CASE out[r].voice = "quiet" /\ last
      <4>1. burst = <<Frame(r, "speaking"), Frame(r, "audio_last"), Frame(r, "spoken")>>
        BY <2>4, <2>7, <3>1, TripleConcat DEF burst
      <4>2. Fits(r, <<Frame(r, "speaking"), Frame(r, "audio_last"), Frame(r, "spoken")>>)
        BY <2>2, <2>3, <2>4, <3>1, FitsThree, Phases, ReachedType DEF IInv
      <4> QED BY <4>1, <4>2
    <3>2. CASE out[r].voice = "quiet" /\ ~last
      <4>1. burst = <<Frame(r, "speaking"), Frame(r, "audio")>>
        BY <2>4, <2>5, <2>6, <2>7, <3>2 DEF burst
      <4>2. Fits(r, <<Frame(r, "speaking"), Frame(r, "audio")>>)
        BY <2>2, <2>3, <2>4, <3>2, FitsTwo, Phases, ReachedType DEF IInv
      <4> QED BY <4>1, <4>2
    <3>3. CASE out[r].voice # "quiet" /\ last
      <4>1. burst = <<Frame(r, "audio_last"), Frame(r, "spoken")>>
        BY <2>4, <2>5, <2>6, <2>7, <3>3 DEF burst
      <4>2. Fits(r, <<Frame(r, "audio_last"), Frame(r, "spoken")>>)
        BY <2>2, <2>3, <2>4, <3>3, FitsTwo, Phases, ReachedType DEF IInv
      <4> QED BY <4>1, <4>2
    <3>4. CASE out[r].voice # "quiet" /\ ~last
      <4>1. burst = <<Frame(r, "audio")>>
        BY <2>4, <2>5, <2>6, <2>7, <3>4 DEF burst
      <4>2. Fits(r, <<Frame(r, "audio")>>)
        BY <2>2, <2>3, <2>4, <3>4, FitsOne, Phases, ReachedType DEF IInv
      <4> QED BY <4>1, <4>2
    <3> QED BY <3>1, <3>2, <3>3, <3>4
  <2> QED BY <2>1, <2>8 DEF Speaks
<1> QED BY <1>1, <1>2

LEMMA PipelineSpeaks ==
    ASSUME IInv, NEW r \in Requests, Pipeline(r)
    PROVE  UNCHANGED mailbox \/ \E burst : Speaks(r, burst)
<1>1. /\ TypeOK /\ stage \in [Requests -> Stages] /\ asr[r].events \in Nat
      /\ out[r].voice \in {"quiet", "speaking", "ended"}
  BY DEF IInv, TypeOK
<1>2. CASE Start(r)
  <2>1. CASE GiveUp(r)
    BY <2>1 DEF GiveUp
  <2>2. CASE ~GiveUp(r)
    <3>1. /\ stage[r] = "spawned" /\ stage'[r] = "recognizing"
          /\ Send(<<Frame(r, "transcribing")>>)
      BY <1>1, <1>2, <2>2 DEF Start
    <3>2. Reached(r) = 0 /\ Reached(r)' = 1
      BY <3>1, ReachedAt, ReachedThen
    <3>3. "transcribing" \in Kinds /\ "transcribing" \notin AnswerKinds
      BY DEF Kinds, AnswerKinds
    <3>4. Fits(r, <<Frame(r, "transcribing")>>)
      BY <1>1, <3>2, <3>3, FitsOne, Phases
    <3> QED BY <3>1, <3>4 DEF Speaks
  <2> QED BY <2>1, <2>2
<1>3. CASE RecognizeFails(r) \/ AsrBreaks(r) \/ ItemsFail(r)
  BY <1>1, <1>3, SpeaksFail DEF RecognizeFails, AsrBreaks, ItemsFail
<1>4. ASSUME NEW text \in Texts, AsrFinal(r, text)
      PROVE  UNCHANGED mailbox \/ \E burst : Speaks(r, burst)
  <2>1. asr[r].events + 1 \in Nat
    BY <1>1
  <2> QED BY <1>4, <2>1, SpeaksConclude DEF AsrFinal
<1>5. CASE AsrEnds(r)
  BY <1>1, <1>5, SpeaksConclude DEF AsrEnds
<1>6. CASE ItemText(r)
  <2>1. CASE GiveUp(r)
    BY <2>1 DEF GiveUp
  <2>2. CASE ~GiveUp(r)
    <3>1. /\ stage[r] = "answering" /\ out[r].voice # "ended" /\ r \notin cancelled
          /\ UNCHANGED stage /\ Send(<<Frame(r, "delta")>>)
          /\ out' = [out EXCEPT ![r] = [voice |-> @.voice, items |-> @.items + 1]]
      BY <1>6, <2>2 DEF ItemText
    <3>2. out'[r].voice = out[r].voice
      BY <3>1 DEF IInv, TypeOK
    <3>3. Answering(r) /\ Reached(r) = 4 /\ Reached(r)' = 4
      BY <3>1, <3>2, ReachedAt, ReachedThen DEF Answering
    <3>4. "delta" \in Kinds
      BY DEF Kinds
    <3>5. Fits(r, <<Frame(r, "delta")>>)
      BY <1>1, <3>3, <3>4, FitsOne, Phases
    <3> QED BY <3>1, <3>5 DEF Speaks
  <2> QED BY <2>1, <2>2
<1>7. ASSUME NEW last \in BOOLEAN, ItemAudio(r, last)
      PROVE  UNCHANGED mailbox \/ \E burst : Speaks(r, burst)
  BY <1>7, SpeaksAudio
<1> QED BY <1>2, <1>3, <1>4, <1>5, <1>6, <1>7
     DEF Pipeline, ObserveCancel, GiveUp, Recognized, AsrPartial, ItemsEnd

\* Every step drains, interrupts, or speaks for one request.
LEMMA StepSpeaks ==
    ASSUME IInv, [Next]_vars
    PROVE  \/ Drains \/ Send(Interrupted)
           \/ \E r \in Requests : \E burst : Pipeline(r) /\ Speaks(r, burst)
<1>1. CASE UNCHANGED vars
  BY <1>1 DEF vars, Drains
<1>2. CASE Handler
  BY <1>2 DEF Handler, SessionStart, AudioChunk, Interrupt, Retry, SessionEnd, Drains, Interrupted
<1>3. CASE Socket
  BY <1>3 DEF Socket, SocketLost, Disconnect, Deliver, Drains
<1> QED BY <1>1, <1>2, <1>3, PipelineSpeaks DEF Next, Drains

\* No request goes back.
LEMMA ReachedGrows ==
    ASSUME IInv, [Next]_vars, NEW q \in Requests
    PROVE  Reached(q) <= Reached(q)'
<1>1. /\ TypeOK /\ stage \in [Requests -> Stages]
      /\ out \in [Requests -> [voice : {"quiet", "speaking", "ended"}, items : Nat]]
  BY DEF IInv, TypeOK
<1>2. ASSUME stage'[q] = stage[q], out'[q].voice = out[q].voice
      PROVE  Reached(q) <= Reached(q)'
  <2>1. Reached(q)' = Reached(q)
    BY <1>2 DEF Reached
  <2> QED BY <2>1, ReachedType
<1>3. CASE Handler
  <2>1. UNCHANGED out
    BY <1>3 DEF Handler, SessionStart, AudioChunk, Interrupt, Retry, SessionEnd, Trigger, taskVars
  <2>2. UNCHANGED stage \/ Spawns
    BY <1>3, HandlerEffect DEF coreVars, Cancels
  <2>3. CASE Spawns
    <3>1. born + 1 \in Requests /\ stage[born + 1] = "unborn"
      BY <2>3, BoundsAssumption DEF Spawns, IInv, FreshTokens, TypeOK, Requests
    <3>2. CASE q = born + 1
      BY <1>1, <2>3, <3>1, <3>2, ReachedAt, ReachedThen DEF Spawns
    <3>3. CASE q # born + 1
      BY <1>1, <1>2, <2>1, <2>3, <3>1, <3>3 DEF Spawns
    <3> QED BY <3>2, <3>3
  <2> QED BY <1>2, <2>1, <2>2, <2>3
<1>4. CASE Socket \/ UNCHANGED vars
  BY <1>2, <1>4 DEF Socket, SocketLost, Disconnect, Deliver, taskVars, vars
<1>5. ASSUME NEW r \in Requests, Pipeline(r)
      PROVE  Reached(q) <= Reached(q)'
  <2>2. ASSUME NEW why, Exit(r, why)
        PROVE  Reached(q) <= Reached(q)'
    <3>1. /\ stage'[r] = "over"
          /\ \A p \in Requests : p # r => stage'[p] = stage[p] /\ out'[p] = out[p]
      BY <1>1, <2>2 DEF Exit
    <3> QED BY <1>2, <3>1, ReachedThen, ReachedType
  <2>3. ASSUME NEW s, stage' = [stage EXCEPT ![r] = s], UNCHANGED out,
               \/ stage[r] = "spawned" /\ s = "recognizing"
               \/ stage[r] = "recognizing" /\ s = "streaming"
               \/ stage[r] = "streaming" /\ s = "answering"
        PROVE  Reached(q) <= Reached(q)'
    <3>1. CASE q = r
      BY <1>1, <2>3, <3>1, ReachedAt, ReachedThen, ReachedType
    <3>2. CASE q # r
      BY <1>1, <1>2, <2>3, <3>2
    <3> QED BY <3>1, <3>2
  <2>4. ASSUME stage[r] = "answering", out[r].voice # "ended", UNCHANGED stage,
               \A p \in Requests : p # r => out'[p] = out[p]
        PROVE  Reached(q) <= Reached(q)'
    <3>1. CASE q = r
      BY <1>1, <2>4, <3>1, ReachedAt, ReachedThen, ReachedType
    <3>2. CASE q # r
      BY <1>1, <1>2, <2>4, <3>2
    <3> QED BY <3>1, <3>2
  <2>5. CASE Start(r)
    BY <2>2, <2>3, <2>5 DEF Start, GiveUp
  <2>6. CASE ObserveCancel(r)
    BY <2>2, <2>6 DEF ObserveCancel, GiveUp
  <2>7. CASE Recognized(r)
    BY <2>3, <2>7 DEF Recognized
  <2>8. CASE RecognizeFails(r) \/ AsrBreaks(r) \/ ItemsFail(r)
    BY <2>2, <2>8 DEF RecognizeFails, AsrBreaks, ItemsFail, Fail, Results
  <2>9. ASSUME NEW text \in Texts, AsrPartial(r, text)
        PROVE  Reached(q) <= Reached(q)'
    BY <1>2, <2>9 DEF AsrPartial
  <2>10. ASSUME NEW prompt, NEW events, stage[r] = "streaming", Conclude(r, prompt, events)
         PROVE  Reached(q) <= Reached(q)'
    BY <2>2, <2>3, <2>10 DEF Conclude, EndEmpty, GiveUp, TakeFloor
  <2>11. CASE AsrEnds(r) \/ \E text \in Texts : AsrFinal(r, text)
    BY <2>10, <2>11 DEF AsrEnds, AsrFinal
  <2>12. CASE ItemText(r)
    <3>1. CASE ~GiveUp(r)
      BY <1>1, <2>4, <2>12, <3>1 DEF ItemText
    <3> QED BY <2>2, <3>1 DEF GiveUp
  <2>13. ASSUME NEW last \in BOOLEAN, ItemAudio(r, last)
         PROVE  Reached(q) <= Reached(q)'
    <3>1. CASE ~Exit(r, "Cancelled")
      <4>1. /\ stage[r] = "answering" /\ out[r].voice # "ended" /\ UNCHANGED stage
            /\ \E o : out' = [out EXCEPT ![r] = o]
        BY <2>13, <3>1 DEF ItemAudio, GiveUp
      <4> QED BY <1>1, <2>4, <4>1
    <3> QED BY <2>2, <3>1
  <2>14. CASE ItemsEnd(r)
    BY <2>2, <2>14 DEF ItemsEnd
  <2> QED BY <1>5, <2>5, <2>6, <2>7, <2>8, <2>9, <2>11, <2>12, <2>13, <2>14 DEF Pipeline
<1> QED BY <1>3, <1>4, <1>5 DEF Next

-----------------------------------------------------------------------------
(* The invariant of the mailbox.                                            *)

\* Of each request, only frames of the phases it has been through are there.
WithinReach ==
    \A r \in Requests : \A i \in 1..Len(mailbox) :
        mailbox[i].from = r => Phase(mailbox[i].kind) <= Reached(r)

\* A request whose answer another one follows has lost the floor.
Superseded ==
    \A r \in Requests : \A i, j \in 1..Len(mailbox) :
        /\ i < j /\ mailbox[i].from = r /\ mailbox[j].from # r
        /\ mailbox[i].kind \in AnswerKinds /\ mailbox[j].kind \in AnswerKinds
        => ~Answering(r)

\* What the session sends itself is no answer.
OwnFrames ==
    \A i \in 1..Len(mailbox) : mailbox[i].from = Nobody => mailbox[i].kind = "interrupted"

WireInv == WithinReach /\ PhasesInOrder /\ Superseded /\ AnswersNotInterleaved /\ OwnFrames

\* Whoever has begun its answer and does not answer any more never will again.
LEMMA SilencedStays ==
    ASSUME IInv, [Next]_vars, NEW q \in Requests, Reached(q) >= 3, ~Answering(q)
    PROVE  ~Answering(q)'
<1>1. stage[q] \in {"answering", "over"} /\ stage \in [Requests -> Stages] /\ cancelled \subseteq Started
  BY DEF Reached, IInv, TypeOK, Stages, FreshTokens
<1>2. CASE UNCHANGED coreVars
  BY <1>2 DEF coreVars, Answering
<1>3. CASE Spawns
  <2>1. born + 1 \in Requests /\ born + 1 > born
    BY <1>3, BoundsAssumption DEF Spawns, IInv, TypeOK, Requests
  <2>2. stage[born + 1] = "unborn" /\ q # born + 1
    BY <1>1, <2>1 DEF IInv, FreshTokens
  <2>3. stage'[q] = stage[q] /\ cancelled \subseteq cancelled'
    BY <1>1, <1>3, <2>2 DEF Spawns, CancelAll
  <2> QED BY <2>3 DEF Answering
<1>4. CASE Cancels
  BY <1>1, <1>4 DEF Cancels, Answering
<1>5. ASSUME NEW r \in Requests, Moves(r) \/ Ends(r) \/ Takes(r)
      PROVE  ~Answering(q)'
  <2>1. cancelled \subseteq cancelled'
    BY <1>5 DEF Moves, Ends, Takes
  <2>2. CASE q = r
    BY <1>1, <1>5, <2>2 DEF Moves, Ends, Takes, Answering
  <2>3. CASE q # r
    <3>1. stage'[q] = stage[q]
      BY <1>1, <1>5, <2>3 DEF Moves, Ends, Takes
    <3> QED BY <2>1, <3>1 DEF Answering
  <2> QED BY <2>2, <2>3
<1> QED BY <1>2, <1>3, <1>4, <1>5, StepEffect

\* An answer's frame in the mailbox is of a request that has begun its answer.
LEMMA AnswerSenders ==
    ASSUME IInv, WireInv, NEW i \in 1..Len(mailbox), mailbox[i].kind \in AnswerKinds
    PROVE  mailbox[i].from \in Requests /\ Reached(mailbox[i].from) >= 3
<1>1. mailbox[i] \in Frames
  BY DEF IInv, TypeOK
<1>2. mailbox[i].from \in Requests
  BY <1>1 DEF WireInv, OwnFrames, Frames, AnswerKinds
<1>3. Phase(mailbox[i].kind) >= 3
  BY DEF Phase, AnswerKinds
<1>4. Phase(mailbox[i].kind) <= Reached(mailbox[i].from)
  BY <1>2 DEF WireInv, WithinReach
<1> QED BY <1>2, <1>3, <1>4, PhaseType, ReachedType

LEMMA WireDrains ==
    ASSUME IInv, WireInv, [Next]_vars, Drains
    PROVE  WireInv'
<1>1. PICK d \in Nat : /\ Len(mailbox') + d = Len(mailbox)
                       /\ \A i \in 1..Len(mailbox') : mailbox'[i] = mailbox[i + d]
  BY DrainShifts DEF IInv
<1>2. mailbox \in Seq(Frames) /\ Len(mailbox) \in Nat /\ DOMAIN mailbox = 1..Len(mailbox)
  BY DEF IInv, TypeOK
<1>3. mailbox' \in Seq(Frames) /\ Len(mailbox') \in Nat /\ DOMAIN mailbox' = 1..Len(mailbox')
  BY TypeStep DEF IInv, TypeOK
<1>4. \A i \in 1..Len(mailbox') : i + d \in 1..Len(mailbox) /\ mailbox'[i] = mailbox[i + d]
  BY <1>1, <1>2, <1>3
<1>5. \A i, j \in 1..Len(mailbox') : i < j => i + d < j + d
  BY <1>3
<1>6. WithinReach'
  <2> SUFFICES ASSUME NEW r \in Requests, NEW i \in 1..Len(mailbox'), mailbox'[i].from = r
               PROVE  Phase(mailbox'[i].kind) <= Reached(r)'
    BY DEF WithinReach, Reached
  <2>1. i + d \in 1..Len(mailbox) /\ mailbox'[i] = mailbox[i + d]
    BY <1>4
  <2>2. Phase(mailbox'[i].kind) <= Reached(r)
    BY <2>1 DEF WireInv, WithinReach
  <2> QED BY <2>2, ReachedGrows, ReachedType, PhaseType
<1>7. PhasesInOrder'
  <2> SUFFICES ASSUME NEW i \in 1..Len(mailbox'), NEW j \in 1..Len(mailbox'), i < j,
                      mailbox'[i].from = mailbox'[j].from, mailbox'[i].from # Nobody
               PROVE  Phase(mailbox'[i].kind) <= Phase(mailbox'[j].kind)
    BY <1>3 DEF PhasesInOrder
  <2>1. /\ i + d \in 1..Len(mailbox) /\ j + d \in 1..Len(mailbox) /\ i + d < j + d
        /\ mailbox'[i] = mailbox[i + d] /\ mailbox'[j] = mailbox[j + d]
    BY <1>4, <1>5
  <2> QED BY <1>2, <2>1 DEF WireInv, PhasesInOrder
<1>8. Superseded'
  <2> SUFFICES ASSUME NEW r \in Requests, NEW i \in 1..Len(mailbox'), NEW j \in 1..Len(mailbox'),
                      i < j, mailbox'[i].from = r, mailbox'[j].from # r,
                      mailbox'[i].kind \in AnswerKinds, mailbox'[j].kind \in AnswerKinds
               PROVE  ~Answering(r)'
    BY DEF Superseded, Answering
  <2>1. ~Answering(r)
    BY <1>4, <1>5 DEF WireInv, Superseded
  <2>2. Reached(r) >= 3
    BY <1>4, AnswerSenders
  <2> QED BY <2>1, <2>2, SilencedStays
<1>9. AnswersNotInterleaved'
  <2> SUFFICES ASSUME NEW i \in 1..Len(mailbox'), NEW j \in 1..Len(mailbox'), NEW k \in 1..Len(mailbox'),
                      i < j, j < k, mailbox'[i].kind \in AnswerKinds,
                      mailbox'[j].kind \in AnswerKinds, mailbox'[k].kind \in AnswerKinds,
                      mailbox'[i].from = mailbox'[k].from
               PROVE  mailbox'[j].from = mailbox'[i].from
    BY <1>3 DEF AnswersNotInterleaved
  <2>1. /\ i + d \in 1..Len(mailbox) /\ j + d \in 1..Len(mailbox) /\ k + d \in 1..Len(mailbox)
        /\ mailbox'[i] = mailbox[i + d] /\ mailbox'[j] = mailbox[j + d] /\ mailbox'[k] = mailbox[k + d]
    BY <1>4
  <2>2. i + d < j + d /\ j + d < k + d
    BY <1>5
  <2>3. /\ {mailbox[i + d].kind, mailbox[j + d].kind, mailbox[k + d].kind} \subseteq AnswerKinds
        /\ mailbox[i + d].from = mailbox[k + d].from
    BY <2>1
  <2>4. mailbox[j + d].from = mailbox[i + d].from
    BY <1>2, <2>1, <2>2, <2>3 DEF WireInv, AnswersNotInterleaved
  <2> QED BY <2>1, <2>4
<1>10. OwnFrames'
  BY <1>4 DEF WireInv, OwnFrames
<1> QED BY <1>6, <1>7, <1>8, <1>9, <1>10 DEF WireInv

LEMMA WireInterrupted ==
    ASSUME IInv, WireInv, [Next]_vars, Send(Interrupted)
    PROVE  WireInv'
<1>1. /\ Interrupted \in Seq(Frames) /\ Len(Interrupted) = 1
      /\ Interrupted[1].from = Nobody /\ Interrupted[1].kind = "interrupted"
  BY DEF Interrupted, IInv, TypeOK, Frames, Kinds
<1>2. mailbox \in Seq(Frames) /\ Len(mailbox) \in Nat /\ DOMAIN mailbox = 1..Len(mailbox)
  BY DEF IInv, TypeOK
<1>3. mailbox' \in Seq(Frames) /\ Len(mailbox') \in Nat /\ DOMAIN mailbox' = 1..Len(mailbox')
  BY TypeStep DEF IInv, TypeOK
<1>4. ASSUME NEW i \in 1..Len(mailbox')
      PROVE  \/ i \in 1..Len(mailbox) /\ mailbox'[i] = mailbox[i]
             \/ i = Len(mailbox) + 1 /\ mailbox'[i].from = Nobody /\ mailbox'[i].kind = "interrupted"
  <2>1. /\ Len(mailbox') <= Len(mailbox) + 1
        /\ i \in 1..Len(mailbox) => mailbox'[i] = mailbox[i]
        /\ i > Len(mailbox) => mailbox'[i] = Interrupted[i - Len(mailbox)]
    BY <1>1, SendExtends DEF IInv
  <2> QED BY <1>1, <1>2, <1>3, <2>1
<1>5. "interrupted" \notin AnswerKinds /\ Nobody \notin Requests
  BY DEF AnswerKinds, Nobody, Requests
<1>6. WithinReach'
  BY <1>4, <1>5, ReachedGrows, ReachedType, PhaseType DEF WireInv, WithinReach
<1>7. PhasesInOrder'
  BY <1>2, <1>3, <1>4 DEF WireInv, PhasesInOrder
<1>8. Superseded'
  <2> SUFFICES ASSUME NEW r \in Requests, NEW i \in 1..Len(mailbox'), NEW j \in 1..Len(mailbox'),
                      i < j, mailbox'[i].from = r, mailbox'[j].from # r,
                      mailbox'[i].kind \in AnswerKinds, mailbox'[j].kind \in AnswerKinds
               PROVE  ~Answering(r)'
    BY DEF Superseded, Answering
  <2>1. ~Answering(r)
    BY <1>4, <1>5 DEF WireInv, Superseded
  <2>2. Reached(r) >= 3
    BY <1>4, <1>5, AnswerSenders
  <2> QED BY <2>1, <2>2, SilencedStays
<1>9. AnswersNotInterleaved'
  BY <1>2, <1>3, <1>4, <1>5 DEF WireInv, AnswersNotInterleaved
<1>10. OwnFrames'
  BY <1>4 DEF WireInv, OwnFrames
<1> QED BY <1>6, <1>7, <1>8, <1>9, <1>10 DEF WireInv

LEMMA WireSpeaks ==
    ASSUME IInv, WireInv, [Next]_vars, NEW q \in Requests, Pipeline(q),
           NEW burst, Speaks(q, burst)
    PROVE  WireInv'
<1> DEFINE New(i) == /\ mailbox'[i].from = q
                     /\ Reached(q) <= Phase(mailbox'[i].kind)
                     /\ Phase(mailbox'[i].kind) <= Reached(q)'
                     /\ mailbox'[i].kind \in AnswerKinds =>
                           Answering(q) \/ (stage[q] = "streaming" /\ Answering(q)')
<1>1. Fits(q, burst) /\ burst \in Seq(Frames) /\ Len(burst) \in Nat
  BY DEF Speaks, Fits
<1>2. mailbox \in Seq(Frames) /\ Len(mailbox) \in Nat /\ DOMAIN mailbox = 1..Len(mailbox)
  BY DEF IInv, TypeOK
<1>3. mailbox' \in Seq(Frames) /\ Len(mailbox') \in Nat /\ DOMAIN mailbox' = 1..Len(mailbox')
  BY TypeStep DEF IInv, TypeOK
<1>4. /\ Len(mailbox') <= Len(mailbox) + Len(burst)
      /\ \A i \in 1..Len(mailbox) : mailbox'[i] = mailbox[i]
      /\ \A i \in 1..Len(mailbox') :
            i > Len(mailbox) => mailbox'[i] = burst[i - Len(mailbox)]
  BY <1>1, SendExtends DEF Speaks, IInv
<1>5. ASSUME NEW i \in 1..Len(mailbox')
      PROVE  \/ i <= Len(mailbox) /\ i \in 1..Len(mailbox) /\ mailbox'[i] = mailbox[i]
             \/ i > Len(mailbox) /\ New(i)
  <2>1. CASE i <= Len(mailbox)
    BY <1>2, <1>3, <1>4, <2>1
  <2>2. CASE i > Len(mailbox)
    <3>1. i - Len(mailbox) \in 1..Len(burst) /\ mailbox'[i] = burst[i - Len(mailbox)]
      BY <1>1, <1>2, <1>3, <1>4, <2>2
    <3> QED BY <1>1, <2>2, <3>1 DEF Fits
  <2> QED BY <1>2, <1>3, <2>1, <2>2
<1>6. ASSUME NEW i \in 1..Len(mailbox'), NEW j \in 1..Len(mailbox'), i > Len(mailbox), i < j
      PROVE  Phase(mailbox'[i].kind) <= Phase(mailbox'[j].kind)
  <2>1. /\ i - Len(mailbox) \in 1..Len(burst) /\ mailbox'[i] = burst[i - Len(mailbox)]
        /\ j - Len(mailbox) \in 1..Len(burst) /\ mailbox'[j] = burst[j - Len(mailbox)]
        /\ i - Len(mailbox) < j - Len(mailbox)
    BY <1>1, <1>2, <1>3, <1>4, <1>6
  <2> QED BY <1>1, <2>1 DEF Fits
<1> HIDE DEF New
<1>7. \A i : New(i) => /\ mailbox'[i].from = q
                       /\ Reached(q) <= Phase(mailbox'[i].kind)
                       /\ Phase(mailbox'[i].kind) <= Reached(q)'
                       /\ mailbox'[i].kind \in AnswerKinds =>
                             Answering(q) \/ (stage[q] = "streaming" /\ Answering(q)')
  BY DEF New
<1>8. q # Nobody
  BY DEF Requests, Nobody
<1>9. WithinReach'
  BY <1>5, <1>7, ReachedGrows, ReachedType, PhaseType DEF WireInv, WithinReach
<1>10. PhasesInOrder'
  <2> SUFFICES ASSUME NEW i \in 1..Len(mailbox'), NEW j \in 1..Len(mailbox'), i < j,
                      mailbox'[i].from = mailbox'[j].from, mailbox'[i].from # Nobody
               PROVE  Phase(mailbox'[i].kind) <= Phase(mailbox'[j].kind)
    BY <1>3 DEF PhasesInOrder
  <2>1. CASE j <= Len(mailbox)
    BY <1>2, <1>3, <1>5, <2>1 DEF WireInv, PhasesInOrder
  <2>2. CASE i <= Len(mailbox) /\ j > Len(mailbox)
    <3>1. mailbox'[i] = mailbox[i] /\ i \in 1..Len(mailbox) /\ New(j)
      BY <1>2, <1>3, <1>5, <2>2
    <3>2. Phase(mailbox[i].kind) <= Reached(q)
      BY <1>7, <3>1 DEF WireInv, WithinReach
    <3> QED BY <1>7, <3>1, <3>2, PhaseType, ReachedType
  <2>3. CASE i > Len(mailbox)
    BY <1>6, <2>3
  <2> QED BY <1>2, <1>3, <2>1, <2>2, <2>3
<1>11. ASSUME NEW i \in 1..Len(mailbox'), New(i), mailbox'[i].kind \in AnswerKinds,
              NEW r \in Requests, r # q
       PROVE  ~Answering(r)'
  <2>1. CASE Answering(q)'
    <3>1. IInv'
      BY SafeStep
    <3> QED BY <1>11, <2>1, <3>1 DEF IInv, RegistrationExact
  <2>2. CASE Answering(q)
    <3>1. ~Answering(r)
      BY <1>11, <2>2 DEF IInv, RegistrationExact
    <3>2. (stage \in [Requests -> Stages] /\ UNCHANGED coreVars) \/ Moves(q) \/ Ends(q) \/ Takes(q)
      BY PipelineEffect DEF IInv, TypeOK
    <3>3. stage'[r] = stage[r] /\ cancelled \subseteq cancelled'
      BY <1>11, <3>2 DEF coreVars, Moves, Ends, Takes, IInv, TypeOK
    <3> QED BY <3>1, <3>3 DEF Answering
  <2> QED BY <1>7, <1>11, <2>1, <2>2
<1>12. Superseded'
  <2> SUFFICES ASSUME NEW r \in Requests, NEW i \in 1..Len(mailbox'), NEW j \in 1..Len(mailbox'),
                      i < j, mailbox'[i].from = r, mailbox'[j].from # r,
                      mailbox'[i].kind \in AnswerKinds, mailbox'[j].kind \in AnswerKinds
               PROVE  ~Answering(r)'
    BY DEF Superseded, Answering
  <2>1. CASE j <= Len(mailbox)
    <3>1. /\ i \in 1..Len(mailbox) /\ mailbox'[i] = mailbox[i]
          /\ j \in 1..Len(mailbox) /\ mailbox'[j] = mailbox[j]
      BY <1>2, <1>3, <1>5, <2>1
    <3>2. ~Answering(r)
      BY <3>1 DEF WireInv, Superseded
    <3>3. Reached(r) >= 3
      BY <3>1, AnswerSenders
    <3> QED BY <3>2, <3>3, SilencedStays
  <2>2. CASE j > Len(mailbox)
    <3>1. New(j)
      BY <1>5, <2>2
    <3> QED BY <1>7, <1>11, <3>1
  <2> QED BY <1>2, <1>3, <2>1, <2>2
<1>13. AnswersNotInterleaved'
  <2> SUFFICES ASSUME NEW i \in 1..Len(mailbox'), NEW j \in 1..Len(mailbox'), NEW k \in 1..Len(mailbox'),
                      i < j, j < k, mailbox'[i].kind \in AnswerKinds,
                      mailbox'[j].kind \in AnswerKinds, mailbox'[k].kind \in AnswerKinds,
                      mailbox'[i].from = mailbox'[k].from
               PROVE  mailbox'[j].from = mailbox'[i].from
    BY <1>3 DEF AnswersNotInterleaved
  <2>1. CASE k <= Len(mailbox)
    <3>1. /\ i \in 1..Len(mailbox) /\ mailbox'[i] = mailbox[i]
          /\ j \in 1..Len(mailbox) /\ mailbox'[j] = mailbox[j]
          /\ k \in 1..Len(mailbox) /\ mailbox'[k] = mailbox[k]
      BY <1>2, <1>3, <1>5, <2>1
    <3> QED BY <1>2, <3>1 DEF WireInv, AnswersNotInterleaved
  <2>2. CASE k > Len(mailbox) /\ j > Len(mailbox)
    BY <1>5, <1>7, <2>2
  <2>3. CASE k > Len(mailbox) /\ j <= Len(mailbox)
    <3>1. /\ i \in 1..Len(mailbox) /\ mailbox'[i] = mailbox[i]
          /\ j \in 1..Len(mailbox) /\ mailbox'[j] = mailbox[j]
      BY <1>2, <1>3, <1>5, <2>3
    <3>2. New(k) /\ mailbox[i].from = q
      BY <1>5, <1>7, <2>3, <3>1
    <3>3. Reached(q) >= 3
      BY <3>1, <3>2, AnswerSenders
    <3>4. stage[q] # "streaming"
      BY <3>3, ReachedAt
    <3>5. Answering(q)
      BY <1>7, <3>2, <3>4
    <3> QED BY <3>1, <3>2, <3>5 DEF WireInv, Superseded
  <2> QED BY <1>2, <1>3, <2>1, <2>2, <2>3
<1>14. OwnFrames'
  <2> SUFFICES ASSUME NEW i \in 1..Len(mailbox'), mailbox'[i].from = Nobody
               PROVE  mailbox'[i].kind = "interrupted"
    BY DEF OwnFrames
  <2>1. i \in 1..Len(mailbox) /\ mailbox'[i] = mailbox[i]
    BY <1>5, <1>7, <1>8
  <2> QED BY <2>1 DEF WireInv, OwnFrames
<1> QED BY <1>9, <1>10, <1>12, <1>13, <1>14 DEF WireInv

LEMMA WireInvariant == Spec => [](IInv /\ WireInv)
<1>1. Init => WireInv
  <2> SUFFICES ASSUME Init PROVE WireInv
    OBVIOUS
  <2>1. Len(mailbox) = 0 /\ DOMAIN mailbox = {} /\ 1..Len(mailbox) = {}
    BY DEF Init
  <2> QED BY <2>1 DEF WireInv, WithinReach, PhasesInOrder, Superseded, AnswersNotInterleaved, OwnFrames
<1>2. IInv /\ WireInv /\ [Next]_vars => WireInv'
  BY StepSpeaks, WireDrains, WireInterrupted, WireSpeaks
<1> QED BY <1>1, <1>2, SafeInit, SafeStep, PTL DEF Spec

\* The frames of one request reach the client in the order of its phases, and
\* nothing of it comes behind its last status, however many frames a full mailbox
\* refuses (run_pipeline).
THEOREM PhasesAlwaysInOrder == Spec => []PhasesInOrder
<1>1. WireInv => PhasesInOrder
  BY DEF WireInv
<1> QED BY <1>1, WireInvariant, PTL

\* The answers of two requests never mix in what the client is sent, however many
\* requests overlap and whatever is cancelled (current_real_cancel).
THEOREM AnswersNeverInterleaved == Spec => []AnswersNotInterleaved
<1>1. WireInv => AnswersNotInterleaved
  BY DEF WireInv
<1> QED BY <1>1, WireInvariant, PTL

=============================================================================
