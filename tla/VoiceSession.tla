---------------------------- MODULE VoiceSession ----------------------------
(***************************************************************************)
(* One VoiceSession of the voice server and the pipelines it spawns        *)
(* (session/mod.rs, session/pipeline.rs, session/audio.rs).                *)
(*                                                                         *)
(* The handlers of the session run to completion, one per uplink message. *)
(* Each triggered utterance spawns run_pipeline as a task of its own;      *)
(* tasks interleave with the handlers and with each other at their awaits. *)
(* An action is therefore one handler, or one stretch of a pipeline        *)
(* between two awaits, with everything it sends.                           *)
(***************************************************************************)
EXTENDS Naturals, Sequences, FiniteSets

CONSTANTS
    Msgs,           \* message ids a client gives its utterances
    NoMsg,          \* "no message id": None, and the empty string of a frame
    MaxRequests,    \* bound of the model: pipelines spawned in a session
    MinChunks,      \* MIN_UTTERANCE_BYTES, in chunks
    MaxChunks,      \* MAX_AUDIO_BYTES, in chunks
    MailboxCap,     \* capacity of the socket actor's mailbox
    MaxAsrEvents,   \* bound of the model: partial results of one recognition
    MaxItems        \* bound of the model: items of an answer before its last

ASSUME NoMsgAssumption == NoMsg \notin Msgs
ASSUME BoundsAssumption ==
    /\ MaxRequests \in Nat /\ MailboxCap \in Nat
    /\ MaxAsrEvents \in Nat /\ MaxItems \in Nat
    /\ MinChunks \in Nat \ {0} /\ MaxChunks \in Nat
    /\ MinChunks <= MaxChunks

Requests == 1..MaxRequests      \* pipelines, in the order they are spawned
Nobody == 0                     \* no pipeline; as a sender, the session itself

Stages == {"unborn", "spawned", "recognizing", "streaming", "answering", "over"}
Texts == {"blank", "tags", "text"}    \* cleaned ASR text: empty, only tags, real
Results == {"None", "Success", "Failed", "Cancelled", "Timeout", "EmptyResponse"}
Kinds == {"transcribing", "asr", "composing", "delta", "speaking", "audio",
          "audio_last", "spoken", "error_status", "error", "interrupted"}
Frames == [kind : Kinds, msg : Msgs \cup {NoMsg}, from : Requests \cup {Nobody}]

VARIABLES
    alive,      \* the session is in the service's map
    connected,  \* the socket actor still takes frames
    closed,     \* VoiceSession::closed
    state,      \* VoiceSession::state
    buf,        \* audio_buf: the message id each buffered chunk came with
    curMsg,     \* current_message_id
    lastMsg,    \* last_request_message_id
    lastAudio,  \* last_request_audio; empty when None
    born,       \* pipelines spawned so far
    real,       \* current_real_cancel: the pipeline whose token is registered
    cancelled,  \* pipelines whose token is cancelled
    stage,      \* per pipeline: the await run_pipeline is in
    turn,       \* per pipeline: the arguments message_id and audio
    asr,        \* per pipeline: prompt and number of buffered ASR events
    out,        \* per pipeline: how far the answer got
    result,     \* per pipeline: what PipelineMetricsGuard reports
    refused,    \* history: pipelines that had audio refused by the mailbox
    mailbox     \* frames the socket actor has yet to write

inputVars == <<closed, state, buf, curMsg, lastMsg, lastAudio>>
tokenVars == <<real, cancelled>>
taskVars == <<stage, turn, asr, out, result, refused>>
vars == <<alive, connected, inputVars, born, tokenVars, taskVars, mailbox>>

NoTurn == [msg |-> NoMsg, audio |-> <<>>]
NoAsr == [prompt |-> "blank", events |-> 0]
NoOut == [voice |-> "quiet", items |-> 0]

TypeOK ==
    /\ alive \in BOOLEAN /\ connected \in BOOLEAN /\ closed \in BOOLEAN
    /\ state \in {"Idle", "Listening"}
    /\ buf \in Seq(Msgs) /\ lastAudio \in Seq(Msgs)
    /\ curMsg \in Msgs \cup {NoMsg} /\ lastMsg \in Msgs \cup {NoMsg}
    /\ born \in 0..MaxRequests
    /\ real \in Requests \cup {Nobody} /\ cancelled \in SUBSET Requests
    /\ stage \in [Requests -> Stages]
    /\ turn \in [Requests -> [msg : Msgs \cup {NoMsg}, audio : Seq(Msgs)]]
    /\ asr \in [Requests -> [prompt : Texts, events : Nat]]
    /\ out \in [Requests -> [voice : {"quiet", "speaking", "ended"},
                             items : Nat]]
    /\ result \in [Requests -> Results]
    /\ refused \in SUBSET Requests
    /\ mailbox \in Seq(Frames)

Init ==
    /\ alive = TRUE /\ connected = TRUE /\ closed = FALSE
    /\ state = "Idle" /\ buf = <<>> /\ lastAudio = <<>>
    /\ curMsg = NoMsg /\ lastMsg = NoMsg
    /\ born = 0 /\ real = Nobody /\ cancelled = {}
    /\ stage = [r \in Requests |-> "unborn"]
    /\ turn = [r \in Requests |-> NoTurn]
    /\ asr = [r \in Requests |-> NoAsr]
    /\ out = [r \in Requests |-> NoOut]
    /\ result = [r \in Requests |-> "None"]
    /\ refused = {}
    /\ mailbox = <<>>

-----------------------------------------------------------------------------
(* Sending: try_send takes a frame only while the mailbox has room and the  *)
(* actor lives; of a burst, the frames that fit go through.                 *)

Room == IF connected THEN MailboxCap - Len(mailbox) ELSE 0

Send(burst) ==
    mailbox' = mailbox \o SubSeq(burst, 1, IF Len(burst) <= Room THEN Len(burst) ELSE Room)

Frame(r, kind) == [kind |-> kind, msg |-> turn[r].msg, from |-> r]

Started == 1..born

-----------------------------------------------------------------------------
(* Handlers of uplink messages.                                             *)

Open == alive /\ connected /\ ~closed

SessionStart ==
    /\ Open
    /\ state' = "Listening"
    /\ UNCHANGED <<alive, connected, closed, buf, curMsg, lastMsg, lastAudio,
                   born, tokenVars, taskVars, mailbox>>

\* trigger_pipeline on the drained audio and the message id taken with it:
\* audio that is too short is dropped, any other becomes a new pipeline.
Trigger(audio, m) ==
    /\ buf' = <<>> /\ curMsg' = NoMsg
    /\ IF Len(audio) < MinChunks
       THEN UNCHANGED <<lastMsg, lastAudio, born, stage, turn>>
       ELSE /\ born < MaxRequests
            /\ lastAudio' = audio /\ lastMsg' = m
            /\ born' = born + 1
            /\ stage' = [stage EXCEPT ![born + 1] = "spawned"]
            /\ turn' = [turn EXCEPT ![born + 1] = [msg |-> m, audio |-> audio]]
    /\ UNCHANGED <<asr, out, result, refused>>

\* The first audio of an utterance names it. Fault: the latest does.
ChunkIdLatest(m) == m

ChunkId(m) == IF buf = <<>> THEN m ELSE curMsg

BufferFull(audio) == Len(audio) >= MaxChunks

\* A chunk of message m holds one unit of audio, <<m>>, or none. It fires the
\* pipeline when it is the last, when the utterance lasts too long (only
\* possible once an earlier chunk started the clock), or when the buffer
\* reaches its limit.
AudioChunk(m, chunk, isLast, late) ==
    /\ Open
    /\ late => buf # <<>>
    /\ state' = "Listening"
    /\ LET audio == buf \o chunk
       IN  IF isLast \/ late \/ BufferFull(audio)
           THEN Trigger(audio, ChunkId(m))
           ELSE /\ buf' = audio /\ curMsg' = ChunkId(m)
                /\ UNCHANGED <<lastMsg, lastAudio, born, taskVars>>
    /\ UNCHANGED <<alive, connected, closed, tokenVars, mailbox>>

\* Fault: the registration is forgotten, the pipelines go on.
ForgetAll == real' = Nobody /\ UNCHANGED cancelled

\* The global token is cancelled and replaced by a new one.
CancelAll == real' = Nobody /\ cancelled' = Started

\* Cancels every pipeline of the session; what is buffered stays buffered.
Interrupt ==
    /\ Open
    /\ CancelAll
    /\ state' = "Listening"
    /\ Send(<<[kind |-> "interrupted", msg |-> lastMsg, from |-> Nobody]>>)
    /\ UNCHANGED <<alive, connected, closed, buf, curMsg, lastMsg, lastAudio,
                   born, taskVars>>

Retry ==
    /\ Open
    /\ lastAudio # <<>>
    /\ CancelAll
    /\ Trigger(lastAudio, lastMsg)
    /\ state' = "Listening"
    /\ UNCHANGED <<alive, connected, closed, mailbox>>

SessionEnd ==
    /\ Open
    /\ cancelled' = Started /\ closed' = TRUE
    /\ UNCHANGED <<alive, connected, state, buf, curMsg, lastMsg, lastAudio,
                   born, real, taskVars, mailbox>>

\* The socket actor stops, and its mailbox with it.
SocketLost ==
    /\ connected
    /\ connected' = FALSE /\ mailbox' = <<>>
    /\ UNCHANGED <<alive, inputVars, born, tokenVars, taskVars>>

\* Fault: no Drop for VoiceSession.
DisconnectWithoutDrop ==
    /\ alive /\ ~connected
    /\ alive' = FALSE
    /\ UNCHANGED <<connected, inputVars, born, tokenVars, taskVars, mailbox>>

\* WsDisconnect removes the session from the map; Drop cancels its pipelines.
Disconnect ==
    /\ alive /\ ~connected
    /\ alive' = FALSE /\ cancelled' = Started
    /\ UNCHANGED <<connected, inputVars, born, real, taskVars, mailbox>>

\* The socket actor writes its next frame.
Deliver ==
    /\ connected /\ mailbox # <<>>
    /\ mailbox' = Tail(mailbox)
    /\ UNCHANGED <<alive, connected, inputVars, born, tokenVars, taskVars>>

-----------------------------------------------------------------------------
(* The stretches of run_pipeline, request r.                                *)

pipelineFrame == <<alive, connected, inputVars, born, turn>>

\* CurrentCancelGuard. Faults: there is none; it clears whatever is there.
UnregisterNone(r) == real

UnregisterAny(r) == Nobody

Unregister(r) == IF real = r THEN Nobody ELSE real

\* The task returns: its locals go, the metrics guard reports, and the
\* registration is cleared if it is still its own.
Exit(r, why) ==
    /\ stage' = [stage EXCEPT ![r] = "over"]
    /\ result' = [result EXCEPT ![r] = why]
    /\ asr' = [asr EXCEPT ![r] = NoAsr]
    /\ out' = [out EXCEPT ![r] = NoOut]
    /\ real' = Unregister(r)
    /\ UNCHANGED <<cancelled, pipelineFrame>>

\* Fault: the internal reason goes out in place of the error.
ErrorFramesLeak(r, why) == <<Frame(r, "error_status"), Frame(r, why)>>

ErrorFrames(r, why) == <<Frame(r, "error_status"), Frame(r, "error")>>

\* A failure is reported to the client unless the request is cancelled.
Fail(r, why) ==
    /\ Exit(r, why)
    /\ UNCHANGED refused
    /\ IF r \in cancelled THEN UNCHANGED mailbox
       ELSE Send(ErrorFrames(r, why))

GiveUp(r) ==
    /\ Exit(r, "Cancelled")
    /\ UNCHANGED <<refused, mailbox>>

\* Fault: the first status is sent without a look at the token.
StartUnchecked(r) ==
    /\ stage[r] = "spawned"
    /\ Send(<<Frame(r, "transcribing")>>)
    /\ stage' = [stage EXCEPT ![r] = "recognizing"]
    /\ UNCHANGED <<tokenVars, asr, out, result, refused, pipelineFrame>>

Start(r) ==
    /\ stage[r] = "spawned"
    /\ \/ r \in cancelled /\ GiveUp(r)
       \/ /\ r \notin cancelled
          /\ Send(<<Frame(r, "transcribing")>>)
          /\ stage' = [stage EXCEPT ![r] = "recognizing"]
          /\ UNCHANGED <<tokenVars, asr, out, result, refused, pipelineFrame>>

\* Fault: the item stream is awaited outside a select!.
ObserveCancelNotAnswering(r) ==
    /\ stage[r] \in {"recognizing", "streaming"}
    /\ r \in cancelled
    /\ GiveUp(r)

\* The cancel branch of the three select! of run_pipeline.
ObserveCancel(r) ==
    /\ stage[r] \in {"recognizing", "streaming", "answering"}
    /\ r \in cancelled
    /\ GiveUp(r)

Recognized(r) ==
    /\ stage[r] = "recognizing"
    /\ stage' = [stage EXCEPT ![r] = "streaming"]
    /\ UNCHANGED <<tokenVars, asr, out, result, refused, mailbox, pipelineFrame>>

RecognizeFails(r) ==
    /\ stage[r] = "recognizing"
    /\ \E why \in {"Timeout", "Failed"} : Fail(r, why)

\* The latest event that is not blank is the prompt.
Heard(r, text) == IF text = "blank" THEN asr[r].prompt ELSE text

AsrPartial(r, text) ==
    /\ stage[r] = "streaming"
    /\ asr[r].events < MaxAsrEvents
    /\ asr' = [asr EXCEPT ![r] = [prompt |-> Heard(r, text), events |-> @.events + 1]]
    /\ UNCHANGED <<tokenVars, stage, out, result, refused, mailbox, pipelineFrame>>

\* Whom the new holder of the floor cancels. Fault: it forgets him.
EvictedNone == {}

Evicted == {real} \ {Nobody}

\* Fault: the status overtakes the recognized text.
FloorFramesSwapped(r, events) ==
    <<Frame(r, "composing")>> \o [i \in 1..events |-> Frame(r, "asr")]

FloorFrames(r, events) ==
    [i \in 1..events |-> Frame(r, "asr")] \o <<Frame(r, "composing")>>

\* The recognition is over with that prompt and that many buffered events: an
\* empty prompt ends the request unseen, any other takes the floor.
TakeFloor(r, events) ==
    /\ real' = r
    /\ cancelled' = cancelled \cup Evicted
    /\ stage' = [stage EXCEPT ![r] = "answering"]
    /\ asr' = [asr EXCEPT ![r] = NoAsr]
    /\ Send(FloorFrames(r, events))
    /\ UNCHANGED <<out, result, refused, pipelineFrame>>

\* Nothing was said. Fault: the predecessor is cancelled before the text is looked at.
EndEmptyEvicting(r) ==
    /\ stage' = [stage EXCEPT ![r] = "over"]
    /\ result' = [result EXCEPT ![r] = "EmptyResponse"]
    /\ asr' = [asr EXCEPT ![r] = NoAsr]
    /\ real' = Nobody /\ cancelled' = cancelled \cup Evicted
    /\ UNCHANGED <<pipelineFrame, out, refused, mailbox>>

EndEmpty(r) ==
    /\ Exit(r, "EmptyResponse")
    /\ UNCHANGED <<refused, mailbox>>

Conclude(r, prompt, events) ==
    \/ prompt # "text" /\ EndEmpty(r)
    \/ prompt = "text" /\ r \in cancelled /\ GiveUp(r)
    \/ prompt = "text" /\ r \notin cancelled /\ TakeFloor(r, events)

AsrFinal(r, text) ==
    /\ stage[r] = "streaming"
    /\ Conclude(r, Heard(r, text), asr[r].events + 1)

AsrEnds(r) ==
    /\ stage[r] = "streaming"
    /\ Conclude(r, asr[r].prompt, asr[r].events)

AsrBreaks(r) ==
    /\ stage[r] = "streaming"
    /\ Fail(r, "Failed")

\* Fault: text is forwarded without a look at the token.
ItemTextUnchecked(r) ==
    /\ stage[r] = "answering" /\ out[r].voice # "ended"
    /\ out[r].items < MaxItems
    /\ Send(<<Frame(r, "delta")>>)
    /\ out' = [out EXCEPT ![r] = [voice |-> @.voice, items |-> @.items + 1]]
    /\ UNCHANGED <<tokenVars, stage, asr, result, refused, pipelineFrame>>

\* Items of llm_tts_items: text, audio, the audio marked last, a failure, the end.
ItemText(r) ==
    /\ stage[r] = "answering" /\ out[r].voice # "ended"
    /\ out[r].items < MaxItems
    /\ \/ r \in cancelled /\ GiveUp(r)
       \/ /\ r \notin cancelled
          /\ Send(<<Frame(r, "delta")>>)
          /\ out' = [out EXCEPT ![r] = [voice |-> @.voice, items |-> @.items + 1]]
          /\ UNCHANGED <<tokenVars, stage, asr, result, refused, pipelineFrame>>

\* Whether the frame after the first n went through. Fault: nobody asks.
SentUnheeded(n) == TRUE

Sent(n) == Room > n

\* Audio that the mailbox refuses ends the request; text and status do not.
ItemAudio(r, last) ==
    /\ stage[r] = "answering" /\ out[r].voice # "ended"
    /\ last \/ out[r].items < MaxItems
    /\ LET opening == IF out[r].voice = "quiet" THEN <<Frame(r, "speaking")>> ELSE <<>>
           closing == IF last THEN <<Frame(r, "spoken")>> ELSE <<>>
           audio == <<Frame(r, IF last THEN "audio_last" ELSE "audio")>>
       IN \/ r \in cancelled /\ GiveUp(r)
          \/ /\ r \notin cancelled
             /\ Send(opening \o audio \o closing)
             /\ refused' = IF Room > Len(opening) THEN refused ELSE refused \cup {r}
             /\ IF Sent(Len(opening))
                THEN /\ out' = [out EXCEPT ![r] =
                                  IF last THEN [voice |-> "ended", items |-> @.items]
                                  ELSE [voice |-> "speaking", items |-> @.items + 1]]
                     /\ UNCHANGED <<tokenVars, stage, asr, result, pipelineFrame>>
                ELSE Exit(r, "Cancelled")

ItemsFail(r) ==
    /\ stage[r] = "answering" /\ out[r].voice # "ended"
    /\ Fail(r, "Failed")

ItemsEnd(r) ==
    /\ stage[r] = "answering" /\ out[r].voice = "ended"
    /\ Exit(r, "Success")
    /\ UNCHANGED <<refused, mailbox>>

-----------------------------------------------------------------------------

Handler ==
    \/ SessionStart
    \/ \E m \in Msgs, isLast, late \in BOOLEAN :
          AudioChunk(m, <<>>, isLast, late) \/ AudioChunk(m, <<m>>, isLast, late)
    \/ Interrupt
    \/ Retry
    \/ SessionEnd

Socket == SocketLost \/ Disconnect \/ Deliver

Pipeline(r) ==
    \/ Start(r)
    \/ ObserveCancel(r)
    \/ Recognized(r)
    \/ RecognizeFails(r)
    \/ \E text \in Texts : AsrPartial(r, text) \/ AsrFinal(r, text)
    \/ AsrEnds(r)
    \/ AsrBreaks(r)
    \/ ItemText(r)
    \/ \E last \in BOOLEAN : ItemAudio(r, last)
    \/ ItemsFail(r)
    \/ ItemsEnd(r)

Next == Handler \/ Socket \/ \E r \in Requests : Pipeline(r)

Spec == Init /\ [][Next]_vars

\* A spawned task is polled, and a select! whose token is cancelled is polled
\* until it takes the cancel branch or ends otherwise.
Fairness == \A r \in Requests : WF_vars(Start(r)) /\ WF_vars(ObserveCancel(r))

FairSpec == Spec /\ Fairness

-----------------------------------------------------------------------------
(* Properties.                                                              *)

Answering(r) == stage[r] = "answering" /\ r \notin cancelled

\* At most one pipeline of a session answers (current_real_cancel): a new one
\* that has text cancels the one before it, however their recognitions overlap.
OneFloor == \A r, q \in Requests : Answering(r) /\ Answering(q) => r = q

\* The registration is never stale and never missing: it names a pipeline that
\* is in its answer, and any pipeline that answers is registered
\* (CurrentCancelGuard, Interrupt and Retry resetting the registration).
RegistrationExact ==
    /\ real # Nobody => stage[real] = "answering"
    /\ \A r \in Requests : Answering(r) => real = r

\* A session that ended or was dropped leaves no pipeline with a live token
\* (SessionEnd, Drop for VoiceSession).
ClosedCancelsAll == closed \/ ~alive => cancelled = Started

\* No pipeline is born cancelled: each gets a child of the global token in use
\* when it is spawned, and Interrupt and Retry replace the one they cancel.
FreshTokens ==
    /\ cancelled \subseteq Started
    /\ \A r \in Requests : stage[r] = "unborn" <=> r > born

\* A turn keeps the id its first audio came with, from the buffer to the
\* pipeline and to what Retry replays, whatever was dropped in between.
TurnNamedByFirstAudio ==
    /\ buf # <<>> => curMsg = Head(buf)
    /\ lastAudio # <<>> => lastMsg = Head(lastAudio)
    /\ \A r \in Started : Len(turn[r].audio) >= MinChunks /\ turn[r].msg = Head(turn[r].audio)

\* A request counted as a success had no audio refused on its way out.
SuccessDelivered == \A r \in Requests : result[r] = "Success" => r \notin refused

AnswerKinds == {"composing", "delta", "speaking", "audio", "audio_last", "spoken"}

\* The answers of two requests never interleave in what the client is sent:
\* once a successor has begun its answer, the predecessor adds nothing to its own.
AnswersNotInterleaved ==
    \A i, j, k \in DOMAIN mailbox :
        /\ i < j /\ j < k
        /\ {mailbox[i].kind, mailbox[j].kind, mailbox[k].kind} \subseteq AnswerKinds
        /\ mailbox[i].from = mailbox[k].from
        => mailbox[j].from = mailbox[i].from

Phase(kind) ==
    CASE kind = "transcribing" -> 1
      [] kind = "asr" -> 2
      [] kind = "composing" -> 3
      [] kind \in {"delta", "speaking", "audio"} -> 4
      [] kind = "audio_last" -> 5
      [] kind = "spoken" -> 6
      [] OTHER -> 7

\* The frames of one request reach the mailbox in the order of its phases, and
\* nothing follows its last status, even when some frames were refused.
PhasesInOrder ==
    \A i, j \in DOMAIN mailbox :
        i < j /\ mailbox[i].from = mailbox[j].from /\ mailbox[i].from # Nobody
        => Phase(mailbox[i].kind) <= Phase(mailbox[j].kind)

\* No step sends a frame of a request that was cancelled before it
\* (every send of run_pipeline comes after a look at the token).
SilentAfterCancel ==
    [][\A i \in DOMAIN mailbox' :
          i > Len(mailbox) => mailbox'[i].from \notin cancelled]_vars

\* A pipeline that ends cancels no other: silence, tags alone, a failure or a
\* timeout leave the answer that is playing alone.
EndingDisturbsNobody ==
    [][\A r \in Requests : stage[r] # "over" /\ stage'[r] = "over"
          => cancelled' = cancelled]_vars

\* An interruption is obeyed: a cancelled pipeline comes to its end.
CancelEnds == \A r \in Requests : r \in cancelled ~> stage[r] = "over"

\* The session implements the policy of Floor.
status == [r \in Requests |->
              IF stage[r] = "unborn" THEN "unborn"
              ELSE IF stage[r] = "over" \/ r \in cancelled THEN "over"
              ELSE IF stage[r] = "answering" THEN "speaking" ELSE "waiting"]

F == INSTANCE Floor WITH Turns <- Requests, turn <- status

ImplementsFloor == F!Spec
=============================================================================
