# A verification of voice-ai

TLA+ models of the voice server in `src/`, the TLC configurations that check them,
and proofs checked by TLAPS. This file says what the system is made of, what each
module models and how it corresponds to the code, what each run and each theorem
shows, and what is left.

Paths below are relative to `src/crates/voice_server/src/` unless they begin with `docs/`
(in `src/`). `S` is `session/mod.rs`, `P` is `session/pipeline.rs`, `W` is
`client/tts_ws.rs` and `LT` is `pipeline/llm_tts.rs`.

## 1. The system

A client (browser or desktop) sends microphone audio over a WebSocket. The server
recognises it (ASR), asks a language model (LLM) for an answer, has the answer spoken
(TTS) sentence by sentence and streams text and audio back. The user may speak, interrupt or
retry at any time, so several requests of one session overlap.

| Component | State it keeps | Operations | Talks to |
|---|---|---|---|
| voice service (`service.rs`) | map session id -> session, a `JoinSet` of pipelines | connect, message, disconnect; helper tasks, a janitor | session (under the map's entry lock), tokio |
| session (`S`, `session/audio.rs`) | `audio_buf`, `current_message_id`, the last request, `global_cancel`, `current_real_cancel`, `closed`, the filter of client reports | one handler per uplink payload, `trigger_pipeline`, `Drop` | spawns pipelines; sends frames to the mailbox |
| pipeline (`P`) | locals of a task, its `CancellationToken`, `PipelineMetricsGuard`, `CurrentCancelGuard` | recognise, take the floor, forward items | ASR, item stream, mailbox, the session's registration |
| item stream (`LT`, `pipeline/`) | LLM reader task and its channel, sentence buffers, crossfader | `next` | agent, TTS |
| TTS pool and input session (`W`) | entries, a `Notify`, leases, reapers, gauge; text of the utterance | acquire, release, invalidate; send, flush, next, finish | provider, all sessions of the process |
| agent and memory (`agent/`) | window of messages per session (process or Redis) | `chat`, `history`, `append` | LLM client |
| LLM, ASR, TTS clients (`client/`) | a parser per stream | one request each | providers over HTTP |
| ASR text (`utils/postprocess_utils.rs`) | none | tags to emoji, emoji to a hint | pipeline, admin API |
| admin API (`admin_api/`) | locals of a response stream | one endpoint per ability | the same clients |
| metrics (`metrics.rs`) | counters, histograms | guard of a pipeline, client reports | Prometheus |
| configuration (`config.rs`, `logging.rs`, `bin/`) | settings, read once | find, load, override, build | environment, files |
| web and desktop client | current ids, play queue, voice detector | uplink payloads, acceptance of frames by id | the server |

Interaction. The handlers of one session never overlap (the map entry is locked), but each
utterance spawns a task that runs beside them and beside the other pipelines of the session.
They share `current_real_cancel` (a mutex) and the tokens, and all write into one bounded actix
mailbox with `try_send`. All sessions share the TTS pool. A pipeline that is cancelled drops its
item stream, and with it whatever future was in the middle of an await: most of
the hard behaviour of the pool and of the agent comes from there.

What is hard, and what makes each component correct:

* **Session and pipelines.** Recognitions finish in any order; an evicted pipeline exits
  after its successor has registered; the mailbox may be full; the socket may go. Correct: one
  answer at a time, an exact registration, silence after a cancel, answers that
  do not mix and carry the id of the audio they answer, cancellation that ends a pipeline.
* **Pool.** Reservations, handshakes, closes and reaps overlap and each can be cut at an await.
  Correct: no more connections than allowed, exclusive leases, replies to who asked,
  no lost slot, no waiter asleep beside a free slot, idle connections closed.
* **Item stream.** A retry on another connection, a channel that is full, failures in the body or in the
  tail, sentences without audio. Correct: letters in order and once, nothing forgotten, one ending.
* **Agent.** Turns of a session interleave over one memory; a model fails before or after it was heard.
  Correct: whole answers, from one model, known to the next turn.
* **Clients of providers.** The network cuts a stream anywhere. Correct: what was said is given.
* **Service and books.** Tasks are collected, panics seen, each request counted once.
* **Settings.** Five places a setting may come from. Correct: each call carries the ones that have precedence.

`PROJECT.json` lists every component, modelled or not, and every hazard at its line.

## 2. Modules

| Module | What it is | Extends |
|---|---|---|
| `VoiceSession` | a session, its pipelines and its mailbox | |
| `Floor` | the abstract policy: who may speak | instantiated by `VoiceSession` |
| `VoiceSessionProofs` | theorems about `VoiceSession`, that it implements `Floor`, and about the frames it sends | `VoiceSession` |
| `TtsPool` | the WebSocket pool and the input sessions that use it | |
| `TtsPoolProofs` | theorems about `TtsPool`, whoever is cancelled and whenever | `TtsPool` |
| `Agent` | turns of a session, two models, two memories | |
| `AgentProofs` | theorems about `Agent` | `Agent`, `SequenceLemmas` |
| `Selection` | what is kept of a sequence, as operators | |
| `SequenceLemmas` | lemmas about sequences: ranges, concatenations, `FlattenSeq`, rising sequences, selections | `Selection` |
| `Crossfade` | the sentence crossfader as operators on a record | |
| `CrossfadeLemmas` | what each operation of the crossfader keeps of the audio it was fed | `Crossfade`, `SequenceLemmas` |
| `AnswerStream` | one answer from the LLM to the consumer of its items | `Crossfade`, `Selection` |
| `AnswerStreamProofs` | theorems about `AnswerStream` | `AnswerStream`, `CrossfadeLemmas` |
| `VoiceService` | sessions, task tracking, metrics, client reports | |
| `VoiceServiceProofs` | theorems about `VoiceService` | `VoiceService` |
| `ProviderHttp` | one HTTP request and the parsing of its answer | |
| `AsrText` | from the recogniser's text to the hint, as operators | `Selection` |
| `AdminApi` | the admin endpoints | `Crossfade`, `AsrText` |
| `VoiceConfig` | the start of the server and the calls it makes of providers | |
| `HttpProofs` | theorems about `AdminApi`, `VoiceConfig` and `ProviderHttp` | `AdminApi`, `VoiceConfig`, `ProviderHttp`, `CrossfadeLemmas` |
| `MCVoiceSession`, `MCTtsPool` | values of the constants for TLC | the module named |
| `MCProviders` | the same for what talks to providers | `Agent`, `ProviderHttp`, `AdminApi`, `VoiceConfig` |
| `MCService` | the same for the service and an answer | `VoiceService`, `AnswerStream` |

### VoiceSession and Floor

One action per handler of `on_payload_with_trace_id`, or per stretch of `run_pipeline` between
two awaits together with everything it sends.

| Action | Code |
|---|---|
| `SessionStart`, `AudioChunk`, `Interrupt`, `Retry`, `SessionEnd` | the arms of the match in `S`, behind `closed` |
| `Trigger` | `trigger_pipeline`: drain, drop what is too short, remember the last request, spawn |
| `SocketLost`, `Deliver` | the socket actor of webhttp (external) |
| `Disconnect` | `WsDisconnect` removes the session, `Drop` cancels |
| `Start`, `ObserveCancel`, `Recognized`, `RecognizeFails` | the recognition and the three `select!` of `P` |
| `AsrPartial`, `AsrFinal`, `AsrEnds`, `AsrBreaks`, `Conclude` | the ASR stream |
| `TakeFloor` | `P` 299-331: register, cancel the predecessor, send the buffered text |
| `ItemText`, `ItemAudio`, `ItemsFail`, `ItemsEnd` | the items |
| `Exit` | the drops of `PipelineMetricsGuard` and `CurrentCancelGuard` |

`real` is `current_real_cancel`; `cancelled` is the set of requests whose token is cancelled. A child of
`global_cancel` is cancelled with it, and since `Interrupt` and `Retry` replace the global token in the same
handler, cancelling it is cancelling every pipeline spawned so far. `buf` keeps, per chunk of
audio, the message id it came with, which is what `TurnNamedByFirstAudio` is about; `MinChunks` and
`MaxChunks` stand for the limits in bytes, and the limit on time is the nondeterministic argument `late`.
`mailbox` is what the socket actor has not written yet.

In `Floor` turns are unborn, waiting, speaking or over; a turn that takes the floor silences the
speaker, an interruption silences all. The refinement mapping `status` calls a cancelled pipeline
"over" when its token is cancelled, not when its task gets to see it.

### TtsPool

Sessions live on different threads: an action is one locked section or one exchange with the provider.

| Action | Code in `W` (or `LT`) |
|---|---|
| `Arm`, `Scan`, `Reserve` | `acquire`: arm a `Notified`, look at each entry under its lock, reserve under the lock of the list |
| `Poll`, `Wake`, `WaitTimesOut` | the await of the `Notified`, with its timeout |
| `DialSucceeds`, `DialFails`, `Unreserve`, `ReportUnreserved` | the handshake and its error path |
| `Grant`, `GreetFails` | `session.config` on a connection used before; the lease is made |
| `SendText`, `Flush`, `SendSucceeds`, `SendFails`, `Resume` | the input session, its one retry on another lease |
| `Answered`, `Breaks` | `next_event`: `session.done`, or any failure |
| `Finish`, `Release`, `ReportReleased` | `finish` and `TtsWsLease::release` |
| `Cancel` | the pipeline drops its stream in whatever await it is; `Drop for TtsWsLease` spawns an invalidation |
| `Mark`, `HangUp`, `Remove` | `invalidate`: close the entry, hang up, remove and notify |
| `Expire` | the reaper of `schedule_reap` |

`generation` and `owner_session_id` are left out because they change only with something that is kept.
Locked sections that follow each other without a decision between them are one step. `tokio::sync::Notify`
is external and modelled from its documented behaviour: `notify_waiters` reaches each `Notified` that exists,
polled or not; `notify_one` reaches a polled one or leaves a single permit; a notified waiter that is dropped
hands it on.

Three variables are history, read by no action: `abandoned` are the entries whose session was cancelled when it had no lease to drop (in the handshake,
in its error path or behind `release`), `cutShort` says that an invalidation was cancelled behind its first lock, `untold` that a slot is free of which nobody has told the
waiters. They say what a cancellation has left undone, so that a property can say that nothing else does.

### Agent

A turn is one stream of `LlmAgent::chat`; `pc` names the await it is at. `Route` is `ModelRouter::route`, `BeginChat` reads the
history and asks the first model, `AskFails`, `StreamFails` and `StreamEnds` lead to `Escalate` as long as
nothing was visible, to an error after; `RecordUser` and `RecordAnswer` are the two `append`s, `Trim` the LTRIM behind
the LPUSH of Redis; `Drop` is the cancelled reader, at any await (in memory the `append`s never yield, so there is none there).
`log` is history: every message recorded. The length of a text matters only against 15 characters, so both sides of it are turns.

### AnswerStream and Crossfade

A text is a sequence of kinds of characters (letter, stop, blank, decoration) and every later piece is a sequence of
*positions* of it: whether letters are lost, repeated or swapped is a comparison of numbers.

| Action | Code |
|---|---|
| `ReaderAsks`, `ReaderReads`, `ReaderSends`, `ReaderEnds`, `ReaderCancelled` | `spawn_llm_reader`, its bounded channel, `LlmReaderGuard` |
| `Receive`, `ChannelCloses` | the main loop of `llm_tts_items` |
| `CleanDelta`, `Segment`, `SendText`, `Flush`, `Collect` | the WebSocket course: cleaner, segmenter, `send_text`, `flush`, `next_event`, and their retries |
| `Split`, `Synthesize`, `Listen`, `ListenFails` | the HTTP course: a request per sentence |
| `SpeakTail`, `Finish`, `Drop` | the tail, the end mark, the consumer gone |

`Crossfade` has one operator per method of `SentenceCrossfader`. A byte sent is the *set* of bytes of audio it was made from.

### VoiceService

`Utterance`, `Interrupt`, `Disconnect` are what `service.rs` does with a session; `HelperAsks`, `HelperTracks`, `ChildEnds`
follow the handle of a pipeline through the helper task into the `JoinSet`; `JanitorAsks`, `JanitorLocks`, `JanitorJoins`,
`JanitorExits` are the loop started by `new()`, behind a fair tokio `Mutex` (`queue`). A pipeline is here what it does to its
`PipelineMetricsGuard`: `AsrHeard`, `FirstText`, `FirstFrame`, `FirstSent`, `ItemsEnd`, `Panic` and the rest end in
`Finished`, the guard's drop. `ObserveCancel` ends one whose token is cancelled, `AudioRefused` one whose frame the mailbox refuses
or that cannot be encoded (`P` 418-434); both set the result to cancelled. `Report` is `PlaybackStarted` and `ClientMetricReport` through the filter of `S` 136; `Tick` lets time
pass, as ages.

### ProviderHttp

A streamed answer is a sequence of lines; a line is two bytes and its end (LF or CR LF), enough for `Chunk` to end within, at or
behind a line, or between CR and LF. `ReadLines` is the loop over `sse_buf` shared by the LLM and TTS clients, `ReadLlm` and `ReadTts` what a
line gives, `Push`/`Filtered` the `ThinkTagFilter`, over letters with the tag shortened to `<k>`.
`Refuse`, `FailToSend`, `AnswerWhole*`, `AnswerTranscript`, `BreakStream`, `EndStream` are the other ways a request goes.

### AsrText and AdminApi

`AsrText` is `rich_transcription_postprocess`, `parse_asr_text` and `format_asr_hint` over tokens (words, tags, emoji). What the code
does character by character and place by place is said there by what it keeps (`Only`, `Without`, `PlacesOf`); only the joining of segments goes in rounds.
`AdminApi` has an action per step of each endpoint's stream: `RejectAudio`, `RefuseCall`, `Accept`; `PassEvent` and its siblings for
`/admin/asr` and `/admin/llm`; `SplitScript` to `FinishTts` for `/admin/tts`; `Recognise` to `FailItems` for the chain; `Leave` when the
client goes. Behind `/admin/llm_tts` it takes what is shown of the items of `AnswerStream`: `ItemsOrdered`, which is proved, and `StreamEnds`, which is model-checked.

### VoiceConfig

`Load` finds and merges the settings (`resolve_config_path`, `load_yaml`, `apply_env_overrides`, command line), `Build` makes the clients and the
memory (`resolved`, `to_header_map`, `TtsClient` ...) or `FailToBuild`, `AskProvider` is any later call of a provider: its base, timeout, model, headers and options
(`Chat`, `Transcription`, `Speech`, `list_voices`), or the handshake and `session.config` of a WebSocket (`Session`).
A section is a function from settings to values, so "given" and "given empty" differ as they do in the code. `Over(f, g)` is `f` with
what `g` says beside it: a file over the defaults. A section that is not there is the empty function.

## 3. The runs

Expected to pass:

| Run | Instance | What it shows |
|---|---|---|
| `session`, answers | 2 pipelines, mailbox of 3, one partial result, one item, fairness | `TypeOK`, `OneFloor`, `RegistrationExact`, `ClosedCancelsAll`, `SuccessDelivered`, `AnswersNotInterleaved`, `PhasesInOrder`, `CancelEnds`, `SilentAfterCancel`, `EndingDisturbsNobody`; `Floor` is implemented |
| `session`, input | 2 ids, utterances of 2 to 3 chunks | `TurnNamedByFirstAudio` |
| `pool` | 2 sessions, one connection, white space between sentences, cancellation anywhere, fairness | `TypeOK`, `ConnectionsBounded`, `LeaseHolds`, `ReplyReachesAsker`, `SlotsAccounted`, `IdleAccounted`, `GaugeAccounted`, `RoomTold`, `AcquireEnds`, `PoolDrains` |
| `providers`, agent | 2 turns over a window of 2, both memories, both routes, fairness | `StoreIsRecent`, `AnswersWhole`, `CompleteAnswersKnown`, `OneVoice`, `TurnsEnd` |
| `providers`, provider, admin, config | all answers of 3 lines and two longer ones; 5 uploads, 5 texts, all transcripts of 2 tokens and 9 of two segments; 3582 starts, of both transports | `SeenAsSaid`, `HeardAsSaid`, `OneEnding`, `HintFaithful`, `CallsAsConfigured` |
| `service`, answer | 4 texts in deltas of up to 2, channel of 1, both transports, fairness | `SpokenInOrder`, `NothingForgotten`, `ItemsOrdered`, `SoundKept`, `StreamEnds` |
| `service`, pipelines or reports | one session, 2 pipelines or the reports of 2 ids and a legacy one, fairness | `BooksBalance`, `CountedOnce`, `PanicsLogged` |

Expected to find a violation (section 6): `pool_leak`, `pool_wakeup`, `agent_redis`, `admin_tail`, `config_headers`, `stream_tail`,
`stream_fade`, `janitor`. Where one of them refutes a promise of the code or its documents, a passing run beside it states what
remains of the promise: that the case found is the *only* one (`SlotsAccounted` of `NoSlotLost`, `RoomTold` of
`NoReleaseLost`, `NothingForgotten` of `FailureReported`, `OneEnding` of `TtsFailureReported`, `CallsAsConfigured` of `ProviderHeadersPassed`).

Parts in one run. `MCVoiceSession`, `MCProviders` and `MCService` have a variable `focus` that never changes: a behaviour takes the steps of one part only, named
behind the run in the table. The parts of `MCProviders` share no state, nor does the answer in `MCService` with the service; the reports of clients and the pipelines share only which
sessions there are, and each has the connections and the janitor with it. Each property reads the variables of one part alone, so that it is not weakened
by leaving out the interleavings with the others. In `MCVoiceSession` the parts do meet, but one way: what is buffered decides which pipelines there are, and no pipeline touches what is buffered. The
input has every message and pipelines that stay where they are spawned; the answers have pipelines that run, and an utterance in one piece (or an empty one). Each part is fair to its own tasks: `TurnFairness`
holds by itself where no turn begins, `MCFairness` names the part, and in the input of `MCVoiceSession` liveness is not looked at (a pipeline that is never started is not fair, and `CancelEnds` speaks of fair behaviours).
`StreamEnds` begins with the first step of the reader or the drop of the stream, without which nothing was asked.

Bounds and why they are enough.

* *Session.* The properties relate the pipeline that holds the floor and the one that takes it. A
  mailbox of 3 is cut at every position of a burst. Two ids tell the first audio from the rest.
* *Pool.* Competition for the last slot needs two sessions and one connection: a holder that is cancelled, closed or reaped, and one that waits. What more connections
  add is that two releases share one permit, which needs four sessions on two connections (`pool_wakeup`); the safety properties of `pool` are proved for any number of either.
  An entry no one refers to is used anew, so two of them stand for any number.
* *Agent.* A window of 2 is overrun by two turns (four messages); two events per answer make "at most the last event more" more than "all".
* *Answer.* The texts have a sentence that is too short and waits for the next, one with decoration within, a tail without a stop, and
  one without any letter; sounds are empty, one chunk, or cut off the fade's boundary. `Fade` is 2 or 4 bytes instead of 10 ms: what
  counts is which chunks are shorter. `Room` is 1 so that the channel is full as soon as it is used.
* *Reports.* A capacity of 2 is overrun by three keys; a TTL of 1 has ages 0, 1 and old.
* *Streams.* Three lines of ten or eleven kinds have each order of two events around a third; the longer answers carry a think tag over four
  deltas and an event behind the end.
* *Settings.* Each group of starts varies where ONE setting comes from (key of the fast model, model and key of the
  strong one, format and transport, file, base and timeout and headers of each client over each transport, options) and keeps the rest at a default.

`MaxRequests`, `MaxAsrEvents`, `MaxItems`, `MaxCalls`, `Conns`, `Cut`, `Sounds`, `MaxEvents`, `AttemptEvents`, `Turns` and the sets of inputs are bounds of the model that
the code does not have. Symmetry is used in `pool_wakeup`, which has no fairness; the turns of the agent are named in the order they begin in. Deadlock is not checked: a closed
session, an ended answer or an idle pool really stops.

Fairness. `VoiceSession` assumes weak fairness of `Start(r)` and `ObserveCancel(r)` only: tokio polls
a spawned task, and a `select!` whose token is cancelled stays ready. Not that the ASR answers, not that
the mailbox drains. `TtsPool` assumes weak fairness of each session's own steps and of the tasks: every
exchange in `W` has a timeout, the LLM answer ends, closing a connection returns; nothing obliges a pipeline to be cancelled
or a waiter to be woken. `Agent` assumes it of the steps of a turn (each request is answered or times out: the clients are built with
a timeout), `AnswerStream` of the reader and of the stream (two tasks that tokio polls), never of `Drop`. `VoiceService` assumes that a pipeline
comes to its end, that helpers are polled and that the janitor goes on when it can; the fair mutex is the sequence `queue`, not an assumption.

## 4. What is proved

`VoiceSessionProofs`, for every number of requests and of ids, every mailbox capacity and every limit:

| Theorem | Statement |
|---|---|
| `TypeCorrect` | `Spec => []TypeOK` |
| `OneFloorAlways` | `Spec => []OneFloor` |
| `RegistrationAlwaysExact` | `Spec => []RegistrationExact` |
| `ClosedAlwaysCancelsAll` | `Spec => []ClosedCancelsAll` |
| `EndingAlwaysDisturbsNobody` | `Spec => EndingDisturbsNobody` |
| `AlwaysSilentAfterCancel` | `Spec => SilentAfterCancel` |
| `SessionImplementsFloor` | `Spec => ImplementsFloor` |

The argument. `IInv` is `TypeOK /\ FreshTokens /\ ClosedCancelsAll /\ RegistrationExact`. None of the last
three is inductive alone: that a pipeline that takes the floor leaves no other answering needs the
registration to be exact before (the one it evicts is the only one there is); that the registration
stays exact when a pipeline is spawned needs fresh tokens; and that a closed session stays silent
needs both. `OneFloor` follows from `RegistrationExact`: two that answer are both the one registered. `StepEffect` sums up
what a step of a pipeline can do to the stages, the tokens and the registration, so that the other proofs
need not look at the thirteen stretches again. For `SilentAfterCancel` each sender is
shown to append frames of its own request only, after a look at the token. The refinement shows
that each step is a step of `Floor` or leaves `status` alone; the interesting cases are
`TakeFloor` (the evicted speaker is exactly the one `Floor` silences, by `RegistrationExact`) and
`Retry` (silence and a new turn in one step).

and about the frames it sends, under the same constants:

| Theorem | Statement |
|---|---|
| `AlwaysNamedByFirstAudio` | `Spec => []TurnNamedByFirstAudio` |
| `SuccessAlwaysDelivered` | `Spec => []SuccessDelivered` |
| `PhasesAlwaysInOrder` | `Spec => []PhasesInOrder` |
| `AnswersNeverInterleaved` | `Spec => []AnswersNotInterleaved` |

The argument. `TurnNamedByFirstAudio` is inductive with the types. `SuccessDelivered` needs `Booked`: a refusal
ends its pipeline just as a success does, so none comes by both. The two about the order of frames speak of a mailbox that grows and is drained, and are proved from `WireInv`:
the frames of a request that are in the mailbox belong to phases the request has come to (`WithinReach`); a request whose answer is followed by a
frame of another answer has lost its floor (`Superseded`); and what the session sends itself is no answer (`OwnFrames`). Every step either takes the first
frame, sends `interrupted`, or speaks for ONE request a burst within what that request may reach (`Drains`, `Send(Interrupted)`,
`Speaks`), so each part is proved for three kinds of step instead of twenty-one. That one request is the only one
that answers is `OneFloor`; that it stays silent once superseded is `SilencedStays`.

`TtsPoolProofs`, for any sessions and entries, any limit and number of messages, and any set of sessions that may be cancelled:

| Theorem | Statement |
|---|---|
| `PoolTypesAlways` | `Spec => []TypeOK` |
| `LeaseAlwaysHolds` | `Spec => []LeaseHolds` |
| `ReplyAlwaysReachesAsker` | `Spec => []ReplyReachesAsker` |
| `ConnectionsAlwaysBounded` | `Spec => []ConnectionsBounded` |
| `SlotsAlwaysAccounted` | `Spec => []SlotsAccounted` |
| `IdleAlwaysAccounted` | `Spec => []IdleAccounted` |
| `GaugeAlwaysAccounted` | `Spec => []GaugeAccounted` |
| `RoomAlwaysTold` | `Spec => []RoomTold` |

The argument. `IInv` says who may touch an entry: a session that is dialling, using or giving back an entry is the one the entry names
(`Holding`, `Using`), no two sessions have one entry (`Exclusive`), what a session believes it was sent is what its entry was sent (`Talking`), only an entry of the
pool is connected and an idle one owes nothing and is nobody's (`Entry`), an invalidation works on an entry whose session let go of it or waits for
it, and closes it before it removes it (`Orderly`), and the pool has no more entries than allowed (`Bounded`). An entry may be invalidated twice at once, which
these survive.

The last four theorems need `LossInv` as well, which follows an entry through a cancellation. An entry of the pool is idle, its session will free it,
or a task will (`Charged`): a session that awaits an invalidation is waited for by it (`Tended`, `Awaited`), and one that is cancelled hands its entry to
the task its dropped lease begins (`CancelFrees`) or, without a lease, abandons it (`CancelCharges`). So the entry of a
failed handshake, a failed `session.config`, a failed message or a broken reply is freed at any limit and by any number of sessions, also if a second
request is cancelled meanwhile. `Watched` names the lease a reaper is for: an older reaper never counts, which is what
the `lease_id` in `schedule_reap` is for. As long as no invalidation was cut short a task is alone at its entry and finds it open (`Single`), so it
counts out what it removes; the first one that was cut short ends that for good, and of the gauge remains that it never shows too few. `RoomKnown` follows the free
slots: every removal but that of a failed handshake tells all waiters in the same step, and that one tells them in the next.
The theorems have no hypothesis: what they except (`abandoned`, `cutShort`, `untold`) is what a cancellation has left undone at a named place. That the exceptions are
needed is shown by `pool_leak` for an entry; section 6 names the places of the others.

`AgentProofs`, for any set of turns, any inputs, window and number of events, and both memories:

| Theorem | Statement |
|---|---|
| `AgentTypesAlways` | `Spec => []AgentTypes` |
| `StoreIsAlwaysRecent` | `Spec => []StoreIsRecent` |
| `AlwaysOneVoice` | `Spec => OneVoice` |
| `AnswersAlwaysWhole` | `Spec => []AnswersWhole` |
| `CompleteAnswersAlwaysKnown` | `Spec => []CompleteAnswersKnown` |

The argument. `IInv` is `AgentTypes /\ Unheard /\ Recent`. Each of the twelve steps of a turn is shown to make the stream of that turn a *good*
one (`Advances`): a stream that is not visible gave its listener nothing. That is what `OneVoice` needs where a model is replaced, and it
is not implied by `OneVoice`, which only speaks of steps. `Recent` states the suffix element by element, forwards for the
ring in memory and backwards for the list of Redis; `PushKeepsEnding`, `LPushKeepsBeginning` and `LTrimKeepsBeginning` say what the
three operations do to it, and `EndingIsSuffix` and `BeginningIsSuffix` lead from it to the `IsSuffix` of the property. The length is part of `Recent`
because a push into a full ring keeps the end only if the ring is as full as the log allows.

`AnswersWhole` and `CompleteAnswersKnown` relate what a turn holds (`buf`), what its listener was given (`out`) and the log, and are proved from `AnswerInv`:
per turn, the buffer is the text of one attempt in order and the listener has all of it but at most the last event (`Kept`), only an answer that said it was
final was given as complete (`Concluded`), and what the turn says it recorded is in the log (`Remembered`); per message of the log, its text
belongs to the turn it names, and that turn knows (`Entry`). That the text given is the concatenation of the items is
`FlattenSeq` of the community modules, so `SequenceLemmas` shows that it grows by what is appended: the
function behind it exists and is unique, each by looking at the least index where it would not.

`AnswerStreamProofs`, for any set of texts and of sounds, both transports, any deltas, capacity of the channel and minimal length of a sentence:

| Theorem | Statement |
|---|---|
| `SpokenAlwaysInOrder` | `Spec => []SpokenInOrder` |
| `NothingEverForgotten` | `Spec => []NothingForgotten` |
| `ItemsAlwaysOrdered` | `Spec => []ItemsOrdered` |
| `EventsInOrder` | `Spec => [](Over \/ Joined)` |
| `SoundAlwaysKept` | `Spec => []SoundKept` |

The argument. `Inv` is `StreamTypes /\ Reading /\ Handed /\ Words`, and none of the properties is inductive alone. `NothingForgotten` names the one request whose
failure is swallowed; `stream_tail` shows it. That text never goes back needs
to know what comes through the channel: `Joined` chains the events that were read and not received, from the text given to the text said, a
failure last. `Handed` then follows the items: each step hands on a burst, numbered sound and behind it at most one text or end. `Words` says where the text
is. Over a WebSocket (`WsHolds`, `WsAt`) what was asked for, what the input session owes and what the stream still has to cut are rising sequences of positions,
each below the next, what is on the wire is part of what is owed, and the rest of it went down with a connection; over HTTP
(`HttpHolds`, `HttpAt`) the same holds of the request being cut into sentences and the text behind it. `Kept` says that every letter given is in one of
these places, so that nothing is forgotten when they are empty at the end. The lemmas say what `Only`, `Strip`, `Clean`, `SentenceEnd` and `Segment` do to a rising
sequence; that the filter `Only` exists and grows element by element is shown in `SequenceLemmas`, again by the least index where it would not.

`SoundKept` is about bytes of audio, and what was sent says too little to be inductive: the fader holds bytes back. `SoundHas` therefore
keeps a history beside it, what the consumer heard so far. Between two sentences (`Rested`) and within one (`Hearing`)
the bytes heard precede the ones the fader holds, the ones it holds lie in stretches of one sentence each, and of the sentence being fed both are among
the bytes fed. As long as every sentence has two fade regions the fader's tail is as long as what it will be mixed with (`Full`), and then
the bytes heard and held together are *all* that were fed (`HearingAll`, `RestedAll`). `CrossfadeLemmas` proves this of each operation:
`FeedHears`, `EndHears`, `BeginHears`, `FinishHears` from `MixIs` (a mix has the bytes of both sides at equal distance from the
seam) and from the three ways a chunk may go (`FeedDone`, `FeedHead`, `FeedMixes`). `PlayedHears` carries it through the chunks of a sentence, however many
there are, `ListenStep` and `ListenFailsStep` through the step that plays one, `FinishStep` to the end. `Full` is exactly what fails in `stream_fade`: of
shorter sentences the order is proved, the completeness is not claimed.

`VoiceServiceProofs`, for any set of turns, any TTL and any capacity of the filter:

| Theorem | Statement |
|---|---|
| `AlwaysCountedOnce` | `Spec => CountedOnce` |
| `BooksAlwaysBalance` | `Spec => []BooksBalance` |

The argument. `CountedOnce` is an action property with a history (`last`); `ReportInv` relates the history to the table of the filter: a report no longer in
the table is too old or was displaced by as many newer ones as the table holds (`Displaced`), and each entry of
the table is as old as the history says (`SameAges`). `BooksBalance` compares counters with the pipelines alive and sums over labels. `BookInv` says what the totals and
the durations are in terms of the results (`Labelled`, `Observed`) and what each pipeline alive still owes to each counter and pair of histograms (`Owed`). The sum is
`SumFunction`, a fold over a set; `SumIs` shows that any function on the subsets that adds up like a sum is it, by a smallest subset where the two
differ, and the steps then need only that one label went up by one.

`HttpProofs`, for any bodies, texts, transcripts and sounds, any fade and any limits (`AdminApi`), any start of the server (`VoiceConfig`), and any
answers of any number of lines (`ProviderHttp`):

| Theorem | Statement |
|---|---|
| `AlwaysOneEnding` | `SpecAdmin => []OneEnding` |
| `HintAlwaysFaithful` | `SpecAdmin => []HintFaithful` |
| `CallsAlwaysAsConfigured` | `SpecConfig => []CallsAsConfigured` |
| `HeardAlwaysAsSaid` | `SpecHttp => []HeardAsSaid` |
| `SeenAlwaysAsSaid` | `SpecHttp => []SeenAsSaid` |

The argument for `OneEnding`. `AdminInv` says at which place the handler of each endpoint can be (`Places`: only the three streams of audio can be where
audio is sent), that nothing is sent before the response, and of the lines (`LinesHave`) that their audio is numbered from 1 to `audio_seq`, that none is an
ending before the handler is over and that the last is one when a stream of audio is. Each step adds nothing, one line (`AddLine`) or the lines of a sentence
(`AddAudio`, at `ListenTts` and `FinishTts`, where the number of pieces is the fader's business and irrelevant here). `SpeechHas` follows the sentences of
`/admin/tts`: each that was cut off was asked for, is part of the request or waits in `pending`; so at the end mark, when nothing waits, only the last request
can have failed (and it can: `admin_tail`).

The argument for `HintFaithful`. Three properties of a text are followed through every stage (`Renders`): its words in their order (`Words`), the sounds
told of it (`NoiseOf`) and the moods (`MoodsOf`). `MarkedIs` shows that marking loses none; `FormatRenders` that a segment says all its sounds and a mood
of its own; `SegmentsAre` that the cuts are the language tags, between which the segments lie; and `JoinRenders`, the heart of it, that
joining two texts loses nothing, although it drops the first character of the one and the last of the other: what it drops is there a second time (with `JoinHard` it
is not). `JoinedRenders` carries that through the rounds, of which there are as many as segments. Then `MainMoodIs` (a maximum exists and is one of the
moods seen) and `EventsTold` (each label where it is met first, hence once) read the result back. Of the sounds nothing is lost and of the moods one is kept; which one
is not claimed (section 6). `HintInv` says the rest: the prompt is made of the last transcript that came to anything (`PromptIs`), and what is asked
of the prompt (`AskedIs`), after which nothing more is heard.

The argument for `CallsAsConfigured`. The property looks a setting up in a list of sources (`Nearest`), the code merges sections in several passes and
resolves them against the provider later. `SectionIs` and `StrongIs` show that what is merged is what is looked up, for the strong model in each of its
three ways to be configured; `SettingsAre` and `ProviderIs` carry it to the settings in effect, and the lemmas behind them to the clients and their calls: base, timeout, model, key, options
and the voice. The headers are the delicate part: they are merged by *spelling*, kept by *name* in any order, and yet of each name one is sent, the section's own if all spell
it alike (`SentOnce`). Only `Authorization` is different: over HTTP it goes beside the key, over a WebSocket instead of it. The invariant (`ConfigInv`) then says only that the settings in effect are
those of the start and that the clients were built from them.

The argument for `HeardAsSaid` and `SeenAsSaid`. A byte is known by its place and by how the provider ends its lines (`Byte`), so what arrived, what waits in `sse_buf` and what is
still on the wire are three cuts of one text (`Cut`); a chunk lengthens one cut and shortens another, and reading a line (`TakeLineIs`) moves the beginning of
`sse_buf` to the next line, whether the line came in one chunk, in several or with others. `At` says that the parser has read `r` lines and what it knows of
them (`Knows`). Of speech (`After`) it knows the name that holds and the count, and it has given exactly the audio of those lines, in order and numbered (`AudioOf`). Of
text (`TextTold`) it was given all but what the filter holds back as long as no line ended it (`Opened`), and all of it with the last (`Closed`). `ReadTtsKeeps` and `ReadLlmKeeps` go through what a
line can say, `RoundsExist` and `ReadLinesKeeps` through the rounds of the loop: there are enough of them, so that behind a chunk no whole line is left unread
unless one of those read ended the answer. That last clause is why `StreamInv` is more than "what is given was said".

`SeenAsSaid` rests on what the filter does with a text that comes in pieces. `Spoken` looks at the whole text, the filter at the
little it has kept. `FilterAt(f, t, m)` says that it is done with the first `m` letters of `t`: it keeps the rest, knows whether the next letter is thought, and no tag it seeks
straddles the place. Behind a call (`AtRest`) no such tag is left, and less than a tag is kept. The key is `HeldEnough`: what `matching_tag_prefix_suffix_len` keeps is the longest beginning of a tag at the end, so a tag that
is completed later begins at or behind what was kept; with `HeldBackNothing` that fails. `PassTag` and `PassLast` are the two ways a round can go (a tag is found, the last round),
`ShownIs` and `HiddenIs` say what of a stretch without a tag is spoken, `PushIs` goes through the rounds, each but the last beyond the one before, and
`FilteredLast` adds what `finish` gives back. Neither `Push` nor `ReadLines` is a fold: the recursive functions exist by `PassesExist` and `RoundsExist`.

Assumptions used: the named assumptions of `VoiceSession`, `Agent`, `TtsPool`, `Crossfade`, `AnswerStream`, `VoiceService`, `ProviderHttp`, `AdminApi` and `VoiceConfig` on their constants, nothing else. They say that the
bounds are natural numbers (or positive, where the code has a positive constant), that "none" is not an id, that texts are sequences of kinds of characters, answers of providers have finitely many lines, that what the model says in a line is text and ends or does not end it, and that sounds are sequences of lengths (of whole 16-bit samples), that the
fade region is a positive number of whole samples, that a text to be spoken has a tail (if an empty one), that the recogniser marks moods and sounds with tags and gives no emoji of its own (`TranscriptsAssumption`: one it gave would be told as if tagged), and that the headers configured are finitely many, spelled alike only if named alike.

## 5. What is only model-checked

* Liveness (`CancelEnds`, `AcquireEnds`, `PoolDrains`, `TurnsEnd`, `StreamEnds`, `PanicsLogged`) is out of reach of the prover, as is all
  reasoning with `ENABLED`.

Induction over data is possible here only as in `SequenceLemmas` (`Only` among them), `SumIs`, `PlayedHears`, `RoundsExist`, `ReadLinesKeeps`, `PushIs`, `JoinsExist` and `JoinedRenders`: a least counterexample in a set, by `WFMin`. The
library's induction theorems take an operator as a parameter, which the provers installed cannot instantiate. No module uses `RECURSIVE`.

## 6. Findings

Runs that find a violation:

| Run | What the code does |
|---|---|
| `pool_leak` | a request cancelled inside `acquire` leaves its entry in the pool for ever (`W` 532); after `max_connections` of them no session gets a connection |
| `pool_wakeup` | two releases that find no one polling leave one permit: of two sessions that scanned before, one sleeps beside an idle connection until another release or its timeout (`W` 851), against the comment at `W` 420 |
| `agent_redis` | the list of Redis is reversed twice, so the model reads the conversation newest message first (`agent/redis_store.rs` 106) |
| `stream_tail` | over HTTP a request for the tail that fails ends the answer as if complete (`LT` 366), against the comment at `LT` 147 |
| `stream_fade` | a sentence with little audio leaves a tail shorter than the fade region and the assertion at `pipeline/crossfade.rs` 89 fails; without assertions audio is dropped |
| `janitor` | the janitor meets an empty `JoinSet` at startup and ends (`service.rs` 93); finished pipelines stay in the set |
| `admin_tail` | a synthesis that fails for the tail of `/admin/tts` is not reported and the end mark follows (`admin_api/mod.rs` 420), against the module's comment (18) |
| `config_headers` | the WebSocket of the synthesiser is opened without the headers of the provider section (`client/tts.rs` 701), which `config.rs` 22 says go to all clients |

Behaviour the models contain, without a run of its own:

* A request cancelled inside `release`, between `Idle` and `schedule_reap`, leaves an idle connection without a reaper (`W` 848): `abandoned` of `IdleAccounted`.
* An invalidation that is cut short and repeated by the drop of the lease does not count the connection out, and the gauge stays too high (`W` 570): `cutShort` of `GaugeAccounted`.
* White space behind the last sentence is sent and never completed, and the connection is lent on with it (`LT` 340): `Finish` with a pending blank in `TtsPool`.
* A frame that the mailbox refuses, or that cannot be encoded, counts a request as cancelled that nobody cancelled (`P` 429; `AudioRefused` in `VoiceService`), where
  `docs/superpowers/specs/2026-09-01-voice-metrics-collection-architecture.md:162` says that `cancelled` is the user's interruption, the end of the session or a disconnect.
* A recognition that comes back late takes the floor from the answer to a newer utterance (`P` 308).
* `send_text` repeats only its own delta on a new connection: what the sentence had before is not spoken (`lost` in `AnswerStream`).
* A request that is cancelled between its last audio and its last status is counted as failed (`P` 436), a `select!` that picks the items may finish
  a cancelled request as a success, and an answer without text is one; the tables of
  `docs/superpowers/specs/2026-09-01-voice-metrics-collection-architecture.md:159` read otherwise. `CountedOnce` states the bounded promise
  the filter keeps, not the unbounded one of `docs/superpowers/specs/2026-09-01-voice-chain-metrics-spec.md:258`.
* A cough is reported as a sneeze (both have one emoji); a majority of NEUTRAL suppresses a mood; equal moods of neighbouring segments are
  merged before they are counted, so the last mood may win over the most frequent one. `HintFaithful` says what remains true.
* The event name of a TTS stream holds until the next one; the end of the stream leaves only the inner loop over lines, so audio behind it is still given;
  the LLM stream goes on behind `is_final`. `SeenAsSaid` speaks of what comes up to the first end; `HeardAsSaid` requires all audio up to there and allows what is
  given behind it, in order and numbered.
* Of two spellings of one header either may be sent (`HeaderMaps`); an `Authorization` that is configured is sent beside the key over HTTP, and instead of it over the WebSocket;
  an empty TTS key over HTTP is sent as an empty bearer token; a file named by `VOICE_CONFIG` that does not exist is passed over.

## 7. What is not modelled

* The clients in the browser and on the desktop: their state is the page, Web Audio and timers, and there is no scheduling to state.
  Their main hazards are listed without a property.
* The WebSocket and HTTP servers, tokio, Redis, Prometheus and the providers are external: what they may do is nondeterministic.
* Content: samples, wording, encoding (MessagePack, JSON, YAML), trace ids, formats of logs. Markdown constructs are one kind of character, "decoration".
* `TtsWsClient::close`, `clear_memory`, `KnowledgeSearch`, `abbr_dispose` and `sentence_postprocess` have no caller in the server.
* Collectors of metrics beside the ones of requests, reports and the pool gauge: written in one place, read by no code.
* The payload helper and the deployment files.

## 8. Plan

1. Done: all modules of section 2.
2. Done: the theorems of section 4.
3. Left: of the runs that find a violation, the condition under which the refuted promise holds is proved where it can be said of a state; for `pool_wakeup` it is a bound on
   the sessions that wait, which remains to be found.
