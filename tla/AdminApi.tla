------------------------------ MODULE AdminApi ------------------------------
(***************************************************************************)
(* The HTTP endpoints that try one ability each (admin_api/mod.rs): a      *)
(* request is refused with a status, or answered with a stream of lines    *)
(* that may still end with an error.  The providers behind it are clients  *)
(* whose streams may give events, fail or end at any time; llm_tts_items   *)
(* is the stream AnswerStream specifies, here what that module shows of it *)
(* (ItemsOrdered, StreamEnds).  A line is known by its kind; of audio its   *)
(* number and end mark are kept, of an error its code.                     *)
(***************************************************************************)
EXTENDS Crossfade, AsrText

CONSTANTS
    Uploads,      \* bodies posted: [wave, chunks, length]
    Scripts,      \* texts to be spoken: the letters of each sentence, of the tail last
    Sounds,       \* what the TTS sends for a sentence: sequences of chunk lengths
    Transcripts,  \* texts the ASR may give
    MinChars,     \* MIN_TTS_CHARS
    MaxEvents     \* events a client gives in one stream (bound)

\* Every text has a tail, if an empty one.
ASSUME ScriptsAssumption == \A text \in Scripts : text \in Seq(Nat) /\ text # <<>>
\* The recogniser marks moods and sounds with tags only.
ASSUME TranscriptsAssumption ==
    \A text \in Transcripts : /\ text \in Seq(STRING \ {""})
                              /\ Range(text) \intersect (EMO_SET \union Labelled) = {}
ASSUME SentencesAssumption == \A sound \in Sounds : sound \in Seq(Nat)

VARIABLES
    endpoint, upload, script,
    pc,           \* where the handler is
    status,       \* of the response, 0 before
    lines,        \* sent to the client
    audio_seq,    \* global_seq
    speech,       \* of /admin/tts: [next, pending, request, tail, asked]
    audio,        \* its fader
    heard,        \* events the ASR gave
    prompt,       \* what they amount to
    asked         \* text and hint given to the LLM

adminVars == <<endpoint, upload, script, pc, status, lines, audio_seq, speech, audio, heard,
               prompt, asked>>

Streams == {"asr", "llm", "tts", "llm_tts", "asr_llm_tts"}

InitAdmin ==
    /\ endpoint \in Streams \union {"voices", "tts_format"}
    /\ upload \in IF endpoint \in {"asr", "asr_llm_tts"} THEN Uploads ELSE {<<>>}
    /\ script \in IF endpoint = "tts" THEN Scripts ELSE {<<>>}
    /\ pc = "received"
    /\ status = 0 /\ lines = <<>> /\ audio_seq = 0
    /\ speech = [next |-> 1, pending |-> <<>>, request |-> <<>>, tail |-> FALSE, asked |-> {}]
    /\ audio = NewFader
    /\ heard = <<>> /\ prompt = <<>> /\ asked = <<>>

SpeechVars == <<audio_seq, speech, audio>>
AsrVars == <<heard, prompt, asked>>
Inputs == <<endpoint, upload, script>>

ErrorLine(code) == [kind |-> "error", code |-> code]

\* The stream of the response stands, or it does not.
Respond(code) ==
    /\ status' = code
    /\ UNCHANGED <<Inputs, lines, SpeechVars, AsrVars>>

Close(line) ==
    /\ pc' = "over"
    /\ lines' = Append(lines, line)
    /\ UNCHANGED <<Inputs, status, SpeechVars, AsrVars>>

(***************************************************************************)
(* What is posted (admin_api/audio.rs, wrap_pcm_as_wav).                   *)
(***************************************************************************)
\* The length of the data chunk of a WAV, -1 when there is none.
find_wav_data(u) ==
    LET data == SelectInSeq(u.chunks, LAMBDA c : c.id = "data")
    IN  IF u.wave /\ data > 0 THEN u.chunks[data].length ELSE -1

\* A WAV without data is taken for bare PCM, header and all.
Pcm(u) == IF find_wav_data(u) >= 0 THEN find_wav_data(u) ELSE u.length

wrap_pcm_as_wav(length, rate, channels) ==
    [riff |-> 36 + length, rate |-> rate, channels |-> channels, block |-> 2 * channels,
     byte_rate |-> 2 * rate * channels, data |-> length]

prepare_audio_for_asr(u) == wrap_pcm_as_wav(Pcm(u), 16000, 1)

(***************************************************************************)
(* Handlers.                                                               *)
(***************************************************************************)
\* 400, before any provider is asked.
RejectAudio ==
    /\ pc = "received" /\ endpoint \in {"asr", "asr_llm_tts"} /\ prepare_audio_for_asr(upload).data = 0
    /\ pc' = "over" /\ Respond(400)

Audible == endpoint \in {"asr", "asr_llm_tts"} => prepare_audio_for_asr(upload).data > 0

\* The status of the provider is kept when it sent an envelope, and only for
\* /admin/asr.
api_err_to_response == IF endpoint = "asr" THEN {429, 500} ELSE {500}

RefuseCall ==
    /\ pc = "received" /\ endpoint \in {"asr", "llm"} /\ Audible
    /\ pc' = "over"
    /\ \E code \in api_err_to_response : Respond(code)

\* /admin/tts, /admin/llm_tts and /admin/asr_llm_tts answer before they ask.
Accept ==
    /\ pc = "received" /\ endpoint \in Streams /\ Audible
    /\ pc' = CASE endpoint = "tts" -> "split"
               [] endpoint = "asr_llm_tts" -> "recognise"
               [] endpoint = "llm_tts" -> "items"
               [] OTHER -> "events"
    /\ Respond(200)

\* sse_stream: the events of /admin/asr and /admin/llm, and where they fail.
PassEvent ==
    /\ pc = "events" /\ Len(lines) < MaxEvents
    /\ lines' = Append(lines, [kind |-> endpoint])
    /\ UNCHANGED <<Inputs, pc, status, SpeechVars, AsrVars>>

FailEvents == pc = "events" /\ Close(ErrorLine(500))

EndEvents ==
    /\ pc = "events"
    /\ pc' = "over"
    /\ UNCHANGED <<Inputs, status, lines, SpeechVars, AsrVars>>

\* supported_voice_shorts: the names of the table, sorted.
SUPPORTED_VOICES ==
    <<"aiden", "alex", "anna", "bella", "benjamin", "charles", "claire", "david", "diana", "dylan",
      "eric", "ono_anna", "ryan", "serena", "sohee", "uncle_fu", "vivian">>

\* list_voices, or the table when it fails or lists none; the default of the
\* settings only when it is in the list.
ListVoices ==
    /\ pc = "received" /\ endpoint = "voices"
    /\ \E listed \in {<<>>, <<"mine", "vivian">>, <<"mine">>}, fails \in BOOLEAN :
          LET voices == IF fails \/ listed = <<>> THEN SUPPORTED_VOICES ELSE listed
          IN  lines' = <<[kind |-> "voices", voices |-> voices,
                          default |-> IF Contains(voices, "vivian") THEN "vivian"
                                      ELSE Head(voices)]>>
    /\ pc' = "over" /\ status' = 200
    /\ UNCHANGED <<Inputs, SpeechVars, AsrVars>>

TtsFormat ==
    /\ pc = "received" /\ endpoint = "tts_format"
    /\ pc' = "over" /\ Respond(200)

(***************************************************************************)
(* build_tts_sentence_stream.                                              *)
(***************************************************************************)
Letters(sentences) == FoldSeq(LAMBDA s, n : script[s] + n, 0, sentences)
Spoken1(s) == IF script[s] = 0 THEN <<>> ELSE <<s>>

\* TtsSentenceBuffer::push: a request that is too short waits for the next.
SplitScript ==
    /\ pc = "split" /\ speech.next < Len(script)
    /\ LET request == speech.pending \o Spoken1(speech.next)
           enough == Spoken1(speech.next) # <<>> /\ Letters(request) >= MinChars
       IN  /\ speech' = [speech EXCEPT !.next = @ + 1,
                                       !.request = IF enough THEN request ELSE <<>>,
                                       !.pending = IF enough THEN <<>> ELSE request]
           /\ pc' = IF enough THEN "ask" ELSE "split"
    /\ UNCHANGED <<Inputs, status, lines, audio_seq, audio, AsrVars>>

\* push(tail) or flush().
SplitTail ==
    /\ pc = "split" /\ speech.next = Len(script)
    /\ LET request == speech.pending \o Spoken1(speech.next)
       IN  /\ speech' = [speech EXCEPT !.request = request, !.pending = <<>>, !.tail = TRUE]
           /\ pc' = IF request = <<>> THEN "finish" ELSE "ask"
    /\ UNCHANGED <<Inputs, status, lines, audio_seq, audio, AsrVars>>

AskTts ==
    /\ pc = "ask"
    /\ pc' = "listen"
    /\ speech' = [speech EXCEPT !.asked = @ \union Range(speech.request)]
    /\ audio' = BeginSentence(audio)
    /\ UNCHANGED <<Inputs, status, lines, audio_seq, AsrVars>>

\* Fault: the error is told, and the next sentence spoken.
AskTtsFailsOn ==
    /\ pc = "ask"
    /\ IF speech.tail THEN pc' = "finish" /\ UNCHANGED lines
       ELSE pc' = "split" /\ lines' = Append(lines, ErrorLine(1102))
    /\ UNCHANGED <<Inputs, status, SpeechVars, AsrVars>>

\* A request for the tail that fails is not told.
AskTtsFails ==
    /\ pc = "ask"
    /\ IF speech.tail THEN pc' = "finish" /\ UNCHANGED lines
       ELSE pc' = "over" /\ lines' = Append(lines, ErrorLine(1102))
    /\ UNCHANGED <<Inputs, status, SpeechVars, AsrVars>>

\* The lines of the pieces that are not empty, numbered on.
AudioLines(pieces) ==
    LET audible == Only(pieces, Range(pieces) \ {<<>>})
    IN  [i \in DOMAIN audible |-> [kind |-> "tts", seq |-> audio_seq + i, is_last |-> FALSE]]

\* The chunks of a sentence, fed one after the other.
Heard1(lengths) ==
    LET heard1[n \in 0..Len(lengths)] ==
            IF n = 0 THEN [fader |-> audio, sent |-> <<>>]
            ELSE Feed(heard1[n - 1].fader, [i \in 1..lengths[n] |-> i])
    IN  [fader  |-> heard1[Len(lengths)].fader,
         pieces |-> [n \in 1..Len(lengths) |-> heard1[n].sent]]

\* The stream of a sentence ends, or breaks: of the tail that is the same, of
\* another it is the end.
ListenTts ==
    /\ pc = "listen"
    /\ \E lengths \in Sounds, broken \in BOOLEAN :
          LET fed   == Heard1(lengths)
              ended == EndSentence(fed.fader)
              fatal == broken /\ ~speech.tail
              sent  == AudioLines(IF fatal THEN fed.pieces ELSE Append(fed.pieces, ended.sent))
          IN  /\ audio' = IF fatal THEN fed.fader ELSE ended.fader
              /\ lines' = lines \o sent \o (IF fatal THEN <<ErrorLine(1103)>> ELSE <<>>)
              /\ audio_seq' = audio_seq + Len(sent)
              /\ pc' = IF fatal THEN "over" ELSE IF speech.tail THEN "finish" ELSE "split"
    /\ UNCHANGED <<Inputs, status, speech, AsrVars>>

FinishTts ==
    /\ pc = "finish"
    /\ LET rest == AudioLines(<<FinishFader(audio)>>)
           end  == audio_seq + Len(rest) + 1
       IN  /\ lines' = lines \o rest \o <<[kind |-> "tts", seq |-> end, is_last |-> TRUE]>>
           /\ audio_seq' = end
    /\ pc' = "over"
    /\ UNCHANGED <<Inputs, status, speech, audio, AsrVars>>

(***************************************************************************)
(* build_asr_llm_tts_stream.                                               *)
(***************************************************************************)
\* The call, or its stream, fails.
FailRecognise == pc = "recognise" /\ Close(ErrorLine(1001))

\* The last event that says anything is the prompt.
Recognise ==
    /\ pc = "recognise" /\ Len(heard) < MaxEvents
    /\ \E text \in Transcripts :
          LET cleaned == rich_transcription_postprocess(text)
          IN  /\ heard' = Append(heard, text)
              /\ prompt' = IF cleaned = <<>> THEN prompt ELSE cleaned
              /\ lines' = Append(lines, [kind |-> "asr"])
    /\ UNCHANGED <<Inputs, pc, status, SpeechVars, asked>>

\* The end of the stream: a prompt without words is an error, whatever was
\* heard beside them.
EndRecognise ==
    /\ pc = "recognise"
    /\ LET parsed == parse_asr_text(prompt)
       IN  IF parsed.text = <<>> THEN Close(ErrorLine(1001))
           ELSE /\ asked' = <<[text |-> parsed.text, hint |-> format_asr_hint(parsed)]>>
                /\ pc' = "items"
                /\ UNCHANGED <<Inputs, status, lines, SpeechVars, heard, prompt>>

\* The items of llm_tts_items: text, which /admin/llm_tts keeps to itself,
PassText ==
    /\ pc = "items" /\ endpoint = "asr_llm_tts" /\ Len(lines) <= MaxEvents
    /\ lines' = Append(lines, [kind |-> "llm"])
    /\ UNCHANGED <<Inputs, pc, status, SpeechVars, AsrVars>>

\* audio, numbered from 1, the end mark among it,
PassAudio ==
    /\ pc = "items" /\ audio_seq < MaxEvents
    /\ \E last \in BOOLEAN :
          /\ lines' = Append(lines, [kind |-> "tts", seq |-> audio_seq + 1, is_last |-> last])
          /\ pc' = IF last THEN "over" ELSE "items"
    /\ audio_seq' = audio_seq + 1
    /\ UNCHANGED <<Inputs, status, speech, audio, AsrVars>>

\* or a failure.
FailItems ==
    /\ pc = "items"
    /\ \E code \in 1002..1005 : Close(ErrorLine(code))

\* The client closes the connection: the stream is dropped where it awaits.
Leave ==
    /\ pc \notin {"received", "over", "left"}
    /\ pc' = "left"
    /\ UNCHANGED <<Inputs, status, lines, SpeechVars, AsrVars>>

NextAdmin ==
    \/ RejectAudio \/ RefuseCall \/ Accept \/ ListVoices \/ TtsFormat
    \/ PassEvent \/ FailEvents \/ EndEvents
    \/ SplitScript \/ SplitTail \/ AskTts \/ AskTtsFails \/ ListenTts \/ FinishTts
    \/ FailRecognise \/ Recognise \/ EndRecognise
    \/ PassText \/ PassAudio \/ FailItems
    \/ Leave

(***************************************************************************)
(* Properties.                                                             *)
(***************************************************************************)
Ends(line) == line.kind = "error" \/ (line.kind = "tts" /\ line.is_last)

\* A stream of audio has one ending: the end mark or one error, as its last
\* line; its audio is numbered without a gap.  When /admin/tts sends the end
\* mark, every sentence was spoken that is not part of the last request.  Of
\* that one see TtsFailureReported.
OneEnding ==
    LET numbered == {i \in DOMAIN lines : lines[i].kind = "tts"}
        spoken == pc = "over" /\ status = 200 /\ endpoint \in {"tts", "llm_tts", "asr_llm_tts"}
    IN  /\ \A i \in DOMAIN lines : Ends(lines[i]) => i = Len(lines) /\ pc = "over"
        /\ spoken => lines # <<>> /\ Ends(Last(lines))
        /\ {lines[i].seq : i \in numbered} = 1..audio_seq
        /\ \A i, j \in numbered : i < j => lines[i].seq < lines[j].seq
        /\ spoken /\ endpoint = "tts" /\ Last(lines).kind = "tts" =>
              \A s \in DOMAIN script :
                  script[s] > 0 => s \in speech.asked \union Range(speech.request)

\* Fails.  The end mark of /admin/tts says that every sentence was spoken: a
\* request that fails on the way puts an error event into the stream and cuts
\* it, as the documentation of the module has it.  AskTtsFails passes over the
\* failure of the request for the tail.
TtsFailureReported ==
    pc = "over" /\ status = 200 /\ endpoint = "tts" /\ Last(lines).kind = "tts" =>
        \A s \in DOMAIN script : script[s] > 0 => s \in speech.asked

\* The model is asked with the words of the last transcript that has any
\* content, in their order and without tags, with all the sounds that were
\* tagged in it (a cough as a sneeze), each once, and with a mood that was
\* tagged, if one was and nothing was tagged as neutral.
HintFaithful ==
    asked # <<>> =>
        LET content(t) == rich_transcription_postprocess(t) # <<>>
            raw == heard[Max({i \in DOMAIN heard : content(heard[i])})]
            tags == Range(raw)
            moods == {Faces[t] : t \in tags \intersect DOMAIN Faces}
            hint == asked[1].hint
        IN  /\ asked[1].text = Without(raw, EMOJI_DICT \union {"The."})
            /\ Range(hint.events) = {Noises[t] : t \in tags \intersect DOMAIN Noises}
            /\ IsInjective(hint.events)
            /\ hint.emotion \in moods \union {NoEmoji}
            /\ moods # {} /\ "NEUTRAL" \notin tags => hint.emotion # NoEmoji

=============================================================================
