---------------------------- MODULE AnswerStream ----------------------------
(***************************************************************************)
(* llm_tts_items (pipeline/llm_tts.rs): ONE answer, read from the LLM by a *)
(* task of its own through a bounded channel, cut into sentences, spoken   *)
(* by the TTS over HTTP (a request for each sentence) or over a WebSocket  *)
(* input session (client/tts_ws.rs), crossfaded and handed to a consumer   *)
(* that may drop the stream wherever it awaits.                            *)
(*                                                                         *)
(* A text is a sequence of kinds of characters and a piece of it is a      *)
(* sequence of POSITIONS: pieces can be compared with what the LLM said.   *)
(***************************************************************************)
EXTENDS Crossfade, Selection, FiniteSets

CONSTANTS
    Texts,       \* answers considered: sequences over Kinds
    Transports,  \* TTS clients considered: "http", "ws"
    MinChars,    \* MIN_TTS_CHARS
    Room,        \* LLM_EVENT_CHANNEL_CAPACITY
    Cut,         \* characters of a delta (bound)
    Sounds       \* what the TTS sends for a sentence: sequences of chunk lengths (bound)

\* Letters count as speech, decoration is never spoken.
Kinds == {"letter", "stop", "blank", "decoration"}

ASSUME TextsAssumption == \A text \in Texts : text \in Seq(Kinds)
ASSUME TransportsAssumption == Transports \subseteq {"http", "ws"}
ASSUME BoundsAssumption == MinChars \in Nat /\ {Room, Cut} \subseteq Nat \ {0}
ASSUME SoundsAssumption == \A sound \in Sounds : sound \in Seq(Nat) /\ FoldSeq(+, 0, sound) % 2 = 0

VARIABLES
    transport,
    text,      \* what the LLM will have said
    said,      \* how far it got
    reader,    \* the task of spawn_llm_reader
    chan,      \* its channel
    main,      \* the stream: where it is, and its locals
    wire,      \* text the provider has on this connection, not completed
    owed,      \* utterance_text of the input session
    lost,      \* text of the utterance that went down with a connection
    spoken,    \* what the provider was asked to say, in order
    fader,
    seq,       \* global_seq
    out        \* what the consumer was given

llmVars == <<text, said, reader, chan>>
ttsVars == <<wire, owed, lost, spoken>>
vars == <<transport, llmVars, main, ttsVars, fader, seq, out>>

----------------------------------------------------------------------------
(* Text.                                                                   *)

Positions(m, n) == [i \in 1..(n - m) |-> m + i]

IsKind(p, kind) == text[p] = kind
Letters(piece) == {i \in DOMAIN piece : IsKind(piece[i], "letter")}

\* str::trim
Strip(piece) ==
    LET solid == {i \in DOMAIN piece : ~IsKind(piece[i], "blank")}
    IN  IF solid = {} THEN <<>> ELSE SubSeq(piece, Min(solid), Max(solid))

\* next_sentence_end: the length of the first sentence, 0 if there is no end.
SentenceEnd(piece) == SelectInSeq(piece, LAMBDA p : IsKind(p, "stop"))

\* IncrementalTtsCleaner::clean
Clean(piece) == Only(piece, {p \in DOMAIN text : ~IsKind(p, "decoration")})

\* to_tts_text of one line, trimmed by TtsSentenceBuffer::push. (Trimming before
\* the cleaning as well, as the code does, comes to the same.)
Speech(piece) == Strip(Clean(piece))

----------------------------------------------------------------------------
\* Opening an input session takes no step: it connects when text is sent.
Init ==
    /\ transport \in Transports
    /\ text \in Texts
    /\ said = 0
    /\ reader = [pc |-> "asking", item |-> <<>>]
    /\ chan = <<>>
    /\ main = [pc |-> "receive", buf |-> <<>>, rest |-> <<>>, pending |-> <<>>,
               final |-> FALSE, tail |-> FALSE]
    /\ wire = <<>> /\ owed = <<>> /\ lost = {} /\ spoken = <<>>
    /\ fader = NewFader
    /\ seq = 0
    /\ out = <<>>

At(pc) == main.pc = pc
Over == main.pc \in {"over", "dropped"}

----------------------------------------------------------------------------
(* The reader of the LLM.                                                  *)

Event(m, n, final) == [kind |-> "event", from |-> m, upto |-> n, final |-> final]
Failure(code) == [kind |-> "failed", code |-> code]

Hand(item) == reader' = [pc |-> "sending", item |-> item]

ReaderAsks ==
    /\ reader.pc = "asking"
    /\ \/ reader' = [reader EXCEPT !.pc = "reading"]
       \/ Hand(Failure(1002))
    /\ UNCHANGED <<transport, text, said, chan, main, ttsVars, fader, seq, out>>

\* stream.next(): text, the final event, or an error.
ReaderReads ==
    /\ reader.pc = "reading"
    /\ \/ \E upto \in said..(said + Cut), final \in BOOLEAN :
              /\ upto \leq Len(text) /\ (upto > said \/ final) /\ (final => upto = Len(text))
              /\ Hand(Event(said, upto, final))
              /\ said' = upto
       \/ /\ Hand(Failure(1003))
          /\ UNCHANGED said
    /\ UNCHANGED <<transport, text, chan, main, ttsVars, fader, seq, out>>

\* The stream ended, with or without a final event.
ReaderEnds ==
    /\ reader.pc = "reading"
    /\ reader' = [pc |-> "gone", item |-> <<>>]
    /\ UNCHANGED <<transport, text, said, chan, main, ttsVars, fader, seq, out>>

ReaderSends ==
    /\ reader.pc = "sending" /\ Len(chan) < Room /\ ~Over
    /\ chan' = Append(chan, reader.item)
    /\ reader' = [pc |-> IF reader.item.kind = "failed" THEN "gone"
                         ELSE IF reader.item.final THEN "gone" ELSE "reading", item |-> <<>>]
    /\ UNCHANGED <<transport, text, said, main, ttsVars, fader, seq, out>>

\* Fault: a send into the channel is not given up.
ReaderCancelledNotSending ==
    /\ Over /\ reader.pc \in {"asking", "reading"}
    /\ reader' = [pc |-> "gone", item |-> <<>>]
    /\ UNCHANGED <<transport, text, said, chan, main, ttsVars, fader, seq, out>>

\* LlmReaderGuard: the stream is over or was dropped.
ReaderCancelled ==
    /\ Over /\ reader.pc # "gone"
    /\ reader' = [pc |-> "gone", item |-> <<>>]
    /\ UNCHANGED <<transport, text, said, chan, main, ttsVars, fader, seq, out>>

----------------------------------------------------------------------------
(* The stream.                                                             *)

\* Failed is the last item; the input session is closed before it.
Fail(code) ==
    /\ main' = [main EXCEPT !.pc = "over"]
    /\ out' = Append(out, Failure(code))
    /\ UNCHANGED <<transport, llmVars, ttsVars, fader, seq>>

Go(m) ==
    /\ main' = m
    /\ UNCHANGED <<transport, llmVars, ttsVars, fader, seq, out>>

\* The text of an event is passed on at once.
Receive ==
    /\ At("receive") /\ chan # <<>>
    /\ LET item == Head(chan)
       IN  /\ chan' = Tail(chan)
           /\ \/ /\ item.kind = "event"
                 /\ main' = [main EXCEPT !.pc = "text", !.rest = Positions(item.from, item.upto),
                                         !.final = item.final]
                 /\ out' = Append(out, [kind |-> "text", upto |-> item.upto])
              \/ /\ item.kind = "failed"
                 /\ main' = [main EXCEPT !.pc = "over"]
                 /\ out' = Append(out, item)
    /\ UNCHANGED <<transport, text, said, reader, ttsVars, fader, seq>>

ChannelCloses ==
    /\ At("receive") /\ chan = <<>> /\ reader.pc = "gone"
    /\ Go([main EXCEPT !.pc = "tail"])

\* Where a delta that is used up leads.
After(m) == IF m.final THEN "tail" ELSE "receive"

Exhausted(m) == [m EXCEPT !.pc = IF m.tail THEN "finish" ELSE IF m.rest = <<>> THEN After(m) ELSE "segment"]

\* WebSocket: a delta is cleaned by itself; one of blanks is skipped unless it
\* continues a sentence.
CleanDelta ==
    /\ At("text") /\ transport = "ws"
    /\ LET cleaned == Clean(main.rest)
       IN  \/ /\ Strip(cleaned) # <<>> \/ (cleaned # <<>> /\ Strip(main.buf) # <<>>)
              /\ Go([main EXCEPT !.pc = "segment", !.rest = cleaned])
           \/ /\ cleaned = <<>> \/ (Strip(cleaned) = <<>> /\ Strip(main.buf) = <<>>)
              /\ Go([main EXCEPT !.pc = After(main), !.rest = <<>>])

\* Fault: the part of a delta behind a sentence end is forgotten.
SegmentForgetting(m) ==
    LET whole == m.buf \o m.rest
        end == SentenceEnd(whole)
    IN  IF end > 0
        THEN [send |-> SubSeq(whole, Len(m.buf) + 1, end), next |-> [m EXCEPT !.pc = "flush", !.rest = <<>>, !.buf = <<>>]]
        ELSE [send |-> m.rest, next |-> [m EXCEPT !.pc = After(m), !.rest = <<>>, !.buf = whole]]

\* Fault: what the provider has of the sentence is sent once more.
SegmentRepeating(m) ==
    LET whole == m.buf \o m.rest
        end == SentenceEnd(whole)
    IN  IF end > 0
        THEN [send |-> Keep(whole, end), next |-> [m EXCEPT !.pc = "flush", !.rest = Past(whole, end), !.buf = <<>>]]
        ELSE [send |-> m.rest, next |-> [m EXCEPT !.pc = After(m), !.rest = <<>>, !.buf = whole]]

\* What is sent next, and where that leads: up to the end of the sentence and a
\* flush, or all there is.
Segment(m) ==
    LET whole == m.buf \o m.rest
        end == SentenceEnd(whole)
    IN  IF end > 0
        THEN [send |-> SubSeq(whole, Len(m.buf) + 1, end),
              next |-> [m EXCEPT !.pc = "flush", !.rest = Past(whole, end), !.buf = <<>>]]
        ELSE [send |-> m.rest, next |-> [m EXCEPT !.pc = After(m), !.rest = <<>>, !.buf = whole]]

\* send_text: a send that fails is repeated, by itself, on another connection.
SendText ==
    /\ At("segment")
    /\ LET segment == Segment(main)
       IN  \/ /\ \/ /\ wire' = wire \o segment.send
                    /\ UNCHANGED lost
                 \/ /\ wire' = segment.send
                    /\ lost' = lost \cup Range(wire)
              /\ owed' = owed \o segment.send
              /\ main' = segment.next
              /\ UNCHANGED <<transport, llmVars, spoken, fader, seq, out>>
           \/ Fail(1004)

Ask(piece) == spoken' = Append(spoken, [text |-> piece, sound |-> 0])

\* flush: one that fails is repeated with the whole utterance.
Flush ==
    /\ At("flush")
    /\ \/ /\ \/ Ask(wire) /\ UNCHANGED lost
             \/ Ask(owed) /\ lost' = lost \ Range(owed)
          /\ wire' = <<>> /\ owed' = <<>>
          /\ main' = [main EXCEPT !.pc = "listen"]
          /\ UNCHANGED <<transport, llmVars, fader, seq, out>>
       \/ Fail(IF main.tail THEN 1005 ELSE 1004)

\* HTTP: whole sentences are cut off the text.
Collect ==
    /\ At("text") /\ transport = "http"
    /\ Go([main EXCEPT !.pc = "split", !.buf = @ \o main.rest, !.rest = <<>>])

\* TtsSentenceBuffer::push
Enough(piece) == Cardinality(Letters(piece)) \geq MinChars

Split ==
    /\ At("split")
    /\ LET end == SentenceEnd(main.buf)
           sentence == Speech(Keep(main.buf, end))
           request == main.pending \o sentence
           cut == [main EXCEPT !.buf = Past(main.buf, end)]
       IN  \/ /\ end = 0
              /\ Go([main EXCEPT !.pc = After(main)])
           \/ /\ end > 0 /\ (sentence = <<>> \/ ~Enough(request))
              /\ Go([cut EXCEPT !.pending = request])
           \/ /\ end > 0 /\ sentence # <<>> /\ Enough(request)
              /\ Go([cut EXCEPT !.pc = "synthesize", !.rest = request, !.pending = <<>>])

\* A request for the tail that fails is forgotten.
Synthesize ==
    /\ At("synthesize")
    /\ \/ /\ Ask(main.rest)
          /\ main' = [main EXCEPT !.pc = "listen", !.rest = <<>>]
          /\ UNCHANGED <<transport, llmVars, wire, owed, lost, fader, seq, out>>
       \/ /\ ~main.tail
          /\ Fail(1004)
       \/ /\ main.tail
          /\ Go([main EXCEPT !.pc = "finish"])

----------------------------------------------------------------------------
(* Sound.                                                                  *)

\* The bytes that follow the first n of what was asked for last.
Bytes(n, length) == [i \in 1..length |-> [ask |-> Len(spoken), byte |-> n + i]]

\* The chunks of a sentence, fed one after the other.
Played(lengths) ==
    LET played[n \in 0..Len(lengths)] ==
            IF n = 0 THEN [fader |-> BeginSentence(fader), sent |-> <<>>, upto |-> 0]
            ELSE LET fed == Feed(played[n - 1].fader, Bytes(played[n - 1].upto, lengths[n]))
                 IN  [fader |-> fed.fader, sent |-> fed.sent, upto |-> played[n - 1].upto + lengths[n]]
    IN  [fader  |-> played[Len(lengths)].fader,
         pieces |-> [n \in 1..Len(lengths) |-> played[n].sent],
         length |-> played[Len(lengths)].upto]

\* Fault: each sentence is numbered from 1.
NumberedAnew(pieces) ==
    LET audible == Only(pieces, Range(pieces) \ {<<>>})
    IN  [i \in DOMAIN audible |-> [kind |-> "audio", seq |-> i, sound |-> audible[i]]]

\* emit_pcm!: empty pieces are not sent and not numbered.
Numbered(pieces) ==
    LET audible == Only(pieces, Range(pieces) \ {<<>>})
    IN  [i \in DOMAIN audible |-> [kind |-> "audio", seq |-> seq + i, sound |-> audible[i]]]

Emit(pieces, more) ==
    /\ out' = out \o Numbered(pieces) \o more
    /\ seq' = seq + Len(Numbered(pieces))

\* A sentence is heard to its end, or to where the stream of the tail breaks.
Listen ==
    /\ At("listen")
    /\ \E lengths \in Sounds :
           LET played == Played(lengths)
               ended == EndSentence(played.fader)
           IN  /\ fader' = ended.fader
               /\ Emit(Append(played.pieces, ended.sent), <<>>)
               /\ spoken' = [spoken EXCEPT ![Len(spoken)].sound = played.length]
    /\ main' = IF transport = "ws" \/ main.tail THEN Exhausted(main) ELSE [main EXCEPT !.pc = "split"]
    /\ UNCHANGED <<transport, llmVars, wire, owed, lost>>

\* Over a WebSocket the audio of the sentence is collected before any of it is
\* passed on.
ListenFails ==
    /\ At("listen") /\ (transport = "ws" \/ ~main.tail)
    /\ \E lengths \in IF transport = "ws" THEN {<<>>} ELSE Sounds :
           LET played == Played(lengths)
           IN  /\ fader' = played.fader
               /\ main' = [main EXCEPT !.pc = "over"]
               /\ Emit(played.pieces, <<Failure(IF transport = "ws" /\ ~main.tail THEN 1004 ELSE 1005)>>)
    /\ UNCHANGED <<transport, llmVars, ttsVars>>

----------------------------------------------------------------------------
(* The end.                                                                *)

\* What has no sentence end is spoken all the same.
SpeakTail ==
    /\ At("tail")
    /\ LET request == main.pending \o Speech(main.buf)
       IN  \/ /\ transport = "ws" /\ Strip(main.buf) # <<>>
              /\ Go([main EXCEPT !.pc = "flush", !.tail = TRUE])
           \/ /\ transport = "http" /\ request # <<>>
              /\ Go([main EXCEPT !.pc = "synthesize", !.tail = TRUE, !.rest = request, !.pending = <<>>])
           \/ /\ IF transport = "ws" THEN Strip(main.buf) = <<>> ELSE request = <<>>
              /\ Go([main EXCEPT !.pc = "finish"])

\* The end mark: an empty audio item, numbered like the others.
Finish ==
    /\ At("finish")
    /\ LET rest == Numbered(<<FinishFader(fader)>>)
           end == seq + Len(rest) + 1
       IN  /\ out' = out \o rest \o <<[kind |-> "last", seq |-> end]>>
           /\ seq' = end
    /\ fader' = [NewFader EXCEPT !.asserted = fader.asserted]
    /\ main' = [main EXCEPT !.pc = "over"]
    /\ UNCHANGED <<transport, llmVars, ttsVars>>

\* The consumer drops the stream where it awaits.
Drop ==
    /\ ~Over
    /\ main' = [main EXCEPT !.pc = "dropped"]
    /\ UNCHANGED <<transport, llmVars, ttsVars, fader, seq, out>>

ReaderStep == ReaderAsks \/ ReaderReads \/ ReaderEnds \/ ReaderSends

MainStep ==
    \/ Receive \/ ChannelCloses \/ CleanDelta \/ SendText \/ Flush \/ Collect \/ Split
    \/ Synthesize \/ Listen \/ ListenFails \/ SpeakTail \/ Finish

Next == ReaderStep \/ ReaderCancelled \/ MainStep \/ Drop

Spec == Init /\ [][Next]_vars

(* Tokio polls both tasks; every request to the LLM or the TTS is answered *)
(* or times out.                                                           *)
AnswerFairness == WF_vars(ReaderStep) /\ WF_vars(ReaderCancelled) /\ WF_vars(MainStep)

FairSpec == Spec /\ AnswerFairness

----------------------------------------------------------------------------
Given == Max({0} \cup {out[i].upto : i \in {j \in DOMAIN out : out[j].kind = "text"}})
SpokenText == FlattenSeq([i \in DOMAIN spoken |-> spoken[i].text])
Completed == out # <<>> /\ Last(out).kind = "last"

\* The letters of the answer are spoken in order and once, whatever deltas they
\* come in and whichever connection a retry moves to, and only after the
\* consumer was given them as text (llm_tts_items).
SpokenInOrder ==
    LET speech == SpokenText
        letters == Letters(speech)
    IN  /\ \A i, j \in letters : i < j => speech[i] < speech[j]
        /\ \A i \in letters : speech[i] \leq Given /\ speech[i] \notin lost

Missing(p) == IsKind(p, "letter") /\ p \notin Range(SpokenText) \cup lost

\* A failure on the way to an answer is reported: one that ends with the end mark
\* was spoken but for what went down with a connection whose send was repeated
\* (tts_ws.rs send_text). A request for the tail that fails over HTTP breaks it.
FailureReported == Completed => \A p \in 1..Given : ~Missing(p)

\* That request is the only text an answer with an end mark may lack: no cut into
\* deltas, no sentence too short to be sent alone, no retry and no end of the LLM
\* stream without is_final loses a letter (llm_tts_items).
NothingForgotten ==
    Completed => \A p \in 1..Given : Missing(p) => p \in Range(main.rest)

\* The consumer's protocol: audio is numbered without a gap, the end mark or a
\* failure comes last and once, text and audio never go backwards.
ItemsOrdered ==
    LET audio == {i \in DOMAIN out : out[i].kind \in {"audio", "last"}}
        texts == {i \in DOMAIN out : out[i].kind = "text"}
    IN  /\ {out[i].seq : i \in audio} = 1..seq
        /\ \A i, j \in audio : i < j => out[i].seq < out[j].seq
        /\ \A i \in DOMAIN out : out[i].kind \in {"last", "failed"} => i = Len(out) /\ At("over")
        /\ \A i, j \in texts : i < j => out[i].upto \leq out[j].upto

Sound(item) == IF item.kind = "audio" THEN item.sound ELSE <<>>
Heard == FlattenSeq([i \in DOMAIN out |-> Sound(out[i])])

\* Of the audio of each sentence the consumer gets the bytes in order and none
\* twice, alone or mixed; and all of them, and nothing else, when no sentence is
\* shorter than two fade regions (crossfade.rs).
SoundKept ==
    LET heard == Heard
        AllOf(ask) == {[ask |-> ask, byte |-> n] : n \in 1..spoken[ask].sound}
    IN  /\ \A i, j \in DOMAIN heard : \A b \in heard[i], c \in heard[j] : b.ask = c.ask =>
              /\ i < j => b.byte < c.byte
              /\ i = j => b = c
        /\ Completed /\ (\A ask \in DOMAIN spoken : spoken[ask].sound \geq 2 * Fade)
              => UNION Range(heard) = UNION {AllOf(ask) : ask \in DOMAIN spoken}

\* Whatever the channel holds and whoever waits for whom, a stream whose reader
\* has asked the LLM, or that was dropped before, comes to an end, and its
\* reader with it (LlmReaderGuard, spawn_llm_reader).
StreamEnds == <>[]((reader.pc # "asking" \/ Over) => (Over /\ reader.pc = "gone"))

\* crossfade.rs:89 asserts that the two sides it mixes are equally long.
MixedAlike == fader.asserted

=============================================================================
