---------------------------- MODULE ProviderHttp ----------------------------
(***************************************************************************)
(* One request to a provider over HTTP and what the caller is given of the *)
(* answer: the recogniser (client/asr.rs), the language model              *)
(* (client/llm.rs) and the synthesiser (client/tts.rs).                    *)
(*                                                                         *)
(* A streamed answer is a sequence of lines, and the network cuts its      *)
(* bytes where it likes.  Line i is the bytes <<i, 1>> and <<i, 2>> and an *)
(* end of line; that is enough to cut a line in two, or to end a chunk     *)
(* within, at or behind a line.  A line is a record:                       *)
(*   field  "data" with content, "mark" ([DONE], nothing, or no choice),   *)
(*          "junk" (no JSON), "event" (names what follows), "other"        *)
(*   said, final   of the model's data    name   of an event               *)
(*   sound         of the synthesiser's: "some", "none" or "bad" base64    *)
(***************************************************************************)
EXTENDS Integers, FiniteSets, SequencesExt

CONSTANT Answers   \* the streamed answers considered: [client, lines]

\* An answer has finitely many lines, and what the model says is text.
ASSUME AnswersAssumption ==
    \A a \in Answers :
        /\ Len(a.lines) \in Nat
        /\ a.client = "llm" =>
              \A i \in 1..Len(a.lines) :
                  a.lines[i].field = "data" =>
                      a.lines[i].said \in Seq(Range(a.lines[i].said)) /\ a.lines[i].final \in BOOLEAN

VARIABLES
    client,    \* who asks: "asr", "llm" or "tts"
    body,      \* the lines of the answer
    arrived,   \* its bytes that have arrived, of which
    wire,      \*   these are still to come
    state,     \* "asking", "reading", "over"
    parser     \* the stream the caller polls:
               \*   sse_buf   bytes that no line was cut from
               \*   filter    ThinkTagFilter of the model
               \*   name, seq event_name and seq of the synthesiser
               \*   events    what the caller was given
               \*   stop      "line": no more of this buffer, "all": return

httpVars == <<client, body, arrived, wire, state, parser>>

(***************************************************************************)
(* Lines.                                                                  *)
(***************************************************************************)
LF == <<0, 2>>
CR == <<0, 1>>

\* A byte of a line, or of its end.
ByteAt(k, i, eol) == IF k < 2 THEN <<i, k + 1>> ELSE eol[k - 1]

\* The bytes of an answer whose lines end with eol.
Sendable(lines, eol) ==
    LET n == Len(eol) + 2
    IN  [p \in 1..(Len(lines) * n) |-> ByteAt((p - 1) % n, (p - 1) \div n + 1, eol)]

\* What the bytes of a line say; bytes without its beginning are no field.
Line(bytes) ==
    IF Head(bytes)[2] = 1 /\ Head(bytes) # CR THEN body[Head(bytes)[1]] ELSE [field |-> "other"]

LineEnds(bytes) == {i \in DOMAIN bytes : bytes[i] = LF}

TakeLine(bytes) ==
    [line |-> Line(bytes), at |-> Head(bytes)[1],
     rest |-> SubSeq(bytes, Min(LineEnds(bytes)) + 1, Len(bytes))]

(***************************************************************************)
(* ThinkTagFilter, over letters; the tag think is written k.               *)
(***************************************************************************)
THINK_OPEN_TAG == <<"<", "k", ">">>
THINK_CLOSE_TAG == <<"<", "/", "k", ">">>
NewFilter == [pending |-> <<>>, in_think |-> FALSE]

TagsAt(text, tag) ==
    {i \in 1..(Len(text) - Len(tag) + 1) : SubSeq(text, i, i + Len(tag) - 1) = tag}

\* Fault: the beginning of a tag at the end of the text is not waited for.
HeldBackNothing(text, tag) == 0

\* matching_tag_prefix_suffix_len
HeldBack(text, tag) ==
    Max({n \in 0..(Len(tag) - 1) : n <= Len(text) /\ IsSuffix(SubSeq(tag, 1, n), text)})

\* One round of the loop of push().
Pass(f) ==
    LET tag  == IF f.in_think THEN THINK_CLOSE_TAG ELSE THINK_OPEN_TAG
        tags == TagsAt(f.pending, tag)
        upto == IF tags # {} THEN Min(tags) - 1 ELSE Len(f.pending) - HeldBack(f.pending, tag)
        past == IF tags # {} THEN upto + Len(tag) ELSE upto
    IN  [shown  |-> IF f.in_think THEN <<>> ELSE SubSeq(f.pending, 1, upto),
         filter |-> [pending  |-> SubSeq(f.pending, past + 1, Len(f.pending)),
                     in_think |-> f.in_think # (tags # {})],
         again  |-> tags # {}]

\* The next round, if the last found a tag.
PassOn(done) ==
    IF ~done.again THEN done
    ELSE LET pass == Pass(done.filter) IN [pass EXCEPT !.shown = done.shown \o @]

\* Each round but the last takes a tag away: a round per letter is enough.
Push(f, delta) ==
    LET before == [f EXCEPT !.pending = @ \o delta]
        done[k \in 0..Len(before.pending)] ==
            IF k = 0 THEN Pass(before) ELSE PassOn(done[k - 1])
    IN  done[Len(before.pending)]

\* push(), and finish() behind the last of the text.
Filtered(f, delta, final) ==
    LET pushed == Push(f, delta)
    IN  IF ~final THEN pushed
        ELSE [shown  |-> pushed.shown \o
                            (IF pushed.filter.in_think THEN <<>> ELSE pushed.filter.pending),
              filter |-> [pushed.filter EXCEPT !.pending = <<>>]]

(***************************************************************************)
(* What a line gives the caller.                                           *)
(***************************************************************************)
Failed(why) == [kind |-> "error", why |-> why]
Delta(text, final) == [kind |-> "delta", text |-> text, is_final |-> final]
Audio(data, n, last) == [kind |-> "audio", data |-> data, seq |-> n, is_last |-> last]

Give(p, event, stop) == [p EXCEPT !.events = Append(@, event), !.stop = stop]

ReadLlm(p, line) ==
    LET out == Filtered(p.filter, line.said, line.final)
        q   == [p EXCEPT !.filter = out.filter]
    IN  IF line.field = "junk" THEN Give(p, Failed("Decode"), "all")
        ELSE IF line.field # "data" THEN p
        ELSE IF out.shown = <<>> /\ ~line.final THEN q
        ELSE Give(q, Delta(out.shown, line.final), "no")

\* Fault: the counter stays where it is.
CountedNever(p) == p

Counted(p) == [p EXCEPT !.seq = @ + 1]

\* The name holds until another is given; without one the data is of the
\* older form, whose errors are passed over.
ReadTts(p, line, at) ==
    LET is(field) == line.field = field
        speaks == is("data") /\ p.name \in {"delta", ""} /\ line.sound = "some"
        fails  == \/ is("junk")
                  \/ is("data") /\ p.name = "error"
                  \/ is("data") /\ p.name = "delta" /\ line.sound = "bad"
        last   == p.name = "" /\ line.final
    IN  IF is("event") THEN [p EXCEPT !.name = line.name]
        ELSE IF fails THEN Give(p, Failed("Decode"), "line")
        ELSE IF is("data") /\ p.name = "done" THEN Give(p, Audio(<<>>, p.seq + 1, TRUE), "line")
        ELSE IF speaks THEN Give(Counted(p), Audio(<<at>>, p.seq + 1, last), IF last THEN "line" ELSE "no")
        ELSE p

\* The complete lines of the buffer, until one of them ends the reading.
ReadLine(q) ==
    IF q.stop # "no" \/ LineEnds(q.sse_buf) = {} THEN q
    ELSE LET taken == TakeLine(q.sse_buf)
             r == [q EXCEPT !.sse_buf = taken.rest]
         IN  IF client = "llm" THEN ReadLlm(r, taken.line) ELSE ReadTts(r, taken.line, taken.at)

\* There are fewer lines than bytes.
ReadLines(p) ==
    LET read[k \in 0..Len(p.sse_buf)] ==
            IF k = 0 THEN [p EXCEPT !.stop = "no"] ELSE ReadLine(read[k - 1])
    IN  read[Len(p.sse_buf)]

(***************************************************************************)
(* The request and its answer.                                             *)
(***************************************************************************)
NewParser ==
    [sse_buf |-> <<>>, filter |-> NewFilter, name |-> "", seq |-> 0, events |-> <<>>, stop |-> "no"]

InitHttp ==
    /\ \E a \in Answers : client = a.client /\ body = a.lines
    /\ arrived = <<>> /\ wire = <<>>
    /\ state = "asking"
    /\ parser = NewParser

\* The request ends with one event: an error, or all of an answer that is
\* not streamed.
Conclude(event) ==
    /\ state' = "over"
    /\ parser' = [parser EXCEPT !.events = Append(@, event)]
    /\ UNCHANGED <<client, body, arrived, wire>>

\* The connection, or the body of a good answer that is not streamed, fails.
FailToSend == state = "asking" /\ Conclude(Failed("Http"))

\* Only a body that is read and is an envelope tells more than a status.
parse_openai_error(readable, envelope) ==
    Failed(IF readable /\ envelope THEN "Api" ELSE "Status")

Refuse ==
    /\ state = "asking"
    /\ \E readable, envelope \in BOOLEAN : Conclude(parse_openai_error(readable, envelope))

StartStream ==
    /\ state = "asking" /\ client \in {"llm", "tts"}
    /\ state' = "reading"
    /\ \E eol \in {<<LF>>, <<CR, LF>>} : wire' = Sendable(body, eol)
    /\ UNCHANGED <<client, body, arrived, parser>>

\* What a line says.
Text(line) == IF line.field = "data" THEN line.said ELSE <<>>

\* The text of the first choice, all of it at once.
parse_non_stream_response(said, json, choices) ==
    IF json /\ choices THEN Delta(Filtered(NewFilter, said, TRUE).shown, TRUE) ELSE Failed("Decode")

AnswerWholeText ==
    /\ state = "asking" /\ client = "llm"
    /\ LET said == [i \in DOMAIN body |-> Text(body[i])]
       IN  \E json, choices \in BOOLEAN :
              Conclude(parse_non_stream_response(FlattenSeq(said), json, choices))

\* One piece of audio, whatever its length.
AnswerWholeAudio ==
    /\ state = "asking" /\ client = "tts"
    /\ Conclude(Audio([i \in DOMAIN body |-> i], 1, TRUE))

\* Only "text" needs no JSON, and a format of another name is sent to the
\* provider but not understood.
extract_text(response_format, json) ==
    IF response_format = "text" \/ (json /\ response_format \in {"json", "verbose_json"})
    THEN [kind |-> "text", is_final |-> TRUE]
    ELSE Failed("Decode")

AnswerTranscript ==
    /\ state = "asking" /\ client = "asr"
    /\ \E response_format \in {"text", "json", "verbose_json", "srt"}, json \in BOOLEAN :
          Conclude(extract_text(response_format, json))

Chunk ==
    /\ state = "reading"
    /\ \E n \in 1..Len(wire) :
          LET chunk == SubSeq(wire, 1, n)
              read  == ReadLines([parser EXCEPT !.sse_buf = @ \o chunk])
          IN  /\ arrived' = arrived \o chunk
              /\ wire' = SubSeq(wire, n + 1, Len(wire))
              /\ parser' = read
              /\ state' = IF read.stop = "all" THEN "over" ELSE "reading"
    /\ UNCHANGED <<client, body>>

BreakStream == state = "reading" /\ Conclude(Failed("Http"))

\* Closed by the provider, wherever it was: what is in sse_buf and in the
\* filter is not looked at.
EndStream ==
    /\ state = "reading"
    /\ state' = "over"
    /\ UNCHANGED <<client, body, arrived, wire, parser>>

NextHttp ==
    \/ FailToSend \/ Refuse
    \/ StartStream \/ AnswerWholeText \/ AnswerWholeAudio \/ AnswerTranscript
    \/ Chunk \/ BreakStream \/ EndStream

(***************************************************************************)
(* Properties.                                                             *)
(***************************************************************************)
\* The text ends behind a line.
EndsText(line) == line.field = "junk" \/ (line.field = "data" /\ line.final)

\* What an event shows of the text, and whether it is said to be the last.
Shown(event) == IF event.kind = "delta" THEN event.text ELSE <<>>

IsLast(event) == event.kind = "delta" /\ event.is_final

\* A letter is thought when a tag was opened before it that was not closed
\* before it.
Thought(text, p) ==
    \E o \in TagsAt(text, THINK_OPEN_TAG) :
        /\ o + 2 < p
        /\ ~\E c \in TagsAt(text, THINK_CLOSE_TAG) : o < c /\ c + 3 < p

Opens(text, p) == \E o \in TagsAt(text, THINK_OPEN_TAG) : p \in o..(o + 2)

\* What of a text is not thought.
Spoken(text) ==
    FlattenSeq([p \in DOMAIN text |->
                    IF Thought(text, p) \/ Opens(text, p) THEN <<>> ELSE <<text[p]>>])

\* The text of a streamed answer, up to its first end, is given as the model
\* said it without its thoughts, wherever the network cuts it: no letter of a
\* thought or of its tags is given, none is lost or given twice.  What is not
\* given yet may be the beginning of a tag; behind the end nothing is missing.
SeenAsSaid ==
    client = "llm" /\ arrived # <<>> =>
        LET whole  == Cardinality(LineEnds(arrived))
            last   == Min({i \in 1..whole : EndsText(body[i])} \union {whole})
            said   == Spoken(FlattenSeq([i \in 1..last |-> Text(body[i])]))
            finals == {e \in DOMAIN parser.events : IsLast(parser.events[e])}
            upto   == Min(finals \union {Len(parser.events)})
            given  == FlattenSeq([e \in 1..upto |-> Shown(parser.events[e])])
        IN  /\ IsPrefix(given, said)
            /\ Len(said) - Len(given) < Len(THINK_OPEN_TAG)
            /\ finals # {} => given = said

\* The event that names line i of the answer of the synthesiser.
NameOf(i) ==
    LET named == {j \in 1..(i - 1) : body[j].field = "event"}
    IN  IF named = {} THEN "" ELSE body[Max(named)].name

EndsSpeech(i) ==
    \/ body[i].field = "junk"
    \/ /\ body[i].field = "data"
       /\ \/ NameOf(i) \in {"done", "error"}
          \/ NameOf(i) = "delta" /\ body[i].sound = "bad"
          \/ NameOf(i) = "" /\ body[i].sound = "some" /\ body[i].final

Speaks(i) == body[i].field = "data" /\ NameOf(i) \in {"", "delta"} /\ body[i].sound = "some"

\* The audio of a streamed answer is given in order, each piece once and
\* numbered from 1, wherever the network cuts it; and up to the first end all
\* of it is given that has arrived.
HeardAsSaid ==
    client = "tts" /\ arrived # <<>> =>
        LET whole  == Cardinality(LineEnds(arrived))
            before(i) == ~\E e \in 1..(i - 1) : EndsSpeech(e)
            pieces == {e \in DOMAIN parser.events : /\ parser.events[e].kind = "audio"
                                                   /\ parser.events[e].data # <<>>}
            Of(e)  == parser.events[e].data[1]
        IN  /\ \A e \in pieces :
                  /\ parser.events[e].data = <<Of(e)>> /\ Of(e) \in 1..whole /\ Speaks(Of(e))
                  /\ parser.events[e].seq = Cardinality({i \in 1..Of(e) : Speaks(i)})
            /\ \A e, f \in pieces : e < f => Of(e) < Of(f)
            /\ \A i \in 1..whole : before(i) /\ Speaks(i) => \E e \in pieces : Of(e) = i

=============================================================================
