----------------------------- MODULE HttpProofs -----------------------------
(***************************************************************************)
(* Proofs about what the server says over HTTP.  About its own endpoints   *)
(* (AdminApi): whatever is posted and whatever the providers answer, a     *)
(* stream of audio is numbered without a gap and has one ending, and the   *)
(* model is asked with what the recogniser meant (AsrText).  About         *)
(* its calls of providers (VoiceConfig): however the server is configured, *)
(* a call is made as the nearest source says.  About a streamed answer     *)
(* (ProviderHttp), wherever the network cuts it: each piece of the         *)
(* synthesiser's audio is given once, in order and numbered, and the       *)
(* model's text is given as it was said, without its thoughts.             *)
(***************************************************************************)
EXTENDS AdminApi, VoiceConfig, ProviderHttp, CrossfadeLemmas, SequenceTheorems, FiniteSetTheorems

SpecAdmin == InitAdmin /\ [][NextAdmin]_adminVars

(* The lines sent.                                                          *)

IsTts(line) == line.kind = "tts"

\* The audio among o is numbered from 1 to q, in order.
AudioUpTo(o, q) ==
    /\ q \in Nat
    /\ \A i \in 1..Len(o) : IsTts(o[i]) => o[i].seq \in 1..q
    /\ \A k \in 1..q : \E i \in 1..Len(o) : IsTts(o[i]) /\ o[i].seq = k
    /\ \A i, j \in 1..Len(o) : IsTts(o[i]) /\ IsTts(o[j]) /\ i < j => o[i].seq < o[j].seq

\* No line of o is an ending.
Unended(o) == \A i \in 1..Len(o) : ~Ends(o[i])

\* The last line of o is one, and no other.
Ended(o) ==
    /\ Len(o) \in 1..Len(o) /\ Ends(o[Len(o)])
    /\ \A i \in 1..Len(o) : Ends(o[i]) => i = Len(o)

\* Where the handler of each endpoint may be.
Places ==
    /\ pc = "events" => endpoint \in {"asr", "llm"}
    /\ pc \in {"split", "ask", "listen", "finish"} => endpoint = "tts"
    /\ pc = "recognise" => endpoint = "asr_llm_tts"
    /\ pc = "items" => endpoint \in {"llm_tts", "asr_llm_tts"}

\* Before the response there is no line.
Unanswered == pc = "received" => lines = <<>>

LinesHave ==
    /\ \E D : lines \in Seq(D)
    /\ AudioUpTo(lines, audio_seq)
    /\ pc # "over" => Unended(lines)
    /\ pc = "over" => Unended(lines) \/ Ended(lines)
    /\ pc = "over" /\ status = 200 /\ endpoint \in {"tts", "llm_tts", "asr_llm_tts"} => Ended(lines)

(* The sentences of /admin/tts.                                             *)

SpeechTypes ==
    /\ script \in Seq(Nat) /\ speech.next \in 1..Len(script)
    /\ speech \in [next : Nat, pending : Seq(Nat), request : Seq(Nat), tail : BOOLEAN, asked : SUBSET Nat]

\* The sentences that were cut off the text.
Before(s) == s < speech.next \/ (s = speech.next /\ speech.tail)

\* Each of them was asked for, waits, or is part of a request.
SpeechHas ==
    /\ pc \in {"received", "split", "ask", "listen", "finish"} =>
          \A s \in DOMAIN script : Before(s) /\ script[s] > 0 =>
              s \in speech.asked \union Range(speech.request) \union Range(speech.pending)
    /\ pc \in {"received", "split", "listen"} => Range(speech.request) \subseteq speech.asked
    /\ pc = "finish" => speech.tail
    /\ pc \in {"received", "split"} => ~speech.tail
    /\ speech.tail => speech.next = Len(script) /\ speech.pending = <<>>
    /\ pc = "over" /\ lines # <<>> /\ IsTts(Last(lines)) =>
          \A s \in DOMAIN script :
              script[s] > 0 => s \in speech.asked \union Range(speech.request)

AdminInv ==
    /\ Places /\ Unanswered /\ LinesHave
    /\ endpoint = "tts" => SpeechTypes /\ SpeechHas

-----------------------------------------------------------------------------
(* What a line more does.                                                   *)

LEMMA AddLine ==
    ASSUME NEW D, NEW o \in Seq(D), NEW q, NEW x, AudioUpTo(o, q), Unended(o)
    PROVE  /\ Append(o, x) = o \o <<x>> /\ \E E : Append(o, x) \in Seq(E)
           /\ Append(o, x) # <<>> /\ Last(Append(o, x)) = x
           /\ ~IsTts(x) => AudioUpTo(Append(o, x), q)
           /\ IsTts(x) /\ x.seq = q + 1 => AudioUpTo(Append(o, x), q + 1)
           /\ Ends(x) => Ended(Append(o, x))
           /\ ~Ends(x) => Unended(Append(o, x))
<1> DEFINE p == Append(o, x)
           n == Len(o)
<1>1. o \in Seq(D \cup {x}) /\ x \in D \cup {x}
  BY SeqMonotonic
<1>2. /\ p \in Seq(D \cup {x}) /\ n \in Nat /\ Len(p) = n + 1 /\ p[n + 1] = x /\ p = o \o <<x>> /\ p # <<>>
      /\ \A i \in 1..n : p[i] = o[i]
  <2>1. p \in Seq(D \cup {x}) /\ n \in Nat /\ Len(p) = n + 1 /\ p[n + 1] = x
    BY <1>1
  <2>2. p = o \o <<x>>
    BY <1>1
  <2>3. \A i \in 1..n : p[i] = o[i]
    BY <1>1
  <2>4. p # <<>>
    <3>1. Len(p) # 0
      BY <2>1
    <3> HIDE DEF p
    <3> QED BY <2>1, <3>1
  <2> QED BY <2>1, <2>2, <2>3, <2>4
<1>3. Last(p) = x
  BY <1>2 DEF Last
<1> HIDE DEF p, n
<1>4. \A i \in 1..(n + 1) : i \in 1..n \/ i = n + 1
  BY <1>2
<1>5. \A i \in 1..n : i \in 1..(n + 1) /\ ~(n + 1 < i)
  BY <1>2
<1>o. /\ q \in Nat
      /\ \A i \in 1..n : IsTts(o[i]) => o[i].seq \in 1..q
      /\ \A k \in 1..q : \E i \in 1..n : IsTts(o[i]) /\ o[i].seq = k
      /\ \A i, j \in 1..n : IsTts(o[i]) /\ IsTts(o[j]) /\ i < j => o[i].seq < o[j].seq
  BY DEF AudioUpTo, n
<1>6. ASSUME ~IsTts(x) PROVE AudioUpTo(p, q)
  <2>1. \A i \in 1..Len(p) : IsTts(p[i]) => i \in 1..n /\ p[i] = o[i]
    BY <1>2, <1>4, <1>6
  <2>2. \A k \in 1..q : \E i \in 1..Len(p) : IsTts(p[i]) /\ p[i].seq = k
    BY <1>2, <1>5, <1>o
  <2> QED BY <1>o, <2>1, <2>2 DEF AudioUpTo
<1>7. ASSUME IsTts(x), x.seq = q + 1 PROVE AudioUpTo(p, q + 1)
  <2>1. ASSUME NEW i \in 1..Len(p), IsTts(p[i]) PROVE p[i].seq \in 1..(q + 1)
    BY <1>2, <1>4, <1>7, <1>o, <2>1
  <2>2. ASSUME NEW k \in 1..(q + 1) PROVE \E i \in 1..Len(p) : IsTts(p[i]) /\ p[i].seq = k
    <3>1. CASE k = q + 1
      <4>1. n + 1 \in 1..Len(p)
        BY <1>2
      <4> QED BY <1>2, <1>7, <3>1, <4>1
    <3>2. CASE k # q + 1
      <4>1. k \in 1..q
        BY <1>o, <3>2
      <4> QED BY <1>2, <1>5, <1>o, <4>1
    <3> QED BY <3>1, <3>2
  <2>3. ASSUME NEW i \in 1..Len(p), NEW j \in 1..Len(p), IsTts(p[i]), IsTts(p[j]), i < j
        PROVE  p[i].seq < p[j].seq
    <3>1. i \in 1..n /\ p[i] = o[i]
      BY <1>2, <1>4, <2>3
    <3>2. CASE j \in 1..n
      BY <1>2, <1>o, <2>3, <3>1, <3>2
    <3>3. CASE j = n + 1
      <4>1. p[i].seq \in 1..q
        BY <1>o, <2>3, <3>1
      <4>2. p[j].seq = q + 1
        BY <1>2, <1>7, <3>3
      <4> QED BY <1>o, <4>1, <4>2
    <3> QED BY <1>2, <1>4, <3>2, <3>3
  <2> QED BY <1>o, <2>1, <2>2, <2>3 DEF AudioUpTo
<1>8. ASSUME Ends(x) PROVE Ended(p)
  <2>1. Len(p) \in 1..Len(p) /\ p[Len(p)] = x
    BY <1>2
  <2>2. \A i \in 1..Len(p) : Ends(p[i]) => i = Len(p)
    BY <1>2, <1>4 DEF Unended, n
  <2> QED BY <1>8, <2>1, <2>2 DEF Ended
<1>9. ASSUME ~Ends(x) PROVE Unended(p)
  BY <1>2, <1>4, <1>9 DEF Unended, n
<1> QED BY <1>2, <1>3, <1>6, <1>7, <1>8, <1>9 DEF p

LEMMA AddAudio ==
    ASSUME NEW D, NEW o \in Seq(D), NEW q, AudioUpTo(o, q), Unended(o),
           NEW E, NEW more \in Seq(E),
           \A k \in 1..Len(more) : IsTts(more[k]) /\ more[k].seq = q + k /\ ~Ends(more[k])
    PROVE  /\ o \o more \in Seq(D \cup E)
           /\ AudioUpTo(o \o more, q + Len(more)) /\ Unended(o \o more)
<1> DEFINE p == o \o more
           n == Len(o)
           m == Len(more)
<1>1. o \in Seq(D \cup E) /\ more \in Seq(D \cup E)
  BY SeqMonotonic
<1>2. /\ p \in Seq(D \cup E) /\ n \in Nat /\ m \in Nat /\ Len(p) = n + m
      /\ \A i \in 1..n : p[i] = o[i]
      /\ \A i \in 1..(n + m) : i \notin 1..n => i - n \in 1..m /\ p[i] = more[i - n]
  BY <1>1, ConcatIs
<1> HIDE DEF p, n, m
<1>o. /\ q \in Nat
      /\ \A i \in 1..n : IsTts(o[i]) => o[i].seq \in 1..q
      /\ \A k \in 1..q : \E i \in 1..n : IsTts(o[i]) /\ o[i].seq = k
      /\ \A i, j \in 1..n : IsTts(o[i]) /\ IsTts(o[j]) /\ i < j => o[i].seq < o[j].seq
  BY DEF AudioUpTo, n
<1>3. \A i \in 1..(n + m) : i \notin 1..n => IsTts(p[i]) /\ p[i].seq = q + (i - n) /\ ~Ends(p[i])
  BY <1>2 DEF m
<1>4. ASSUME NEW i \in 1..Len(p), IsTts(p[i]) PROVE p[i].seq \in 1..(q + m)
  <2>1. CASE i \in 1..n
    <3>1. p[i].seq \in 1..q
      BY <1>2, <1>4, <1>o, <2>1
    <3> QED BY <1>2, <1>o, <3>1
  <2>2. CASE i \notin 1..n
    BY <1>2, <1>3, <1>o, <2>2
  <2> QED BY <2>1, <2>2
<1>5. ASSUME NEW k \in 1..(q + m) PROVE \E i \in 1..Len(p) : IsTts(p[i]) /\ p[i].seq = k
  <2>1. CASE k \in 1..q
    <3>1. PICK i \in 1..n : IsTts(o[i]) /\ o[i].seq = k
      BY <1>o, <2>1
    <3>2. i \in 1..Len(p)
      BY <1>2
    <3> QED BY <1>2, <3>1, <3>2
  <2>2. CASE k \notin 1..q
    <3>1. (n + (k - q)) \in 1..(n + m) /\ (n + (k - q)) \notin 1..n /\ k = q + ((n + (k - q)) - n)
      BY <1>2, <1>o, <2>2
    <3> QED BY <1>2, <1>3, <3>1
  <2> QED BY <2>1, <2>2
<1>6. ASSUME NEW i \in 1..Len(p), NEW j \in 1..Len(p), IsTts(p[i]), IsTts(p[j]), i < j
      PROVE  p[i].seq < p[j].seq
  <2>1. CASE j \in 1..n
    <3>1. i \in 1..n
      BY <1>2, <1>6, <2>1
    <3> QED BY <1>2, <1>6, <1>o, <2>1, <3>1
  <2>2. CASE i \in 1..n /\ j \notin 1..n
    <3>1. p[i].seq \in 1..q
      BY <1>2, <1>6, <1>o, <2>2
    <3>2. p[j].seq = q + (j - n) /\ j - n \in Nat /\ j - n > 0
      BY <1>2, <1>3, <2>2
    <3> QED BY <1>o, <3>1, <3>2
  <2>3. CASE i \notin 1..n /\ j \notin 1..n
    <3>1. p[i].seq = q + (i - n) /\ p[j].seq = q + (j - n)
      BY <1>2, <1>3, <2>3
    <3> QED BY <1>2, <1>6, <1>o, <3>1
  <2> QED BY <1>2, <1>6, <2>1, <2>2, <2>3
<1>7. Unended(p)
  BY <1>2, <1>3 DEF Unended, n
<1>8. AudioUpTo(p, q + m)
  BY <1>2, <1>4, <1>5, <1>6, <1>o DEF AudioUpTo
<1> QED BY <1>2, <1>7, <1>8 DEF p, m

LEMMA ErrorEnds == \A code : Ends(ErrorLine(code)) /\ ~IsTts(ErrorLine(code))
BY DEF Ends, ErrorLine, IsTts

LEMMA OtherLine == \A x : x.kind \notin {"tts", "error"} => ~IsTts(x) /\ ~Ends(x)
BY DEF Ends, IsTts

LEMMA TtsLine ==
    ASSUME NEW n, NEW x, NEW last \in BOOLEAN, x = [kind |-> "tts", seq |-> n, is_last |-> last]
    PROVE  IsTts(x) /\ x.seq = n /\ (Ends(x) <=> last)
<1>1. x.kind = "tts" /\ x.seq = n /\ x.is_last = last
  OBVIOUS
<1>2. "tts" # "error"
  OBVIOUS
<1> QED BY <1>1, <1>2, Zenon DEF Ends, IsTts

LEMMA AudioLinesAre ==
    ASSUME audio_seq \in Nat, NEW E, NEW pieces \in Seq(E)
    PROVE  /\ AudioLines(pieces) \in Seq([kind : {"tts"}, seq : Nat, is_last : {FALSE}])
           /\ \A k \in 1..Len(AudioLines(pieces)) :
                 /\ IsTts(AudioLines(pieces)[k]) /\ AudioLines(pieces)[k].seq = audio_seq + k
                 /\ ~Ends(AudioLines(pieces)[k])
<1> DEFINE audible == Only(pieces, Range(pieces) \ {<<>>})
           items == [i \in DOMAIN audible |-> [kind |-> "tts", seq |-> audio_seq + i, is_last |-> FALSE]]
           S == [kind : {"tts"}, seq : Nat, is_last : {FALSE}]
<1>1. audible \in Seq(E)
  BY OnlyIs
<1>2. AudioLines(pieces) = items
  BY DEF AudioLines
<1> HIDE DEF audible
<1>3. Len(audible) \in Nat /\ DOMAIN audible = 1..Len(audible)
  BY <1>1
<1>4. items \in Seq(S) /\ Len(items) = Len(audible)
  BY <1>3
<1>5. ASSUME NEW k \in 1..Len(items)
      PROVE  IsTts(items[k]) /\ items[k].seq = audio_seq + k /\ ~Ends(items[k])
  <2> DEFINE x == items[k]
             n == audio_seq + k
  <2>1. x = [kind |-> "tts", seq |-> n, is_last |-> FALSE] /\ FALSE \in BOOLEAN
    BY <1>3, <1>4
  <2> HIDE DEF x, n
  <2>2. IsTts(x) /\ x.seq = n /\ ~Ends(x)
    BY <2>1, TtsLine
  <2> QED BY <2>2 DEF x, n
<1> HIDE DEF items
<1> QED BY <1>2, <1>4, <1>5

LEMMA HeardPieces ==
    ASSUME NEW lengths \in Seq(Nat)
    PROVE  \E E : Heard1(lengths).pieces \in Seq(E)
<1> DEFINE g == CHOOSE h : h = [n \in 0..Len(lengths) |->
                                   IF n = 0 THEN [fader |-> audio, sent |-> <<>>]
                                   ELSE Feed(h[n - 1].fader, [i \in 1..lengths[n] |-> i])]
<1>1. Heard1(lengths) = [fader  |-> g[Len(lengths)].fader,
                         pieces |-> [n \in 1..Len(lengths) |-> g[n].sent]]
  BY DEF Heard1
<1> HIDE DEF g
<1> DEFINE N == Len(lengths)
           E == {g[n].sent : n \in 1..N}
           p == [n \in 1..N |-> g[n].sent]
<1>2. N \in Nat /\ Heard1(lengths).pieces = p
  BY <1>1
<1>3. \A n \in 1..N : g[n].sent \in E
  OBVIOUS
<1> HIDE DEF E, N
<1>4. p \in Seq(E)
  BY <1>2, <1>3
<1> QED BY <1>2, <1>4

-----------------------------------------------------------------------------
(* The steps.                                                               *)

LEMMA PlacesStep ==
    ASSUME Places, NextAdmin
    PROVE  Places'
<1>1. CASE Accept
  <2>1. endpoint' = endpoint /\ endpoint \in Streams
    BY <1>1 DEF Accept, Respond, Inputs
  <2>2. /\ endpoint = "tts" => pc' = "split"
        /\ endpoint = "asr_llm_tts" => pc' = "recognise"
        /\ endpoint = "llm_tts" => pc' = "items"
        /\ endpoint \in {"asr", "llm"} => pc' = "events"
    BY <1>1 DEF Accept
  <2> QED BY <2>1, <2>2 DEF Places, Streams
<1>2. CASE RejectAudio \/ RefuseCall \/ ListVoices \/ TtsFormat \/ FailEvents \/ EndEvents \/ FinishTts
           \/ FailRecognise \/ FailItems \/ Leave
  <2>1. pc' \in {"over", "left"}
    BY <1>2 DEF RejectAudio, RefuseCall, ListVoices, TtsFormat, FailEvents, EndEvents, FinishTts,
                FailRecognise, FailItems, Leave, Close
  <2> QED BY <2>1 DEF Places
<1>3. CASE PassEvent \/ Recognise \/ PassText
  BY <1>3 DEF PassEvent, Recognise, PassText, Inputs, Places
<1>4. CASE SplitScript \/ SplitTail \/ AskTts \/ AskTtsFails \/ ListenTts
  <2>1. endpoint' = endpoint /\ endpoint = "tts"
    BY <1>4 DEF SplitScript, SplitTail, AskTts, AskTtsFails, ListenTts, Inputs, Places
  <2>2. pc' \in {"split", "ask", "listen", "finish", "over"}
    BY <1>4 DEF SplitScript, SplitTail, AskTts, AskTtsFails, ListenTts
  <2> QED BY <2>1, <2>2 DEF Places
<1>5. CASE EndRecognise
  BY <1>5 DEF EndRecognise, Close, Inputs, Places
<1>6. CASE PassAudio
  <2>1. endpoint' = endpoint /\ endpoint \in {"llm_tts", "asr_llm_tts"} /\ pc' \in {"over", "items"}
    BY <1>6 DEF PassAudio, Inputs, Places
  <2> QED BY <2>1 DEF Places
<1> QED BY <1>1, <1>2, <1>3, <1>4, <1>5, <1>6 DEF NextAdmin

\* Every line but the first is sent in one of these ways.
Synthesises == endpoint \in {"tts", "llm_tts", "asr_llm_tts"}

LEMMA LinesStay ==
    ASSUME LinesHave, pc # "over", UNCHANGED <<lines, audio_seq>>,
           pc' = "over" => ~(status' = 200 /\ Synthesises')
    PROVE  LinesHave'
BY DEF LinesHave, AudioUpTo, Unended, Synthesises

LEMMA LinesMore ==
    ASSUME LinesHave, pc # "over", NEW x, lines' = Append(lines, x),
           \/ ~IsTts(x) /\ audio_seq' = audio_seq
           \/ IsTts(x) /\ x.seq = audio_seq + 1 /\ audio_seq' = audio_seq + 1,
           Ends(x) => pc' = "over",
           pc' = "over" => Ends(x)
    PROVE  LinesHave'
<1>1. AudioUpTo(lines, audio_seq) /\ Unended(lines)
  BY DEF LinesHave
<1>2. PICK D : lines \in Seq(D)
  BY DEF LinesHave
<1>3. /\ \E E : Append(lines, x) \in Seq(E)
      /\ ~IsTts(x) => AudioUpTo(Append(lines, x), audio_seq)
      /\ IsTts(x) /\ x.seq = audio_seq + 1 => AudioUpTo(Append(lines, x), audio_seq + 1)
      /\ Ends(x) => Ended(Append(lines, x))
      /\ ~Ends(x) => Unended(Append(lines, x))
  BY <1>1, <1>2, AddLine
<1>4. AudioUpTo(lines', audio_seq')
  BY <1>3
<1>5. (\E E : lines' \in Seq(E)) /\ (pc' = "over" => Ended(lines')) /\ (pc' # "over" => Unended(lines'))
  BY <1>3
<1> QED BY <1>4, <1>5 DEF LinesHave

\* The pieces of a sentence, and perhaps a line after them.
LEMMA LinesSound ==
    ASSUME LinesHave, pc # "over", NEW E, NEW pieces \in Seq(E)
    PROVE  LET N == AudioLines(pieces)
               o == lines \o N
           IN  /\ Len(N) \in Nat /\ audio_seq \in Nat
               /\ \E D : o \in Seq(D)
               /\ AudioUpTo(o, audio_seq + Len(N)) /\ Unended(o)
<1> DEFINE N == AudioLines(pieces)
           S == [kind : {"tts"}, seq : Nat, is_last : {FALSE}]
<1>1. AudioUpTo(lines, audio_seq) /\ Unended(lines) /\ audio_seq \in Nat
  BY DEF LinesHave, AudioUpTo
<1>2. PICK D : lines \in Seq(D)
  BY DEF LinesHave
<1>3. /\ N \in Seq(S)
      /\ \A k \in 1..Len(N) : IsTts(N[k]) /\ N[k].seq = audio_seq + k /\ ~Ends(N[k])
  BY <1>1, AudioLinesAre
<1> HIDE DEF N, S
<1>4. /\ lines \o N \in Seq(D \cup S)
      /\ AudioUpTo(lines \o N, audio_seq + Len(N)) /\ Unended(lines \o N)
  BY <1>1, <1>2, <1>3, AddAudio
<1>5. Len(N) \in Nat
  BY <1>3
<1> QED BY <1>1, <1>4, <1>5 DEF N

LEMMA ListenLines ==
    ASSUME LinesHave, ListenTts
    PROVE  /\ LinesHave'
           /\ pc' = "over" => lines' # <<>> /\ ~IsTts(Last(lines'))
<1>1. PICK lengths \in Sounds, broken \in BOOLEAN :
         LET fed   == Heard1(lengths)
             ended == EndSentence(fed.fader)
             fatal == broken /\ ~speech.tail
             sent  == AudioLines(IF fatal THEN fed.pieces ELSE Append(fed.pieces, ended.sent))
         IN  /\ lines' = lines \o sent \o (IF fatal THEN <<ErrorLine(1103)>> ELSE <<>>)
             /\ audio_seq' = audio_seq + Len(sent)
             /\ pc' = IF fatal THEN "over" ELSE IF speech.tail THEN "finish" ELSE "split"
  BY SMTT(40) DEF ListenTts
<1> DEFINE fed   == Heard1(lengths)
           fatal == broken /\ ~speech.tail
           more  == EndSentence(fed.fader).sent
           pieces == IF fatal THEN fed.pieces ELSE Append(fed.pieces, more)
           N == AudioLines(pieces)
           o == lines \o N
           f == ErrorLine(1103)
<1>2. PICK E : fed.pieces \in Seq(E)
  BY HeardPieces, SentencesAssumption
<1> HIDE DEF fed, more
<1>3. pieces \in Seq(E \cup {more})
  <2>1. fed.pieces \in Seq(E \cup {more})
    BY <1>2, SeqMonotonic
  <2>2. Append(fed.pieces, more) \in Seq(E \cup {more})
    BY <2>1
  <2> QED BY <2>1, <2>2
<1>4. /\ lines' = o \o (IF fatal THEN <<f>> ELSE <<>>)
      /\ audio_seq' = audio_seq + Len(N)
      /\ pc' = IF fatal THEN "over" ELSE IF speech.tail THEN "finish" ELSE "split"
  BY <1>1 DEF fed, more
<1> HIDE DEF pieces
<1>5. pc # "over"
  BY DEF ListenTts
<1>6. /\ \E D : o \in Seq(D)
      /\ AudioUpTo(o, audio_seq + Len(N)) /\ Unended(o)
  BY <1>3, <1>5, LinesSound
<1>7. PICK D : o \in Seq(D)
  BY <1>6
<1> HIDE DEF fatal, N, o, f
<1>8. CASE fatal
  <2>1. lines' = o \o <<f>> /\ pc' = "over"
    BY <1>4, <1>8
  <2>2. Ends(f) /\ ~IsTts(f)
    BY ErrorEnds DEF f
  <2>3. /\ Append(o, f) = o \o <<f>> /\ \E F : Append(o, f) \in Seq(F)
        /\ AudioUpTo(Append(o, f), audio_seq + Len(N)) /\ Ended(Append(o, f))
        /\ Append(o, f) # <<>> /\ Last(Append(o, f)) = f
    BY <1>6, <1>7, <2>2, AddLine
  <2>4. (\E F : lines' \in Seq(F)) /\ AudioUpTo(lines', audio_seq') /\ Ended(lines')
    BY <1>4, <2>1, <2>3
  <2> QED BY <2>1, <2>2, <2>3, <2>4 DEF LinesHave
<1>9. CASE ~fatal
  <2>1. lines' = o /\ pc' # "over"
    <3>1. o \o <<>> = o
      BY <1>7
    <3> QED BY <1>4, <1>9, <3>1
  <2>2. (\E F : lines' \in Seq(F)) /\ AudioUpTo(lines', audio_seq') /\ Unended(lines')
    BY <1>4, <1>6, <2>1
  <2> QED BY <2>1, <2>2 DEF LinesHave
<1> QED BY <1>8, <1>9

LEMMA FinishLines ==
    ASSUME LinesHave, FinishTts
    PROVE  LinesHave'
<1> DEFINE more == FinishFader(audio)
           pieces == <<more>>
           N == AudioLines(pieces)
           o == lines \o N
           end == audio_seq + Len(N) + 1
           e == [kind |-> "tts", seq |-> end, is_last |-> TRUE]
<1>1. lines' = o \o <<e>> /\ audio_seq' = end /\ pc' = "over" /\ pc # "over"
  BY DEF FinishTts
<1>2. pieces \in Seq({more})
  OBVIOUS
<1> HIDE DEF more, pieces
<1>3. /\ \E D : o \in Seq(D)
      /\ AudioUpTo(o, audio_seq + Len(N)) /\ Unended(o)
  BY <1>1, <1>2, LinesSound
<1>4. PICK D : o \in Seq(D)
  BY <1>3
<1>5. IsTts(e) /\ e.seq = end /\ Ends(e)
  <2> HIDE DEF end
  <2>1. e = [kind |-> "tts", seq |-> end, is_last |-> TRUE] /\ TRUE \in BOOLEAN
    OBVIOUS
  <2> HIDE DEF e
  <2> QED BY <2>1, TtsLine
<1> HIDE DEF N, o, e
<1>6. /\ Append(o, e) = o \o <<e>> /\ \E F : Append(o, e) \in Seq(F)
      /\ AudioUpTo(Append(o, e), end) /\ Ended(Append(o, e))
  BY <1>3, <1>4, <1>5, AddLine
<1>7. (\E F : lines' \in Seq(F)) /\ AudioUpTo(lines', audio_seq') /\ Ended(lines')
  BY <1>1, <1>6
<1> QED BY <1>1, <1>7 DEF LinesHave

LEMMA LinesStep ==
    ASSUME Places, LinesHave, Unanswered, NextAdmin
    PROVE  LinesHave'
<1>p. Unended(lines) \/ pc = "over"
  BY DEF LinesHave
<1>1. CASE Accept
  <2>1. pc' # "over"
    BY <1>1 DEF Accept
  <2>2. pc # "over" /\ UNCHANGED <<lines, audio_seq>>
    BY <1>1 DEF Accept, Respond, SpeechVars
  <2> QED BY <2>1, <2>2, LinesStay
<1>2. CASE RejectAudio \/ RefuseCall \/ TtsFormat \/ EndEvents
  <2>1. pc # "over" /\ UNCHANGED <<lines, audio_seq>>
    BY <1>2 DEF RejectAudio, RefuseCall, TtsFormat, EndEvents, Respond, SpeechVars
  <2>2. CASE RejectAudio
    BY <2>1, <2>2, LinesStay DEF RejectAudio, Respond
  <2>3. CASE RefuseCall \/ TtsFormat
    <3>1. endpoint' = endpoint /\ endpoint \in {"asr", "llm", "tts_format"}
      BY <2>3 DEF RefuseCall, TtsFormat, Respond, Inputs
    <3> QED BY <2>1, <3>1, LinesStay DEF Synthesises
  <2>4. CASE EndEvents
    <3>1. endpoint' = endpoint /\ endpoint \in {"asr", "llm"}
      BY <2>4 DEF EndEvents, Inputs, Places
    <3> QED BY <2>1, <3>1, LinesStay DEF Synthesises
  <2> QED BY <1>2, <2>2, <2>3, <2>4
<1>3. CASE SplitScript \/ SplitTail \/ AskTts \/ Leave
  <2>1. pc # "over" /\ pc' # "over" /\ UNCHANGED <<lines, audio_seq>>
    BY <1>3 DEF SplitScript, SplitTail, AskTts, Leave, SpeechVars
  <2> QED BY <2>1, LinesStay
<1>4. ASSUME NEW code, Close(ErrorLine(code)), pc # "over"
      PROVE  LinesHave'
  <2>1. pc' = "over" /\ lines' = Append(lines, ErrorLine(code)) /\ audio_seq' = audio_seq
    BY <1>4 DEF Close, SpeechVars
  <2> QED BY <1>4, <2>1, ErrorEnds, LinesMore
<1>5. CASE FailEvents \/ FailRecognise \/ FailItems
  <2>1. pc # "over" /\ \E code : Close(ErrorLine(code))
    BY <1>5 DEF FailEvents, FailRecognise, FailItems
  <2> QED BY <1>4, <2>1
<1>6. CASE EndRecognise
  <2>1. pc # "over"
    BY <1>6 DEF EndRecognise
  <2>2. \/ Close(ErrorLine(1001))
        \/ pc' = "items" /\ UNCHANGED <<lines, audio_seq>>
    BY <1>6 DEF EndRecognise, SpeechVars
  <2> QED BY <1>4, <2>1, <2>2, LinesStay
<1>7. CASE AskTtsFails
  <2>1. pc # "over" /\ audio_seq' = audio_seq
    BY <1>7 DEF AskTtsFails, SpeechVars
  <2>2. \/ pc' = "finish" /\ UNCHANGED lines
        \/ pc' = "over" /\ lines' = Append(lines, ErrorLine(1102))
    BY <1>7 DEF AskTtsFails
  <2> QED BY <2>1, <2>2, ErrorEnds, LinesStay, LinesMore
<1>8. CASE PassEvent \/ Recognise \/ PassText
  <2>1. pc # "over" /\ pc' = pc /\ audio_seq' = audio_seq
    BY <1>8 DEF PassEvent, Recognise, PassText, SpeechVars
  <2>2. \E kind : kind \notin {"tts", "error"} /\ lines' = Append(lines, [kind |-> kind])
    <3>1. CASE PassEvent
      <4>1. lines' = Append(lines, [kind |-> endpoint]) /\ endpoint \in {"asr", "llm"}
        BY <3>1 DEF PassEvent, Places
      <4> QED BY <4>1
    <3>2. CASE Recognise
      <4>1. lines' = Append(lines, [kind |-> "asr"])
        BY <3>2 DEF Recognise
      <4> QED BY <4>1
    <3>3. CASE PassText
      <4>1. lines' = Append(lines, [kind |-> "llm"])
        BY <3>3 DEF PassText
      <4> QED BY <4>1
    <3> QED BY <1>8, <3>1, <3>2, <3>3
  <2>3. PICK kind : kind \notin {"tts", "error"} /\ lines' = Append(lines, [kind |-> kind])
    BY <2>2
  <2>4. ~IsTts([kind |-> kind]) /\ ~Ends([kind |-> kind])
    BY <2>3, OtherLine
  <2> QED BY <2>1, <2>3, <2>4, LinesMore
<1>9. CASE PassAudio
  <2>1. PICK last \in BOOLEAN :
           /\ lines' = Append(lines, [kind |-> "tts", seq |-> audio_seq + 1, is_last |-> last])
           /\ pc' = IF last THEN "over" ELSE "items"
    BY <1>9 DEF PassAudio
  <2> DEFINE n == audio_seq + 1
             x == [kind |-> "tts", seq |-> n, is_last |-> last]
  <2>2. audio_seq' = n /\ pc # "over"
    BY <1>9 DEF PassAudio
  <2>3. lines' = Append(lines, x)
    BY <2>1
  <2>4. IsTts(x) /\ x.seq = n /\ (Ends(x) <=> last)
    <3> HIDE DEF n
    <3>1. x = [kind |-> "tts", seq |-> n, is_last |-> last]
      OBVIOUS
    <3> HIDE DEF x
    <3> QED BY <3>1, TtsLine
  <2> HIDE DEF x
  <2> QED BY <2>1, <2>2, <2>3, <2>4, LinesMore
<1>10. CASE ListenTts
  BY <1>10, ListenLines
<1>11. CASE FinishTts
  BY <1>11, FinishLines
<1>12. CASE ListVoices
  <2> DEFINE x(v, d) == [kind |-> "voices", voices |-> v, default |-> d]
  <2>1. PICK v, d : lines' = << x(v, d) >>
    BY <1>12 DEF ListVoices
  <2>2. x(v, d).kind = "voices"
    OBVIOUS
  <2> HIDE DEF x
  <2>3. ~IsTts(x(v, d)) /\ ~Ends(x(v, d))
    BY <2>2, OtherLine
  <2>4. pc' = "over" /\ audio_seq' = audio_seq /\ endpoint' = endpoint /\ endpoint = "voices" /\ pc = "received"
    BY <1>12 DEF ListVoices, SpeechVars, Inputs
  <2>5. lines = <<>> /\ AudioUpTo(lines, audio_seq) /\ Unended(lines) /\ lines \in Seq({})
    BY <2>4 DEF Unanswered, LinesHave
  <2>6. Append(lines, x(v, d)) = lines'
    BY <2>1, <2>5
  <2>7. (\E E : lines' \in Seq(E)) /\ AudioUpTo(lines', audio_seq) /\ Unended(lines')
    BY <2>3, <2>5, <2>6, AddLine
  <2> QED BY <2>4, <2>7 DEF LinesHave, AudioUpTo
<1> QED BY <1>1, <1>2, <1>3, <1>5, <1>6, <1>7, <1>8, <1>9, <1>10, <1>11, <1>12 DEF NextAdmin

\* The next words has what waits and the next sentence.
LEMMA RequestIs ==
    ASSUME SpeechTypes
    PROVE  LET words == speech.pending \o Spoken1(speech.next)
           IN  /\ words \in Seq(Nat)
               /\ Range(speech.pending) \subseteq Range(words)
               /\ script[speech.next] > 0 => speech.next \in Range(words)
<1>1. speech.pending \in Seq(Nat) /\ speech.next \in Nat /\ script[speech.next] \in Nat
  BY DEF SpeechTypes
<1> DEFINE one == Spoken1(speech.next)
<1>2. one \in Seq(Nat) /\ (script[speech.next] > 0 => one = <<speech.next>>)
  BY <1>1 DEF Spoken1
<1>3. script[speech.next] > 0 => speech.next \in Range(one)
  <2>1. Range(<<speech.next>>) = {speech.next}
    BY DEF Range
  <2> QED BY <1>2, <2>1
<1> HIDE DEF one
<1>4. Range(speech.pending \o one) = Range(speech.pending) \cup Range(one)
  BY <1>1, <1>2, RangeConcat
<1>5. speech.pending \o one \in Seq(Nat)
  BY <1>1, <1>2
<1> QED BY <1>3, <1>4, <1>5 DEF one

LEMMA SpeechStep ==
    ASSUME Places, LinesHave, LinesHave', Unanswered, endpoint = "tts", SpeechTypes, SpeechHas, NextAdmin
    PROVE  SpeechTypes' /\ SpeechHas'
<1> USE DEF SpeechTypes
<1>s. /\ script \in Seq(Nat) /\ DOMAIN script = 1..Len(script) /\ Len(script) \in Nat
      /\ speech.next \in 1..Len(script) /\ speech.next \in Nat
  BY DEF SpeechTypes
<1>t. speech \in [next : Nat, pending : Seq(Nat), request : Seq(Nat), tail : BOOLEAN, asked : SUBSET Nat]
  BY DEF SpeechTypes
<1>i. script' = script
  BY DEF NextAdmin, RejectAudio, RefuseCall, Accept, ListVoices, TtsFormat, PassEvent, FailEvents, EndEvents,
         SplitScript, SplitTail, AskTts, AskTtsFails, ListenTts, FinishTts, FailRecognise, Recognise,
         EndRecognise, PassText, PassAudio, FailItems, Leave, Respond, Close, Inputs
<1>1. CASE Accept
  <2>1. pc = "received" /\ pc' = "split" /\ UNCHANGED <<speech, lines>>
    BY <1>1 DEF Accept, Respond, SpeechVars
  <2> QED BY <1>i, <2>1 DEF SpeechHas, Before
<1>2. CASE SplitScript
  <2> DEFINE words == speech.pending \o Spoken1(speech.next)
             enough == Spoken1(speech.next) # <<>> /\ Letters(words) >= MinChars
  <2>1. /\ pc = "split" /\ speech.next < Len(script)
        /\ speech' = [speech EXCEPT !.next = @ + 1,
                                    !.request = IF enough THEN words ELSE <<>>,
                                    !.pending = IF enough THEN <<>> ELSE words]
        /\ pc' = IF enough THEN "ask" ELSE "split"
    BY <1>2 DEF SplitScript
  <2>2. /\ words \in Seq(Nat)
        /\ Range(speech.pending) \subseteq Range(words)
        /\ script[speech.next] > 0 => speech.next \in Range(words)
    BY RequestIs
  <2> HIDE DEF words, enough
  <2>3. /\ speech'.next = speech.next + 1 /\ speech'.asked = speech.asked /\ speech'.tail = speech.tail
        /\ enough => speech'.request = words /\ speech'.pending = <<>>
        /\ ~enough => speech'.request = <<>> /\ speech'.pending = words
    BY <1>t, <2>1
  <2>4. SpeechTypes'
    <3>1. <<>> \in Seq(Nat)
      OBVIOUS
    <3>2. (IF enough THEN words ELSE <<>>) \in Seq(Nat) /\ (IF enough THEN <<>> ELSE words) \in Seq(Nat)
      BY <2>2, <3>1
    <3>3. speech.next + 1 \in 1..Len(script) /\ speech.next + 1 \in Nat
      BY <1>s, <2>1
    <3> QED BY <1>s, <1>i, <1>t, <2>1, <2>3, <3>2, <3>3
  <2>5. ~speech.tail /\ Range(speech.request) \subseteq speech.asked
        /\ \A s \in DOMAIN script : s < speech.next /\ script[s] > 0 => s \in speech.asked \cup Range(speech.pending)
    BY <2>1 DEF SpeechHas, Before
  <2>6. \A s \in DOMAIN script : Before(s)' /\ script[s] > 0 => s \in speech.asked \cup Range(words)
    <3> SUFFICES ASSUME NEW s \in DOMAIN script, Before(s)', script[s] > 0
                 PROVE  s \in speech.asked \cup Range(words)
      OBVIOUS
    <3>1. ~speech'.tail
      BY <2>3, <2>5
    <3>2. s < speech.next + 1
      BY <2>3, <3>1 DEF Before
    <3>3. s < speech.next \/ s = speech.next
      BY <1>s, <3>2
    <3> QED BY <2>2, <2>5, <3>3
  <2>7. ~speech'.tail
    BY <2>3, <2>5
  <2>8. Range(<<>>) = {}
    BY RangeEmpty
  <2>9. CASE enough
    <3>1. pc' = "ask"
      BY <2>1, <2>9
    <3> QED BY <1>i, <2>3, <2>4, <2>6, <2>7, <2>9, <3>1 DEF SpeechHas
  <2>10. CASE ~enough
    <3>1. pc' = "split"
      BY <2>1, <2>10
    <3> QED BY <1>i, <2>3, <2>4, <2>6, <2>7, <2>8, <2>10, <3>1 DEF SpeechHas
  <2> QED BY <2>9, <2>10
<1>3. CASE SplitTail
  <2> DEFINE words == speech.pending \o Spoken1(speech.next)
  <2>1. /\ pc = "split" /\ speech.next = Len(script)
        /\ speech' = [speech EXCEPT !.request = words, !.pending = <<>>, !.tail = TRUE]
        /\ pc' = IF words = <<>> THEN "finish" ELSE "ask"
    BY <1>3 DEF SplitTail
  <2>2. /\ words \in Seq(Nat)
        /\ Range(speech.pending) \subseteq Range(words)
        /\ script[speech.next] > 0 => speech.next \in Range(words)
    BY RequestIs
  <2> HIDE DEF words
  <2>3. /\ speech'.next = speech.next /\ speech'.asked = speech.asked /\ speech'.tail = TRUE
        /\ speech'.request = words /\ speech'.pending = <<>>
    BY <1>t, <2>1
  <2>4. SpeechTypes'
    <3>1. <<>> \in Seq(Nat)
      OBVIOUS
    <3> QED BY <1>s, <1>i, <1>t, <2>1, <2>2, <2>3, <3>1
  <2>5. ~speech.tail /\ Range(speech.request) \subseteq speech.asked
        /\ \A s \in DOMAIN script : s < speech.next /\ script[s] > 0 => s \in speech.asked \cup Range(speech.pending)
    BY <2>1 DEF SpeechHas, Before
  <2>6. \A s \in DOMAIN script : script[s] > 0 => s \in speech.asked \cup Range(words)
    <3> SUFFICES ASSUME NEW s \in DOMAIN script, script[s] > 0
                 PROVE  s \in speech.asked \cup Range(words)
      OBVIOUS
    <3>1. s < speech.next \/ s = speech.next
      BY <1>s, <2>1
    <3> QED BY <2>2, <2>5, <3>1
  <2>7. speech'.tail
    BY <2>3
  <2>8. pc' \in {"finish", "ask"}
    BY <2>1
  <2> QED BY <1>i, <2>1, <2>3, <2>4, <2>6, <2>7, <2>8 DEF SpeechHas
<1>4. CASE AskTts
  <2>1. /\ pc = "ask" /\ pc' = "listen"
        /\ speech' = [speech EXCEPT !.asked = @ \union Range(speech.request)]
    BY <1>4 DEF AskTts
  <2>2. /\ speech'.next = speech.next /\ speech'.asked = speech.asked \cup Range(speech.request)
        /\ speech'.tail = speech.tail /\ speech'.request = speech.request /\ speech'.pending = speech.pending
    BY <1>t, <2>1
  <2>3. SpeechTypes'
    <3>1. Range(speech.request) \subseteq Nat
      <4>1. speech.request \in Seq(Nat)
        BY <1>t
      <4> QED BY <4>1, RangeIs
    <3> QED BY <1>i, <1>s, <1>t, <2>1, <2>2, <3>1
  <2>4. \A s : Before(s)' <=> Before(s)
    BY <2>2 DEF Before
  <2> QED BY <1>i, <2>1, <2>2, <2>3, <2>4 DEF SpeechHas
<1>5. CASE AskTtsFails
  <2>1. pc = "ask" /\ speech' = speech
    BY <1>5 DEF AskTtsFails, SpeechVars
  <2>2. \A s : Before(s)' <=> Before(s)
    BY <2>1 DEF Before
  <2>3. CASE speech.tail
    <3>1. pc' = "finish"
      BY <1>5, <2>3 DEF AskTtsFails
    <3> QED BY <1>i, <2>1, <2>2, <2>3, <3>1 DEF SpeechHas
  <2>4. CASE ~speech.tail
    <3>1. pc' = "over" /\ lines' = Append(lines, ErrorLine(1102))
      BY <1>5, <2>4 DEF AskTtsFails
    <3>2. ~IsTts(Last(lines'))
      <4>1. AudioUpTo(lines, audio_seq) /\ Unended(lines)
        BY <2>1 DEF LinesHave
      <4>2. PICK D : lines \in Seq(D)
        BY DEF LinesHave
      <4> DEFINE told == ErrorLine(1102)
      <4>3. ~IsTts(told)
        BY ErrorEnds
      <4>4. lines' = Append(lines, told)
        BY <3>1
      <4> HIDE DEF told
      <4>5. Last(Append(lines, told)) = told
        BY <4>1, <4>2, AddLine
      <4> QED BY <4>3, <4>4, <4>5
    <3> QED BY <1>i, <2>1, <2>4, <3>1, <3>2 DEF SpeechHas
  <2> QED BY <2>3, <2>4
<1>6. CASE ListenTts
  <2>1. pc = "listen" /\ speech' = speech /\ (pc' = "over" \/ pc' = IF speech.tail THEN "finish" ELSE "split")
    BY <1>6 DEF ListenTts
  <2>2. pc' = "over" => lines' # <<>> /\ ~IsTts(Last(lines'))
    BY <1>6, ListenLines
  <2>3. \A s : Before(s)' <=> Before(s)
    BY <2>1 DEF Before
  <2> QED BY <1>i, <2>1, <2>2, <2>3 DEF SpeechHas
<1>7. CASE FinishTts
  <2>1. pc = "finish" /\ speech' = speech /\ pc' = "over"
    BY <1>7 DEF FinishTts
  <2>2. speech.tail /\ speech.next = Len(script) /\ speech.pending = <<>>
    BY <2>1 DEF SpeechHas
  <2>3. \A s \in DOMAIN script : Before(s)
    BY <1>s, <2>2 DEF Before
  <2>4. \A s \in DOMAIN script : script[s] > 0 => s \in speech.asked \union Range(speech.request)
    <3>1. Range(speech.pending) = {}
      BY <2>2, RangeEmpty
    <3> QED BY <2>1, <2>3, <3>1 DEF SpeechHas
  <2> QED BY <1>i, <2>1, <2>2, <2>4 DEF SpeechHas
<1>8. CASE Leave
  <2>1. speech' = speech /\ pc' = "left"
    BY <1>8 DEF Leave, SpeechVars
  <2> QED BY <1>i, <2>1 DEF SpeechHas
<1>9. CASE ~(Accept \/ SplitScript \/ SplitTail \/ AskTts \/ AskTtsFails \/ ListenTts \/ FinishTts \/ Leave)
  BY <1>9 DEF NextAdmin, RejectAudio, RefuseCall, ListVoices, TtsFormat, PassEvent, FailEvents, EndEvents,
              FailRecognise, Recognise, EndRecognise, PassText, PassAudio, FailItems, Places
<1> QED BY <1>1, <1>2, <1>3, <1>4, <1>5, <1>6, <1>7, <1>8, <1>9

LEMMA AdminInvStep ==
    ASSUME AdminInv, [NextAdmin]_adminVars
    PROVE  AdminInv'
<1>1. CASE NextAdmin
  <2>1. Places' /\ LinesHave'
    BY <1>1, PlacesStep, LinesStep DEF AdminInv
  <2>2. Unanswered'
    <3>1. pc' # "received"
      <4>1. CASE Accept
        BY <4>1 DEF Accept
      <4>2. CASE RejectAudio \/ RefuseCall \/ ListVoices \/ TtsFormat \/ Leave
        BY <4>2 DEF RejectAudio, RefuseCall, ListVoices, TtsFormat, Leave
      <4>3. CASE FailEvents \/ FailRecognise \/ FailItems \/ EndEvents \/ EndRecognise
        BY <4>3 DEF FailEvents, FailRecognise, FailItems, EndEvents, EndRecognise, Close
      <4>4. CASE PassEvent \/ Recognise \/ PassText \/ PassAudio
        BY <4>4 DEF PassEvent, Recognise, PassText, PassAudio
      <4>5. CASE SplitScript \/ SplitTail \/ AskTts \/ AskTtsFails
        BY <4>5 DEF SplitScript, SplitTail, AskTts, AskTtsFails
      <4>6. CASE ListenTts \/ FinishTts
        BY <4>6 DEF ListenTts, FinishTts
      <4> QED BY <1>1, <4>1, <4>2, <4>3, <4>4, <4>5, <4>6 DEF NextAdmin
    <3> QED BY <3>1 DEF Unanswered
  <2>3. endpoint' = endpoint
    <3>1. CASE RejectAudio \/ RefuseCall \/ Accept \/ ListVoices \/ TtsFormat \/ Leave
      BY <3>1 DEF RejectAudio, RefuseCall, Accept, ListVoices, TtsFormat, Leave, Respond, Inputs
    <3>2. CASE FailEvents \/ FailRecognise \/ FailItems \/ EndEvents \/ EndRecognise
      BY <3>2 DEF FailEvents, FailRecognise, FailItems, EndEvents, EndRecognise, Close, Inputs
    <3>3. CASE PassEvent \/ Recognise \/ PassText \/ PassAudio
      BY <3>3 DEF PassEvent, Recognise, PassText, PassAudio, Inputs
    <3>4. CASE SplitScript \/ SplitTail \/ AskTts \/ AskTtsFails
      BY <3>4 DEF SplitScript, SplitTail, AskTts, AskTtsFails, Inputs
    <3>5. CASE ListenTts \/ FinishTts
      BY <3>5 DEF ListenTts, FinishTts, Inputs
    <3> QED BY <1>1, <3>1, <3>2, <3>3, <3>4, <3>5 DEF NextAdmin
  <2>4. endpoint' = "tts" => SpeechTypes' /\ SpeechHas'
    BY <1>1, <2>1, <2>3, SpeechStep DEF AdminInv
  <2> QED BY <2>1, <2>2, <2>4 DEF AdminInv
<1>2. CASE UNCHANGED adminVars
  BY <1>2 DEF adminVars, AdminInv, Places, Unanswered, LinesHave, SpeechTypes, SpeechHas, Before, AudioUpTo,
              Unended, Ended
<1> QED BY <1>1, <1>2

LEMMA AdminInvInit ==
    ASSUME InitAdmin
    PROVE  AdminInv
<1>1. pc = "received" /\ lines = <<>> /\ audio_seq = 0
  BY DEF InitAdmin
<1>2. <<>> \in Seq({}) /\ Len(<<>>) = 0 /\ <<>> \in Seq(Nat)
  OBVIOUS
<1>3. Places /\ Unanswered /\ LinesHave
  BY <1>1, <1>2 DEF Places, Unanswered, LinesHave, AudioUpTo, Unended
<1>4. ASSUME endpoint = "tts" PROVE SpeechTypes /\ SpeechHas
  <2>1. script \in Seq(Nat) /\ script # <<>>
    BY <1>4, ScriptsAssumption DEF InitAdmin
  <2>2. Len(script) \in Nat /\ 1 \in 1..Len(script) /\ DOMAIN script = 1..Len(script)
    BY <2>1
  <2>3. speech = [next |-> 1, pending |-> <<>>, request |-> <<>>, tail |-> FALSE, asked |-> {}]
    BY DEF InitAdmin
  <2>4. speech.next = 1 /\ speech.pending = <<>> /\ speech.request = <<>> /\ speech.tail = FALSE /\ speech.asked = {}
    BY <2>3
  <2>5. SpeechTypes
    BY <1>2, <2>1, <2>2, <2>3, <2>4 DEF SpeechTypes
  <2>6. \A s \in DOMAIN script : ~Before(s)
    BY <2>2, <2>4 DEF Before
  <2>7. Range(<<>>) = {} /\ ~speech.tail
    BY <2>4, RangeEmpty
  <2> QED BY <1>1, <2>4, <2>5, <2>6, <2>7 DEF SpeechHas
<1> QED BY <1>3, <1>4 DEF AdminInv

\* Whatever is posted to whichever endpoint, and wherever a provider fails or
\* the client leaves: a stream of audio ends with its end mark or with one
\* error, and with nothing behind it; its lines are numbered from 1 without a
\* gap; and /admin/tts does not report the end before every sentence was asked
\* for, those of the last request aside (build_tts_sentence_stream,
\* build_llm_tts_stream, build_asr_llm_tts_stream).
THEOREM AlwaysOneEnding == SpecAdmin => []OneEnding
<1>1. ASSUME AdminInv PROVE OneEnding
  <2> DEFINE numbered == {i \in DOMAIN lines : lines[i].kind = "tts"}
             spoken == pc = "over" /\ status = 200 /\ endpoint \in {"tts", "llm_tts", "asr_llm_tts"}
  <2>1. PICK D : lines \in Seq(D)
    BY <1>1 DEF AdminInv, LinesHave
  <2>2. DOMAIN lines = 1..Len(lines) /\ Len(lines) \in Nat
    BY <2>1
  <2>3. AudioUpTo(lines, audio_seq)
    BY <1>1 DEF AdminInv, LinesHave
  <2>4. \A i \in DOMAIN lines : Ends(lines[i]) => i = Len(lines) /\ pc = "over"
    BY <1>1, <2>2 DEF AdminInv, LinesHave, Unended, Ended
  <2>5. spoken => lines # <<>> /\ Ends(Last(lines))
    <3>1. ASSUME spoken PROVE Ended(lines)
      BY <1>1, <3>1 DEF AdminInv, LinesHave
    <3>2. ASSUME Ended(lines) PROVE lines # <<>> /\ Ends(Last(lines))
      <4>0. Len(lines) \in 1..Len(lines) /\ Ends(lines[Len(lines)])
        BY <3>2 DEF Ended
      <4>1. Len(lines) # 0 /\ Ends(lines[Len(lines)])
        BY <2>2, <4>0
      <4>2. lines # <<>>
        BY <2>1, <4>1
      <4> QED BY <4>1, <4>2 DEF Last
    <3> HIDE DEF spoken
    <3> QED BY <3>1, <3>2
  <2>6. {lines[i].seq : i \in numbered} = 1..audio_seq
    <3>1. \A i \in numbered : lines[i].seq \in 1..audio_seq
      BY <2>2, <2>3 DEF AudioUpTo, IsTts
    <3>2. \A k \in 1..audio_seq : \E i \in numbered : lines[i].seq = k
      BY <2>2, <2>3 DEF AudioUpTo, IsTts
    <3> HIDE DEF numbered
    <3> QED BY <3>1, <3>2
  <2>7. \A i, j \in numbered : i < j => lines[i].seq < lines[j].seq
    BY <2>2, <2>3 DEF AudioUpTo, IsTts
  <2>8. spoken /\ endpoint = "tts" /\ Last(lines).kind = "tts" =>
           \A s \in DOMAIN script : script[s] > 0 => s \in speech.asked \union Range(speech.request)
    BY <1>1, <2>5 DEF AdminInv, SpeechHas, IsTts
  <2> QED BY <2>4, <2>5, <2>6, <2>7, <2>8 DEF OneEnding
<1> QED BY <1>1, AdminInvInit, AdminInvStep, PTL DEF SpecAdmin

-----------------------------------------------------------------------------
(***************************************************************************)
(* What the model is asked.                                                *)
(***************************************************************************)
(* The text made of a transcript.                                           *)

NoiseTags == DOMAIN Noises
MoodTags == DOMAIN Faces

LEMMA MarksAre ==
    /\ MoodTags = {"HAPPY", "SAD", "ANGRY", "FEARFUL", "DISGUSTED", "SURPRISED"}
    /\ NoiseTags = {"BGM", "Applause", "Laughter", "Cry", "Sneeze", "Cough"}
BY DEF MoodTags, NoiseTags, Faces, Noises

LEMMA Emojis ==
    /\ EMO_SET = {"smile", "sorrow", "anger", "fear", "disgust", "surprise"}
    /\ EVENT_SET = {"music", "applause", "laughter", "crying", "sneeze", "cough"}
    /\ \A t \in MoodTags : Faces[t] \in EMO_SET
    /\ \A t \in NoiseTags : Noises[t] \in EVENT_SET
<1>1. Range(Faces) = {Faces[t] : t \in MoodTags} /\ Range(Noises) = {Noises[t] : t \in NoiseTags}
  BY DEF Range, MoodTags, NoiseTags
<1>2. /\ Faces["HAPPY"] = "smile" /\ Faces["SAD"] = "sorrow" /\ Faces["ANGRY"] = "anger"
      /\ Faces["FEARFUL"] = "fear" /\ Faces["DISGUSTED"] = "disgust" /\ Faces["SURPRISED"] = "surprise"
  BY DEF Faces
<1>3. /\ Noises["BGM"] = "music" /\ Noises["Applause"] = "applause" /\ Noises["Laughter"] = "laughter"
      /\ Noises["Cry"] = "crying" /\ Noises["Sneeze"] = "sneeze" /\ Noises["Cough"] = "sneeze"
  BY DEF Noises
<1>4. EMO_SET = {"smile", "sorrow", "anger", "fear", "disgust", "surprise"}
  BY <1>1, <1>2, MarksAre DEF EMO_SET
<1>5. EVENT_SET = {"music", "applause", "laughter", "crying", "sneeze", "cough"}
  BY <1>1, <1>3, MarksAre DEF EVENT_SET
<1> QED BY <1>1, <1>4, <1>5 DEF EMO_SET, EVENT_SET

LEMMA Dictionaries ==
    /\ \E D : EMO_DICT \in Seq(D)
    /\ \E D : EVENT_DICT \in Seq(D)
    /\ Range(EMO_DICT) = MoodTags \cup {"NEUTRAL"}
    /\ NoiseTags \subseteq Range(EVENT_DICT)
    /\ Range(EVENT_DICT) \subseteq
          {"BGM", "Speech", "Applause", "Laughter", "Cry", "Sneeze", "Breath", "Cough"}
<1>1. EMO_DICT \in Seq({"HAPPY", "SAD", "ANGRY", "NEUTRAL", "FEARFUL", "DISGUSTED", "SURPRISED"})
  BY DEF EMO_DICT
<1>2. /\ EMO_DICT[1] = "HAPPY" /\ EMO_DICT[2] = "SAD" /\ EMO_DICT[3] = "ANGRY" /\ EMO_DICT[4] = "NEUTRAL"
      /\ EMO_DICT[5] = "FEARFUL" /\ EMO_DICT[6] = "DISGUSTED" /\ EMO_DICT[7] = "SURPRISED"
  BY DEF EMO_DICT
<1>3. EVENT_DICT \in Seq({"BGM", "Speech", "Applause", "Laughter", "Cry", "Sneeze", "Breath", "Cough"})
  BY DEF EVENT_DICT
<1>4. /\ EVENT_DICT[1] = "BGM" /\ EVENT_DICT[3] = "Applause" /\ EVENT_DICT[4] = "Laughter"
      /\ EVENT_DICT[5] = "Cry" /\ EVENT_DICT[6] = "Sneeze" /\ EVENT_DICT[8] = "Cough"
  BY DEF EVENT_DICT
<1>5. Len(EMO_DICT) = 7
  BY DEF EMO_DICT
<1>6. Len(EVENT_DICT) = 8
  BY DEF EVENT_DICT
<1>7. \A i \in 1..Len(EMO_DICT) : EMO_DICT[i] \in Range(EMO_DICT)
  BY <1>1, RangeIs
<1>8. \A i \in 1..Len(EVENT_DICT) : EVENT_DICT[i] \in Range(EVENT_DICT)
  BY <1>3, RangeIs
<1>9. Range(EMO_DICT) = MoodTags \cup {"NEUTRAL"}
  <2>1. Range(EMO_DICT) \subseteq
            {"HAPPY", "SAD", "ANGRY", "NEUTRAL", "FEARFUL", "DISGUSTED", "SURPRISED"}
    BY <1>1, RangeIs
  <2>2. 1 \in 1..7 /\ 2 \in 1..7 /\ 3 \in 1..7 /\ 4 \in 1..7 /\ 5 \in 1..7 /\ 6 \in 1..7 /\ 7 \in 1..7
    OBVIOUS
  <2> QED BY <1>2, <1>5, <1>7, <2>1, <2>2, MarksAre
<1>10. NoiseTags \subseteq Range(EVENT_DICT)
  <2>1. 1 \in 1..8 /\ 3 \in 1..8 /\ 4 \in 1..8 /\ 5 \in 1..8 /\ 6 \in 1..8 /\ 8 \in 1..8
    OBVIOUS
  <2> QED BY <1>4, <1>6, <1>8, <2>1, MarksAre
<1>11. Range(EVENT_DICT) \subseteq
          {"BGM", "Speech", "Applause", "Laughter", "Cry", "Sneeze", "Breath", "Cough"}
  BY <1>3, RangeIs
<1> QED BY <1>1, <1>3, <1>9, <1>10, <1>11

\* Tags, faces and words are told apart.
LEMMA Apart ==
    /\ EMO_SET \cap EVENT_SET = {}
    /\ EMOJI_DICT \cap EMO_SET = {} /\ EMOJI_DICT \cap EVENT_SET = {}
    /\ MoodTags \subseteq EMOJI_DICT /\ NoiseTags \subseteq EMOJI_DICT /\ LANG_DICT \subseteq EMOJI_DICT
    /\ "NEUTRAL" \in EMOJI_DICT /\ "NEUTRAL" \notin MoodTags
    /\ LANG_DICT \cap (MoodTags \cup NoiseTags \cup {"NEUTRAL"}) = {}
    /\ NoEmoji \notin EMO_SET /\ NoEmoji \notin EVENT_SET
    /\ \A x \in {"", "?", "The."} : x \notin EMO_SET \cup EVENT_SET \cup EMOJI_DICT
    /\ \A x \in {"nospeech", "Event_UNK"} :
          x \in EMOJI_DICT /\ x \notin MoodTags \cup NoiseTags \cup {"NEUTRAL"}
<1>2. EMO_SET \cap EVENT_SET = {}
  BY Emojis
<1>3. \A x \in EMOJI_DICT :
          \/ x \in {"zh", "en", "yue", "ja", "ko", "nospeech"}
          \/ x \in {"HAPPY", "SAD", "ANGRY", "FEARFUL", "DISGUSTED", "SURPRISED", "NEUTRAL"}
          \/ x \in {"BGM", "Speech", "Applause", "Laughter", "Cry", "Sneeze", "Breath", "Cough"}
          \/ x \in {"EMO_UNKNOWN", "Sing", "Speech_Noise", "withitn", "woitn", "GBG", "Event_UNK"}
  BY Dictionaries, MarksAre DEF EMOJI_DICT, LANG_DICT
<1>5. EMOJI_DICT \cap EMO_SET = {}
  BY <1>3, Emojis
<1>6. EMOJI_DICT \cap EVENT_SET = {}
  BY <1>3, Emojis
<1>7. /\ MoodTags \subseteq EMOJI_DICT /\ NoiseTags \subseteq EMOJI_DICT /\ LANG_DICT \subseteq EMOJI_DICT
      /\ "NEUTRAL" \in EMOJI_DICT /\ "nospeech" \in EMOJI_DICT /\ "Event_UNK" \in EMOJI_DICT
  BY Dictionaries DEF EMOJI_DICT, LANG_DICT
<1>8. /\ "NEUTRAL" \notin MoodTags
      /\ LANG_DICT \cap (MoodTags \cup NoiseTags \cup {"NEUTRAL"}) = {}
      /\ \A x \in {"nospeech", "Event_UNK"} : x \notin MoodTags \cup NoiseTags \cup {"NEUTRAL"}
  BY MarksAre DEF LANG_DICT
<1>9. NoEmoji \notin EMO_SET /\ NoEmoji \notin EVENT_SET
  BY Emojis DEF NoEmoji
<1>10. \A x \in {"", "?", "The."} : x \notin EMO_SET \cup EVENT_SET \cup EMOJI_DICT
  <2>1. \A x \in EMOJI_DICT : x # "" /\ x # "?" /\ x # "The."
    BY <1>3
  <2>2. \A x \in EMO_SET \cup EVENT_SET : x # "" /\ x # "?" /\ x # "The."
    BY Emojis
  <2> QED BY <2>1, <2>2
<1> QED BY <1>2, <1>5, <1>6, <1>7, <1>8, <1>9, <1>10

\* How often a token is met.
LEMMA TimesIs ==
    ASSUME NEW D, NEW text \in Seq(D), NEW token
    PROVE  /\ Times(token, text) \in 0..Len(text)
           /\ Times(token, text) = 0 <=> token \notin Range(text)
<1> DEFINE at == {i \in DOMAIN text : text[i] = token}
<1>1. Len(text) \in Nat /\ DOMAIN text = 1..Len(text)
  OBVIOUS
<1>2. IsFiniteSet(1..Len(text)) /\ Cardinality(1..Len(text)) = Len(text)
  BY <1>1, FS_Interval
<1>3. at \in SUBSET (1..Len(text))
  BY <1>1
<1>4. token \in Range(text) <=> at # {}
  BY DEF Range
<1> HIDE DEF at
<1>5. IsFiniteSet(at) /\ Cardinality(at) <= Len(text)
  BY <1>2, <1>3, FS_Subset
<1>6. Cardinality(at) \in Nat /\ (Cardinality(at) = 0 <=> at = {})
  BY <1>5, FS_CardinalityType, FS_EmptySet
<1>7. Times(token, text) = Cardinality(at)
  BY DEF Times, at
<1> QED BY <1>1, <1>4, <1>5, <1>6, <1>7

\* One of a set of tokens is met most often.
LEMMA MostExists ==
    ASSUME NEW D, NEW text \in Seq(D), NEW T, T # {}
    PROVE  \E tag \in T : \A other \in T : Times(other, text) <= Times(tag, text)
<1> DEFINE lacks == {Len(text) - Times(t, text) : t \in T}
<1>1. Len(text) \in Nat /\ \A t \in T : Times(t, text) \in 0..Len(text)
  BY TimesIs
<1>2. lacks \in SUBSET Nat /\ lacks # {}
  BY <1>1
<1>3. PICK n \in lacks : \A m \in lacks : n <= m
  <2> HIDE DEF lacks
  <2> QED BY <1>2, LeastNat
<1>4. PICK tag \in T : n = Len(text) - Times(tag, text)
  BY <1>3
<1>5. ASSUME NEW other \in T PROVE Times(other, text) <= Times(tag, text)
  <2>1. Len(text) - Times(tag, text) <= Len(text) - Times(other, text)
    BY <1>3, <1>4
  <2> QED BY <1>1, <2>1
<1> QED BY <1>5

\* The mood is one that was tagged, or neutral; not neutral if a mood was
\* tagged and nothing as neutral.
LEMMA MoodIs ==
    ASSUME NEW D, NEW text \in Seq(D)
    PROVE  /\ Mood(text) \in MoodTags => Mood(text) \in Range(text)
           /\ "NEUTRAL" \notin Range(text) /\ Range(text) \cap MoodTags # {} => Mood(text) \in MoodTags
<1> DEFINE T == Range(EMO_DICT)
           most == {tag \in T : \A other \in T : Times(other, text) <= Times(tag, text)}
<1>1. Mood(text) = IF "NEUTRAL" \in most THEN "NEUTRAL" ELSE Head(Only(EMO_DICT, most))
  BY DEF Mood
<1>2. /\ T = MoodTags \cup {"NEUTRAL"} /\ "NEUTRAL" \notin MoodTags
      /\ \A t : Times(t, text) \in Nat /\ (Times(t, text) = 0 <=> t \notin Range(text))
  <2>1. ASSUME NEW t PROVE Times(t, text) \in Nat /\ (Times(t, text) = 0 <=> t \notin Range(text))
    <3>1. Times(t, text) \in 0..Len(text) /\ Len(text) \in Nat /\ (Times(t, text) = 0 <=> t \notin Range(text))
      BY TimesIs
    <3> QED BY <3>1
  <2>2. T = MoodTags \cup {"NEUTRAL"} /\ "NEUTRAL" \notin MoodTags
    BY Dictionaries, Apart
  <2> HIDE DEF T
  <2> QED BY <2>1, <2>2
<1>3. most # {}
  <2>1. T # {}
    BY <1>2
  <2> QED BY <2>1, MostExists
<1>4. ASSUME "NEUTRAL" \notin most PROVE Mood(text) \in MoodTags /\ Mood(text) \in Range(text)
  <2> DEFINE kept == Only(EMO_DICT, most)
  <2>1. PICK D1 : EMO_DICT \in Seq(D1)
    BY Dictionaries
  <2>2. kept \in Seq(D1) /\ Range(kept) = T \cap most
    BY <2>1, OnlyIs
  <2>3. Range(kept) # {}
    BY <1>3, <2>2
  <2> HIDE DEF kept
  <2>4. kept # <<>>
    BY <2>3, RangeEmpty
  <2>5. Head(kept) = kept[1] /\ 1 \in 1..Len(kept)
    BY <2>2, <2>4
  <2>6. Head(kept) \in most
    BY <2>2, <2>5, RangeIs
  <2>7. Mood(text) = Head(kept)
    BY <1>1, <1>4 DEF kept
  <2>8. PICK other \in T : ~(Times(other, text) <= Times("NEUTRAL", text))
    BY <1>2, <1>4
  <2>9. Times(other, text) <= Times(Mood(text), text)
    BY <2>6, <2>7, <2>8
  <2>10. Times(Mood(text), text) # 0
    BY <1>2, <2>8, <2>9
  <2> QED BY <1>2, <1>4, <2>6, <2>7, <2>10
<1>5. ASSUME "NEUTRAL" \notin Range(text), Range(text) \cap MoodTags # {} PROVE "NEUTRAL" \notin most
  <2>1. PICK t \in MoodTags : t \in Range(text)
    BY <1>5
  <2>2. Times(t, text) # 0 /\ Times("NEUTRAL", text) = 0 /\ t \in T
    BY <1>2, <1>5, <2>1
  <2> QED BY <1>2, <2>2
<1> QED BY <1>1, <1>2, <1>4, <1>5


(***************************************************************************)
(* What a text with tags is made into.                                     *)
(***************************************************************************)
Vocabulary == STRING \cup EMO_SET \cup EVENT_SET \cup {"?", ""}

\* What the model is not told as words.
Gone == EMOJI_DICT \cup {"The."} \cup (EMO_SET \cup Labelled)
Words(x) == Without(x, Gone)
NoiseOf(x) == {Noises[t] : t \in Range(x) \cap NoiseTags}
MoodsOf(x) == {Faces[t] : t \in Range(x) \cap MoodTags}

\* out says with emoji what x says with tags.
Renders(out, x) ==
    /\ out \in Seq(Vocabulary) /\ Range(out) \cap EMOJI_DICT = {}
    /\ Words(out) = Words(x)
    /\ Range(out) \cap EVENT_SET = NoiseOf(x)
    /\ Range(out) \cap EMO_SET \subseteq MoodsOf(x)
    /\ "NEUTRAL" \notin Range(x) /\ Range(x) \cap MoodTags # {} => Range(out) \cap EMO_SET # {}

\* No emoji but "?".
Bare(x) == x \in Seq(Vocabulary) /\ Range(x) \cap (EMO_SET \cup EVENT_SET) = {}

LEMMA WordsConcat ==
    ASSUME NEW x \in Seq(Vocabulary), NEW y \in Seq(Vocabulary)
    PROVE  Words(x \o y) = Words(x) \o Words(y)
BY WithoutConcat DEF Words

LEMMA WordsGone ==
    ASSUME NEW x \in Seq(Vocabulary), Range(x) \subseteq Gone
    PROVE  Words(x) = <<>>
BY WithoutAll DEF Words

LEMMA WordsType == \A x \in Seq(Vocabulary) : Words(x) \in Seq(Vocabulary)
BY WithoutIs DEF Words

LEMMA NoiseConcat ==
    ASSUME NEW x \in Seq(Vocabulary), NEW y \in Seq(Vocabulary)
    PROVE  /\ NoiseOf(x \o y) = NoiseOf(x) \cup NoiseOf(y)
           /\ MoodsOf(x \o y) = MoodsOf(x) \cup MoodsOf(y)
<1>1. Range(x \o y) = Range(x) \cup Range(y)
  BY RangeConcat
<1> QED BY <1>1 DEF NoiseOf, MoodsOf

LEMMA NoiseIs ==
    ASSUME NEW x
    PROVE  NoiseOf(x) \subseteq EVENT_SET /\ MoodsOf(x) \subseteq EMO_SET
BY Emojis DEF NoiseOf, MoodsOf

LEMMA ReverseIs ==
    ASSUME NEW D, NEW s \in Seq(D)
    PROVE  Reverse(s) \in Seq(D) /\ Range(Reverse(s)) = Range(s)
<1> DEFINE r == [i \in 1..Len(s) |-> s[(Len(s) - i) + 1]]
<1>1. Len(s) \in Nat /\ \A i \in 1..Len(s) : s[i] \in D
  OBVIOUS
<1>2. \A i \in 1..Len(s) : (Len(s) - i) + 1 \in 1..Len(s) /\ (Len(s) - ((Len(s) - i) + 1)) + 1 = i
  BY <1>1
<1>3. r \in Seq(D) /\ Len(r) = Len(s) /\ \A i \in 1..Len(s) : r[i] = s[(Len(s) - i) + 1]
  BY <1>1, <1>2
<1> HIDE DEF r
<1>4. /\ \A i \in 1..Len(s) : s[i] \in Range(s) /\ r[i] \in Range(r)
      /\ \A y \in Range(s) : \E i \in 1..Len(s) : y = s[i]
      /\ \A y \in Range(r) : \E i \in 1..Len(s) : y = r[i]
  <2>1. /\ \A i \in 1..Len(s) : s[i] \in Range(s)
        /\ \A y \in Range(s) : \E i \in 1..Len(s) : y = s[i]
    BY RangeIs
  <2>2. /\ \A i \in 1..Len(r) : r[i] \in Range(r)
        /\ \A y \in Range(r) : \E i \in 1..Len(r) : y = r[i]
    BY <1>3, RangeIs
  <2> QED BY <1>3, <2>1, <2>2
<1>5. ASSUME NEW y \in Range(r) PROVE y \in Range(s)
  <2>1. PICK i \in 1..Len(s) : y = r[i]
    BY <1>4
  <2> QED BY <1>2, <1>3, <1>4, <2>1
<1>6. ASSUME NEW y \in Range(s) PROVE y \in Range(r)
  <2>1. PICK i \in 1..Len(s) : y = s[i]
    BY <1>4
  <2> DEFINE j == (Len(s) - i) + 1
  <2>2. j \in 1..Len(s) /\ (Len(s) - j) + 1 = i
    BY <1>2
  <2>3. r[j] = y
    BY <1>3, <2>1, <2>2
  <2> QED BY <1>4, <2>2, <2>3
<1>7. Reverse(s) = r
  BY DEF Reverse, r
<1> QED BY <1>3, <1>5, <1>6, <1>7

LEMMA NoisesAre ==
    ASSUME NEW x \in Seq(Vocabulary), NEW kept,
           kept = Only(EVENT_DICT, {t \in DOMAIN Noises : Times(t, x) > 0})
    PROVE  /\ Reverse([i \in DOMAIN kept |-> Noises[kept[i]]]) \in Seq(Vocabulary)
           /\ Range(Reverse([i \in DOMAIN kept |-> Noises[kept[i]]])) = NoiseOf(x)
<1> DEFINE told == {t \in DOMAIN Noises : Times(t, x) > 0}
           emojis == [i \in DOMAIN kept |-> Noises[kept[i]]]
<1>1. told = Range(x) \cap NoiseTags
  <2>1. ASSUME NEW t PROVE Times(t, x) > 0 <=> t \in Range(x)
    <3>1. Times(t, x) \in 0..Len(x) /\ Len(x) \in Nat /\ (Times(t, x) = 0 <=> t \notin Range(x))
      BY TimesIs
    <3> QED BY <3>1
  <2> QED BY <2>1 DEF NoiseTags
<1>2. PICK D : EVENT_DICT \in Seq(D)
  BY Dictionaries
<1>3. kept \in Seq(D) /\ Range(kept) = told
  <2>1. kept \in Seq(D) /\ Range(kept) = Range(EVENT_DICT) \cap told
    BY <1>2, OnlyIs
  <2>2. told \subseteq Range(EVENT_DICT)
    BY <1>1, Dictionaries
  <2> QED BY <2>1, <2>2
<1>4. /\ Len(kept) \in Nat /\ DOMAIN kept = 1..Len(kept)
      /\ \A i \in 1..Len(kept) : kept[i] \in told
      /\ \A t \in told : \E i \in 1..Len(kept) : t = kept[i]
  <2> HIDE DEF told
  <2> QED BY <1>3, RangeIs
<1>5. /\ emojis \in Seq(Vocabulary) /\ Len(emojis) = Len(kept)
      /\ \A i \in 1..Len(kept) : emojis[i] = Noises[kept[i]]
  <2>1. \A i \in 1..Len(kept) : Noises[kept[i]] \in Vocabulary
    BY <1>1, <1>4, Emojis DEF Vocabulary
  <2> HIDE DEF told
  <2> QED BY <1>4, <2>1
<1> HIDE DEF emojis
<1>6. /\ \A i \in 1..Len(emojis) : emojis[i] \in Range(emojis)
      /\ \A y \in Range(emojis) : \E i \in 1..Len(emojis) : y = emojis[i]
  BY <1>5, RangeIs
<1> HIDE DEF told
<1>7. Range(emojis) = {Noises[t] : t \in told}
  <2>1. Range(emojis) \subseteq {Noises[t] : t \in told}
    BY <1>4, <1>5, <1>6
  <2>2. {Noises[t] : t \in told} \subseteq Range(emojis)
    BY <1>4, <1>5, <1>6
  <2> QED BY <2>1, <2>2
<1>8. Range(emojis) = NoiseOf(x)
  BY <1>1, <1>7 DEF NoiseOf
<1>9. Reverse(emojis) \in Seq(Vocabulary) /\ Range(Reverse(emojis)) = NoiseOf(x)
  BY <1>5, <1>8, ReverseIs
<1> QED BY <1>9 DEF emojis

\* A segment.
LEMMA FormatRenders ==
    ASSUME NEW x, Bare(x)
    PROVE  Renders(format_str_v2(x), x)
<1> DEFINE kept == Only(EVENT_DICT, {t \in DOMAIN Noises : Times(t, x) > 0})
           front == Reverse([i \in DOMAIN kept |-> Noises[kept[i]]])
           words == Without(x, EMOJI_DICT)
           back == IF Mood(x) \in DOMAIN Faces THEN <<Faces[Mood(x)]>> ELSE <<>>
           out == front \o words \o back
<1>1. format_str_v2(x) = out
  BY DEF format_str_v2
<1>2. x \in Seq(Vocabulary) /\ Range(x) \cap (EMO_SET \cup EVENT_SET) = {}
  BY DEF Bare
<1>3. front \in Seq(Vocabulary) /\ Range(front) = NoiseOf(x)
  <2> HIDE DEF kept
  <2>1. kept = Only(EVENT_DICT, {t \in DOMAIN Noises : Times(t, x) > 0})
    BY DEF kept
  <2> QED BY <1>2, <2>1, NoisesAre
<1>4. words \in Seq(Vocabulary) /\ Range(words) = Range(x) \ EMOJI_DICT
  BY <1>2, WithoutIs
<1>5. back \in Seq(Vocabulary) /\ Range(back) = IF Mood(x) \in MoodTags THEN {Faces[Mood(x)]} ELSE {}
  <2>1. CASE Mood(x) \in MoodTags
    <3>1. back = <<Faces[Mood(x)]>> /\ Faces[Mood(x)] \in Vocabulary
      BY <2>1, Emojis DEF MoodTags, Vocabulary
    <3>2. Range(<<Faces[Mood(x)]>>) = {Faces[Mood(x)]}
      BY DEF Range
    <3> QED BY <2>1, <3>1, <3>2
  <2>2. CASE Mood(x) \notin MoodTags
    <3>1. back = <<>>
      BY <2>2 DEF MoodTags
    <3> QED BY <2>2, <3>1, RangeEmpty
  <2> QED BY <2>1, <2>2
<1> HIDE DEF front, words, back
<1>6. /\ front \o words \in Seq(Vocabulary) /\ out \in Seq(Vocabulary)
      /\ Range(out) = Range(front) \cup Range(words) \cup Range(back)
      /\ Words(out) = (Words(front) \o Words(words)) \o Words(back)
  <2> DEFINE fw == front \o words
  <2>1. /\ fw \in Seq(Vocabulary) /\ Range(fw) = Range(front) \cup Range(words)
        /\ Words(fw) = Words(front) \o Words(words)
    BY <1>3, <1>4, RangeConcat, WordsConcat
  <2> HIDE DEF fw
  <2>2. fw \o back \in Seq(Vocabulary)
    BY <1>5, <2>1
  <2>3. Range(fw \o back) = Range(fw) \cup Range(back)
    BY <1>5, <2>1, RangeConcat
  <2>4. Words(fw \o back) = Words(fw) \o Words(back)
    BY <1>5, <2>1, WordsConcat
  <2> QED BY <2>1, <2>2, <2>3, <2>4 DEF fw
<1>7. Words(front) = <<>>
  BY <1>3, NoiseIs, WordsGone DEF Gone, Labelled
<1>8. Words(back) = <<>>
  <2>1. Range(back) \subseteq Gone
    BY <1>5, Emojis DEF Gone
  <2> QED BY <1>5, <2>1, WordsGone
<1>9. Words(words) = Words(x)
  <2>1. Without(Without(x, EMOJI_DICT), Gone) = Without(x, EMOJI_DICT \cup Gone)
    BY <1>2, WithoutNested
  <2>2. EMOJI_DICT \cup Gone = Gone
    BY DEF Gone
  <2> QED BY <2>1, <2>2 DEF Words, words
<1>10. Words(out) = Words(x)
  <2>1. Words(x) \in Seq(Vocabulary)
    BY <1>2, WordsType
  <2>2. <<>> \o Words(x) = Words(x) /\ Words(x) \o <<>> = Words(x)
    BY <2>1
  <2> QED BY <1>6, <1>7, <1>8, <1>9, <2>2
<1> DEFINE F == Range(front)
           W == Range(words)
           B == Range(back)
<1>11. F \subseteq EVENT_SET /\ B \subseteq EMO_SET
  BY <1>3, <1>5, NoiseIs, Emojis
<1>12. /\ W \cap EMOJI_DICT = {} /\ W \cap EMO_SET = {} /\ W \cap EVENT_SET = {}
      /\ Range(out) = F \cup W \cup B /\ F = NoiseOf(x)
  BY <1>2, <1>3, <1>4, <1>6
<1>13. EMO_SET \cap EVENT_SET = {} /\ EMOJI_DICT \cap EMO_SET = {} /\ EMOJI_DICT \cap EVENT_SET = {}
  BY Apart
<1> HIDE DEF F, W, B
<1>14. Range(out) \cap EMOJI_DICT = {}
  BY <1>11, <1>12, <1>13
<1>15. Range(out) \cap EVENT_SET = NoiseOf(x)
  BY <1>11, <1>12, <1>13
<1>16. Range(out) \cap EMO_SET = Range(back)
  BY <1>11, <1>12, <1>13 DEF B
<1>17. /\ Mood(x) \in MoodTags => Mood(x) \in Range(x)
       /\ "NEUTRAL" \notin Range(x) /\ Range(x) \cap MoodTags # {} => Mood(x) \in MoodTags
  BY <1>2, MoodIs
<1>18. Range(back) \subseteq MoodsOf(x)
  BY <1>5, <1>17 DEF MoodsOf
<1>19. "NEUTRAL" \notin Range(x) /\ Range(x) \cap MoodTags # {} => Range(back) # {}
  BY <1>5, <1>17
<1> HIDE DEF out
<1>20. Renders(out, x)
  BY <1>6, <1>10, <1>14, <1>15, <1>16, <1>18, <1>19 DEF Renders
<1> QED BY <1>1, <1>20


\* Without its first, or its last, token.
LEMMA TailIs ==
    ASSUME NEW s \in Seq(Vocabulary), s # <<>>
    PROVE  /\ Tail(s) \in Seq(Vocabulary) /\ Range(s) = {Head(s)} \cup Range(Tail(s))
           /\ Head(s) \in Gone => Words(Tail(s)) = Words(s)
<1> DEFINE h == Head(s)
           t == Tail(s)
           H == <<h>>
<1>1. t \in Seq(Vocabulary) /\ h \in Vocabulary /\ H \in Seq(Vocabulary)
  OBVIOUS
<1>2. s = H \o t
  OBVIOUS
<1>3. Range(H) = {h}
  BY DEF Range
<1> HIDE DEF h, t, H
<1>4. Range(H \o t) = {h} \cup Range(t)
  BY <1>1, <1>3, RangeConcat
<1>5. ASSUME h \in Gone PROVE Words(t) = Words(s)
  <2>1. Words(H) = <<>>
    BY <1>1, <1>3, <1>5, WordsGone
  <2>2. Words(H \o t) = <<>> \o Words(t)
    BY <1>1, <2>1, WordsConcat
  <2>3. <<>> \o Words(t) = Words(t)
    BY <1>1, WordsType
  <2> QED BY <1>2, <2>2, <2>3
<1> QED BY <1>1, <1>2, <1>4, <1>5 DEF h, t

LEMMA FrontIs ==
    ASSUME NEW s \in Seq(Vocabulary), s # <<>>
    PROVE  /\ Front(s) \in Seq(Vocabulary) /\ Range(s) = Range(Front(s)) \cup {Last(s)}
           /\ Last(s) \in Gone => Words(Front(s)) = Words(s)
<1> DEFINE l == Last(s)
           t == Front(s)
           L == <<l>>
<1>1. t \in Seq(Vocabulary) /\ l \in Vocabulary /\ L \in Seq(Vocabulary)
  BY DEF Front, Last
<1>2. s = t \o L
  BY DEF Front, Last
<1>3. Range(L) = {l}
  BY DEF Range
<1> HIDE DEF l, t, L
<1>4. Range(t \o L) = Range(t) \cup {l}
  BY <1>1, <1>3, RangeConcat
<1>5. ASSUME l \in Gone PROVE Words(t) = Words(s)
  <2>1. Words(L) = <<>>
    BY <1>1, <1>3, <1>5, WordsGone
  <2>2. Words(t \o L) = Words(t) \o <<>>
    BY <1>1, <2>1, WordsConcat
  <2>3. Words(t) \o <<>> = Words(t)
    BY <1>1, WordsType
  <2> QED BY <1>2, <2>2, <2>3
<1> QED BY <1>1, <1>2, <1>4, <1>5 DEF l, t

LEMMA GetEvent ==
    ASSUME NEW s \in Seq(Vocabulary), get_event(s) # NoEmoji
    PROVE  s # <<>> /\ get_event(s) = Head(s) /\ Head(s) \in EVENT_SET /\ Head(s) \in Range(s)
<1>1. s # <<>> /\ get_event(s) = Head(s) /\ Head(s) \in EVENT_SET
  BY DEF get_event
<1> QED BY <1>1, TailIs

LEMMA GetEmo ==
    ASSUME NEW s \in Seq(Vocabulary), get_emo(s) # NoEmoji
    PROVE  s # <<>> /\ get_emo(s) = Last(s) /\ Last(s) \in EMO_SET /\ Last(s) \in Range(s)
<1>1. s # <<>> /\ get_emo(s) = Last(s) /\ Last(s) \in EMO_SET
  BY DEF get_emo
<1> QED BY <1>1, FrontIs

\* What is joined renders x, and ended with the event told.
JoinedTo(j, x) == Renders(j.text, x) /\ (j.event # NoEmoji => j.event \in Range(j.text) \cap EVENT_SET)

\* One segment more.
LEMMA JoinRenders ==
    ASSUME NEW j, NEW s, NEW x \in Seq(Vocabulary), NEW y \in Seq(Vocabulary),
           JoinedTo(j, x), Renders(s, y)
    PROVE  JoinedTo(Join(j, s), x \o y)
<1> DEFINE t == j.text
           again == get_event(s) # NoEmoji /\ get_event(s) = j.event
           rest == IF again THEN Tail(s) ELSE s
           merge == get_emo(rest) # NoEmoji /\ get_emo(rest) = get_emo(t)
           front == IF merge THEN Front(t) ELSE t
           r == [text |-> front \o rest, event |-> get_event(rest)]
<1>1. Join(j, s) = IF s = <<>> THEN j ELSE r
  BY DEF Join
<1>2. /\ t \in Seq(Vocabulary) /\ s \in Seq(Vocabulary)
      /\ Words(t) = Words(x) /\ Words(s) = Words(y)
  BY DEF JoinedTo, Renders
<1>3. Words(x \o y) = Words(x) \o Words(y)
  BY WordsConcat
<1>4. /\ NoiseOf(x \o y) = NoiseOf(x) \cup NoiseOf(y)
      /\ MoodsOf(x \o y) = MoodsOf(x) \cup MoodsOf(y)
      /\ Range(x \o y) = Range(x) \cup Range(y)
  BY NoiseConcat, RangeConcat
<1>5. EMO_SET \cap EVENT_SET = {} /\ EMO_SET \subseteq Gone /\ EVENT_SET \subseteq Gone
  BY Apart DEF Gone, Labelled
\* Together, t and s say it.
<1>6. ASSUME NEW o \in Seq(Vocabulary), Range(o) = Range(t) \cup Range(s),
             Words(o) = Words(t) \o Words(s)
      PROVE  Renders(o, x \o y)
  <2>1. /\ Range(t) \cap EMOJI_DICT = {} /\ Range(s) \cap EMOJI_DICT = {}
        /\ Range(t) \cap EVENT_SET = NoiseOf(x) /\ Range(s) \cap EVENT_SET = NoiseOf(y)
        /\ Range(t) \cap EMO_SET \subseteq MoodsOf(x) /\ Range(s) \cap EMO_SET \subseteq MoodsOf(y)
    BY DEF JoinedTo, Renders
  <2>2. /\ "NEUTRAL" \notin Range(x) /\ Range(x) \cap MoodTags # {} => Range(t) \cap EMO_SET # {}
        /\ "NEUTRAL" \notin Range(y) /\ Range(y) \cap MoodTags # {} => Range(s) \cap EMO_SET # {}
    BY DEF JoinedTo, Renders
  <2>3. Words(o) = Words(x \o y)
    BY <1>2, <1>3, <1>6
  <2>4. Range(o) \cap EMOJI_DICT = {}
    BY <1>6, <2>1
  <2>5. Range(o) \cap EVENT_SET = NoiseOf(x \o y)
    BY <1>4, <1>6, <2>1
  <2>6. Range(o) \cap EMO_SET \subseteq MoodsOf(x \o y)
    BY <1>4, <1>6, <2>1
  <2>7. "NEUTRAL" \notin Range(x \o y) /\ Range(x \o y) \cap MoodTags # {} => Range(o) \cap EMO_SET # {}
    BY <1>4, <1>6, <2>2
  <2> QED BY <1>6, <2>3, <2>4, <2>5, <2>6, <2>7 DEF Renders
<1>7. CASE s = <<>>
  <2>1. Range(s) = {} /\ Words(s) = <<>>
    <3>1. Range(s) = {}
      BY <1>7, RangeEmpty
    <3> QED BY <1>2, <3>1, WordsGone
  <2>2. Words(t) \o <<>> = Words(t)
    BY <1>2, WordsType
  <2>3. Renders(t, x \o y)
    <3>1. Range(t) = Range(t) \cup Range(s) /\ Words(t) = Words(t) \o Words(s)
      BY <2>1, <2>2
    <3> HIDE DEF t
    <3> QED BY <1>2, <1>6, <3>1
  <2> QED BY <1>1, <1>7, <2>3 DEF JoinedTo
<1>8. CASE s # <<>>
  \* What the segment leaves out is there, and not of a mood.
  <2>1. /\ rest \in Seq(Vocabulary) /\ Words(rest) = Words(s)
        /\ Range(rest) \subseteq Range(s)
        /\ \A e \in Range(s) : e \in Range(rest) \/ (e \in Range(t) /\ e \in EVENT_SET)
    <3>1. CASE again
      <4>1. get_event(s) = Head(s) /\ Head(s) \in EVENT_SET
        BY <1>2, <3>1, GetEvent
      <4>2. Head(s) \in Range(t)
        BY <3>1, <4>1 DEF JoinedTo
      <4>3. Tail(s) \in Seq(Vocabulary) /\ Range(s) = {Head(s)} \cup Range(Tail(s)) /\ Words(Tail(s)) = Words(s)
        BY <1>2, <1>5, <1>8, <4>1, TailIs
      <4>4. rest = Tail(s)
        BY <3>1
      <4> HIDE DEF rest, t
      <4> QED BY <4>1, <4>2, <4>3, <4>4
    <3>2. CASE ~again
      <4>1. rest = s
        BY <3>2
      <4> HIDE DEF rest, t
      <4> QED BY <1>2, <4>1
    <3> QED BY <3>1, <3>2
  <2> HIDE DEF rest
  \* What the text leaves out is a mood that is said again.
  <2>2. /\ front \in Seq(Vocabulary) /\ Words(front) = Words(t)
        /\ Range(front) \subseteq Range(t)
        /\ \A e \in Range(t) : e \in Range(front) \/ (e \in Range(rest) /\ e \in EMO_SET)
    <3>1. CASE merge
      <4>1. get_emo(rest) = Last(rest) /\ Last(rest) \in Range(rest) /\ Last(rest) \in EMO_SET
        BY <2>1, <3>1, GetEmo
      <4>2. get_emo(t) # NoEmoji
        BY <3>1
      <4>3. t # <<>> /\ get_emo(t) = Last(t) /\ Last(t) \in EMO_SET
        BY <1>2, <4>2, GetEmo
      <4>4. Last(t) \in Range(rest)
        BY <3>1, <4>1, <4>3
      <4>5. Front(t) \in Seq(Vocabulary) /\ Range(t) = Range(Front(t)) \cup {Last(t)} /\ Words(Front(t)) = Words(t)
        BY <1>2, <1>5, <4>3, FrontIs
      <4>6. front = Front(t)
        BY <3>1
      <4> HIDE DEF front, t
      <4> QED BY <4>3, <4>4, <4>5, <4>6
    <3>2. CASE ~merge
      <4>1. front = t
        BY <3>2
      <4> HIDE DEF front, t
      <4> QED BY <1>2, <4>1
    <3> QED BY <3>1, <3>2
  <2> HIDE DEF front, t
  <2> DEFINE o == front \o rest
  <2>3. o \in Seq(Vocabulary) /\ Range(o) = Range(front) \cup Range(rest) /\ Words(o) = Words(front) \o Words(rest)
    BY <2>1, <2>2, RangeConcat, WordsConcat
  <2> HIDE DEF o
  <2>4. Range(o) = Range(t) \cup Range(s)
    <3>1. \A e \in Range(t) : e \in Range(o)
      BY <2>2, <2>3
    <3>2. \A e \in Range(s) : e \in Range(o)
      BY <2>1, <2>3, <3>1
    <3> QED BY <2>1, <2>2, <2>3, <3>1, <3>2
  <2>5. Renders(o, x \o y)
    BY <1>6, <2>1, <2>2, <2>3, <2>4
  <2>6. get_event(rest) # NoEmoji => get_event(rest) \in Range(o) \cap EVENT_SET
    <3> SUFFICES ASSUME get_event(rest) # NoEmoji PROVE get_event(rest) \in Range(o) \cap EVENT_SET
      OBVIOUS
    <3>1. get_event(rest) \in EVENT_SET /\ get_event(rest) \in Range(rest)
      BY <2>1, GetEvent
    <3> QED BY <2>3, <3>1
  <2>7. Join(j, s) = [text |-> o, event |-> get_event(rest)]
    BY <1>1, <1>8 DEF o
  <2> QED BY <2>5, <2>6, <2>7 DEF JoinedTo
<1> QED BY <1>7, <1>8

\* A tag of a language says nothing.
LEMMA LanguageRenders ==
    ASSUME NEW out, NEW x \in Seq(Vocabulary), NEW l \in LANG_DICT, l \in Vocabulary, Renders(out, x)
    PROVE  x \o <<l>> \in Seq(Vocabulary) /\ Renders(out, x \o <<l>>)
<1> DEFINE L == <<l>>
<1>1. L \in Seq(Vocabulary) /\ Range(L) = {l}
  BY DEF Range
<1>2. l \in EMOJI_DICT /\ l \notin MoodTags /\ l \notin NoiseTags /\ l # "NEUTRAL"
  BY Apart
<1> HIDE DEF L
<1>3. x \o L \in Seq(Vocabulary) /\ Range(x \o L) = Range(x) \cup {l}
  BY <1>1, RangeConcat
<1>4. Words(x \o L) = Words(x)
  <2>1. Words(L) = <<>>
    BY <1>1, <1>2, WordsGone DEF Gone
  <2>2. Words(x) \o <<>> = Words(x)
    BY WordsType
  <2> QED BY <1>1, <2>1, <2>2, WordsConcat
<1>5. NoiseOf(x \o L) = NoiseOf(x) /\ MoodsOf(x \o L) = MoodsOf(x)
  BY <1>2, <1>3 DEF NoiseOf, MoodsOf
<1>6. Range(x \o L) \cap MoodTags = Range(x) \cap MoodTags /\ ("NEUTRAL" \notin Range(x \o L) => "NEUTRAL" \notin Range(x))
  BY <1>2, <1>3
<1>7. Renders(out, x \o L)
  BY <1>4, <1>5, <1>6 DEF Renders
<1> QED BY <1>3, <1>7 DEF L


\* The pieces of a text between the places where it is cut.
LEMMA SegmentsAre ==
    ASSUME NEW x \in Seq(Vocabulary)
    PROVE  \E m \in Nat : \E c \in [1..(m + 2) -> Nat] :
              /\ Len(Segments(x)) = m + 1
              /\ \A n \in 1..(m + 1) : Segments(x)[n] = SubSeq(x, c[n] + 1, c[n + 1] - 1)
              /\ c[1] = 0 /\ c[m + 2] = Len(x) + 1
              /\ \A n \in 1..(m + 1) : c[n] \in 0..Len(x) /\ c[n + 1] \in 1..(Len(x) + 1) /\ c[n] < c[n + 1]
              /\ \A n \in 2..(m + 1) : c[n] \in 1..Len(x) /\ x[c[n]] \in LANG_DICT
<1> DEFINE tags == {i \in DOMAIN x : x[i] \in LANG_DICT}
           at == PlacesOf(x, tags)
           m == Len(at)
           l == Len(x)
           cuts == <<0>> \o at \o <<l + 1>>
<1>1. l \in Nat /\ DOMAIN x = 1..l /\ tags \in SUBSET (1..l)
  OBVIOUS
<1>2. at \in Seq(1..l) /\ Range(at) = tags /\ Rising(at)
  <2> HIDE DEF tags
  <2> QED BY <1>1, PlacesAre
<1> HIDE DEF at
<1>3. at \in Seq(Nat) /\ m \in Nat /\ \A i \in 1..m : at[i] \in tags
  <2>1. 1..l \subseteq Nat
    BY <1>1
  <2>2. at \in Seq(Nat)
    BY <1>2, <2>1, SeqMonotonic
  <2> HIDE DEF tags
  <2> QED BY <1>2, <2>2, RangeIs
<1> HIDE DEF l
<1>4. /\ cuts \in Seq(Nat) /\ Len(cuts) = m + 2
      /\ cuts[1] = 0 /\ cuts[m + 2] = l + 1
      /\ \A i \in 1..m : cuts[i + 1] = at[i]
  <2> DEFINE a == <<0>>
             b == <<l + 1>>
             aa == a \o at
  <2>1. a \in Seq(Nat) /\ b \in Seq(Nat) /\ Len(a) = 1 /\ Len(b) = 1 /\ a[1] = 0 /\ b[1] = l + 1
    BY <1>1
  <2> HIDE DEF a, b
  <2>2. aa \in Seq(Nat) /\ Len(aa) = 1 + m /\ aa[1] = 0 /\ \A i \in 1..m : aa[1 + i] = at[i]
    <3> HIDE DEF m
    <3>1. at \in Seq(Nat) /\ Len(at) = m
      BY <1>3 DEF m
    <3>2. a \in Seq(Nat)
      BY <2>1
    <3>3. a \o at \in Seq(Nat) /\ Len(a \o at) = Len(a) + Len(at)
      BY <3>1, <3>2, ConcatProperties
    <3>4. \A i \in 1..Len(a) : (a \o at)[i] = a[i]
      BY <3>1, <3>2, ConcatIs
    <3>5. \A i \in 1..Len(at) : (a \o at)[Len(a) + i] = at[i]
      BY <3>1, <3>2, ConcatIs
    <3>6. 1 \in 1..Len(a)
      BY <2>1
    <3> QED BY <2>1, <3>1, <3>3, <3>4, <3>5, <3>6
  <2> HIDE DEF aa
  <2>3. /\ aa \o b \in Seq(Nat) /\ Len(aa \o b) = Len(aa) + Len(b)
        /\ \A i \in 1..Len(aa) : (aa \o b)[i] = aa[i]
        /\ \A i \in 1..Len(b) : (aa \o b)[Len(aa) + i] = b[i]
    <3> HIDE DEF m, cuts
    <3>1. aa \in Seq(Nat) /\ b \in Seq(Nat)
      BY <2>1, <2>2
    <3>2. aa \o b \in Seq(Nat) /\ Len(aa \o b) = Len(aa) + Len(b)
      BY <3>1
    <3>3. \A i \in 1..Len(aa) : (aa \o b)[i] = aa[i]
      BY <3>1, ConcatIs
    <3>4. \A i \in 1..Len(b) : (aa \o b)[Len(aa) + i] = b[i]
      BY <3>1, ConcatIs
    <3> QED BY <3>2, <3>3, <3>4
  <2>4. cuts = aa \o b
    BY DEF aa, a, b
  <2>5. 1 \in 1..Len(aa) /\ 1 \in 1..Len(b) /\ Len(aa) + 1 = m + 2 /\ \A i \in 1..m : i + 1 \in 1..Len(aa)
    BY <1>3, <2>1, <2>2
  <2> HIDE DEF cuts
  <2>6. cuts[m + 2] = l + 1
    BY <2>1, <2>3, <2>4, <2>5
  <2>7. \A i \in 1..m : cuts[i + 1] = at[i]
    <3> SUFFICES ASSUME NEW i \in 1..m PROVE cuts[i + 1] = at[i]
      OBVIOUS
    <3>1. 1 + i = i + 1 /\ i + 1 \in 1..Len(aa)
      BY <1>3, <2>5
    <3> QED BY <2>2, <2>3, <2>4, <3>1
  <2> QED BY <1>3, <2>1, <2>2, <2>3, <2>4, <2>5, <2>6, <2>7
<1>5. Segments(x) = [n \in 1..(Len(cuts) - 1) |-> SubSeq(x, cuts[n] + 1, cuts[n + 1] - 1)]
  BY DEF Segments, at, l
<1> HIDE DEF cuts
<1>6. Len(cuts) - 1 = m + 1 /\ m + 1 \in Nat
  BY <1>3, <1>4
<1>7. /\ Len(Segments(x)) = m + 1
      /\ \A n \in 1..(m + 1) : Segments(x)[n] = SubSeq(x, cuts[n] + 1, cuts[n + 1] - 1)
  <2> DEFINE M == m + 1
             piece(n) == SubSeq(x, cuts[n] + 1, cuts[n + 1] - 1)
  <2> HIDE DEF M, piece
  <2>1. Segments(x) = [n \in 1..M |-> piece(n)] /\ M \in Nat
    BY <1>5, <1>6 DEF M, piece
  <2>2. Len(Segments(x)) = M /\ \A n \in 1..M : Segments(x)[n] = piece(n)
    BY <2>1
  <2> QED BY <2>2 DEF M, piece
<1>8. \A n \in 2..(m + 1) : cuts[n] \in 1..l /\ x[cuts[n]] \in LANG_DICT
  <2> SUFFICES ASSUME NEW n \in 2..(m + 1) PROVE cuts[n] \in 1..l /\ x[cuts[n]] \in LANG_DICT
    OBVIOUS
  <2>1. n - 1 \in 1..m /\ (n - 1) + 1 = n
    BY <1>3
  <2>2. cuts[n] = at[n - 1]
    BY <1>4, <2>1
  <2> QED BY <1>1, <1>3, <2>1, <2>2
<1>9. \A n \in 1..(m + 1) : cuts[n] \in 0..l /\ cuts[n + 1] \in 1..(l + 1) /\ cuts[n] < cuts[n + 1]
  <2> SUFFICES ASSUME NEW n \in 1..(m + 1)
               PROVE  cuts[n] \in 0..l /\ cuts[n + 1] \in 1..(l + 1) /\ cuts[n] < cuts[n + 1]
    OBVIOUS
  <2>1. CASE n = m + 1
    <3>1. cuts[n + 1] = l + 1
      BY <1>3, <1>4, <2>1
    <3>2. cuts[n] \in 0..l
      <4>1. CASE n = 1
        BY <1>1, <1>4, <4>1
      <4>2. CASE n # 1
        BY <1>1, <1>3, <1>8, <4>2
      <4> QED BY <4>1, <4>2
    <3> QED BY <1>1, <3>1, <3>2
  <2>2. CASE n # m + 1
    <3>1. n \in 1..m /\ n + 1 \in 2..(m + 1)
      BY <1>3, <2>2
    <3>2. cuts[n + 1] \in 1..l /\ cuts[n + 1] = at[n]
      BY <1>4, <1>8, <3>1
    <3>3. CASE n = 1
      BY <1>1, <1>4, <3>2, <3>3
    <3>4. CASE n # 1
      <4>1. n \in 2..(m + 1) /\ n - 1 \in 1..m /\ n - 1 < n /\ (n - 1) + 1 = n
        BY <1>3, <3>4
      <4>2. cuts[n] \in 1..l /\ cuts[n] = at[n - 1]
        BY <1>4, <1>8, <4>1
      <4>3. at[n - 1] < at[n]
        BY <1>2, <3>1, <4>1 DEF Rising
      <4> QED BY <1>1, <3>2, <4>2, <4>3
    <3> QED BY <3>3, <3>4
  <2> QED BY <2>1, <2>2
<1>10. cuts \in [1..(m + 2) -> Nat]
  BY <1>4
<1> QED BY <1>3, <1>4, <1>7, <1>8, <1>9, <1>10 DEF l

\* The segments joined so far, and that they are.
Joins(g, s, N) ==
    g = [n \in 0..N |-> IF n = 0 THEN [text |-> format_str_v2(s[1]), event |-> NoEmoji]
                        ELSE Join(g[n - 1], format_str_v2(s[n + 1]))]

LEMMA JoinsExist ==
    ASSUME NEW N \in Nat, NEW s
    PROVE  \E g : Joins(g, s, N)
<1> DEFINE base == [text |-> format_str_v2(s[1]), event |-> NoEmoji]
           more(j, k) == Join(j, format_str_v2(s[k + 1]))
           Solves(g, n) == Joins(g, s, n)
           P == {n \in 0..N : \E g : Solves(g, n)}
<1> HIDE DEF base, more
<1>0. \A g, n : Solves(g, n) <=> g = [k \in 0..n |-> IF k = 0 THEN base ELSE more(g[k - 1], k)]
  BY DEF Joins, base, more
<1> HIDE DEF Solves
<1>1. 0 \in P
  <2> DEFINE g == [k \in 0..0 |-> base]
  <2>1. g = [k \in 0..0 |-> IF k = 0 THEN base ELSE more(g[k - 1], k)]
    OBVIOUS
  <2> HIDE DEF g
  <2>2. Solves(g, 0)
    BY <1>0, <2>1, Zenon
  <2>3. 0 \in 0..N
    OBVIOUS
  <2> QED BY <2>2, <2>3
<1>2. ASSUME NEW n \in 1..N, n - 1 \in P PROVE n \in P
  <2>1. PICK g : Solves(g, n - 1)
    BY <1>2
  <2>2. g = [k \in 0..(n - 1) |-> IF k = 0 THEN base ELSE more(g[k - 1], k)]
    BY <1>0, <2>1
  <2> DEFINE h == [k \in 0..n |-> IF k = n THEN more(g[n - 1], n) ELSE g[k]]
  <2>3. n \in 0..N /\ n \in Nat /\ n # 0
    OBVIOUS
  <2>4. \A k \in 0..n : h[k] = IF k = 0 THEN base ELSE more(h[k - 1], k)
    <3> TAKE k \in 0..n
    <3>1. CASE k = n
      <4>1. n - 1 \in 0..n /\ n - 1 # n
        BY <2>3
      <4>2. h[n - 1] = g[n - 1] /\ h[n] = more(g[n - 1], n)
        BY <2>3, <4>1
      <4> QED BY <2>3, <3>1, <4>2
    <3>2. CASE k = 0
      <4>1. 0 \in 0..(n - 1) /\ 0 \in 0..n
        BY <2>3
      <4>2. h[0] = g[0] /\ g[0] = base
        BY <2>2, <2>3, <4>1
      <4> QED BY <3>2, <4>2
    <3>3. CASE k # n /\ k # 0
      <4>1. k \in 0..(n - 1) /\ k - 1 \in 0..n /\ k - 1 # n
        BY <2>3, <3>3
      <4>2. h[k] = g[k] /\ h[k - 1] = g[k - 1]
        BY <3>3, <4>1
      <4>3. g[k] = more(g[k - 1], k)
        BY <2>2, <3>3, <4>1
      <4> QED BY <3>3, <4>2, <4>3
    <3> QED BY <3>1, <3>2, <3>3
  <2>5. h = [k \in 0..n |-> h[k]]
    OBVIOUS
  <2>6. h = [k \in 0..n |-> IF k = 0 THEN base ELSE more(h[k - 1], k)]
    <3> HIDE DEF h
    <3> QED BY <2>4, <2>5, Zenon
  <2> HIDE DEF h
  <2>7. Solves(h, n)
    BY <1>0, <2>6
  <2> QED BY <2>3, <2>7
<1> HIDE DEF P
<1>3. 0..N \subseteq P
  BY <1>1, <1>2, UpTo
<1>4. N \in P
  BY <1>3
<1> QED BY <1>4 DEF P, Solves

\* All segments of a text.
LEMMA JoinedRenders ==
    ASSUME NEW x, Bare(x), NEW g, Joins(g, Segments(x), Len(Segments(x)) - 1)
    PROVE  Renders(g[Len(Segments(x)) - 1].text, x)
<1> DEFINE s == Segments(x)
<1>1. x \in Seq(Vocabulary) /\ Range(x) \cap (EMO_SET \cup EVENT_SET) = {}
  BY DEF Bare
<1>2. PICK m \in Nat : \E c \in [1..(m + 2) -> Nat] :
              /\ Len(s) = m + 1
              /\ \A n \in 1..(m + 1) : s[n] = SubSeq(x, c[n] + 1, c[n + 1] - 1)
              /\ c[1] = 0 /\ c[m + 2] = Len(x) + 1
              /\ \A n \in 1..(m + 1) : c[n] \in 0..Len(x) /\ c[n + 1] \in 1..(Len(x) + 1) /\ c[n] < c[n + 1]
              /\ \A n \in 2..(m + 1) : c[n] \in 1..Len(x) /\ x[c[n]] \in LANG_DICT
  BY <1>1, SegmentsAre
<1>3. PICK c \in [1..(m + 2) -> Nat] :
              /\ Len(s) = m + 1
              /\ \A n \in 1..(m + 1) : s[n] = SubSeq(x, c[n] + 1, c[n + 1] - 1)
              /\ c[1] = 0 /\ c[m + 2] = Len(x) + 1
              /\ \A n \in 1..(m + 1) : c[n] \in 0..Len(x) /\ c[n + 1] \in 1..(Len(x) + 1) /\ c[n] < c[n + 1]
              /\ \A n \in 2..(m + 1) : c[n] \in 1..Len(x) /\ x[c[n]] \in LANG_DICT
  BY <1>2
<1>4. Len(s) - 1 = m /\ Len(x) \in Nat
  BY <1>1, <1>3
<1>5. g = [n \in 0..m |-> IF n = 0 THEN [text |-> format_str_v2(s[1]), event |-> NoEmoji]
                          ELSE Join(g[n - 1], format_str_v2(s[n + 1]))]
  BY <1>4 DEF Joins
<1> HIDE DEF s
<1>6. ASSUME NEW n \in 1..(m + 1) PROVE s[n] \in Seq(Vocabulary) /\ Renders(format_str_v2(s[n]), s[n])
  <2>1. s[n] = SubSeq(x, c[n] + 1, c[n + 1] - 1) /\ c[n] \in 0..Len(x) /\ c[n + 1] \in 1..(Len(x) + 1)
    BY <1>3
  <2> DEFINE a == c[n] + 1
             b == c[n + 1] - 1
  <2>2. a \in Int /\ b \in Int /\ a >= 1 /\ b <= Len(x) /\ \A i \in a..b : i \in 1..Len(x)
    <3> DEFINE p == c[n]
               q == c[n + 1]
    <3>1. p \in 0..Len(x) /\ q \in 1..(Len(x) + 1)
      BY <2>1
    <3> HIDE DEF p, q
    <3>2. p + 1 \in Int /\ q - 1 \in Int /\ p + 1 >= 1 /\ q - 1 <= Len(x)
      BY <1>4, <3>1
    <3>3. \A i \in (p + 1)..(q - 1) : i \in 1..Len(x)
      BY <1>4, <3>1
    <3> QED BY <3>2, <3>3 DEF p, q
  <2> HIDE DEF a, b
  <2>3. \A i \in a..b : x[i] \in Vocabulary
    BY <1>1, <2>2, RangeIs
  <2>4. /\ SubSeq(x, a, b) \in Seq(Vocabulary)
        /\ Len(SubSeq(x, a, b)) = IF a <= b THEN b - a + 1 ELSE 0
        /\ \A i \in 1..(b - a + 1) : SubSeq(x, a, b)[i] = x[a + i - 1]
    BY <2>2, <2>3, SubSeqProperties
  <2> DEFINE p == SubSeq(x, a, b)
  <2> HIDE DEF p
  <2>5. \A i \in 1..Len(p) : p[i] \in Range(x)
    <3> SUFFICES ASSUME NEW i \in 1..Len(p) PROVE p[i] \in Range(x)
      OBVIOUS
    <3>1. i \in 1..(b - a + 1) /\ a + i - 1 \in 1..Len(x)
      BY <1>4, <2>2, <2>4 DEF p
    <3>2. p[i] = x[a + i - 1]
      BY <2>4, <3>1 DEF p
    <3> QED BY <1>1, <3>1, <3>2, RangeIs
  <2>6. p \in Seq(Vocabulary) /\ Range(p) \subseteq Range(x)
    <3>1. p \in Seq(Vocabulary)
      BY <2>4 DEF p
    <3> QED BY <2>5, <3>1, RangeIs
  <2>7. Bare(p)
    BY <1>1, <2>6 DEF Bare
  <2> QED BY <2>1, <2>6, <2>7, FormatRenders DEF p, a, b
<1> DEFINE upto(n) == SubSeq(x, 1, c[n + 2] - 1)
           P == {n \in 0..m : JoinedTo(g[n], upto(n))}
<1>7. 0 \in P
  <2>1. g[0] = [text |-> format_str_v2(s[1]), event |-> NoEmoji] /\ 0 \in 0..m /\ 1 \in 1..(m + 1)
    BY <1>5
  <2>2. s[1] = upto(0)
    <3>1. s[1] = SubSeq(x, c[1] + 1, c[1 + 1] - 1)
      BY <1>3, <2>1
    <3>2. c[1] + 1 = 1 /\ 1 + 1 = 0 + 2
      BY <1>3
    <3> QED BY <3>1, <3>2
  <2>3. Renders(format_str_v2(s[1]), s[1])
    BY <1>6, <2>1
  <2>4. JoinedTo(g[0], s[1])
    BY <2>1, <2>3 DEF JoinedTo
  <2> QED BY <2>1, <2>2, <2>4
<1>8. ASSUME NEW n \in 1..m, n - 1 \in P PROVE n \in P
  <2>1. /\ n \in 0..m /\ n # 0 /\ n + 1 \in 1..(m + 1) /\ n + 1 \in 2..(m + 1) /\ (n - 1) + 2 = n + 1
        /\ (n + 1) + 1 = n + 2
    BY <1>2
  <2> DEFINE k == c[n + 1]
             e == c[n + 2] - 1
  <2>2. k \in 1..Len(x) /\ x[k] \in LANG_DICT /\ e \in k..Len(x) /\ s[n + 1] = SubSeq(x, k + 1, e)
    <3>1. c[n + 1] \in 1..Len(x) /\ x[c[n + 1]] \in LANG_DICT
      BY <1>3, <2>1
    <3>2. c[n + 1] \in 0..Len(x) /\ c[n + 2] \in 1..(Len(x) + 1) /\ c[n + 1] < c[n + 2]
      BY <1>3, <2>1
    <3>3. s[n + 1] = SubSeq(x, c[n + 1] + 1, c[n + 2] - 1)
      BY <1>3, <2>1
    <3> QED BY <1>4, <3>1, <3>2, <3>3, SMTT(40)
  <2> DEFINE a == SubSeq(x, 1, k - 1)
             l == x[k]
  <2>3. a \in Seq(Vocabulary) /\ l \in Vocabulary
    <3> HIDE DEF k
    <3>1. \A i \in 1..(k - 1) : x[i] \in Vocabulary
      BY <1>1, <1>4, <2>2, RangeIs
    <3>2. 1 \in Int /\ k - 1 \in Int
      BY <1>4, <2>2
    <3>3. a \in Seq(Vocabulary)
      BY <3>1, <3>2, SubSeqProperties
    <3> QED BY <1>1, <2>2, <3>3, RangeIs
  <2>4. SubSeq(x, 1, k) = a \o <<l>>
    <3>1. 1 \in 1..Len(x) /\ k \in 1..Len(x)
      BY <1>4, <2>2
    <3> HIDE DEF k
    <3> QED BY <1>1, <3>1, SubSeqRecursiveSecond
  <2>5. SubSeq(x, 1, k) \o SubSeq(x, k + 1, e) = SubSeq(x, 1, e)
    <3>1. 1 \in 1..(Len(x) + 1) /\ k \in (1 - 1)..Len(x) /\ e \in k..Len(x)
      BY <1>4, <2>2
    <3> HIDE DEF k, e
    <3> QED BY <1>1, <3>1, ConcatAdjacentSubSeq
  <2>6. JoinedTo(g[n - 1], a)
    BY <1>8, <2>1
  <2>7. g[n] = Join(g[n - 1], format_str_v2(s[n + 1]))
    BY <1>5, <2>1
  <2>8. upto(n) = SubSeq(x, 1, e)
    OBVIOUS
  <2> HIDE DEF a, l, k, e
  <2>9. a \o <<l>> \in Seq(Vocabulary) /\ JoinedTo(g[n - 1], a \o <<l>>)
    <3>1. Renders(g[n - 1].text, a) /\ l \in LANG_DICT
      BY <2>2, <2>6 DEF JoinedTo, l
    <3>2. a \o <<l>> \in Seq(Vocabulary) /\ Renders(g[n - 1].text, a \o <<l>>)
      BY <2>3, <3>1, LanguageRenders
    <3> QED BY <2>6, <3>2 DEF JoinedTo
  <2>10. s[n + 1] \in Seq(Vocabulary) /\ Renders(format_str_v2(s[n + 1]), s[n + 1])
    BY <1>6, <2>1
  <2>11. JoinedTo(Join(g[n - 1], format_str_v2(s[n + 1])), (a \o <<l>>) \o s[n + 1])
    <3> DEFINE al == a \o <<l>>
    <3>1. al \in Seq(Vocabulary) /\ JoinedTo(g[n - 1], al)
      BY <2>9
    <3> HIDE DEF al
    <3>2. JoinedTo(Join(g[n - 1], format_str_v2(s[n + 1])), al \o s[n + 1])
      BY <2>10, <3>1, JoinRenders
    <3> QED BY <3>2 DEF al
  <2>12. JoinedTo(g[n], upto(n))
    BY <2>2, <2>4, <2>5, <2>7, <2>8, <2>11
  <2> QED BY <2>1, <2>12
<1>9. m \in P
  <2> HIDE DEF P
  <2>1. 0..m \subseteq P
    BY <1>7, <1>8, UpTo
  <2> QED BY <2>1
<1>10. upto(m) = x
  <2>1. c[m + 2] - 1 = Len(x)
    BY <1>3, <1>4
  <2>2. SubSeq(x, 1, Len(x)) = x
    BY <1>1, SubSeqFull
  <2> QED BY <2>1, <2>2
<1>11. JoinedTo(g[m], x)
  BY <1>9, <1>10
<1> QED BY <1>4, <1>11 DEF JoinedTo, s


\* A text of the recogniser: words and tags.
IsTranscript(x) ==
    x \in Seq(STRING \ {""}) /\ Range(x) \cap (EMO_SET \cup Labelled) = {}

\* Marking changes none of the tags that say something, and no word.
LEMMA MarkedIs ==
    ASSUME NEW x, IsTranscript(x)
    PROVE  /\ x \in Seq(Vocabulary) /\ Bare(Marked(x)) /\ Words(Marked(x)) = Words(x)
           /\ \A e \in MoodTags \cup NoiseTags \cup {"NEUTRAL"} : e \in Range(Marked(x)) <=> e \in Range(x)
<1> DEFINE pair(i) == i \in 1..(Len(x) - 1) /\ x[i] = "nospeech" /\ x[i + 1] = "Event_UNK"
           marks == [i \in DOMAIN x |-> IF pair(i) THEN "?" ELSE IF pair(i - 1) THEN "" ELSE x[i]]
<1>1. Marked(x) = Without(marks, {""})
  BY DEF Marked
<1>2. /\ x \in Seq(Vocabulary) /\ Len(x) \in Nat /\ DOMAIN x = 1..Len(x)
      /\ Range(x) \cap (EMO_SET \cup EVENT_SET \cup {"?", ""}) = {}
  <2>1. STRING \ {""} \subseteq Vocabulary
    BY DEF Vocabulary
  <2>2. x \in Seq(STRING \ {""})
    BY DEF IsTranscript
  <2>3. x \in Seq(Vocabulary)
    BY <2>1, <2>2, SeqMonotonic
  <2>4. Range(x) \subseteq STRING \ {""}
    BY <2>2, RangeIs
  <2>5. Range(x) \cap (EMO_SET \cup Labelled) = {}
    BY DEF IsTranscript
  <2>6. EMO_SET \cup EVENT_SET \cup {"?", ""} = (EMO_SET \cup Labelled) \cup {""}
    BY DEF Labelled
  <2>7. Range(x) \cap ((EMO_SET \cup Labelled) \cup {""}) = {}
    BY <2>4, <2>5
  <2>8. Len(x) \in Nat /\ DOMAIN x = 1..Len(x)
    BY <2>3
  <2> QED BY <2>3, <2>6, <2>7, <2>8
<1>3. /\ \A i \in 1..Len(x) : x[i] \in Vocabulary /\ x[i] \in Range(x)
      /\ \A e \in Range(x) : \E i \in 1..Len(x) : e = x[i]
  BY <1>2, RangeIs
\* What is marked was one of the two tags.
<1>4. \A i \in 1..Len(x) : (IF pair(i) THEN "?" ELSE IF pair(i - 1) THEN "" ELSE x[i]) = x[i]
                             \/ /\ x[i] \in {"nospeech", "Event_UNK"}
                                /\ (IF pair(i) THEN "?" ELSE IF pair(i - 1) THEN "" ELSE x[i]) \in {"?", ""}
  <2> SUFFICES ASSUME NEW i \in 1..Len(x)
               PROVE  (IF pair(i) THEN "?" ELSE IF pair(i - 1) THEN "" ELSE x[i]) = x[i]
                             \/ /\ x[i] \in {"nospeech", "Event_UNK"}
                                /\ (IF pair(i) THEN "?" ELSE IF pair(i - 1) THEN "" ELSE x[i]) \in {"?", ""}
    OBVIOUS
  <2>1. i \in Int => (i - 1) + 1 = i
    OBVIOUS
  <2>2. i \in Int
    OBVIOUS
  <2>3. pair(i) => x[i] = "nospeech"
    OBVIOUS
  <2>4. pair(i - 1) => x[i] = "Event_UNK"
    BY <2>1, <2>2
  <2> HIDE DEF pair
  <2> QED BY <2>3, <2>4
<1> HIDE DEF pair
<1> DEFINE value(i) == IF pair(i) THEN "?" ELSE IF pair(i - 1) THEN "" ELSE x[i]
<1>5. \A i \in 1..Len(x) : value(i) = x[i] \/ (x[i] \in {"nospeech", "Event_UNK"} /\ value(i) \in {"?", ""})
  BY <1>4
<1>6. marks = [i \in 1..Len(x) |-> value(i)]
  BY <1>2
<1>7. \A i \in 1..Len(x) : value(i) \in Vocabulary
  <2> HIDE DEF value
  <2> QED BY <1>3, <1>5 DEF Vocabulary
<1> HIDE DEF value, marks
<1>8. Len(x) \in Nat
  BY <1>2
<1>9. marks \in Seq(Vocabulary) /\ Len(marks) = Len(x)
  BY <1>6, <1>7, <1>8
<1>10. marks \in Seq(Vocabulary)
  BY <1>9
<1>11. \A i \in 1..Len(x) : marks[i] = x[i] \/ (x[i] \in {"nospeech", "Event_UNK"} /\ marks[i] \in {"?", ""})
  BY <1>5, <1>6
<1>12. /\ \A i \in 1..Len(x) : marks[i] \in Range(marks)
      /\ \A e \in Range(marks) : \E i \in 1..Len(x) : e = marks[i]
  BY <1>9, <1>10, RangeIs
<1> DEFINE E == {""}
<1> HIDE DEF E
<1>13. Without(marks, E) \in Seq(Vocabulary) /\ Range(Without(marks, E)) = Range(marks) \ E
  BY <1>10, WithoutIs
<1>14. Marked(x) \in Seq(Vocabulary) /\ Range(Marked(x)) = Range(marks) \ {""}
  BY <1>1, <1>13 DEF E
<1>15. ASSUME NEW e \in Range(marks) PROVE e \in Range(x) \cup {"?", ""}
  <2>1. PICK i \in 1..Len(x) : e = marks[i]
    BY <1>12
  <2> QED BY <1>3, <1>11, <2>1
<1>16. ASSUME NEW e \in Range(x), e \notin {"nospeech", "Event_UNK"} PROVE e \in Range(marks)
  <2>1. PICK i \in 1..Len(x) : e = x[i]
    BY <1>3
  <2> QED BY <1>11, <1>12, <1>16, <2>1
<1>17. Bare(Marked(x))
  <2>1. \A e \in {"?", ""} : e \notin EMO_SET /\ e \notin EVENT_SET
    BY Apart
  <2>2. ASSUME NEW e \in Range(Marked(x)) PROVE e \notin EMO_SET \cup EVENT_SET
    BY <1>2, <1>14, <1>15, <2>1
  <2> QED BY <1>14, <2>2 DEF Bare
<1>18. Words(Marked(x)) = Words(x)
  <2>1. Without(Without(marks, {""}), Gone) = Without(marks, {""} \cup Gone)
    <3>1. Without(Without(marks, E), Gone) = Without(marks, E \cup Gone)
      BY <1>10, WithoutNested
    <3> QED BY <3>1 DEF E
  <2>2. /\ Without(marks, {""} \cup Gone) = Only(marks, Vocabulary \ ({""} \cup Gone))
        /\ Without(x, Gone) = Only(x, Vocabulary \ Gone)
    BY <1>2, <1>10, WithoutOnly
  <2>3. "?" \in Gone /\ "nospeech" \in Gone /\ "Event_UNK" \in Gone
    BY Apart DEF Gone, Labelled
  <2>4. ASSUME NEW i \in 1..Len(x)
        PROVE  /\ marks[i] \in Vocabulary \ ({""} \cup Gone) <=> x[i] \in Vocabulary \ Gone
               /\ marks[i] \in Vocabulary \ ({""} \cup Gone) => marks[i] = x[i]
    <3>1. CASE marks[i] = x[i]
      <4>1. x[i] # ""
        BY <1>2, <1>3
      <4> QED BY <3>1, <4>1
    <3>2. CASE x[i] \in {"nospeech", "Event_UNK"} /\ marks[i] \in {"?", ""}
      <4>1. x[i] \in Gone /\ (marks[i] \in Gone \/ marks[i] = "")
        BY <2>3, <3>2
      <4> QED BY <4>1
    <3> QED BY <1>11, <3>1, <3>2
  <2>5. Only(marks, Vocabulary \ ({""} \cup Gone)) = Only(x, Vocabulary \ Gone)
    <3> DEFINE S == Vocabulary \ ({""} \cup Gone)
               T == Vocabulary \ Gone
    <3>1. \A i \in 1..Len(x) : (marks[i] \in S <=> x[i] \in T) /\ (marks[i] \in S => marks[i] = x[i])
      BY <2>4
    <3>2. x \in Seq(Vocabulary) /\ marks \in Seq(Vocabulary) /\ Len(x) = Len(marks)
      BY <1>2, <1>9
    <3> HIDE DEF S, T
    <3>3. Only(marks, S) = Only(x, T)
      BY <3>1, <3>2, OnlyAlike
    <3> QED BY <3>3 DEF S, T
  <2> QED BY <1>1, <2>1, <2>2, <2>5 DEF Words
<1>19. ASSUME NEW e \in MoodTags \cup NoiseTags \cup {"NEUTRAL"}
       PROVE  e \in Range(Marked(x)) <=> e \in Range(x)
  <2>1. e \notin {"nospeech", "Event_UNK", "?", ""}
    BY Apart
  <2> QED BY <1>14, <1>15, <1>16, <2>1
<1> QED BY <1>2, <1>17, <1>18, <1>19

\* What the recogniser gives is rendered.
LEMMA RichRenders ==
    ASSUME NEW x, IsTranscript(x)
    PROVE  /\ Renders(rich_transcription_postprocess(x), x)
           /\ "The." \notin Range(rich_transcription_postprocess(x))
<1> DEFINE N == Len(Segments(Marked(x))) - 1
           s == Segments(Marked(x))
           joined == CHOOSE g : Joins(g, s, N)
           out == joined[N].text
<1>1. rich_transcription_postprocess(x) = Without(out, {"The."})
  BY DEF rich_transcription_postprocess, Joins
<1>2. Bare(Marked(x)) /\ Words(Marked(x)) = Words(x)
  BY MarkedIs
<1>3. N \in Nat
  <2>1. Marked(x) \in Seq(Vocabulary)
    BY <1>2 DEF Bare
  <2>2. PICK m \in Nat : Len(s) = m + 1
    BY <2>1, SegmentsAre
  <2> QED BY <2>2
<1>4. Joins(joined, s, N)
  <2>1. \E g : Joins(g, s, N)
    <3> HIDE DEF N, s
    <3> QED BY <1>3, JoinsExist
  <2> HIDE DEF N, s
  <2> QED BY <2>1
<1> HIDE DEF joined
<1>5. Renders(out, Marked(x))
  BY <1>2, <1>4, JoinedRenders
<1> HIDE DEF out
<1>6. out \in Seq(Vocabulary)
  BY <1>5 DEF Renders
<1> DEFINE r == Without(out, {"The."})
<1>7. r \in Seq(Vocabulary) /\ Range(r) = Range(out) \ {"The."}
  BY <1>6, WithoutIs
<1>8. Words(r) = Words(x)
  <2>1. Without(Without(out, {"The."}), Gone) = Without(out, {"The."} \cup Gone)
    BY <1>6, WithoutNested
  <2>2. {"The."} \cup Gone = Gone
    BY DEF Gone
  <2>3. Words(out) = Words(Marked(x))
    BY <1>5 DEF Renders
  <2> QED BY <1>2, <2>1, <2>2, <2>3 DEF Words
<1> HIDE DEF r
<1>9. Range(r) \cap EVENT_SET = Range(out) \cap EVENT_SET /\ Range(r) \cap EMO_SET = Range(out) \cap EMO_SET
  BY <1>7, Apart
<1>10. \A e \in MoodTags \cup NoiseTags \cup {"NEUTRAL"} : e \in Range(Marked(x)) <=> e \in Range(x)
  BY MarkedIs
<1>11. /\ Range(Marked(x)) \cap MoodTags = Range(x) \cap MoodTags
       /\ Range(Marked(x)) \cap NoiseTags = Range(x) \cap NoiseTags
       /\ "NEUTRAL" \in Range(Marked(x)) <=> "NEUTRAL" \in Range(x)
  BY <1>10
<1>12. NoiseOf(Marked(x)) = NoiseOf(x) /\ MoodsOf(Marked(x)) = MoodsOf(x)
  BY <1>11 DEF NoiseOf, MoodsOf
<1>13. /\ Range(out) \cap EMOJI_DICT = {}
       /\ Range(out) \cap EVENT_SET = NoiseOf(x)
       /\ Range(out) \cap EMO_SET \subseteq MoodsOf(x)
       /\ "NEUTRAL" \notin Range(x) /\ Range(x) \cap MoodTags # {} => Range(out) \cap EMO_SET # {}
  BY <1>5, <1>11, <1>12 DEF Renders
<1>14. Renders(r, x)
  BY <1>7, <1>8, <1>9, <1>13 DEF Renders
<1> QED BY <1>1, <1>7, <1>14 DEF r

\* The mood told is one of those seen, if any is.
LEMMA MainMoodIs ==
    ASSUME NEW x \in Seq(Vocabulary)
    PROVE  /\ MainMood(x) \in (Range(x) \cap EMO_SET) \cup {NoEmoji}
           /\ Range(x) \cap EMO_SET # {} => MainMood(x) # NoEmoji
<1> DEFINE moods == Only(x, EMO_SET)
           often == {i \in DOMAIN moods : \A j \in DOMAIN moods :
                        Times(moods[j], moods) <= Times(moods[i], moods)}
<1>1. MainMood(x) = IF moods = <<>> THEN NoEmoji ELSE moods[Max(often)]
  BY DEF MainMood
<1>2. moods \in Seq(Vocabulary) /\ Range(moods) = Range(x) \cap EMO_SET
  BY OnlyIs
<1>3. NoEmoji \notin EMO_SET
  BY Apart
<1>4. CASE moods = <<>>
  <2>1. Range(moods) = {}
    BY <1>4, RangeEmpty
  <2> HIDE DEF moods
  <2> QED BY <1>1, <1>2, <1>4, <2>1
<1>5. CASE moods # <<>>
  <2> HIDE DEF moods
  <2>1. /\ Len(moods) \in Nat /\ DOMAIN moods = 1..Len(moods)
        /\ \A i \in 1..Len(moods) : moods[i] \in Range(moods)
        /\ \A e \in Range(moods) : \E i \in 1..Len(moods) : e = moods[i]
    BY <1>2, RangeIs
  <2>2. Range(moods) # {}
    BY <1>2, <1>5, NoneInRange
  <2>3. PICK e \in Range(moods) : \A o \in Range(moods) : Times(o, moods) <= Times(e, moods)
    BY <1>2, <2>2, MostExists
  <2>4. PICK i \in 1..Len(moods) : e = moods[i]
    BY <2>1
  <2>5. i \in often /\ often \in SUBSET (1..Len(moods))
    BY <2>1, <2>3, <2>4
  <2> HIDE DEF often
  <2>6. Max(often) \in often
    <3> DEFINE lacks == {Len(moods) - n : n \in often}
    <3>1. lacks \in SUBSET Nat /\ lacks # {}
      BY <2>1, <2>5
    <3>2. PICK l \in lacks : \A k \in lacks : l <= k
      <4> HIDE DEF lacks
      <4> QED BY <3>1, LeastNat
    <3>3. PICK n \in often : l = Len(moods) - n
      BY <3>2
    <3>4. \A k \in often : n >= k
      <4> SUFFICES ASSUME NEW k \in often PROVE n >= k
        OBVIOUS
      <4>1. Len(moods) - n <= Len(moods) - k
        BY <3>2, <3>3
      <4>2. n \in 1..Len(moods) /\ k \in 1..Len(moods)
        BY <2>5
      <4> QED BY <2>1, <4>1, <4>2
    <3> QED BY <3>4 DEF Max
  <2>7. moods[Max(often)] \in Range(moods)
    BY <2>1, <2>5, <2>6
  <2> QED BY <1>1, <1>2, <1>3, <1>5, <2>7
<1> QED BY <1>4, <1>5

\* The events told are those seen, each once.
LEMMA EventsTold ==
    ASSUME NEW x \in Seq(Vocabulary)
    PROVE  LET events == format_asr_hint(parse_asr_text(x)).events
           IN  /\ Range(events) = Range(x) \cap EVENT_SET
               /\ IsInjective(events)
<1> DEFINE first == {i \in DOMAIN x : x[i] \in Labelled /\ \A j \in 1..(i - 1) : x[j] # x[i]}
           at == PlacesOf(x, first)
           e == [k \in DOMAIN at |-> x[at[k]]]
           events == Without(e, {"?"})
<1>1. format_asr_hint(parse_asr_text(x)).events = events
  BY DEF format_asr_hint, parse_asr_text
<1>2. /\ Len(x) \in Nat /\ DOMAIN x = 1..Len(x)
      /\ \A i \in 1..Len(x) : x[i] \in Vocabulary /\ x[i] \in Range(x)
      /\ \A y \in Range(x) : \E i \in 1..Len(x) : y = x[i]
  BY RangeIs
<1>3. at \in Seq(1..Len(x)) /\ Range(at) = first /\ Rising(at)
  <2>1. first \in SUBSET (1..Len(x))
    BY <1>2
  <2> HIDE DEF first
  <2> QED BY <2>1, PlacesAre
<1> HIDE DEF at
<1>4. /\ Len(at) \in Nat /\ DOMAIN at = 1..Len(at)
      /\ \A k \in 1..Len(at) : at[k] \in 1..Len(x) /\ at[k] \in first
      /\ \A i \in first : \E k \in 1..Len(at) : i = at[k]
  <2> HIDE DEF first
  <2> QED BY <1>3, RangeIs
<1>5. e \in Seq(Vocabulary) /\ Len(e) = Len(at) /\ \A k \in 1..Len(at) : e[k] = x[at[k]]
  <2>1. \A k \in 1..Len(at) : x[at[k]] \in Vocabulary
    BY <1>2, <1>4
  <2> HIDE DEF first
  <2> QED BY <1>4, <2>1
<1> HIDE DEF e
<1>6. /\ \A k \in 1..Len(at) : e[k] \in Range(e)
      /\ \A y \in Range(e) : \E k \in 1..Len(at) : y = e[k]
  BY <1>5, RangeIs
<1>7. ASSUME NEW y \in Range(e) PROVE y \in Range(x) \cap Labelled
  BY <1>2, <1>4, <1>5, <1>6
<1>8. ASSUME NEW y \in Range(x) \cap Labelled PROVE y \in Range(e)
  <2> DEFINE places == {i \in 1..Len(x) : x[i] = y}
  <2>1. places \in SUBSET Nat /\ places # {}
    BY <1>2
  <2>2. PICK i \in places : \A j \in places : i <= j
    <3> HIDE DEF places
    <3> QED BY <2>1, LeastNat
  <2>3. \A j \in 1..(i - 1) : x[j] # x[i]
    <3> SUFFICES ASSUME NEW j \in 1..(i - 1), x[j] = x[i] PROVE FALSE
      OBVIOUS
    <3>1. j \in places /\ ~(i <= j)
      BY <1>2, <2>2
    <3> QED BY <2>2, <3>1
  <2>4. i \in first
    BY <1>2, <1>8, <2>2, <2>3
  <2>5. PICK k \in 1..Len(at) : i = at[k]
    BY <1>4, <2>4
  <2>6. e[k] = y
    BY <1>5, <2>2, <2>5
  <2> QED BY <1>6, <2>6
<1>9. Distinct(e)
  <2> SUFFICES ASSUME NEW k \in 1..Len(e), NEW l \in 1..Len(e), e[k] = e[l] PROVE k = l
    BY DEF Distinct
  <2>1. /\ k \in 1..Len(at) /\ l \in 1..Len(at) /\ x[at[k]] = x[at[l]]
        /\ at[k] \in first /\ at[l] \in first
    BY <1>4, <1>5
  <2>2. at[k] = at[l]
    <3>1. ~(at[k] \in 1..(at[l] - 1)) /\ ~(at[l] \in 1..(at[k] - 1))
      BY <2>1
    <3>2. at[k] \in 1..Len(x) /\ at[l] \in 1..Len(x)
      BY <1>4, <2>1
    <3> HIDE DEF first
    <3> QED BY <1>2, <3>1, <3>2
  <2>3. ~(k < l) /\ ~(l < k)
    BY <1>2, <1>3, <1>4, <2>1, <2>2 DEF Rising
  <2> QED BY <1>4, <2>1, <2>3
<1>10. events \in Seq(Vocabulary) /\ Range(events) = Range(e) \ {"?"} /\ Distinct(events)
  BY <1>5, <1>9, WithoutIs, OnlyDistinct DEF Without
<1> HIDE DEF events
<1>11. Range(events) = Range(x) \cap EVENT_SET
  <2>1. Labelled = EVENT_SET \cup {"?"} /\ "?" \notin EVENT_SET
    BY Apart DEF Labelled
  <2> QED BY <1>7, <1>8, <1>10, <2>1
<1>12. IsInjective(events)
  <2>1. DOMAIN events = 1..Len(events)
    BY <1>10
  <2> QED BY <1>10, <2>1 DEF Distinct, IsInjective
<1> QED BY <1>1, <1>11, <1>12

\* What the model is asked when a transcript was the last with any content.
LEMMA AskedFaithfully ==
    ASSUME NEW x, IsTranscript(x)
    PROVE  LET parsed == parse_asr_text(rich_transcription_postprocess(x))
               hint == format_asr_hint(parsed)
           IN  /\ parsed.text = Without(x, EMOJI_DICT \union {"The."})
               /\ Range(hint.events) = NoiseOf(x)
               /\ IsInjective(hint.events)
               /\ hint.emotion \in MoodsOf(x) \union {NoEmoji}
               /\ MoodsOf(x) # {} /\ "NEUTRAL" \notin Range(x) => hint.emotion # NoEmoji
<1> DEFINE r == rich_transcription_postprocess(x)
           parsed == parse_asr_text(r)
           hint == format_asr_hint(parsed)
<1>1. Renders(r, x) /\ "The." \notin Range(r)
  BY RichRenders
<1> HIDE DEF r
<1>2. r \in Seq(Vocabulary) /\ Range(r) \cap EMOJI_DICT = {} /\ Words(r) = Words(x)
  BY <1>1 DEF Renders
<1>3. parsed.text = Without(x, EMOJI_DICT \union {"The."})
  <2>1. parsed.text = Without(r, EMO_SET \union Labelled)
    BY DEF parse_asr_text
  <2>2. Range(r) \cap (EMO_SET \union Labelled) = Range(r) \cap Gone
    BY <1>1, <1>2 DEF Gone
  <2>3. Without(r, EMO_SET \union Labelled) = Words(r)
    BY <1>2, <2>2, WithoutMore DEF Words
  <2>4. x \in Seq(Vocabulary) /\ Range(x) \cap (EMO_SET \cup Labelled) = {}
    BY MarkedIs DEF IsTranscript
  <2>5. Range(x) \cap Gone = Range(x) \cap (EMOJI_DICT \union {"The."})
    BY <2>4 DEF Gone
  <2>6. Words(x) = Without(x, EMOJI_DICT \union {"The."})
    BY <2>4, <2>5, WithoutMore DEF Words
  <2> HIDE DEF parsed
  <2> QED BY <1>2, <2>1, <2>3, <2>6
<1>4. Range(hint.events) = NoiseOf(x) /\ IsInjective(hint.events)
  <2>1. Range(hint.events) = Range(r) \cap EVENT_SET /\ IsInjective(hint.events)
    BY <1>2, EventsTold
  <2> QED BY <1>1, <2>1 DEF Renders
<1>5. hint.emotion = MainMood(r)
  BY DEF format_asr_hint, parse_asr_text
<1>6. hint.emotion \in MoodsOf(x) \union {NoEmoji}
  BY <1>1, <1>2, <1>5, MainMoodIs DEF Renders
<1>7. ASSUME MoodsOf(x) # {}, "NEUTRAL" \notin Range(x) PROVE hint.emotion # NoEmoji
  <2>1. Range(x) \cap MoodTags # {}
    BY <1>7 DEF MoodsOf
  <2>2. Range(r) \cap EMO_SET # {}
    BY <1>1, <1>7, <2>1 DEF Renders
  <2> QED BY <1>2, <1>5, <2>2, MainMoodIs
<1> HIDE DEF hint, parsed
<1> QED BY <1>3, <1>4, <1>6, <1>7 DEF hint, parsed, r

\* Nothing is asked of nothing.
LEMMA NothingParsed == parse_asr_text(<<>>).text = <<>>
<1>1. parse_asr_text(<<>>).text = Without(<<>>, EMO_SET \union Labelled)
  BY DEF parse_asr_text
<1> QED BY <1>1, OnlyEmpty DEF Without

(* What was heard and what is asked.                                        *)

LEMMA GreatestIs ==
    ASSUME NEW S \in SUBSET Nat, NEW n \in S, \A i \in S : i <= n
    PROVE  Max(S) = n
<1>1. Max(S) \in S /\ \A i \in S : Max(S) >= i
  BY DEF Max
<1>2. Max(S) \in Nat /\ n \in Nat /\ Max(S) >= n /\ n >= Max(S)
  BY <1>1
<1> QED BY <1>2

Cleaned(text) == rich_transcription_postprocess(text)
Telling == {i \in 1..Len(heard) : Cleaned(heard[i]) # <<>>}

\* The prompt is the content of the last transcript that has any.
PromptIs ==
    \/ Telling = {} /\ prompt = <<>>
    \/ \E n \in Telling : (\A i \in Telling : i <= n) /\ prompt = Cleaned(heard[n])

\* What is asked is made of the prompt, and then nothing more is heard.
AskedIs ==
    asked # <<>> =>
        LET parsed == parse_asr_text(prompt)
        IN  /\ pc \in {"items", "over", "left"}
            /\ asked = <<[text |-> parsed.text, hint |-> format_asr_hint(parsed)]>>
            /\ parsed.text # <<>>

HintInv == heard \in Seq(Transcripts) /\ PromptIs /\ AskedIs

LEMMA PromptMore ==
    ASSUME HintInv, Recognise
    PROVE  HintInv'
<1>1. PICK text \in Transcripts :
          /\ heard' = Append(heard, text)
          /\ prompt' = IF Cleaned(text) = <<>> THEN prompt ELSE Cleaned(text)
  BY DEF Recognise, Cleaned
<1>2. /\ heard \in Seq(Transcripts) /\ heard' \in Seq(Transcripts) /\ Len(heard) \in Nat
      /\ Len(heard') = Len(heard) + 1 /\ heard'[Len(heard) + 1] = text
      /\ \A i \in 1..Len(heard) : heard'[i] = heard[i]
  BY <1>1 DEF HintInv
<1>3. asked = <<>> /\ asked' = asked
  BY DEF Recognise, HintInv, AskedIs
<1>4. Telling' = IF Cleaned(text) = <<>> THEN Telling ELSE Telling \cup {Len(heard) + 1}
  <2>1. Telling' = {i \in 1..Len(heard') : Cleaned(heard'[i]) # <<>>}
    BY DEF Telling
  <2>2. 1..Len(heard') = (1..Len(heard)) \cup {Len(heard) + 1}
    BY <1>2
  <2> QED BY <1>2, <2>1, <2>2 DEF Telling
<1>5. Telling \in SUBSET (1..Len(heard))
  BY DEF Telling
<1>6. PromptIs'
  <2>1. CASE Cleaned(text) = <<>>
    <3>1. Telling' = Telling /\ prompt' = prompt /\ \A i \in Telling : Cleaned(heard'[i]) = Cleaned(heard[i])
      BY <1>1, <1>2, <1>4, <1>5, <2>1
    <3> QED BY <3>1 DEF HintInv, PromptIs
  <2>2. CASE Cleaned(text) # <<>>
    <3>1. Len(heard) + 1 \in Telling' /\ \A i \in Telling' : i <= Len(heard) + 1
      BY <1>2, <1>4, <1>5, <2>2
    <3>2. prompt' = Cleaned(heard'[Len(heard) + 1])
      BY <1>1, <1>2, <2>2
    <3> QED BY <3>1, <3>2 DEF PromptIs
  <2> QED BY <2>1, <2>2
<1> QED BY <1>2, <1>3, <1>6 DEF HintInv, AskedIs

LEMMA HintStays ==
    ASSUME HintInv, UNCHANGED AsrVars, pc \in {"items", "over", "left"} => pc' \in {"items", "over", "left"}
    PROVE  HintInv'
<1>1. heard' = heard /\ prompt' = prompt /\ asked' = asked
  BY DEF AsrVars
<1>2. PromptIs'
  BY <1>1 DEF HintInv, PromptIs, Telling
<1>3. AskedIs'
  BY <1>1 DEF HintInv, AskedIs
<1> QED BY <1>1, <1>2, <1>3 DEF HintInv

LEMMA HintStep ==
    ASSUME HintInv, [NextAdmin]_adminVars
    PROVE  HintInv'
<1> DEFINE behind == pc \in {"items", "over", "left"} => pc' \in {"items", "over", "left"}
<1>1. CASE RejectAudio \/ RefuseCall \/ Accept \/ ListVoices \/ TtsFormat \/ Leave
  <2>1. UNCHANGED AsrVars /\ behind
    BY <1>1 DEF RejectAudio, RefuseCall, Accept, ListVoices, TtsFormat, Leave, Respond
  <2> QED BY <2>1, HintStays
<1>2. CASE FailEvents \/ FailRecognise \/ FailItems \/ EndEvents
  <2>1. UNCHANGED AsrVars /\ behind
    BY <1>2 DEF FailEvents, FailRecognise, FailItems, EndEvents, Close
  <2> QED BY <2>1, HintStays
<1>3. CASE PassEvent \/ PassText \/ PassAudio
  <2>1. UNCHANGED AsrVars /\ behind
    BY <1>3 DEF PassEvent, PassText, PassAudio
  <2> QED BY <2>1, HintStays
<1>4. CASE SplitScript \/ SplitTail \/ AskTts \/ AskTtsFails
  <2>1. UNCHANGED AsrVars /\ behind
    BY <1>4 DEF SplitScript, SplitTail, AskTts, AskTtsFails, SpeechVars
  <2> QED BY <2>1, HintStays
<1>5. CASE ListenTts \/ FinishTts
  <2>1. UNCHANGED AsrVars /\ behind
    BY <1>5 DEF ListenTts, FinishTts
  <2> QED BY <2>1, HintStays
<1>6. CASE Recognise
  BY <1>6, PromptMore
<1>7. CASE EndRecognise
  <2> DEFINE parsed == parse_asr_text(prompt)
  <2>1. CASE parsed.text = <<>>
    <3>1. UNCHANGED AsrVars /\ behind
      BY <1>7, <2>1 DEF EndRecognise, Close
    <3> QED BY <3>1, HintStays
  <2>2. CASE parsed.text # <<>>
    <3>1. /\ asked' = <<[text |-> parsed.text, hint |-> format_asr_hint(parsed)]>>
          /\ pc' = "items" /\ heard' = heard /\ prompt' = prompt
      BY <1>7, <2>2 DEF EndRecognise
    <3>2. PromptIs'
      BY <3>1 DEF HintInv, PromptIs, Telling
    <3>3. AskedIs'
      BY <2>2, <3>1 DEF AskedIs
    <3> QED BY <3>1, <3>2, <3>3 DEF HintInv
  <2> QED BY <2>1, <2>2
<1>8. CASE UNCHANGED adminVars
  <2>1. UNCHANGED AsrVars /\ behind
    BY <1>8 DEF adminVars, AsrVars
  <2> QED BY <2>1, HintStays
<1> QED BY <1>1, <1>2, <1>3, <1>4, <1>5, <1>6, <1>7, <1>8 DEF NextAdmin

LEMMA HintInit ==
    ASSUME InitAdmin
    PROVE  HintInv
<1>1. heard = <<>> /\ prompt = <<>> /\ asked = <<>>
  BY DEF InitAdmin
<1>2. Telling = {}
  BY <1>1 DEF Telling
<1> QED BY <1>1, <1>2 DEF HintInv, PromptIs, AskedIs

\* However many transcripts the recogniser gives and whatever they say: the
\* model is asked with the words of the last one with any content, with each
\* sound tagged in it once, and with a mood that was tagged in it
\* (build_asr_llm_tts_stream, utils/postprocess_utils.rs).
THEOREM HintAlwaysFaithful == SpecAdmin => []HintFaithful
<1>1. ASSUME HintInv PROVE HintFaithful
  <2> SUFFICES ASSUME asked # <<>> PROVE HintFaithful
    BY DEF HintFaithful
  <2> DEFINE content(t) == rich_transcription_postprocess(t) # <<>>
             held == {i \in DOMAIN heard : content(heard[i])}
             raw == heard[Max(held)]
             parsed == parse_asr_text(prompt)
             hint == format_asr_hint(parsed)
  <2>1. asked = <<[text |-> parsed.text, hint |-> hint]>> /\ parsed.text # <<>>
    BY <1>1 DEF HintInv, AskedIs
  <2>2. asked[1].text = parsed.text /\ asked[1].hint = hint
    <3> HIDE DEF parsed, hint
    <3> QED BY <2>1
  <2>3. prompt # <<>>
    BY <2>1, NothingParsed
  <2>4. PICK n \in Telling : (\A i \in Telling : i <= n) /\ prompt = Cleaned(heard[n])
    BY <1>1, <2>3 DEF HintInv, PromptIs
  <2>5. heard \in Seq(Transcripts) /\ DOMAIN heard = 1..Len(heard) /\ Len(heard) \in Nat
    BY <1>1 DEF HintInv
  <2>6. held = Telling
    BY <2>5 DEF Telling, Cleaned
  <2>7. Max(held) = n
    <3>1. Telling \in SUBSET Nat
      BY <2>5 DEF Telling
    <3> HIDE DEF held
    <3>2. Max(Telling) = n
      BY <2>4, <3>1, GreatestIs
    <3> QED BY <2>6, <3>2
  <2>8. raw = heard[n] /\ heard[n] \in Transcripts
    <3>1. heard[n] \in Transcripts
      BY <2>4, <2>5 DEF Telling
    <3> HIDE DEF held
    <3> QED BY <2>7, <3>1
  <2>9. IsTranscript(raw)
    <3> HIDE DEF raw
    <3> QED BY <2>8, TranscriptsAssumption DEF IsTranscript
  <2>10. prompt = rich_transcription_postprocess(raw)
    <3> HIDE DEF raw
    <3> QED BY <2>4, <2>8 DEF Cleaned
  <2> HIDE DEF raw
  <2>11. /\ parsed.text = Without(raw, EMOJI_DICT \union {"The."})
         /\ Range(hint.events) = NoiseOf(raw) /\ IsInjective(hint.events)
         /\ hint.emotion \in MoodsOf(raw) \union {NoEmoji}
         /\ MoodsOf(raw) # {} /\ "NEUTRAL" \notin Range(raw) => hint.emotion # NoEmoji
    BY <2>9, <2>10, AskedFaithfully
  <2>12. /\ NoiseOf(raw) = {Noises[t] : t \in Range(raw) \intersect DOMAIN Noises}
         /\ MoodsOf(raw) = {Faces[t] : t \in Range(raw) \intersect DOMAIN Faces}
    BY DEF NoiseOf, MoodsOf, NoiseTags, MoodTags
  <2> HIDE DEF parsed, hint
  <2>13. /\ asked[1].text = Without(raw, EMOJI_DICT \union {"The."})
         /\ Range(asked[1].hint.events) = {Noises[t] : t \in Range(raw) \intersect DOMAIN Noises}
         /\ IsInjective(asked[1].hint.events)
         /\ asked[1].hint.emotion \in {Faces[t] : t \in Range(raw) \intersect DOMAIN Faces} \union {NoEmoji}
         /\ {Faces[t] : t \in Range(raw) \intersect DOMAIN Faces} # {} /\ "NEUTRAL" \notin Range(raw)
               => asked[1].hint.emotion # NoEmoji
    BY <2>2, <2>11, <2>12
  <2> QED BY <2>13 DEF HintFaithful, raw, held
<1>2. InitAdmin => HintInv
  BY HintInit
<1>3. HintInv /\ [NextAdmin]_adminVars => HintInv'
  BY HintStep
<1> QED BY <1>1, <1>2, <1>3, PTL DEF SpecAdmin

-----------------------------------------------------------------------------
(***************************************************************************)
(* Calls of the providers.                                                 *)
(***************************************************************************)
SpecConfig == InitConfig /\ [][NextConfig]_configVars

(* Where a setting of a section comes from.                                 *)

\* What the file in use says of section s.
Says(g, s) == IF s \in DOMAIN in_use(g) THEN in_use(g)[s] ELSE <<>>

LEMMA NoneSays == DOMAIN <<>> = {}
OBVIOUS

LEMMA MinOf ==
    ASSUME NEW S \in SUBSET Int, NEW i \in S, \A j \in S : i <= j
    PROVE  Min(S) = i
<1>1. Min(S) \in S /\ \A j \in S : Min(S) <= j
  BY DEF Min
<1>2. Min(S) \in Int /\ i \in Int /\ Min(S) <= i /\ i <= Min(S)
  BY <1>1
<1> HIDE DEF Min
<1> QED BY <1>2

LEMMA NearestOfTwo ==
    ASSUME NEW k, NEW a, NEW b, NEW o
    PROVE  Nearest(k, <<a, b>>, o) = IF k \in DOMAIN a THEN a[k] ELSE IF k \in DOMAIN b THEN b[k] ELSE o
<1> DEFINE sources == <<a, b>>
           telling == {i \in DOMAIN sources : k \in DOMAIN sources[i]}
<1>1. DOMAIN sources = {1, 2} /\ sources[1] = a /\ sources[2] = b
  OBVIOUS
<1>2. CASE k \in DOMAIN a
  <2>1. telling \in SUBSET Int /\ 1 \in telling /\ \A j \in telling : 1 <= j
    BY <1>1, <1>2
  <2>2. Min(telling) = 1
    <3> HIDE DEF telling
    <3> QED BY <2>1, MinOf
  <2> QED BY <1>1, <1>2, <2>1, <2>2 DEF Nearest
<1>3. CASE k \notin DOMAIN a /\ k \in DOMAIN b
  <2>1. telling \in SUBSET Int /\ 2 \in telling /\ \A j \in telling : 2 <= j
    BY <1>1, <1>3
  <2>2. Min(telling) = 2
    <3> HIDE DEF telling
    <3> QED BY <2>1, MinOf
  <2> QED BY <1>1, <1>3, <2>1, <2>2 DEF Nearest
<1>4. CASE k \notin DOMAIN a /\ k \notin DOMAIN b
  <2>1. telling = {}
    BY <1>1, <1>4
  <2> QED BY <1>4, <2>1 DEF Nearest
<1> QED BY <1>2, <1>3, <1>4

LEMMA NearestOfThree ==
    ASSUME NEW k, NEW a, NEW b, NEW c, NEW o
    PROVE  Nearest(k, <<a, b, c>>, o) = IF k \in DOMAIN a THEN a[k] ELSE Nearest(k, <<b, c>>, o)
<1> DEFINE sources == <<a, b, c>>
           telling == {i \in DOMAIN sources : k \in DOMAIN sources[i]}
<1>1. DOMAIN sources = {1, 2, 3} /\ sources[1] = a /\ sources[2] = b /\ sources[3] = c
  OBVIOUS
<1>n. Nearest(k, sources, o) = IF telling = {} THEN o ELSE sources[Min(telling)][k]
  BY DEF Nearest
<1>t. /\ telling \in SUBSET Int
      /\ 1 \in telling <=> k \in DOMAIN a
      /\ 2 \in telling <=> k \in DOMAIN b
      /\ 3 \in telling <=> k \in DOMAIN c
      /\ telling \subseteq {1, 2, 3}
  BY <1>1
<1>m. \A i \in telling : (\A j \in telling : i <= j) => Min(telling) = i
  <2> HIDE DEF telling
  <2> QED BY <1>t, MinOf
<1> HIDE DEF telling
<1>2. CASE 1 \in telling
  <2>1. Min(telling) = 1
    BY <1>2, <1>t, <1>m
  <2> QED BY <1>1, <1>2, <1>n, <1>t, <2>1
<1>3. CASE 1 \notin telling /\ 2 \in telling
  <2>1. Min(telling) = 2
    BY <1>3, <1>t, <1>m
  <2> QED BY <1>1, <1>3, <1>n, <1>t, <2>1, NearestOfTwo
<1>4. CASE 1 \notin telling /\ 2 \notin telling /\ 3 \in telling
  <2>1. Min(telling) = 3
    BY <1>4, <1>t, <1>m
  <2> QED BY <1>1, <1>4, <1>n, <1>t, <2>1, NearestOfTwo
<1>5. CASE telling = {}
  BY <1>5, <1>n, <1>t, NearestOfTwo
<1> QED BY <1>2, <1>3, <1>4, <1>5, <1>t

LEMMA ToldAt ==
    ASSUME NEW env, NEW s
    PROVE  DOMAIN Told(env, s) = ReadOf(env, s) /\ \A k \in ReadOf(env, s) : Told(env, s)[k] = env[s][k]
BY DEF Told

LEMMA OverriddenAt ==
    ASSUME NEW section, NEW env, NEW s
    PROVE  /\ DOMAIN Overridden(section, env, s) = DOMAIN section
           /\ \A k \in DOMAIN section :
                 Overridden(section, env, s)[k] = IF k \in DOMAIN Told(env, s) THEN Told(env, s)[k] ELSE section[k]
BY ToldAt DEF Overridden

\* A section of the file, laid over the defaults.
LEMMA Layers ==
    ASSUME NEW env, NEW s, NEW f, NEW d, NEW k \in DOMAIN d
    PROVE  /\ k \in DOMAIN Overridden(Over(f, d), env, s)
           /\ Overridden(Over(f, d), env, s)[k] = Nearest(k, <<Told(env, s), f>>, d[k])
<1>1. k \in DOMAIN Over(f, d) /\ Over(f, d)[k] = IF k \in DOMAIN f THEN f[k] ELSE d[k]
  BY DEF Over
<1> QED BY <1>1, OverriddenAt, NearestOfTwo

LEMMA Layer ==
    ASSUME NEW env, NEW s, NEW d, NEW k \in DOMAIN d
    PROVE  /\ k \in DOMAIN Overridden(d, env, s)
           /\ Overridden(d, env, s)[k] = Nearest(k, <<Told(env, s), <<>>>>, d[k])
<1>1. Nearest(k, <<Told(env, s), <<>>>>, d[k]) = IF k \in DOMAIN Told(env, s) THEN Told(env, s)[k] ELSE d[k]
  BY NearestOfTwo, NoneSays
<1> QED BY <1>1, OverriddenAt

\* A setting that says nothing, or nothing but "no".
Unset == {None, "", "false"}

LEMMA DefaultsHave ==
    /\ DOMAIN Defaults.provider = {"api_base", "api_key", "timeout_ms", "headers"}
    /\ Defaults.provider.api_base = "" /\ Defaults.provider.api_key = NoKey
    /\ Defaults.provider.timeout_ms = "30000" /\ Defaults.provider.headers = {}
    /\ Defaults.asr = AsrDefaults /\ Defaults.llm = LlmDefaults /\ Defaults.tts = TtsDefaults /\ Defaults.strong = <<>>
    /\ \A d \in {AsrDefaults, LlmDefaults, TtsDefaults} :
          /\ {"model", "api_base", "api_key", "timeout_ms", "headers"} \subseteq DOMAIN d
          /\ d.api_base = "" /\ d.api_key = NoKey /\ d.timeout_ms = None /\ d.headers = {}
    /\ AsrDefaults.model = "sensevoice" /\ LlmDefaults.model = "" /\ TtsDefaults.model = ""
    /\ AsrOptions \subseteq DOMAIN AsrDefaults /\ LlmOptions \subseteq DOMAIN LlmDefaults
    /\ TtsOptions \subseteq DOMAIN TtsDefaults
<1>1. /\ DOMAIN Defaults.provider = {"api_base", "api_key", "timeout_ms", "headers"}
      /\ Defaults.provider.api_base = "" /\ Defaults.provider.api_key = NoKey
      /\ Defaults.provider.timeout_ms = "30000" /\ Defaults.provider.headers = {}
  <2>1. Defaults.provider = [Connection EXCEPT !.timeout_ms = "30000"]
    BY DEF Defaults
  <2> QED BY <2>1 DEF Connection
<1>3. /\ DOMAIN AsrDefaults = {"model", "language", "response_format", "spk", "tags",
                               "api_base", "api_key", "timeout_ms", "headers"}
      /\ AsrDefaults.api_base = "" /\ AsrDefaults.api_key = NoKey /\ AsrDefaults.timeout_ms = None
      /\ AsrDefaults.headers = {} /\ AsrDefaults.model = "sensevoice"
  BY DEF AsrDefaults, Over, Connection
<1>4. /\ DOMAIN LlmDefaults = {"model", "max_completion_tokens", "temperature", "top_p", "top_k",
                               "reasoning_effort", "include_usage",
                               "api_base", "api_key", "timeout_ms", "headers"}
      /\ LlmDefaults.api_base = "" /\ LlmDefaults.api_key = NoKey /\ LlmDefaults.timeout_ms = None
      /\ LlmDefaults.headers = {} /\ LlmDefaults.model = ""
  BY DEF LlmDefaults, Over, Connection
<1>5. /\ {"model", "voice", "response_format", "speed", "task_type", "language", "instructions", "max_new_tokens",
          "api_base", "api_key", "timeout_ms", "headers"} \subseteq DOMAIN TtsDefaults
      /\ TtsDefaults.api_base = "" /\ TtsDefaults.api_key = NoKey /\ TtsDefaults.timeout_ms = None
      /\ TtsDefaults.headers = {} /\ TtsDefaults.model = ""
  BY DEF TtsDefaults, Over, Connection
<1>6. Defaults.asr = AsrDefaults /\ Defaults.llm = LlmDefaults /\ Defaults.tts = TtsDefaults /\ Defaults.strong = <<>>
  BY DEF Defaults
<1>7. AsrOptions \subseteq DOMAIN AsrDefaults
  BY <1>3 DEF AsrOptions
<1>8. LlmOptions \subseteq DOMAIN LlmDefaults
  BY <1>4 DEF LlmOptions
<1>9. TtsOptions \subseteq DOMAIN TtsDefaults
  BY <1>5 DEF TtsOptions
<1>10. \A d \in {AsrDefaults, LlmDefaults, TtsDefaults} :
          /\ {"model", "api_base", "api_key", "timeout_ms", "headers"} \subseteq DOMAIN d
          /\ d.api_base = "" /\ d.api_key = NoKey /\ d.timeout_ms = None /\ d.headers = {}
  <2>1. {"model", "api_base", "api_key", "timeout_ms", "headers"} \subseteq DOMAIN AsrDefaults
    BY <1>3
  <2>2. {"model", "api_base", "api_key", "timeout_ms", "headers"} \subseteq DOMAIN LlmDefaults
    BY <1>4
  <2>3. {"model", "api_base", "api_key", "timeout_ms", "headers"} \subseteq DOMAIN TtsDefaults
    BY <1>5
  <2> QED BY <1>3, <1>4, <1>5, <2>1, <2>2, <2>3
<1> QED BY <1>1, <1>3, <1>4, <1>5, <1>6, <1>7, <1>8, <1>9, <1>10

LEMMA SectionIs ==
    ASSUME NEW g, NEW s \in {"provider", "asr", "llm", "tts"}, NEW k \in DOMAIN Defaults[s]
    PROVE  /\ k \in DOMAIN Effective(g)[s]
           /\ Effective(g)[s][k] = Nearest(k, <<Told(g.env, s), Says(g, s)>>, Defaults[s][k])
<1>1. DOMAIN Defaults = {"log", "server", "provider", "asr", "llm", "strong", "tts", "redis", "agent"}
  BY DEF Defaults
<1>2. Effective(g)[s] = apply_env_overrides(load_yaml(g), g.env)[s]
  BY <1>1 DEF Effective, apply_env_overrides, load_yaml
<1>3. Effective(g)[s] = Overridden(load_yaml(g)[s], g.env, s)
  BY <1>1, <1>2 DEF apply_env_overrides, load_yaml
<1>4. load_yaml(g)[s] = IF s \in DOMAIN in_use(g) THEN Over(in_use(g)[s], Defaults[s]) ELSE Defaults[s]
  BY <1>1 DEF load_yaml
<1>5. CASE s \in DOMAIN in_use(g)
  BY <1>3, <1>4, <1>5, Layers DEF Says
<1>6. CASE s \notin DOMAIN in_use(g)
  BY <1>3, <1>4, <1>6, Layer DEF Says
<1> QED BY <1>5, <1>6

\* The settings in effect are the nearest.
LEMMA StrongIs ==
    ASSUME Loads(given), conf = Effective(given), NEW k \in DOMAIN LlmDefaults
    PROVE  /\ k \in DOMAIN StrongConf
           /\ StrongConf[k] = Nearest(k, Sources("strong"), LlmDefaults[k])
<1> DEFINE file == in_use(given)
           c == load_yaml(given)
           env == given.env
<1>1. DOMAIN Defaults = {"log", "server", "provider", "asr", "llm", "strong", "tts", "redis", "agent"}
  BY DEF Defaults
<1>2. conf.strong = apply_env_overrides(c, env).strong /\ conf.llm = apply_env_overrides(c, env).llm
  BY <1>1 DEF Effective, apply_env_overrides, load_yaml
<1>3. conf.strong = StrongSection(c, env) /\ conf.llm = Overridden(c.llm, env, "llm")
  BY <1>1, <1>2 DEF apply_env_overrides, load_yaml
<1>4. c.strong = IF "strong" \in DOMAIN file THEN Over(file.strong, LlmDefaults) ELSE <<>>
  BY <1>1, DefaultsHave DEF load_yaml
<1>5. k \in DOMAIN LlmDefaults
  OBVIOUS
<1>6. FileSays("strong") = Says(given, "strong") /\ FileSays("llm") = Says(given, "llm")
  BY DEF FileSays, Says
<1>7. k \in DOMAIN conf.llm /\ conf.llm[k] = Nearest(k, <<Told(env, "llm"), Says(given, "llm")>>, LlmDefaults[k])
  <2>1. Defaults["llm"] = LlmDefaults
    BY DefaultsHave
  <2>2. k \in DOMAIN Effective(given)["llm"] /\ Effective(given)["llm"][k] = Nearest(k, <<Told(env, "llm"), Says(given, "llm")>>, LlmDefaults[k])
    BY <2>1, SectionIs
  <2> QED BY <2>2
<1>d. \A f : k \in DOMAIN f => f # <<>>
  BY NoneSays
<1>8. CASE "strong" \in DOMAIN file
  <2>1. DOMAIN file.strong # {} /\ FileSays("strong") = file.strong
    BY <1>8 DEF Loads, FileSays
  <2>2. Sources("strong") = <<Told(env, "strong"), file.strong>>
    BY <2>1 DEF Sources
  <2>3. k \in DOMAIN Over(file.strong, LlmDefaults)
    BY <1>5 DEF Over
  <2>4. c.strong = Over(file.strong, LlmDefaults) /\ c.strong # <<>>
    BY <1>4, <1>8, <2>3, <1>d
  <2>5. conf.strong = Overridden(Over(file.strong, LlmDefaults), env, "strong")
    BY <1>3, <2>4 DEF StrongSection
  <2>6. k \in DOMAIN conf.strong /\ conf.strong[k] = Nearest(k, Sources("strong"), LlmDefaults[k])
    BY <1>5, <2>2, <2>5, Layers
  <2>7. StrongConf = conf.strong
    BY <2>6, <1>d DEF StrongConf
  <2> QED BY <2>6, <2>7
<1>9. CASE "strong" \notin DOMAIN file
  <2>1. c.strong = <<>> /\ DOMAIN FileSays("strong") = {}
    BY <1>4, <1>9, NoneSays DEF FileSays
  <2>2. Sources("strong") = <<Told(env, "strong"), Told(env, "llm"), FileSays("llm")>>
    BY <2>1 DEF Sources
  <2>3. CASE SetOf(env, "strong") = {}
    <3>1. conf.strong = <<>> /\ StrongConf = conf.llm
      BY <1>3, <2>1, <2>3 DEF StrongSection, StrongConf
    <3>2. DOMAIN Told(env, "strong") = {}
      <4>1. ReadOf(env, "strong") = {}
        BY <2>3 DEF ReadOf
      <4> QED BY <4>1, ToldAt
    <3>3. Nearest(k, Sources("strong"), LlmDefaults[k]) =
             Nearest(k, <<Told(env, "llm"), FileSays("llm")>>, LlmDefaults[k])
      <4> HIDE DEF env
      <4> QED BY <2>2, <3>2, NearestOfThree
    <3> QED BY <1>6, <1>7, <3>1, <3>3
  <2>4. CASE SetOf(env, "strong") # {}
    <3>1. conf.strong = Overridden(conf.llm, env, "strong")
      BY <1>3, <2>1, <2>4 DEF StrongSection
    <3>2. k \in DOMAIN conf.strong /\ conf.strong[k] = IF k \in DOMAIN Told(env, "strong") THEN Told(env, "strong")[k] ELSE conf.llm[k]
      BY <1>7, <3>1, OverriddenAt
    <3>3. StrongConf = conf.strong
      BY <3>2, <1>d DEF StrongConf
    <3> QED BY <1>6, <1>7, <2>2, <3>2, <3>3, NearestOfThree
  <2> QED BY <2>3, <2>4
<1> QED BY <1>8, <1>9

\* s is a section of the settings in effect, from which party is called.
SectionFor(s, party) ==
    CASE party = "asr" -> s = conf.asr
      [] party = "fast" -> s = conf.llm
      [] party = "strong" -> s = StrongConf
      [] party = "tts" -> s = conf.tts

DefaultsFor(party) ==
    CASE party = "asr" -> AsrDefaults [] party = "tts" -> TtsDefaults [] OTHER -> LlmDefaults

Parties == {"asr", "fast", "strong", "tts"}

LEMMA SettingsAre ==
    ASSUME Loads(given), conf = Effective(given), NEW party \in Parties, NEW s, SectionFor(s, party),
           NEW k \in DOMAIN DefaultsFor(party)
    PROVE  k \in DOMAIN s /\ s[k] = Nearest(k, Sources(party), DefaultsFor(party)[k])
<1>1. \A t : FileSays(t) = Says(given, t)
  BY DEF FileSays, Says
<1>2. /\ Sources("fast") = <<Told(given.env, "llm"), Says(given, "llm")>>
      /\ \A t \in {"asr", "tts"} : Sources(t) = <<Told(given.env, t), Says(given, t)>>
  BY <1>1 DEF Sources
<1>3. CASE party = "asr"
  <2>1. k \in DOMAIN Defaults["asr"] /\ DefaultsFor(party) = Defaults["asr"] /\ s = conf["asr"]
    BY <1>3, DefaultsHave DEF DefaultsFor, SectionFor
  <2>2. s = Effective(given)["asr"] /\ Sources(party) = <<Told(given.env, "asr"), Says(given, "asr")>>
    BY <1>2, <1>3, <2>1
  <2>3. /\ k \in DOMAIN Effective(given)["asr"]
        /\ Effective(given)["asr"][k] =
              Nearest(k, <<Told(given.env, "asr"), Says(given, "asr")>>, Defaults["asr"][k])
    BY <2>1, SectionIs
  <2> QED BY <2>1, <2>2, <2>3
<1>4. CASE party = "fast"
  <2>1. k \in DOMAIN Defaults["llm"] /\ DefaultsFor(party) = Defaults["llm"] /\ s = conf["llm"]
    BY <1>4, DefaultsHave DEF DefaultsFor, SectionFor
  <2>2. s = Effective(given)["llm"] /\ Sources(party) = <<Told(given.env, "llm"), Says(given, "llm")>>
    BY <1>2, <1>4, <2>1
  <2>3. /\ k \in DOMAIN Effective(given)["llm"]
        /\ Effective(given)["llm"][k] =
              Nearest(k, <<Told(given.env, "llm"), Says(given, "llm")>>, Defaults["llm"][k])
    BY <2>1, SectionIs
  <2> QED BY <2>1, <2>2, <2>3
<1>5. CASE party = "tts"
  <2>1. k \in DOMAIN Defaults["tts"] /\ DefaultsFor(party) = Defaults["tts"] /\ s = conf["tts"]
    BY <1>5, DefaultsHave DEF DefaultsFor, SectionFor
  <2>2. s = Effective(given)["tts"] /\ Sources(party) = <<Told(given.env, "tts"), Says(given, "tts")>>
    BY <1>2, <1>5, <2>1
  <2>3. /\ k \in DOMAIN Effective(given)["tts"]
        /\ Effective(given)["tts"][k] =
              Nearest(k, <<Told(given.env, "tts"), Says(given, "tts")>>, Defaults["tts"][k])
    BY <2>1, SectionIs
  <2> QED BY <2>1, <2>2, <2>3
<1>6. CASE party = "strong"
  <2>1. k \in DOMAIN LlmDefaults /\ DefaultsFor(party) = LlmDefaults /\ s = StrongConf
    BY <1>6 DEF DefaultsFor, SectionFor
  <2> QED BY <1>6, <2>1, StrongIs
<1> QED BY <1>3, <1>4, <1>5, <1>6 DEF Parties

LEMMA ProviderIs ==
    ASSUME Loads(given), conf = Effective(given)
    PROVE  /\ conf.provider.api_base = Nearest("api_base", Sources("provider"), "")
           /\ conf.provider.api_key = Nearest("api_key", Sources("provider"), NoKey)
           /\ conf.provider.timeout_ms = Nearest("timeout_ms", Sources("provider"), "30000")
           /\ conf.provider.headers = Nearest("headers", Sources("provider"), {})
<1>1. Sources("provider") = <<Told(given.env, "provider"), Says(given, "provider")>>
  BY DEF Sources, FileSays, Says
<1>2. DOMAIN Defaults["provider"] = {"api_base", "api_key", "timeout_ms", "headers"}
  BY DefaultsHave
<1>3. \A k \in {"api_base", "api_key", "timeout_ms", "headers"} :
         Effective(given)["provider"][k] =
            Nearest(k, <<Told(given.env, "provider"), Says(given, "provider")>>, Defaults["provider"][k])
  BY <1>2, SectionIs
<1>4. \A k \in {"api_base", "api_key", "timeout_ms", "headers"} :
         conf.provider[k] = Nearest(k, Sources("provider"), Defaults.provider[k])
  BY <1>1, <1>3
<1>5. /\ Defaults.provider["api_base"] = "" /\ Defaults.provider["api_key"] = NoKey
      /\ Defaults.provider["timeout_ms"] = "30000" /\ Defaults.provider["headers"] = {}
  BY DefaultsHave
<1>6. conf.provider.api_base = Nearest("api_base", Sources("provider"), "")
  BY <1>4, <1>5
<1>7. conf.provider.api_key = Nearest("api_key", Sources("provider"), NoKey)
  BY <1>4, <1>5
<1>8. conf.provider.timeout_ms = Nearest("timeout_ms", Sources("provider"), "30000")
  BY <1>4, <1>5
<1>9. conf.provider.headers = Nearest("headers", Sources("provider"), {})
  BY <1>4, <1>5
<1> QED BY <1>6, <1>7, <1>8, <1>9

\* Where a source says something, no default is asked.
LEMMA NearestSays ==
    ASSUME NEW k, NEW sources, NEW o, Nearest(k, sources, None) \notin Unset
    PROVE  Nearest(k, sources, o) = Nearest(k, sources, None)
BY DEF Nearest, Unset

\* The section names the model and the options that the sources give.
Tells(s, party) ==
    /\ "model" \in DOMAIN s
    /\ s.model = Nearest("model", Sources(party), IF party = "asr" THEN "sensevoice" ELSE "")
    /\ \A k \in Options(party) :
          /\ k \in DOMAIN s
          /\ Nearest(k, Sources(party), None) \notin Unset => s[k] = Nearest(k, Sources(party), None)

OwnHeaders(party) == Nearest("headers", Sources(party), {})
LentHeaders == Nearest("headers", Sources("provider"), {})
Key(party) == Lent("api_key", Sources(party), NoKey, NoKey)

\* What the spelling of no header of its own has, the provider's section lends.
Merged(own, lent) == own \union {h \in lent : h.spelling \notin {i.spelling : i \in own}}

LEMMA SectionTells ==
    ASSUME Loads(given), conf = Effective(given), NEW party \in Parties, NEW s, SectionFor(s, party)
    PROVE  /\ Tells(s, party) /\ s.headers = OwnHeaders(party)
           /\ resolved(s, conf.provider).api_base = Lent("api_base", Sources(party), "", "")
           /\ resolved(s, conf.provider).api_key = Key(party)
           /\ resolved(s, conf.provider).timeout_ms = Lent("timeout_ms", Sources(party), None, "30000")
           /\ resolved(s, conf.provider).headers = Merged(OwnHeaders(party), LentHeaders)
           /\ DOMAIN resolved(s, conf.provider) = {"api_base", "api_key", "timeout_ms", "headers"}
<1> DEFINE d == DefaultsFor(party)
<1>1. /\ {"model", "api_base", "api_key", "timeout_ms", "headers"} \subseteq DOMAIN d
      /\ d.api_base = "" /\ d.api_key = NoKey /\ d.timeout_ms = None /\ d.headers = {}
  BY DefaultsHave DEF DefaultsFor
<1>2. d.model = IF party = "asr" THEN "sensevoice" ELSE ""
  BY DefaultsHave DEF DefaultsFor
<1>3. Options(party) \subseteq DOMAIN d
  BY DefaultsHave DEF DefaultsFor, Options
<1> HIDE DEF d
<1>4. \A k \in DOMAIN d : k \in DOMAIN s /\ s[k] = Nearest(k, Sources(party), d[k])
  BY SettingsAre DEF d
<1>5. "model" \in DOMAIN s /\ s.model = Nearest("model", Sources(party), IF party = "asr" THEN "sensevoice" ELSE "")
  BY <1>1, <1>2, <1>4
<1>6. Tells(s, party)
  BY <1>3, <1>4, <1>5, NearestSays DEF Tells
<1>7. /\ s.api_base = Nearest("api_base", Sources(party), "")
      /\ s.api_key = Nearest("api_key", Sources(party), NoKey)
      /\ s.timeout_ms = Nearest("timeout_ms", Sources(party), None)
      /\ s.headers = OwnHeaders(party)
  BY <1>1, <1>4 DEF OwnHeaders
<1>8. conf.provider.headers = LentHeaders
  BY ProviderIs DEF LentHeaders
<1>9. resolved(s, conf.provider).headers = Merged(OwnHeaders(party), LentHeaders)
  BY <1>7, <1>8 DEF resolved, Merged
<1>10. resolved(s, conf.provider).api_base = Lent("api_base", Sources(party), "", "")
  BY <1>7, ProviderIs DEF resolved, Lent
<1>11. resolved(s, conf.provider).api_key = Key(party)
  BY <1>7, ProviderIs DEF resolved, Lent, Key
<1>12. resolved(s, conf.provider).timeout_ms = Lent("timeout_ms", Sources(party), None, "30000")
  BY <1>7, ProviderIs DEF resolved, Lent
<1>13. DOMAIN resolved(s, conf.provider) = {"api_base", "api_key", "timeout_ms", "headers"}
  BY DEF resolved
<1> QED BY <1>6, <1>7, <1>9, <1>10, <1>11, <1>12, <1>13

\* What the nearest source says stands in a section of the start.
LEMMA NearestFound ==
    ASSUME Loads(given), NEW s \in {"provider", "asr", "fast", "strong", "tts"}, NEW k, NEW o
    PROVE  \/ Nearest(k, Sources(s), o) = o
           \/ \E x \in SectionsOf(given) : k \in DOMAIN x /\ Nearest(k, Sources(s), o) = x[k]
<1>1. \A t \in {"provider", "asr", "llm", "strong", "tts"} : Told(given.env, t) \in SectionsOf(given)
  BY DEF SectionsOf, Variables
<1>2. \A t : k \in DOMAIN FileSays(t) => FileSays(t) \in SectionsOf(given)
  <2> SUFFICES ASSUME NEW t, k \in DOMAIN FileSays(t) PROVE FileSays(t) \in SectionsOf(given)
    OBVIOUS
  <2>1. t \in DOMAIN in_use(given) /\ FileSays(t) = in_use(given)[t]
    BY NoneSays DEF FileSays
  <2>2. in_use(given) \in Range(given.files) /\ in_use(given) # Junk
    BY <2>1, NoneSays DEF in_use, Loads, Range
  <2>3. FileSays(t) \in Range(in_use(given))
    BY <2>1 DEF Range
  <2> QED BY <2>2, <2>3 DEF SectionsOf
<1>3. CASE s \in {"provider", "asr", "tts"}
  BY <1>1, <1>2, <1>3, NearestOfTwo DEF Sources
<1>4. CASE s = "fast"
  BY <1>1, <1>2, <1>4, NearestOfTwo DEF Sources
<1>5. CASE s = "strong" /\ DOMAIN FileSays("strong") # {}
  BY <1>1, <1>2, <1>5, NearestOfTwo DEF Sources
<1>6. CASE s = "strong" /\ DOMAIN FileSays("strong") = {}
  <2>1. Sources(s) = <<Told(given.env, "strong"), Told(given.env, "llm"), FileSays("llm")>>
    BY <1>6 DEF Sources
  <2> DEFINE a == Told(given.env, "strong")
             b == Told(given.env, "llm")
             c == FileSays("llm")
  <2>2. Nearest(k, <<a, b, c>>, o) = IF k \in DOMAIN a THEN a[k] ELSE Nearest(k, <<b, c>>, o)
    BY NearestOfThree
  <2>3. Nearest(k, <<b, c>>, o) = IF k \in DOMAIN b THEN b[k] ELSE IF k \in DOMAIN c THEN c[k] ELSE o
    BY NearestOfTwo
  <2>4. a \in SectionsOf(given) /\ b \in SectionsOf(given) /\ (k \in DOMAIN c => c \in SectionsOf(given))
    BY <1>1, <1>2
  <2>5. Nearest(k, Sources(s), o) = Nearest(k, <<a, b, c>>, o)
    BY <2>1
  <2> HIDE DEF a, b, c
  <2> QED BY <2>2, <2>3, <2>4, <2>5
<1> QED BY <1>3, <1>4, <1>5, <1>6


-----------------------------------------------------------------------------
(* The headers of a call.                                                   *)

NamesOf(headers) == {h.name : h \in headers}
NamedSo(headers, name) == {h \in headers : h.name = name}

\* Headers spelled alike are named alike.
Spelled(all) == IsFiniteSet(all) /\ \A h, i \in all : h.spelling = i.spelling => h.name = i.name

LEMMA MergedNames ==
    ASSUME NEW all, Spelled(all), NEW own \in SUBSET all, NEW lent \in SUBSET all,
           NEW name \in NamesOf(own \union lent)
    PROVE  \E h \in Merged(own, lent) : h.name = name
<1>1. PICK h \in own \union lent : h.name = name
  BY DEF NamesOf
<1>2. CASE h \in Merged(own, lent)
  BY <1>1, <1>2
<1>3. CASE h \notin Merged(own, lent)
  <2>1. PICK i \in own : i.spelling = h.spelling
    BY <1>3 DEF Merged
  <2>2. i.name = name
    BY <1>1, <2>1 DEF Spelled
  <2> QED BY <2>1, <2>2 DEF Merged
<1> QED BY <1>2, <1>3

Single(S) == \E one : S = {one}

\* A map keeps one header of each name.
LEMMA KeptOne ==
    ASSUME NEW all, Spelled(all), NEW own \in SUBSET all, NEW lent \in SUBSET all,
           NEW kept \in HeaderMaps(Merged(own, lent)), NEW name \in NamesOf(own \union lent)
    PROVE  Single(NamedSo(kept, name))
<1>1. kept \in SUBSET Merged(own, lent) /\ \A h \in Merged(own, lent) : Cardinality({k \in kept : k.name = h.name}) = 1
  BY DEF HeaderMaps
<1>2. IsFiniteSet(NamedSo(kept, name))
  BY <1>1, FS_Subset DEF NamedSo, Spelled, Merged
<1>3. PICK h \in Merged(own, lent) : h.name = name
  BY MergedNames
<1>4. Cardinality(NamedSo(kept, name)) = 1
  BY <1>1, <1>3 DEF NamedSo
<1> QED BY <1>2, <1>4, FS_Singleton DEF Single

LEMMA KeptNames ==
    ASSUME NEW all, Spelled(all), NEW own \in SUBSET all, NEW lent \in SUBSET all,
           NEW kept \in HeaderMaps(Merged(own, lent))
    PROVE  /\ kept \subseteq Merged(own, lent)
           /\ \A name : (\E h \in kept : h.name = name) <=> name \in NamesOf(own \union lent)
<1>1. kept \subseteq Merged(own, lent)
  BY DEF HeaderMaps
<1>2. ASSUME NEW h \in kept PROVE h.name \in NamesOf(own \union lent)
  BY <1>1 DEF NamesOf, Merged
<1>3. ASSUME NEW name \in NamesOf(own \union lent) PROVE \E h \in kept : h.name = name
  <2>1. Single(NamedSo(kept, name))
    BY KeptOne
  <2> QED BY <2>1 DEF NamedSo, Single
<1> QED BY <1>1, <1>2, <1>3

LEMMA OneOfEach ==
    ASSUME NEW all, Spelled(all), NEW own \in SUBSET all, NEW lent \in SUBSET all,
           NEW kept \in HeaderMaps(Merged(own, lent)), NEW name \in NamesOf(own \union lent), NEW sent,
           NamedSo(sent, name) = {AsSent(h) : h \in NamedSo(kept, name)}
    PROVE  SentOnce(name, own, lent, sent)
<1> DEFINE said == NamedSo(own \union lent, name)
           mine == NamedSo(own, name)
           spellings == {h.spelling : h \in said}
<1>1. kept \subseteq Merged(own, lent)
  BY KeptNames
<1>o. Single(NamedSo(kept, name))
  BY KeptOne
<1>2. PICK one : NamedSo(kept, name) = {one}
  BY <1>o DEF Single
<1>3. one \in kept /\ one.name = name
  BY <1>2 DEF NamedSo
<1>4. NamedSo(sent, name) = {AsSent(one)} /\ AsSent(one).value = one.value
  BY <1>2 DEF AsSent
<1>5. one \in said
  BY <1>1, <1>3 DEF Merged, NamedSo
<1>6. ASSUME mine # {}, Cardinality(spellings) = 1 PROVE one \in mine
  <2>1. PICK h \in own : h.name = name
    BY <1>6 DEF NamedSo
  <2>2. h \in said
    BY <2>1 DEF NamedSo
  <2>3. IsFiniteSet(spellings)
    <3>1. IsFiniteSet(said)
      BY FS_Subset DEF NamedSo, Spelled
    <3>2. [i \in said |-> i.spelling] \in Surjection(said, spellings)
      BY DEF Surjection
    <3> QED BY <3>1, <3>2, FS_Surjection
  <2>4. PICK spelling : spellings = {spelling}
    BY <1>6, <2>3, FS_Singleton
  <2>5. one.spelling = h.spelling
    BY <1>5, <2>2, <2>4
  <2>6. one \in own
    BY <1>1, <1>3, <2>1, <2>5 DEF Merged
  <2> QED BY <1>3, <2>6 DEF NamedSo
<1>7. Cardinality(NamedSo(sent, name)) = 1
  BY <1>4, FS_Singleton
<1>8. \A f \in NamedSo(sent, name) :
         \E h \in IF mine # {} /\ Cardinality(spellings) = 1 THEN mine ELSE said : f.value = h.value
  BY <1>4, <1>5, <1>6
<1> QED BY <1>7, <1>8 DEF SentOnce, NamedSo

\* What CallsAsConfigured says of the headers of a call.
HeadersFit(sent, key, own, lent, carrier, beside) ==
    /\ \A name \in NamesOf(own \union lent) : (beside /\ name = carrier) \/ SentOnce(name, own, lent, sent)
    /\ beside /\ key # NoKey => Bearer(key) \in NamedSo(sent, carrier)
    /\ ~beside /\ carrier \notin NamesOf(own \union lent) =>
          NamedSo(sent, carrier) =
             IF key = NoKey THEN {}
             ELSE IF carrier = "x-api-key" THEN {[name |-> carrier, value |-> [key EXCEPT !.bearer = FALSE]]}
             ELSE {Bearer(key)}

LEMMA HeadersStand ==
    ASSUME given \in Givens, Loads(given), NEW party \in Parties
    PROVE  /\ OwnHeaders(party) \subseteq HeadersOf(given) /\ LentHeaders \subseteq HeadersOf(given)
           /\ Spelled(HeadersOf(given))
<1>1. \A s \in {"provider", "asr", "fast", "strong", "tts"} :
         Nearest("headers", Sources(s), {}) \subseteq HeadersOf(given)
  <2> SUFFICES ASSUME NEW s \in {"provider", "asr", "fast", "strong", "tts"}
               PROVE  Nearest("headers", Sources(s), {}) \subseteq HeadersOf(given)
    OBVIOUS
  <2>1. \/ Nearest("headers", Sources(s), {}) = {}
        \/ \E x \in SectionsOf(given) : "headers" \in DOMAIN x /\ Nearest("headers", Sources(s), {}) = x["headers"]
    BY NearestFound
  <2> QED BY <2>1 DEF HeadersOf
<1>2. Spelled(HeadersOf(given))
  BY HeadersAssumption DEF Spelled
<1> QED BY <1>1, <1>2 DEF OwnHeaders, LentHeaders, Parties

LEMMA KeyStands ==
    ASSUME given \in Givens, Loads(given), NEW party \in Parties, Key(party) # NoKey
    PROVE  Key(party) # None
<1>1. \A s \in {"provider", "asr", "fast", "strong", "tts"} :
         \/ Nearest("api_key", Sources(s), NoKey) = NoKey
         \/ \E x \in SectionsOf(given) : "api_key" \in DOMAIN x /\ Nearest("api_key", Sources(s), NoKey) = x["api_key"]
  BY NearestFound
<1>2. \A x \in SectionsOf(given) : "api_key" \in DOMAIN x => x.api_key # None
  BY HeadersAssumption
<1>3. Key(party) \in {Nearest("api_key", Sources(party), NoKey), Nearest("api_key", Sources("provider"), NoKey)}
  BY DEF Key, Lent
<1> QED BY <1>1, <1>2, <1>3 DEF Parties

LEMMA AsSentNamed ==
    ASSUME NEW headers, NEW name
    PROVE  NamedSo({AsSent(h) : h \in headers}, name) = {AsSent(h) : h \in NamedSo(headers, name)}
<1>1. \A h \in headers : AsSent(h).name = h.name
  BY DEF AsSent
<1> QED BY <1>1 DEF NamedSo

\* apply_auth_headers
LEMMA LlmHeadersFit ==
    ASSUME given \in Givens, Loads(given), NEW party \in {"fast", "strong"}, NEW c, c.api_key = Key(party),
           c.headers \in HeaderMaps(Merged(OwnHeaders(party), LentHeaders))
    PROVE  HeadersFit(apply_auth_headers(c), Key(party), OwnHeaders(party), LentHeaders, "x-api-key", FALSE)
<1> DEFINE own == OwnHeaders(party)
           lent == LentHeaders
           kept == c.headers
           sent == apply_auth_headers(c)
           plain == {AsSent(h) : h \in kept}
           one == [name |-> "x-api-key", value |-> [Key(party) EXCEPT !.bearer = FALSE]]
<1>1. /\ own \in SUBSET HeadersOf(given) /\ lent \in SUBSET HeadersOf(given)
      /\ Spelled(HeadersOf(given))
  BY HeadersStand DEF Parties
<1>2. \A name : (\E h \in kept : h.name = name) <=> name \in NamesOf(own \union lent)
  <2>1. kept \in HeaderMaps(Merged(own, lent))
    OBVIOUS
  <2> HIDE DEF own, lent, kept
  <2> QED BY <1>1, <2>1, KeptNames
<1>3. sent = IF Key(party) = NoKey \/ "x-api-key" \in NamesOf(own \union lent) THEN plain ELSE plain \union {one}
  BY <1>2 DEF apply_auth_headers
<1>4. \A name : NamedSo(plain \union {one}, name) = NamedSo(plain, name) \union (IF name = "x-api-key" THEN {one} ELSE {})
  <2>1. one.name = "x-api-key"
    OBVIOUS
  <2> QED BY <2>1 DEF NamedSo
<1>5. \A name : NamedSo(plain, name) = {AsSent(h) : h \in NamedSo(kept, name)}
  BY AsSentNamed
<1>6. kept \in HeaderMaps(Merged(own, lent))
  OBVIOUS
<1> HIDE DEF own, lent, kept, sent, plain, one
<1>7. "x-api-key" \notin NamesOf(own \union lent) => NamedSo(plain, "x-api-key") = {}
  BY <1>2, <1>5 DEF NamedSo
<1>8. ASSUME NEW name \in NamesOf(own \union lent) PROVE SentOnce(name, own, lent, sent)
  <2>1. NamedSo(sent, name) = NamedSo(plain, name)
    BY <1>3, <1>4
  <2>2. NamedSo(sent, name) = {AsSent(h) : h \in NamedSo(kept, name)}
    BY <1>5, <2>1
  <2> QED BY <1>1, <1>6, <2>2, OneOfEach
<1>9. ASSUME "x-api-key" \notin NamesOf(own \union lent)
      PROVE  NamedSo(sent, "x-api-key") = IF Key(party) = NoKey THEN {} ELSE {one}
  BY <1>3, <1>4, <1>7, <1>9
<1>10. "x-api-key" \notin NamesOf(own \union lent) =>
          NamedSo(sent, "x-api-key") =
             IF Key(party) = NoKey THEN {}
             ELSE {[name |-> "x-api-key", value |-> [Key(party) EXCEPT !.bearer = FALSE]]}
  BY <1>9 DEF one
<1>11. HeadersFit(sent, Key(party), own, lent, "x-api-key", FALSE)
  BY <1>8, <1>10 DEF HeadersFit
<1> QED BY <1>11 DEF sent, own, lent

\* with_bearer
LEMMA BearerHeadersFit ==
    ASSUME given \in Givens, Loads(given), NEW party \in {"asr", "tts"}, NEW c,
           Key(party) # NoKey => c.api_key = Key(party),
           c.headers \in HeaderMaps(Merged(OwnHeaders(party), LentHeaders))
    PROVE  HeadersFit(with_bearer(c), Key(party), OwnHeaders(party), LentHeaders, "authorization", TRUE)
<1> DEFINE own == OwnHeaders(party)
           lent == LentHeaders
           kept == c.headers
           sent == with_bearer(c)
           plain == {AsSent(h) : h \in kept}
<1>1. /\ own \in SUBSET HeadersOf(given) /\ lent \in SUBSET HeadersOf(given)
      /\ Spelled(HeadersOf(given))
  BY HeadersStand DEF Parties
<1>2. sent = plain \/ sent = plain \union {Bearer(c.api_key)}
  BY DEF with_bearer
<1>3. Key(party) # NoKey => Bearer(Key(party)) \in sent
  BY KeyStands DEF with_bearer, Parties
<1>4. \A key, name : name # "authorization" => NamedSo(plain \union {Bearer(key)}, name) = NamedSo(plain, name)
  BY DEF Bearer, NamedSo
<1>b. \A key : Bearer(key).name = "authorization"
  BY DEF Bearer
<1>5. \A name : NamedSo(plain, name) = {AsSent(h) : h \in NamedSo(kept, name)}
  BY AsSentNamed
<1>6. kept \in HeaderMaps(Merged(own, lent))
  OBVIOUS
<1> HIDE DEF own, lent, kept, sent, plain
<1>7. ASSUME NEW name \in NamesOf(own \union lent), name # "authorization" PROVE SentOnce(name, own, lent, sent)
  <2>1. NamedSo(sent, name) = NamedSo(plain, name)
    BY <1>2, <1>4, <1>7
  <2>2. NamedSo(sent, name) = {AsSent(h) : h \in NamedSo(kept, name)}
    BY <1>5, <2>1
  <2> QED BY <1>1, <1>6, <2>2, OneOfEach
<1>8. Key(party) # NoKey => Bearer(Key(party)) \in NamedSo(sent, "authorization")
  BY <1>3, <1>b DEF NamedSo
<1>9. HeadersFit(sent, Key(party), own, lent, "authorization", TRUE)
  BY <1>7, <1>8 DEF HeadersFit
<1> QED BY <1>9 DEF sent, own, lent

\* connect
LEMMA SessionHeadersFit ==
    ASSUME given \in Givens, Loads(given), NEW c, NEW voice,
           c.api_key = (IF Key("tts") = NoKey THEN None ELSE Key("tts")), c.headers = OwnHeaders("tts"),
           NEW kept \in HeaderMaps(c.headers)
    PROVE  HeadersFit(Session(c, voice, kept).headers, Key("tts"), OwnHeaders("tts"), {}, "authorization", FALSE)
<1> DEFINE own == OwnHeaders("tts")
           sent == Session(c, voice, kept).headers
           plain == {AsSent(h) : h \in kept}
           one == Bearer(Key("tts"))
<1>1. own \in SUBSET HeadersOf(given) /\ {} \in SUBSET HeadersOf(given) /\ Spelled(HeadersOf(given))
  BY HeadersStand DEF Parties
<1>2. Merged(own, {}) = own /\ own \union {} = own
  BY DEF Merged
<1>3. kept \in HeaderMaps(Merged(own, {}))
  BY <1>2
<1>4. Key("tts") # NoKey => Key("tts") # None
  BY KeyStands DEF Parties
<1>5. sent = IF Key("tts") = NoKey \/ \E h \in kept : h.name = "authorization" THEN plain ELSE plain \union {one}
  BY <1>4 DEF Session
<1>6. \A name : NamedSo(plain \union {one}, name) = NamedSo(plain, name) \union (IF name = "authorization" THEN {one} ELSE {})
  BY DEF Bearer, NamedSo
<1>7. \A name : NamedSo(plain, name) = {AsSent(h) : h \in NamedSo(kept, name)}
  BY AsSentNamed
<1> HIDE DEF own, sent, plain, one
<1>8. \A name : (\E h \in kept : h.name = name) <=> name \in NamesOf(own)
  <2>1. \A name : (\E h \in kept : h.name = name) <=> name \in NamesOf(own \union {})
    BY <1>1, <1>3, KeptNames
  <2> QED BY <1>2, <2>1
<1>9. ASSUME NEW name \in NamesOf(own) PROVE SentOnce(name, own, {}, sent)
  <2>1. NamedSo(sent, name) = NamedSo(plain, name)
    BY <1>5, <1>6, <1>8
  <2>2. NamedSo(sent, name) = {AsSent(h) : h \in NamedSo(kept, name)}
    BY <1>7, <2>1
  <2> QED BY <1>1, <1>2, <1>3, <2>2, OneOfEach
<1>10. ASSUME "authorization" \notin NamesOf(own)
       PROVE  NamedSo(sent, "authorization") = IF Key("tts") = NoKey THEN {} ELSE {one}
  <2>1. NamedSo(plain, "authorization") = {}
    BY <1>7, <1>8, <1>10 DEF NamedSo
  <2> QED BY <1>5, <1>6, <1>8, <1>10, <2>1
<1>11. "authorization" \notin NamesOf(own \union {}) =>
          NamedSo(sent, "authorization") = IF Key("tts") = NoKey THEN {} ELSE {Bearer(Key("tts"))}
  BY <1>2, <1>10 DEF one
<1>12. \A name \in NamesOf(own \union {}) : SentOnce(name, own, {}, sent)
  BY <1>2, <1>9
<1>13. HeadersFit(sent, Key("tts"), own, {}, "authorization", FALSE)
  BY <1>11, <1>12 DEF HeadersFit
<1> QED BY <1>13 DEF sent, own


-----------------------------------------------------------------------------
(* Calls.                                                                   *)

\* The options that are given are sent, and the voice that was chosen.
OptionsFit(sent, party, voice) ==
    \A k \in Options(party) :
        LET said == IF k = "voice" /\ voice # None THEN voice ELSE Nearest(k, Sources(party), None)
        IN  said \notin Unset => k \in DOMAIN sent /\ sent[k] = said

CarrierOf(party) == IF party \in {"fast", "strong"} THEN "x-api-key" ELSE "authorization"

\* What CallsAsConfigured says of one call.
AsConfigured(q) ==
    /\ q.base = Lent("api_base", Sources(q.to), "", "")
    /\ q.timeout = Lent("timeout_ms", Sources(q.to), None, "30000")
    /\ "model" \in DOMAIN q =>
          q.model = Nearest("model", Sources(q.to), IF q.to = "asr" THEN "sensevoice" ELSE "")
    /\ HeadersFit(q.headers, Key(q.to), OwnHeaders(q.to), IF q.over = "websocket" THEN {} ELSE LentHeaders,
                  CarrierOf(q.to), CarrierOf(q.to) = "authorization" /\ q.over = "http")
    /\ "body" \in DOMAIN q => OptionsFit(q.body, q.to, q.voice)

LEMMA AsConfiguredIs ==
    ASSUME request # None => AsConfigured(request)
    PROVE  CallsAsConfigured
<1> SUFFICES ASSUME request # None PROVE CallsAsConfigured
  BY DEF CallsAsConfigured
<1> DEFINE key     == Key(request.to)
           own     == OwnHeaders(request.to)
           lent    == IF request.over = "websocket" THEN {} ELSE LentHeaders
           carrier == CarrierOf(request.to)
           beside  == carrier = "authorization" /\ request.over = "http"
<1>1. AsConfigured(request)
  OBVIOUS
<1>2. HeadersFit(request.headers, key, own, lent, carrier, beside)
  BY <1>1 DEF AsConfigured
<1>3. /\ \A name \in {h.name : h \in own \union lent} :
            (beside /\ name = carrier) \/ SentOnce(name, own, lent, request.headers)
      /\ beside /\ key # NoKey => Bearer(key) \in {h \in request.headers : h.name = carrier}
      /\ ~beside /\ carrier \notin {h.name : h \in own \union lent} =>
            {h \in request.headers : h.name = carrier} =
               IF key = NoKey THEN {}
               ELSE IF carrier = "x-api-key" THEN {[name |-> carrier, value |-> [key EXCEPT !.bearer = FALSE]]}
               ELSE {Bearer(key)}
  <2> HIDE DEF key, own, lent, carrier, beside
  <2> QED BY <1>2 DEF HeadersFit, NamesOf, NamedSo
<1>4. "body" \in DOMAIN request =>
         \A k \in Options(request.to) :
             LET said == IF k = "voice" /\ request.voice # None THEN request.voice
                         ELSE Nearest(k, Sources(request.to), None)
             IN  said \notin {None, "", "false"} => k \in DOMAIN request.body /\ request.body[k] = said
  BY <1>1 DEF AsConfigured, OptionsFit, Unset
<1>5. /\ request.base = Lent("api_base", Sources(request.to), "", "")
      /\ request.timeout = Lent("timeout_ms", Sources(request.to), None, "30000")
      /\ "model" \in DOMAIN request =>
            request.model = Nearest("model", Sources(request.to), IF request.to = "asr" THEN "sensevoice" ELSE "")
  BY <1>1 DEF AsConfigured
<1> QED BY <1>3, <1>4, <1>5 DEF CallsAsConfigured, Key, OwnHeaders, LentHeaders, CarrierOf

Settled == stage \in {"building", "serving"} => Loads(given) /\ conf = Effective(given)

Built ==
    stage = "serving" =>
        \E a \in HeaderMaps(resolved(conf.asr, conf.provider).headers),
           f \in HeaderMaps(resolved(conf.llm, conf.provider).headers),
           s \in HeaderMaps(resolved(StrongConf, conf.provider).headers),
           t \in HeaderMaps(resolved(conf.tts, conf.provider).headers) :
              clients = [asr    |-> AsrClient(conf.asr, conf.provider, a),
                         fast   |-> LlmClient(conf.llm, conf.provider, f, "fast"),
                         strong |-> LlmClient(StrongConf, conf.provider, s, "strong"),
                         tts    |-> TtsClient(conf.tts, conf.provider, t)]

ConfigInv ==
    /\ given \in Givens
    /\ Settled /\ Built
    /\ request # None => AsConfigured(request)

\* Where the client knows what its section says, and headers and options fit,
\* a call of it is as configured.
ClientFor(c, party) ==
    /\ c.api_base = Lent("api_base", Sources(party), "", "")
    /\ c.timeout_ms = Lent("timeout_ms", Sources(party), None, "30000")
    /\ Tells(c.section, party)

LEMMA CallFits ==
    ASSUME NEW party, NEW c, ClientFor(c, party), NEW over, NEW voice, NEW q,
           DOMAIN q \intersect {"to", "over", "voice", "base", "timeout"} = {}, "headers" \in DOMAIN q,
           "model" \in DOMAIN q => q.model = c.section.model,
           HeadersFit(q.headers, Key(party), OwnHeaders(party), IF over = "websocket" THEN {} ELSE LentHeaders,
                      CarrierOf(party), CarrierOf(party) = "authorization" /\ over = "http"),
           "body" \in DOMAIN q => OptionsFit(q.body, party, voice)
    PROVE  AsConfigured(Call(party, c, over, voice, q))
<1> DEFINE r == Call(party, c, over, voice, q)
<1>1. r.to = party /\ r.over = over /\ r.voice = voice /\ r.base = c.api_base /\ r.timeout = c.timeout_ms
  BY DEF Call, Over
<1>2. \A k \in {"headers", "model", "body"} : k \in DOMAIN r <=> k \in DOMAIN q
  BY DEF Call, Over
<1>3. \A k \in {"headers", "model", "body"} : k \in DOMAIN q => r[k] = q[k]
  BY DEF Call, Over
<1>4. r.headers = q.headers
  BY <1>3
<1>5. "model" \in DOMAIN r => r.model = Nearest("model", Sources(party), IF party = "asr" THEN "sensevoice" ELSE "")
  BY <1>2, <1>3 DEF ClientFor, Tells
<1>6. "body" \in DOMAIN r => OptionsFit(r.body, party, voice)
  BY <1>2, <1>3
<1> HIDE DEF r
<1>7. AsConfigured(r)
  BY <1>1, <1>4, <1>5, <1>6 DEF AsConfigured, ClientFor
<1> QED BY <1>7 DEF r

LEMMA BodyFits ==
    ASSUME NEW party, NEW s, Tells(s, party), NEW options, Options(party) \subseteq options,
           NEW unset \in SUBSET Unset
    PROVE  OptionsFit(Body(s, options, unset), party, None)
<1> SUFFICES ASSUME NEW k \in Options(party), Nearest(k, Sources(party), None) \notin Unset
             PROVE  /\ k \in DOMAIN Body(s, options, unset)
                    /\ Body(s, options, unset)[k] = Nearest(k, Sources(party), None)
  BY DEF OptionsFit
<1>1. s[k] = Nearest(k, Sources(party), None)
  BY DEF Tells
<1> QED BY <1>1 DEF Body

LEMMA LlmAsConfigured ==
    ASSUME given \in Givens, Loads(given), conf = Effective(given),
           NEW party \in {"fast", "strong"}, NEW s, SectionFor(s, party), NEW text, NEW hint,
           NEW m \in HeaderMaps(resolved(s, conf.provider).headers)
    PROVE  LET c == LlmClient(s, conf.provider, m, text)
           IN  AsConfigured(Call(party, c, "http", None, Chat(c, hint)))
<1> DEFINE r == resolved(s, conf.provider)
           c == LlmClient(s, conf.provider, m, text)
           q == Chat(c, hint)
<1>1. /\ Tells(s, party)
      /\ r.api_base = Lent("api_base", Sources(party), "", "") /\ r.api_key = Key(party)
      /\ r.timeout_ms = Lent("timeout_ms", Sources(party), None, "30000")
      /\ r.headers = Merged(OwnHeaders(party), LentHeaders)
      /\ DOMAIN r = {"api_base", "api_key", "timeout_ms", "headers"}
  BY SectionTells DEF Parties
<1>2. c.section = s /\ c.headers = m /\ c.api_key = r.api_key /\ c.api_base = r.api_base /\ c.timeout_ms = r.timeout_ms
  <2> HIDE DEF r
  <2> QED BY <1>1 DEF LlmClient, Over, r
<1>3. ClientFor(c, party)
  BY <1>1, <1>2 DEF ClientFor
<1>4. /\ DOMAIN q \intersect {"to", "over", "voice", "base", "timeout"} = {} /\ "headers" \in DOMAIN q
      /\ q.headers = apply_auth_headers(c) /\ q.model = c.section.model
      /\ q.body = Body(c.section, LlmOptions, {None, "false"})
  BY DEF Chat
<1> HIDE DEF c, q, r
<1>5. HeadersFit(q.headers, Key(party), OwnHeaders(party), LentHeaders, "x-api-key", FALSE)
  BY <1>1, <1>2, <1>4, LlmHeadersFit DEF r
<1>6. OptionsFit(q.body, party, None)
  <2>1. Options(party) = LlmOptions /\ {None, "false"} \in SUBSET Unset
    BY DEF Options, Unset
  <2>2. OptionsFit(Body(c.section, LlmOptions, {None, "false"}), party, None)
    BY <1>3, <2>1, BodyFits DEF ClientFor
  <2> QED BY <1>4, <2>2
<1>7. CarrierOf(party) = "x-api-key" /\ "x-api-key" # "authorization"
  BY DEF CarrierOf
<1>8. AsConfigured(Call(party, c, "http", None, q))
  BY <1>3, <1>4, <1>5, <1>6, <1>7, CallFits
<1> QED BY <1>8 DEF q, c

LEMMA AsrAsConfigured ==
    ASSUME given \in Givens, Loads(given), conf = Effective(given),
           NEW m \in HeaderMaps(resolved(conf.asr, conf.provider).headers)
    PROVE  LET c == AsrClient(conf.asr, conf.provider, m)
           IN  AsConfigured(Call("asr", c, "http", None, Transcription(c)))
<1> DEFINE s == conf.asr
           r == resolved(s, conf.provider)
           c == AsrClient(s, conf.provider, m)
           q == Transcription(c)
<1>1. /\ Tells(s, "asr")
      /\ r.api_base = Lent("api_base", Sources("asr"), "", "") /\ r.api_key = Key("asr")
      /\ r.timeout_ms = Lent("timeout_ms", Sources("asr"), None, "30000")
      /\ r.headers = Merged(OwnHeaders("asr"), LentHeaders)
      /\ DOMAIN r = {"api_base", "api_key", "timeout_ms", "headers"}
  <2>1. SectionFor(s, "asr") /\ "asr" \in Parties
    BY DEF SectionFor, Parties
  <2> HIDE DEF s
  <2> QED BY <2>1, SectionTells
<1>2. /\ c.section = s /\ c.headers = m /\ c.api_base = r.api_base /\ c.timeout_ms = r.timeout_ms
      /\ Key("asr") # NoKey => c.api_key = Key("asr")
  <2> HIDE DEF r, s
  <2> QED BY <1>1 DEF AsrClient, Over, r
<1>3. ClientFor(c, "asr")
  BY <1>1, <1>2 DEF ClientFor
<1>4. /\ DOMAIN q \intersect {"to", "over", "voice", "base", "timeout"} = {} /\ "headers" \in DOMAIN q
      /\ q.headers = with_bearer(c) /\ q.model = c.section.model
      /\ q.body = Body(c.section, AsrOptions, {None, ""})
  BY DEF Transcription
<1>m. m \in HeaderMaps(Merged(OwnHeaders("asr"), LentHeaders))
  BY <1>1
<1> HIDE DEF c, q, r, s
<1>5. HeadersFit(q.headers, Key("asr"), OwnHeaders("asr"), LentHeaders, "authorization", TRUE)
  BY <1>m, <1>2, <1>4, BearerHeadersFit
<1>6. OptionsFit(q.body, "asr", None)
  <2>1. Options("asr") = AsrOptions /\ {None, ""} \in SUBSET Unset
    BY DEF Options, Unset
  <2>2. OptionsFit(Body(c.section, AsrOptions, {None, ""}), "asr", None)
    BY <1>3, <2>1, BodyFits DEF ClientFor
  <2> QED BY <1>4, <2>2
<1>7. CarrierOf("asr") = "authorization"
  BY DEF CarrierOf
<1>8. AsConfigured(Call("asr", c, "http", None, q))
  BY <1>3, <1>4, <1>5, <1>6, <1>7, CallFits
<1> QED BY <1>8 DEF q, c, s

\* The client of the synthesiser, by its transport.
LEMMA TtsClientIs ==
    ASSUME given \in Givens, Loads(given), conf = Effective(given),
           NEW m \in HeaderMaps(resolved(conf.tts, conf.provider).headers),
           NEW c, c = TtsClient(conf.tts, conf.provider, m)
    PROVE  /\ ClientFor(c, "tts")
           /\ c.transport # "websocket" =>
                 c.api_key = Key("tts") /\ c.headers \in HeaderMaps(Merged(OwnHeaders("tts"), LentHeaders))
           /\ c.transport = "websocket" =>
                 c.api_key = (IF Key("tts") = NoKey THEN None ELSE Key("tts")) /\ c.headers = OwnHeaders("tts")
<1> DEFINE s == conf.tts
           r == resolved(s, conf.provider)
           ws == transport_kind(s) = "websocket"
           tuned == [s EXCEPT !.response_format = IF @ # "" THEN @ ELSE IF ws THEN "pcm" ELSE "wav",
                              !.voice = IF @ = "" /\ ~ws THEN "vivian" ELSE @,
                              !.sample_rate = model_format(s).sample_rate,
                              !.channels = model_format(s).channels]
<1>1. /\ Tells(s, "tts") /\ s.headers = OwnHeaders("tts")
      /\ r.api_base = Lent("api_base", Sources("tts"), "", "") /\ r.api_key = Key("tts")
      /\ r.timeout_ms = Lent("timeout_ms", Sources("tts"), None, "30000")
      /\ r.headers = Merged(OwnHeaders("tts"), LentHeaders)
      /\ DOMAIN r = {"api_base", "api_key", "timeout_ms", "headers"}
  <2>1. SectionFor(s, "tts") /\ "tts" \in Parties
    BY DEF SectionFor, Parties
  <2> HIDE DEF s
  <2> QED BY <2>1, SectionTells
<1>2. m \in HeaderMaps(Merged(OwnHeaders("tts"), LentHeaders))
  BY <1>1
<1> HIDE DEF r, s
<1>3. DOMAIN tuned = DOMAIN s
  OBVIOUS
<1>4. \A k \in DOMAIN s : k \notin {"response_format", "voice", "sample_rate", "channels"} => tuned[k] = s[k]
  OBVIOUS
<1>5. /\ "response_format" \in DOMAIN s /\ s.response_format # "" => tuned.response_format = s.response_format
      /\ "voice" \in DOMAIN s /\ s.voice # "" => tuned.voice = s.voice
  OBVIOUS
<1>6. Options("tts") = TtsOptions /\ \A k \in TtsOptions : k \notin {"sample_rate", "channels"}
  BY DEF Options, TtsOptions
<1>c. c = Over([section |-> tuned, path |-> resolved_endpoint(s, conf.provider).path, transport |-> transport_kind(s)],
               [r EXCEPT !.headers = IF ws THEN s.headers ELSE m,
                         !.api_key = IF @ = NoKey /\ ws THEN None ELSE @])
  BY DEF TtsClient, r, s
<1> HIDE DEF tuned
<1>7. Tells(tuned, "tts")
  <2>1. ASSUME NEW k \in Options("tts"), Nearest(k, Sources("tts"), None) \notin Unset
        PROVE  tuned[k] = s[k]
    <3>1. k \in DOMAIN s /\ s[k] # ""
      BY <1>1, <2>1 DEF Tells, Unset
    <3> QED BY <1>4, <1>5, <1>6, <3>1
  <2> QED BY <1>1, <1>3, <1>4, <2>1 DEF Tells
<1> HIDE DEF ws
<1>8. /\ c.section = tuned /\ c.transport = transport_kind(s)
      /\ c.api_base = r.api_base /\ c.timeout_ms = r.timeout_ms
      /\ c.headers = (IF ws THEN s.headers ELSE m)
      /\ c.api_key = (IF r.api_key = NoKey /\ ws THEN None ELSE r.api_key)
  BY <1>1, <1>c DEF Over
<1>9. ClientFor(c, "tts")
  BY <1>1, <1>7, <1>8 DEF ClientFor
<1> QED BY <1>1, <1>2, <1>8, <1>9 DEF ws

LEMMA TtsAsConfigured ==
    ASSUME given \in Givens, Loads(given), conf = Effective(given),
           NEW m \in HeaderMaps(resolved(conf.tts, conf.provider).headers),
           NEW c, c = TtsClient(conf.tts, conf.provider, m), c.transport = "http", NEW voice
    PROVE  /\ AsConfigured(Call("tts", c, "http", voice, Speech(c, voice)))
           /\ AsConfigured(Call("tts", c, "http", None, list_voices(c)))
<1> DEFINE q == Speech(c, voice)
           l == list_voices(c)
<1>1. ClientFor(c, "tts") /\ c.api_key = Key("tts") /\ c.headers \in HeaderMaps(Merged(OwnHeaders("tts"), LentHeaders))
  BY TtsClientIs
<1>2. HeadersFit(with_bearer(c), Key("tts"), OwnHeaders("tts"), LentHeaders, "authorization", TRUE)
  BY <1>1, BearerHeadersFit
<1>3. /\ DOMAIN q \intersect {"to", "over", "voice", "base", "timeout"} = {} /\ "headers" \in DOMAIN q
      /\ q.headers = with_bearer(c) /\ q.model = c.section.model
  BY DEF Speech
<1>4. /\ DOMAIN l \intersect {"to", "over", "voice", "base", "timeout"} = {} /\ "headers" \in DOMAIN l
      /\ l.headers = with_bearer(c) /\ "model" \notin DOMAIN l /\ "body" \notin DOMAIN l
  BY DEF list_voices
<1>5. CarrierOf("tts") = "authorization"
  BY DEF CarrierOf
<1>6. OptionsFit(q.body, "tts", voice)
  <2> DEFINE s == c.section
             b == q.body
  <2>1. /\ TtsOptions \subseteq DOMAIN b
        /\ b.voice = (IF voice = None THEN s.voice ELSE voice) /\ b.response_format = s.response_format
        /\ s.speed # None => b.speed = s.speed
        /\ s.task_type # None => b.task_type = s.task_type
        /\ s.language # None => b.language = s.language
        /\ s.instructions # None => b.instructions = s.instructions
        /\ s.max_new_tokens # None => b.max_new_tokens = s.max_new_tokens
    BY DEF Speech, TtsOptions
  <2> HIDE DEF s, b
  <2>2. \A k \in TtsOptions : s[k] # None /\ k # "voice" => b[k] = s[k]
    BY <2>1 DEF TtsOptions
  <2>3. Options("tts") = TtsOptions
    BY DEF Options
  <2>4. \A k \in TtsOptions : Nearest(k, Sources("tts"), None) \notin Unset => s[k] = Nearest(k, Sources("tts"), None)
    BY <1>1, <2>3 DEF ClientFor, Tells, s
  <2>5. ASSUME NEW k \in TtsOptions, NEW said,
               said = (IF k = "voice" /\ voice # None THEN voice ELSE Nearest(k, Sources("tts"), None)),
               said \notin Unset
        PROVE  k \in DOMAIN b /\ b[k] = said
    <3>1. CASE k = "voice" /\ voice # None
      BY <2>1, <2>5, <3>1
    <3>2. CASE k = "voice" /\ voice = None
      BY <2>1, <2>4, <2>5, <3>2
    <3>3. CASE k # "voice"
      <4>1. s[k] = said /\ said # None
        BY <2>4, <2>5, <3>3 DEF Unset
      <4> QED BY <2>1, <2>2, <3>3, <4>1
    <3> QED BY <3>1, <3>2, <3>3
  <2>6. OptionsFit(b, "tts", voice)
    BY <2>3, <2>5 DEF OptionsFit
  <2> QED BY <2>6 DEF b
<1> HIDE DEF q, l
<1>7. AsConfigured(Call("tts", c, "http", voice, q))
  BY <1>1, <1>2, <1>3, <1>5, <1>6, CallFits
<1>8. AsConfigured(Call("tts", c, "http", None, l))
  BY <1>1, <1>2, <1>4, <1>5, CallFits
<1> QED BY <1>7, <1>8 DEF q, l

LEMMA SessionAsConfigured ==
    ASSUME given \in Givens, Loads(given), conf = Effective(given),
           NEW m \in HeaderMaps(resolved(conf.tts, conf.provider).headers),
           NEW c, c = TtsClient(conf.tts, conf.provider, m), c.transport = "websocket",
           NEW voice, NEW kept \in HeaderMaps(c.headers)
    PROVE  AsConfigured(Call("tts", c, "websocket", voice, Session(c, voice, kept)))
<1> DEFINE q == Session(c, voice, kept)
           s == c.section
           told == [s EXCEPT !.voice = IF voice # None THEN voice ELSE IF @ = "" THEN None ELSE @]
           options == TtsOptions \union {"sample_rate"}
<1>1. /\ ClientFor(c, "tts") /\ c.headers = OwnHeaders("tts")
      /\ c.api_key = (IF Key("tts") = NoKey THEN None ELSE Key("tts"))
  BY TtsClientIs
<1>2. HeadersFit(q.headers, Key("tts"), OwnHeaders("tts"), {}, "authorization", FALSE)
  BY <1>1, SessionHeadersFit
<1>3. /\ DOMAIN q \intersect {"to", "over", "voice", "base", "timeout"} = {} /\ "headers" \in DOMAIN q
      /\ "model" \notin DOMAIN q
  BY DEF Session
<1>b. q.body = Body(told, options, {None})
  BY DEF Session
<1>4. CarrierOf("tts") = "authorization"
  BY DEF CarrierOf
<1>5. OptionsFit(q.body, "tts", voice)
  <2>1. Options("tts") = TtsOptions /\ TtsOptions \subseteq options /\ "voice" \in TtsOptions
    BY DEF Options, TtsOptions
  <2>2. Tells(s, "tts")
    BY <1>1 DEF ClientFor
  <2> HIDE DEF s
  <2>3. \A k \in DOMAIN s : k # "voice" => told[k] = s[k]
    OBVIOUS
  <2>4. "voice" \in DOMAIN s
    BY <2>1, <2>2 DEF Tells
  <2>5. told["voice"] = IF voice # None THEN voice ELSE IF s["voice"] = "" THEN None ELSE s["voice"]
    BY <2>4
  <2> HIDE DEF told, options, q
  <2>6. ASSUME NEW k \in TtsOptions, NEW said,
               said = (IF k = "voice" /\ voice # None THEN voice ELSE Nearest(k, Sources("tts"), None)),
               said \notin Unset
        PROVE  told[k] = said
    <3>1. k \in DOMAIN s
      BY <2>1, <2>2 DEF Tells
    <3>2. CASE k = "voice" /\ voice # None
      BY <2>5, <2>6, <3>2
    <3>3. CASE ~(k = "voice" /\ voice # None)
      <4>1. s[k] = said /\ said # ""
        BY <2>1, <2>2, <2>6, <3>3 DEF Tells, Unset
      <4> QED BY <2>3, <2>5, <3>1, <3>3, <4>1
    <3> QED BY <3>2, <3>3
  <2>7. ASSUME NEW k \in TtsOptions, NEW said,
               said = (IF k = "voice" /\ voice # None THEN voice ELSE Nearest(k, Sources("tts"), None)),
               said \notin Unset
        PROVE  k \in DOMAIN q.body /\ q.body[k] = said
    <3>1. told[k] = said /\ said # None
      BY <2>6, <2>7 DEF Unset
    <3> QED BY <1>b, <2>1, <3>1 DEF Body
  <2> QED BY <2>1, <2>7 DEF OptionsFit
<1> HIDE DEF q
<1>6. AsConfigured(Call("tts", c, "websocket", voice, q))
  BY <1>1, <1>2, <1>3, <1>4, <1>5, CallFits
<1> QED BY <1>6 DEF q

LEMMA CallStep ==
    ASSUME ConfigInv, AskProvider
    PROVE  AsConfigured(request')
<1>1. stage = "serving"
  BY DEF AskProvider
<1>2. given \in Givens /\ Loads(given) /\ conf = Effective(given)
  BY <1>1 DEF ConfigInv, Settled
<1>3. PICK a \in HeaderMaps(resolved(conf.asr, conf.provider).headers),
           f \in HeaderMaps(resolved(conf.llm, conf.provider).headers),
           s \in HeaderMaps(resolved(StrongConf, conf.provider).headers),
           t \in HeaderMaps(resolved(conf.tts, conf.provider).headers) :
              clients = [asr    |-> AsrClient(conf.asr, conf.provider, a),
                         fast   |-> LlmClient(conf.llm, conf.provider, f, "fast"),
                         strong |-> LlmClient(StrongConf, conf.provider, s, "strong"),
                         tts    |-> TtsClient(conf.tts, conf.provider, t)]
  BY <1>1 DEF ConfigInv, Built
<1>4. /\ clients.asr = AsrClient(conf.asr, conf.provider, a)
      /\ clients["fast"] = LlmClient(conf.llm, conf.provider, f, "fast")
      /\ clients["strong"] = LlmClient(StrongConf, conf.provider, s, "strong")
      /\ clients.tts = TtsClient(conf.tts, conf.provider, t)
  BY <1>3
<1>5. ASSUME NEW who \in {"fast", "strong"}, NEW hint,
             request' = Call(who, clients[who], "http", None, Chat(clients[who], hint))
      PROVE  AsConfigured(request')
  <2>1. CASE who = "fast"
    <3>1. SectionFor(conf.llm, "fast")
      BY DEF SectionFor
    <3>2. LET c == LlmClient(conf.llm, conf.provider, f, "fast")
          IN  AsConfigured(Call("fast", c, "http", None, Chat(c, hint)))
      BY <1>2, <3>1, LlmAsConfigured
    <3> QED BY <1>4, <1>5, <2>1, <3>2
  <2>2. CASE who = "strong"
    <3>1. SectionFor(StrongConf, "strong")
      BY DEF SectionFor
    <3>2. LET c == LlmClient(StrongConf, conf.provider, s, "strong")
          IN  AsConfigured(Call("strong", c, "http", None, Chat(c, hint)))
      BY <1>2, <3>1, LlmAsConfigured
    <3> QED BY <1>4, <1>5, <2>2, <3>2
  <2> QED BY <2>1, <2>2
<1>6. CASE request' = Call("asr", clients.asr, "http", None, Transcription(clients.asr))
  BY <1>2, <1>4, <1>6, AsrAsConfigured
<1>7. ASSUME NEW voice, clients.tts.transport = "http",
             \/ request' = Call("tts", clients.tts, "http", voice, Speech(clients.tts, voice))
             \/ request' = Call("tts", clients.tts, "http", None, list_voices(clients.tts))
      PROVE  AsConfigured(request')
  BY <1>2, <1>4, <1>7, TtsAsConfigured
<1>8. ASSUME NEW voice, NEW kept \in HeaderMaps(clients.tts.headers), clients.tts.transport = "websocket",
             request' = Call("tts", clients.tts, "websocket", voice, Session(clients.tts, voice, kept))
      PROVE  AsConfigured(request')
  BY <1>2, <1>4, <1>8, SessionAsConfigured
<1> QED BY <1>5, <1>6, <1>7, <1>8 DEF AskProvider

LEMMA ConfigInvStep ==
    ASSUME ConfigInv, [NextConfig]_configVars
    PROVE  ConfigInv'
<1>1. given' = given
  BY DEF NextConfig, Load, Build, FailToBuild, AskProvider, configVars
<1>s. \A party : Sources(party)' = Sources(party)
  BY <1>1 DEF Sources, FileSays
<1>l. /\ \A k, s, e, o : Lent(k, s, e, o)' = Lent(k, s, e, o)
      /\ \A party : Key(party)' = Key(party) /\ OwnHeaders(party)' = OwnHeaders(party)
      /\ LentHeaders' = LentHeaders
  BY <1>s DEF Lent, Key, OwnHeaders, LentHeaders
<1>2. \A q : AsConfigured(q)' <=> AsConfigured(q)
  BY <1>s, <1>l DEF AsConfigured, OptionsFit
<1>3. CASE Load
  BY <1>1, <1>3, <1>2 DEF Load, ConfigInv, Settled, Built
<1>4. CASE Build
  <2>1. stage' = "serving" /\ stage = "building" /\ conf' = conf /\ request' = request
    BY <1>4 DEF Build
  <2>2. StrongConf' = StrongConf
    BY <2>1 DEF StrongConf
  <2>3. Built'
    BY <1>4, <2>1, <2>2 DEF Build, Built
  <2> QED BY <1>1, <1>2, <2>1, <2>3 DEF ConfigInv, Settled
<1>5. CASE FailToBuild
  BY <1>1, <1>5, <1>2 DEF FailToBuild, ConfigInv, Settled, Built
<1>6. CASE AskProvider
  <2>1. UNCHANGED <<given, stage, conf, clients>>
    BY <1>6 DEF AskProvider
  <2>2. AsConfigured(request')
    BY <1>6, CallStep
  <2>3. request' # None => AsConfigured(request)'
    BY <1>s, <1>l, <2>2 DEF AsConfigured, OptionsFit
  <2>4. Settled' /\ Built'
    BY <2>1 DEF ConfigInv, Settled, Built, StrongConf
  <2> QED BY <1>1, <2>3, <2>4 DEF ConfigInv
<1>7. CASE UNCHANGED configVars
  BY <1>1, <1>2, <1>7 DEF configVars, ConfigInv, Settled, Built, StrongConf
<1> QED BY <1>3, <1>4, <1>5, <1>6, <1>7 DEF NextConfig

\* However the server is configured, and whatever it asks of a provider: the
\* call goes to the base, with the timeout, model, key, headers and options
\* that the nearest source gives, the environment before the file, the section
\* before the provider's, the strong model's own before the fast one's
\* (apply_env_overrides, resolved, apply_auth_headers, connect); of a
\* WebSocket the headers are its section's.
THEOREM CallsAlwaysAsConfigured == SpecConfig => []CallsAsConfigured
<1>1. InitConfig => ConfigInv
  BY DEF InitConfig, ConfigInv, Settled, Built
<1>2. ConfigInv => CallsAsConfigured
  BY AsConfiguredIs DEF ConfigInv
<1>3. ConfigInv /\ [NextConfig]_configVars => ConfigInv'
  BY ConfigInvStep
<1> QED BY <1>1, <1>2, <1>3, PTL DEF SpecConfig

-----------------------------------------------------------------------------
(***************************************************************************)
(* The answer of the synthesiser.                                          *)
(*                                                                         *)
(* The bytes of an answer are known by their place (Byte), so that what    *)
(* arrived, what waits in sse_buf and what is still to come are three      *)
(* pieces of one text (Cut), and reading a line moves a cut.  The parser   *)
(* knows after r lines what those lines say (After): the name that holds,  *)
(* how much was spoken, and the audio given.  A chunk is read line by line *)
(* until no end of line is left or a line ends the reading.                *)
(***************************************************************************)

SpecHttp == InitHttp /\ [][NextHttp]_httpVars

(* Bytes and lines.                                                         *)

LineEndings == {<<LF>>, <<CR, LF>>}
Size(eol) == Len(eol) + 2

\* Byte p of an answer, whatever its lines.
Byte(eol, p) == ByteAt((p - 1) % Size(eol), (p - 1) \div Size(eol) + 1, eol)

\* s is what comes behind the first m bytes of an answer, up to the first k.
Cut(s, eol, m, k) ==
    /\ s \in Seq(Nat \X Nat)
    /\ Len(s) = k - m
    /\ \A i \in 1..Len(s) : s[i] = Byte(eol, m + i)

LEMMA SizeIs ==
    ASSUME NEW eol \in LineEndings
    PROVE  Size(eol) \in {3, 4}
<1>1. Len(<<LF>>) = 1 /\ Len(<<CR, LF>>) = 2
  OBVIOUS
<1>2. CASE eol = <<LF>>
  BY <1>1, <1>2 DEF Size
<1>3. CASE eol = <<CR, LF>>
  BY <1>1, <1>3 DEF Size
<1> QED BY <1>2, <1>3 DEF LineEndings

\* A line ends where its bytes are over, and begins with its number.
LEMMA ByteIs ==
    ASSUME NEW eol \in LineEndings
    PROVE  /\ \A p \in Nat \ {0} : /\ Byte(eol, p) \in Nat \X Nat
                                   /\ Byte(eol, p) = LF <=> p % Size(eol) = 0
           /\ \A r \in Nat : Byte(eol, r * Size(eol) + 1) = <<r + 1, 1>>
<1>1. CASE eol = <<LF>>
  <2>1. Size(eol) = 3 /\ eol[1] = <<0, 2>>
    BY <1>1 DEF Size, LF
  <2>2. ASSUME NEW p \in Nat \ {0}
        PROVE  /\ Byte(eol, p) \in Nat \X Nat
               /\ Byte(eol, p) = LF <=> p % 3 = 0
    <3>1. (p - 1) % 3 \in 0..2 /\ (p - 1) \div 3 + 1 \in Nat \ {0}
      BY Z3
    <3>2. (p - 1) % 3 = 2 <=> p % 3 = 0
      BY Z3
    <3> DEFINE k == (p - 1) % 3
               i == (p - 1) \div 3 + 1
    <3>3. Byte(eol, p) = IF k < 2 THEN <<i, k + 1>> ELSE eol[k - 1]
      BY <2>1 DEF Byte, ByteAt
    <3> HIDE DEF k, i
    <3>4. k \in 0..2 /\ i \in Nat \ {0} /\ (k = 2 <=> p % 3 = 0)
      BY <3>1, <3>2 DEF k, i
    <3> QED BY <2>1, <3>3, <3>4 DEF LF
  <2>3. ASSUME NEW r \in Nat
        PROVE  Byte(eol, r * 3 + 1) = <<r + 1, 1>>
    <3>1. (r * 3 + 1 - 1) % 3 = 0 /\ (r * 3 + 1 - 1) \div 3 = r
      BY Z3
    <3> QED BY <2>1, <3>1 DEF Byte, ByteAt
  <2> QED BY <2>1, <2>2, <2>3
<1>2. CASE eol = <<CR, LF>>
  <2>1. Size(eol) = 4 /\ eol[1] = <<0, 1>> /\ eol[2] = <<0, 2>>
    BY <1>2 DEF Size, LF, CR
  <2>2. ASSUME NEW p \in Nat \ {0}
        PROVE  /\ Byte(eol, p) \in Nat \X Nat
               /\ Byte(eol, p) = LF <=> p % 4 = 0
    <3>1. (p - 1) % 4 \in 0..3 /\ (p - 1) \div 4 + 1 \in Nat \ {0}
      BY Z3
    <3>2. (p - 1) % 4 = 3 <=> p % 4 = 0
      BY Z3
    <3> DEFINE k == (p - 1) % 4
               i == (p - 1) \div 4 + 1
    <3>3. Byte(eol, p) = IF k < 2 THEN <<i, k + 1>> ELSE eol[k - 1]
      BY <2>1 DEF Byte, ByteAt
    <3> HIDE DEF k, i
    <3>4. k \in 0..3 /\ i \in Nat \ {0} /\ (k = 3 <=> p % 4 = 0)
      BY <3>1, <3>2 DEF k, i
    <3> QED BY <2>1, <3>3, <3>4 DEF LF
  <2>3. ASSUME NEW r \in Nat
        PROVE  Byte(eol, r * 4 + 1) = <<r + 1, 1>>
    <3>1. (r * 4 + 1 - 1) % 4 = 0 /\ (r * 4 + 1 - 1) \div 4 = r
      BY Z3
    <3> QED BY <2>1, <3>1 DEF Byte, ByteAt
  <2> QED BY <2>1, <2>2, <2>3
<1> QED BY <1>1, <1>2 DEF LineEndings

LEMMA SentIs ==
    ASSUME NEW eol \in LineEndings, Len(body) \in Nat
    PROVE  Cut(Sendable(body, eol), eol, 0, Len(body) * Size(eol))
<1> DEFINE n == Size(eol)
           N == Len(body) * n
           all == Sendable(body, eol)
<1>1. n \in {3, 4} /\ N \in Nat
  BY SizeIs
<1>2. all = [p \in 1..N |-> Byte(eol, p)]
  BY DEF Sendable, Byte, Size
<1>3. \A p \in 1..N : Byte(eol, p) \in Nat \X Nat
  BY <1>1, ByteIs
<1> HIDE DEF N, all, n
<1>4. all \in Seq(Nat \X Nat) /\ Len(all) = N
  BY <1>1, <1>2, <1>3
<1>5. \A p \in 1..Len(all) : all[p] = Byte(eol, 0 + p)
  BY <1>1, <1>2, <1>4
<1> QED BY <1>1, <1>4, <1>5 DEF Cut, all, N, n

LEMMA CutMore ==
    ASSUME NEW eol, NEW m \in Nat, NEW k \in Nat, NEW l \in Nat, m <= k, k <= l,
           NEW s, NEW t, Cut(s, eol, m, k), Cut(t, eol, k, l)
    PROVE  Cut(s \o t, eol, m, l)
<1>1. /\ s \o t \in Seq(Nat \X Nat)
      /\ Len(s \o t) = Len(s) + Len(t)
      /\ \A i \in 1..Len(s) : (s \o t)[i] = s[i]
      /\ \A i \in 1..(Len(s) + Len(t)) : i \notin 1..Len(s) =>
            i - Len(s) \in 1..Len(t) /\ (s \o t)[i] = t[i - Len(s)]
  BY ConcatIs, ZenonT(60) DEF Cut
<1>2. Len(s) = k - m /\ Len(t) = l - k
  BY DEF Cut
<1>3. ASSUME NEW i \in 1..Len(s \o t)
      PROVE  (s \o t)[i] = Byte(eol, m + i)
  <2>1. CASE i \in 1..Len(s)
    BY <1>1, <2>1 DEF Cut
  <2>2. CASE i \notin 1..Len(s)
    <3>1. i - Len(s) \in 1..Len(t) /\ (s \o t)[i] = t[i - Len(s)] /\ k + (i - Len(s)) = m + i
      BY <1>1, <1>2, <2>2
    <3> QED BY <3>1 DEF Cut
  <2> QED BY <2>1, <2>2
<1>4. Len(s \o t) = l - m
  BY <1>1, <1>2
<1> QED BY <1>1, <1>3, <1>4 DEF Cut

LEMMA CutPart ==
    ASSUME NEW eol, NEW m \in Nat, NEW k \in Nat, NEW s, Cut(s, eol, m, k),
           NEW i \in 0..Len(s), NEW j \in i..Len(s)
    PROVE  Cut(SubSeq(s, i + 1, j), eol, m + i, m + j)
<1>1. Len(s) \in Nat /\ s \in Seq(Nat \X Nat) /\ \A x \in 1..Len(s) : s[x] = Byte(eol, m + x)
  BY DEF Cut
<1>2. /\ SubSeq(s, i + 1, j) \in Seq(Nat \X Nat)
      /\ Len(SubSeq(s, i + 1, j)) = j - i
      /\ \A x \in 1..(j - i) : SubSeq(s, i + 1, j)[x] = s[i + x]
  <2>1. \A x \in (i + 1)..j : s[x] \in Nat \X Nat
    BY <1>1
  <2>2. /\ SubSeq(s, i + 1, j) \in Seq(Nat \X Nat)
        /\ Len(SubSeq(s, i + 1, j)) = IF i + 1 <= j THEN j - (i + 1) + 1 ELSE 0
        /\ \A x \in 1..(j - (i + 1) + 1) : SubSeq(s, i + 1, j)[x] = s[(i + 1) + x - 1]
    <3>1. i + 1 \in Int /\ j \in Int
      BY <1>1
    <3> DEFINE first == i + 1
    <3>2. first \in Int /\ \A x \in first..j : s[x] \in Nat \X Nat
      BY <2>1, <3>1
    <3> HIDE DEF first
    <3>3. /\ SubSeq(s, first, j) \in Seq(Nat \X Nat)
          /\ Len(SubSeq(s, first, j)) = IF first <= j THEN j - first + 1 ELSE 0
          /\ \A x \in 1..(j - first + 1) : SubSeq(s, first, j)[x] = s[first + x - 1]
      BY <3>1, <3>2, SubSeqProperties
    <3> QED BY <3>3 DEF first
  <2>3. j - (i + 1) + 1 = j - i /\ \A x \in 1..(j - i) : (i + 1) + x - 1 = i + x
    BY <1>1
  <2> QED BY <1>1, <2>2, <2>3
<1>3. \A x \in 1..(j - i) : SubSeq(s, i + 1, j)[x] = Byte(eol, (m + i) + x)
  <2> TAKE x \in 1..(j - i)
  <2>1. i + x \in 1..Len(s) /\ m + (i + x) = (m + i) + x
    BY <1>1
  <2> QED BY <1>1, <1>2, <2>1
<1>4. (m + j) - (m + i) = j - i
  BY <1>1
<1> QED BY <1>2, <1>3, <1>4 DEF Cut

\* The least and the greatest element.
LEMMA LeastIs ==
    ASSUME NEW S \in SUBSET Nat, NEW n \in S, \A i \in S : n <= i
    PROVE  Min(S) = n
<1>1. Min(S) \in S /\ \A i \in S : Min(S) <= i
  BY DEF Min
<1>2. Min(S) \in Nat /\ n \in Nat /\ Min(S) <= n /\ n <= Min(S)
  BY <1>1
<1> QED BY <1>2

\* Where the lines of a part that begins with a line end.
LEMMA LineEndsAre ==
    ASSUME NEW eol \in LineEndings, NEW r \in Nat, NEW a \in Nat, NEW s,
           Cut(s, eol, r * Size(eol), a)
    PROVE  /\ LineEnds(s) = {i \in 1..(a - r * Size(eol)) : i % Size(eol) = 0}
           /\ LineEnds(s) = {} <=> a < (r + 1) * Size(eol)
           /\ LineEnds(s) # {} => Min(LineEnds(s)) = Size(eol)
<1> DEFINE n == Size(eol)
<1>1. n \in {3, 4} /\ r * n \in Nat /\ (r + 1) * n = r * n + n
  BY SizeIs
<1>2. /\ s \in Seq(Nat \X Nat) /\ Len(s) = a - r * n
      /\ \A i \in 1..Len(s) : s[i] = Byte(eol, r * n + i)
  BY DEF Cut
<1>3. \A p \in Nat \ {0} : Byte(eol, p) = LF <=> p % n = 0
  BY ByteIs
<1> HIDE DEF n
<1>4. \A i \in Nat : (r * n + i) % n = i % n
  BY <1>1
<1>5. DOMAIN s = 1..(a - r * n)
  BY <1>2
<1>6. \A i \in 1..(a - r * n) : s[i] = LF <=> i % n = 0
  <2> TAKE i \in 1..(a - r * n)
  <2>1. i \in 1..Len(s) /\ i \in Nat /\ r * n + i \in Nat \ {0}
    BY <1>1, <1>2
  <2> QED BY <1>2, <1>3, <1>4, <2>1
<1>7. LineEnds(s) = {i \in 1..(a - r * n) : i % n = 0}
  BY <1>5, <1>6 DEF LineEnds
<1>8. \A i \in 1..(a - r * n) : i % n = 0 => i >= n
  BY <1>1
<1>9. n % n = 0
  BY <1>1
<1>10. LineEnds(s) = {} <=> a < (r + 1) * n
  <2>1. CASE a < (r + 1) * n
    BY <1>1, <1>7, <1>8, <2>1
  <2>2. CASE ~(a < (r + 1) * n)
    <3>1. n \in 1..(a - r * n)
      BY <1>1, <2>2
    <3> QED BY <1>7, <1>9, <2>2, <3>1
  <2> QED BY <2>1, <2>2
<1>11. ASSUME LineEnds(s) # {} PROVE Min(LineEnds(s)) = n
  <2>1. n \in LineEnds(s)
    <3>1. n \in 1..(a - r * n)
      BY <1>1, <1>10, <1>11
    <3> QED BY <1>7, <1>9, <3>1
  <2>2. \A i \in LineEnds(s) : n <= i /\ i \in Nat
    BY <1>7, <1>8
  <2> QED BY <1>1, <2>1, <2>2, LeastIs
<1> QED BY <1>7, <1>10, <1>11 DEF n

\* As many lines are whole as their bytes allow.
LEMMA WholeLines ==
    ASSUME NEW eol \in LineEndings, NEW a \in Nat, NEW s, Cut(s, eol, 0, a)
    PROVE  \E w \in Nat : /\ Cardinality(LineEnds(s)) = w
                          /\ w * Size(eol) <= a /\ a < (w + 1) * Size(eol)
<1> DEFINE n == Size(eol)
           w == a \div n
           f == [i \in 1..w |-> i * n]
<1>1. n \in {3, 4}
  BY SizeIs
<1>2. LineEnds(s) = {i \in 1..a : i % n = 0}
  <2>1. Cut(s, eol, 0 * Size(eol), a) /\ a - 0 * Size(eol) = a
    BY <1>1
  <2> QED BY <2>1, LineEndsAre
<1> HIDE DEF n
<1>3. w \in Nat /\ w * n <= a /\ a < (w + 1) * n
  <2>1. CASE n = 3
    BY <2>1, Z3
  <2>2. CASE n = 4
    BY <2>2, Z3
  <2> QED BY <1>1, <2>1, <2>2
<1> HIDE DEF w
<1>4. f \in Bijection(1..w, LineEnds(s))
  <2>1. \A i \in 1..w : i * n \in 1..a /\ (i * n) % n = 0
    BY <1>1, <1>3
  <2>2. f \in [1..w -> LineEnds(s)]
    BY <1>2, <2>1
  <2>3. \A i, j \in 1..w : f[i] = f[j] => i = j
    BY <1>1
  <2>4. ASSUME NEW e \in LineEnds(s)
        PROVE  \E i \in 1..w : f[i] = e
    <3>1. e \in 1..a /\ e % n = 0
      BY <1>2
    <3>2. e \div n \in 1..w /\ (e \div n) * n = e
      BY <1>1, <1>3, <3>1
    <3> QED BY <3>2
  <2> HIDE DEF f
  <2> QED BY <2>2, <2>3, <2>4 DEF Bijection, Injection, Surjection, IsInjective
<1>5. IsFiniteSet(1..w) /\ Cardinality(1..w) = w
  BY <1>3, FS_Interval
<1>6. Cardinality(LineEnds(s)) = w
  BY <1>4, <1>5, FS_Bijection DEF ExistsBijection
<1> QED BY <1>3, <1>6 DEF n

\* The next line, and what is behind it.
LEMMA TakeLineIs ==
    ASSUME NEW eol \in LineEndings, NEW r \in Nat, NEW a \in Nat, NEW s,
           Cut(s, eol, r * Size(eol), a), LineEnds(s) # {}
    PROVE  /\ TakeLine(s).line = body[r + 1]
           /\ TakeLine(s).at = r + 1
           /\ Cut(TakeLine(s).rest, eol, (r + 1) * Size(eol), a)
           /\ (r + 1) * Size(eol) <= a
<1> DEFINE n == Size(eol)
<1>1. n \in {3, 4} /\ r * n \in Nat /\ (r + 1) * n = r * n + n
  BY SizeIs
<1>2. (r + 1) * n <= a /\ Min(LineEnds(s)) = n
  BY <1>1, LineEndsAre
<1>0. s \in Seq(Nat \X Nat) /\ Len(s) = a - r * n
  BY DEF Cut
<1> HIDE DEF n
<1>3. s \in Seq(Nat \X Nat) /\ Len(s) = a - r * n /\ n \in 0..Len(s)
  BY <1>0, <1>1, <1>2
<1>4. Head(s) = <<r + 1, 1>>
  <2>1. Head(s) = s[1] /\ 1 \in 1..Len(s)
    BY <1>1, <1>3
  <2>2. s[1] = Byte(eol, r * n + 1)
    BY <2>1 DEF Cut, n
  <2> QED BY <2>1, <2>2, ByteIs DEF n
<1>5. Line(s) = body[r + 1] /\ Head(s)[1] = r + 1
  BY <1>4 DEF Line, CR
<1>6. Cut(SubSeq(s, n + 1, Len(s)), eol, r * n + n, r * n + Len(s))
  <2>1. Len(s) \in n..Len(s)
    BY <1>1, <1>3
  <2>2. Cut(s, eol, r * n, a)
    BY DEF n
  <2> QED BY <1>1, <1>3, <2>1, <2>2, CutPart
<1>7. Cut(SubSeq(s, n + 1, Len(s)), eol, (r + 1) * n, a)
  <2>1. r * n + Len(s) = a
    BY <1>1, <1>3
  <2> QED BY <1>1, <1>6, <2>1
<1> QED BY <1>2, <1>5, <1>7 DEF TakeLine, n


(* What the caller is given.                                                *)

Piece(e) == e.kind = "audio" /\ e.data # <<>>
Numbered(i) == Cardinality({j \in 1..i : Speaks(j)})

\* The audio among o is that of the lines that speak among the first r, each
\* once, in order and with its number.
AudioOf(o, r) ==
    /\ \E D : o \in Seq(D)
    /\ \A e \in 1..Len(o) : Piece(o[e]) =>
          /\ o[e].data = <<o[e].data[1]>> /\ o[e].data[1] \in 1..r /\ Speaks(o[e].data[1])
          /\ o[e].seq = Numbered(o[e].data[1])
    /\ \A e, f \in 1..Len(o) :
          Piece(o[e]) /\ Piece(o[f]) /\ e < f => o[e].data[1] < o[f].data[1]
    /\ \A i \in 1..r : Speaks(i) => \E e \in 1..Len(o) : Piece(o[e]) /\ o[e].data[1] = i

\* p is o and x behind it.
IsAppended(p, o, x) ==
    /\ \E D : p \in Seq(D)
    /\ Len(o) \in Nat /\ Len(p) = Len(o) + 1
    /\ p[Len(o) + 1] = x
    /\ \A i \in 1..Len(o) : p[i] = o[i]

LEMMA AppendAny ==
    ASSUME NEW o, \E D : o \in Seq(D), NEW x
    PROVE  IsAppended(Append(o, x), o, x)
<1>1. PICK D : o \in Seq(D)
  OBVIOUS
<1> DEFINE E == D \cup {x}
<1>2. D \subseteq E /\ x \in E
  OBVIOUS
<1> HIDE DEF E
<1>3. o \in Seq(E)
  BY <1>1, <1>2
<1>4. Append(o, x) \in Seq(E)
  BY <1>2, <1>3
<1>5. /\ Len(o) \in Nat /\ Len(Append(o, x)) = Len(o) + 1
      /\ Append(o, x)[Len(o) + 1] = x
      /\ \A i \in 1..Len(o) : Append(o, x)[i] = o[i]
  BY <1>2, <1>3
<1> QED BY <1>4, <1>5 DEF IsAppended

LEMMA AudioOfOther ==
    ASSUME NEW o, NEW r \in Nat, AudioOf(o, r), NEW x, ~Piece(x)
    PROVE  AudioOf(Append(o, x), r)
<1> DEFINE p == Append(o, x)
<1>0. \E D : o \in Seq(D)
  BY DEF AudioOf
<1>1. /\ \E D : p \in Seq(D)
      /\ Len(o) \in Nat /\ Len(p) = Len(o) + 1
      /\ p[Len(o) + 1] = x
      /\ \A i \in 1..Len(o) : p[i] = o[i]
  <2>1. IsAppended(p, o, x)
    BY <1>0, AppendAny
  <2> QED BY <2>1 DEF IsAppended
<1> HIDE DEF p
<1>2. \A e \in 1..Len(p) : Piece(p[e]) => e \in 1..Len(o) /\ p[e] = o[e]
  <2> SUFFICES ASSUME NEW e \in 1..Len(p), Piece(p[e])
               PROVE  e \in 1..Len(o) /\ p[e] = o[e]
    OBVIOUS
  <2>1. e # Len(o) + 1
    BY <1>1
  <2> QED BY <1>1, <2>1
<1>3. \A e \in 1..Len(o) : e \in 1..Len(p) /\ p[e] = o[e]
  BY <1>1
<1> USE DEF AudioOf
<1>4. \A e \in 1..Len(p) : Piece(p[e]) =>
          /\ p[e].data = <<p[e].data[1]>> /\ p[e].data[1] \in 1..r /\ Speaks(p[e].data[1])
          /\ p[e].seq = Numbered(p[e].data[1])
  BY <1>2
<1>5. \A e, f \in 1..Len(p) :
          Piece(p[e]) /\ Piece(p[f]) /\ e < f => p[e].data[1] < p[f].data[1]
  BY <1>2
<1>6. \A i \in 1..r : Speaks(i) => \E e \in 1..Len(p) : Piece(p[e]) /\ p[e].data[1] = i
  BY <1>3
<1> QED BY <1>1, <1>4, <1>5, <1>6 DEF p

LEMMA AudioOfSilent ==
    ASSUME NEW o, NEW r \in Nat, AudioOf(o, r), ~Speaks(r + 1)
    PROVE  AudioOf(o, r + 1)
<1>1. \A i \in 1..(r + 1) : i \in 1..r \/ i = r + 1
  OBVIOUS
<1>2. \A i \in 1..r : i \in 1..(r + 1)
  OBVIOUS
<1> QED BY <1>1, <1>2 DEF AudioOf

LEMMA AudioOfPiece ==
    ASSUME NEW o, NEW r \in Nat, AudioOf(o, r), Speaks(r + 1),
           NEW x, x.kind = "audio", x.data = <<r + 1>>, x.seq = Numbered(r + 1)
    PROVE  AudioOf(Append(o, x), r + 1)
<1> DEFINE p == Append(o, x)
<1>0. \E D : o \in Seq(D)
  BY DEF AudioOf
<1>1. /\ \E D : p \in Seq(D)
      /\ Len(o) \in Nat /\ Len(p) = Len(o) + 1
      /\ p[Len(o) + 1] = x
      /\ \A i \in 1..Len(o) : p[i] = o[i]
  <2>1. IsAppended(p, o, x)
    BY <1>0, AppendAny
  <2> QED BY <2>1 DEF IsAppended
<1> HIDE DEF p
<1>2. \A e \in 1..Len(p) : e = Len(o) + 1 \/ (e \in 1..Len(o) /\ p[e] = o[e])
  BY <1>1
<1>3. \A e \in 1..Len(o) : e \in 1..Len(p) /\ p[e] = o[e]
  BY <1>1
<1>4. Piece(x) /\ x.data[1] = r + 1 /\ x.data = <<x.data[1]>>
  <2>1. <<r + 1>> # <<>> /\ <<r + 1>>[1] = r + 1
    OBVIOUS
  <2> QED BY <2>1 DEF Piece
<1>5. \A i \in 1..r : i \in 1..(r + 1) /\ i < r + 1
  OBVIOUS
<1>6. \A i \in 1..(r + 1) : i \in 1..r \/ i = r + 1
  OBVIOUS
<1>7. Len(o) + 1 \in 1..Len(p) /\ r + 1 \in 1..(r + 1)
  BY <1>1
<1>8. \A e \in 1..Len(p) : Piece(p[e]) =>
          /\ p[e].data = <<p[e].data[1]>> /\ p[e].data[1] \in 1..(r + 1) /\ Speaks(p[e].data[1])
          /\ p[e].seq = Numbered(p[e].data[1])
  <2> TAKE e \in 1..Len(p)
  <2>1. CASE e = Len(o) + 1
    BY <1>1, <1>4, <1>7, <2>1
  <2>2. CASE e \in 1..Len(o) /\ p[e] = o[e]
    BY <1>5, <2>2 DEF AudioOf
  <2> QED BY <1>2, <2>1, <2>2
<1>9. \A e, f \in 1..Len(p) :
          Piece(p[e]) /\ Piece(p[f]) /\ e < f => p[e].data[1] < p[f].data[1]
  <2> SUFFICES ASSUME NEW e \in 1..Len(p), NEW f \in 1..Len(p), Piece(p[e]), Piece(p[f]), e < f
               PROVE  p[e].data[1] < p[f].data[1]
    OBVIOUS
  <2>1. e \in 1..Len(o) /\ p[e] = o[e]
    BY <1>1
  <2>2. CASE f = Len(o) + 1
    <3>1. o[e].data[1] \in 1..r
      BY <2>1 DEF AudioOf
    <3> QED BY <1>1, <1>4, <1>5, <2>1, <2>2, <3>1
  <2>3. CASE f \in 1..Len(o) /\ p[f] = o[f]
    BY <2>1, <2>3 DEF AudioOf
  <2> QED BY <1>2, <2>2, <2>3
<1>10. \A i \in 1..(r + 1) : Speaks(i) => \E e \in 1..Len(p) : Piece(p[e]) /\ p[e].data[1] = i
  <2> SUFFICES ASSUME NEW i \in 1..(r + 1), Speaks(i)
               PROVE  \E e \in 1..Len(p) : Piece(p[e]) /\ p[e].data[1] = i
    OBVIOUS
  <2>1. CASE i = r + 1
    BY <1>1, <1>4, <1>7, <2>1
  <2>2. CASE i \in 1..r
    BY <1>3, <2>2 DEF AudioOf
  <2> QED BY <1>6, <2>1, <2>2
<1> QED BY <1>1, <1>8, <1>9, <1>10 DEF AudioOf, p

\* The number of the next line, and its name.
LEMMA NumberedNext ==
    ASSUME NEW r \in Nat
    PROVE  /\ Numbered(0) = 0 /\ Numbered(r) \in Nat
           /\ Numbered(r + 1) = IF Speaks(r + 1) THEN Numbered(r) + 1 ELSE Numbered(r)
<1> DEFINE S(i) == {j \in 1..i : Speaks(j)}
<1>1. IsFiniteSet(S(r)) /\ Cardinality(S(r)) \in Nat
  <2>1. IsFiniteSet(1..r) /\ S(r) \in SUBSET (1..r)
    BY FS_Interval
  <2> HIDE DEF S
  <2> QED BY <2>1, FS_Subset, FS_CardinalityType
<1>2. S(r + 1) = IF Speaks(r + 1) THEN S(r) \cup {r + 1} ELSE S(r)
  <2>1. \A j : j \in 1..(r + 1) <=> j \in 1..r \/ j = r + 1
    OBVIOUS
  <2> QED BY <2>1
<1>3. r + 1 \notin S(r)
  OBVIOUS
<1>4. S(0) = {}
  OBVIOUS
<1>5. Cardinality({}) = 0
  BY FS_EmptySet
<1>6. \A i : Numbered(i) = Cardinality(S(i))
  BY DEF Numbered
<1> HIDE DEF S
<1>7. Cardinality(S(r) \cup {r + 1}) = Cardinality(S(r)) + 1
  BY <1>1, <1>3, FS_AddElement
<1> QED BY <1>1, <1>2, <1>4, <1>5, <1>6, <1>7

LEMMA NameNext ==
    ASSUME NEW r \in Nat
    PROVE  /\ NameOf(1) = ""
           /\ NameOf((r + 1) + 1) =
                 IF body[r + 1].field = "event" THEN body[r + 1].name ELSE NameOf(r + 1)
<1> DEFINE E(i) == {j \in 1..(i - 1) : body[j].field = "event"}
<1>1. E(1) = {}
  OBVIOUS
<1>2. CASE body[r + 1].field = "event"
  <2>1. r + 1 \in E((r + 1) + 1) /\ E((r + 1) + 1) \in SUBSET Nat
    BY <1>2
  <2>2. \A j \in E((r + 1) + 1) : j <= r + 1
    OBVIOUS
  <2> HIDE DEF E
  <2>3. Max(E((r + 1) + 1)) = r + 1 /\ E((r + 1) + 1) # {}
    BY <2>1, <2>2, GreatestIs
  <2> QED BY <1>1, <1>2, <2>3 DEF NameOf, E
<1>3. CASE body[r + 1].field # "event"
  <2>1. E((r + 1) + 1) = E(r + 1)
    <3>1. \A j : j \in 1..((r + 1) + 1 - 1) <=> j \in 1..(r + 1 - 1) \/ j = r + 1
      OBVIOUS
    <3> QED BY <1>3, <3>1
  <2> QED BY <1>1, <1>3, <2>1 DEF NameOf
<1> QED BY <1>2, <1>3


(* The lines read.                                                          *)

Fields == {"sse_buf", "filter", "name", "seq", "events", "stop"}

\* What q knows and what it gave, after r lines.
After(q, r) ==
    /\ DOMAIN q = Fields
    /\ q.name = NameOf(r + 1) /\ q.seq = Numbered(r) /\ AudioOf(q.events, r)

LEMMA GiveIs ==
    ASSUME NEW p, DOMAIN p = Fields, NEW event, NEW stop
    PROVE  /\ DOMAIN Give(p, event, stop) = Fields
           /\ Give(p, event, stop).events = Append(p.events, event)
           /\ Give(p, event, stop).stop = stop
           /\ Give(p, event, stop).name = p.name /\ Give(p, event, stop).seq = p.seq
           /\ Give(p, event, stop).sse_buf = p.sse_buf
BY DEF Give, Fields

LEMMA CountedIs ==
    ASSUME NEW p, DOMAIN p = Fields
    PROVE  /\ DOMAIN Counted(p) = Fields
           /\ Counted(p).seq = p.seq + 1
           /\ Counted(p).events = p.events /\ Counted(p).stop = p.stop
           /\ Counted(p).name = p.name /\ Counted(p).sse_buf = p.sse_buf
BY DEF Counted, Fields

LEMMA EventsAre ==
    /\ \A why : ~Piece(Failed(why))
    /\ \A n, last : ~Piece(Audio(<<>>, n, last))
    /\ \A data, n, last : /\ Audio(data, n, last).kind = "audio"
                          /\ Audio(data, n, last).data = data
                          /\ Audio(data, n, last).seq = n
BY DEF Piece, Failed, Audio

\* What the synthesiser's line does, case by case.
LEMMA ReadTtsIs ==
    ASSUME NEW p, NEW line, NEW at
    PROVE  \/ line.field = "event" /\ ReadTts(p, line, at) = [p EXCEPT !.name = line.name]
           \/ /\ \/ line.field = "junk"
                 \/ line.field = "data" /\ p.name = "error"
                 \/ line.field = "data" /\ p.name = "delta" /\ line.sound = "bad"
              /\ ReadTts(p, line, at) = Give(p, Failed("Decode"), "line")
           \/ /\ line.field = "data" /\ p.name = "done"
              /\ ReadTts(p, line, at) = Give(p, Audio(<<>>, p.seq + 1, TRUE), "line")
           \/ /\ line.field = "data" /\ p.name \in {"delta", ""} /\ line.sound = "some"
              /\ \E last, stop :
                    /\ ReadTts(p, line, at) = Give(Counted(p), Audio(<<at>>, p.seq + 1, last), stop)
                    /\ stop = "no" \/ (p.name = "" /\ line.final)
           \/ /\ ~(line.field = "data" /\ p.name \in {"delta", ""} /\ line.sound = "some")
              /\ line.field # "event"
              /\ ReadTts(p, line, at) = p
<1> DEFINE fails == \/ line.field = "junk"
                    \/ line.field = "data" /\ p.name = "error"
                    \/ line.field = "data" /\ p.name = "delta" /\ line.sound = "bad"
           speaks == line.field = "data" /\ p.name \in {"delta", ""} /\ line.sound = "some"
           last == p.name = "" /\ line.final
           spoken == Give(Counted(p), Audio(<<at>>, p.seq + 1, last), IF last THEN "line" ELSE "no")
<1>1. ReadTts(p, line, at) =
          IF line.field = "event" THEN [p EXCEPT !.name = line.name]
          ELSE IF fails THEN Give(p, Failed("Decode"), "line")
          ELSE IF line.field = "data" /\ p.name = "done" THEN Give(p, Audio(<<>>, p.seq + 1, TRUE), "line")
          ELSE IF speaks THEN spoken ELSE p
  BY Zenon DEF ReadTts
<1>2. \E l, stop : /\ spoken = Give(Counted(p), Audio(<<at>>, p.seq + 1, l), stop)
                   /\ stop = "no" \/ (p.name = "" /\ line.final)
  <2>1. CASE last
    BY <2>1, Zenon
  <2>2. CASE ~last
    BY <2>2, Zenon
  <2> QED BY <2>1, <2>2
<1> HIDE DEF spoken, fails, speaks
<1>3. CASE line.field = "event"
  BY <1>1, <1>3
<1>4. CASE line.field # "event" /\ fails
  BY <1>1, <1>4, Zenon DEF fails
<1>5. CASE line.field # "event" /\ ~fails /\ line.field = "data" /\ p.name = "done"
  BY <1>1, <1>5, Zenon
<1>6. CASE line.field # "event" /\ ~fails /\ ~(line.field = "data" /\ p.name = "done") /\ speaks
  <2>1. ReadTts(p, line, at) = spoken
    BY <1>1, <1>6, Zenon
  <2> QED BY <1>2, <1>6, <2>1, Zenon DEF speaks
<1>7. CASE line.field # "event" /\ ~fails /\ ~(line.field = "data" /\ p.name = "done") /\ ~speaks
  BY <1>1, <1>7, Zenon DEF speaks
<1> QED BY <1>3, <1>4, <1>5, <1>6, <1>7, Zenon

\* A line is read as it was said.
LEMMA ReadTtsKeeps ==
    ASSUME NEW p, NEW r \in Nat, After(p, r), p.stop = "no"
    PROVE  /\ After(ReadTts(p, body[r + 1], r + 1), r + 1)
           /\ ReadTts(p, body[r + 1], r + 1).sse_buf = p.sse_buf
           /\ ReadTts(p, body[r + 1], r + 1).stop # "no" => EndsSpeech(r + 1)
<1> DEFINE line == body[r + 1]
           q == ReadTts(p, line, r + 1)
           i == r + 1
<1> SUFFICES After(q, i) /\ q.sse_buf = p.sse_buf /\ (q.stop # "no" => EndsSpeech(i))
  OBVIOUS
<1>1. /\ DOMAIN p = Fields /\ p.name = NameOf(i) /\ p.seq = Numbered(r) /\ AudioOf(p.events, r)
      /\ i \in Nat
  BY DEF After
<1>2. Numbered(i) = IF Speaks(i) THEN Numbered(r) + 1 ELSE Numbered(r)
  BY NumberedNext
<1>3. NameOf(i + 1) = IF line.field = "event" THEN line.name ELSE NameOf(i)
  BY NameNext
<1>4. /\ \A x : ~Piece(x) => AudioOf(Append(p.events, x), r)
      /\ \A o : AudioOf(o, r) /\ ~Speaks(i) => AudioOf(o, i)
      /\ \A x : Speaks(i) /\ x.kind = "audio" /\ x.data = <<i>> /\ x.seq = Numbered(i)
                   => AudioOf(Append(p.events, x), i)
  BY <1>1, AudioOfOther, AudioOfSilent, AudioOfPiece
<1>5. Speaks(i) <=> line.field = "data" /\ p.name \in {"", "delta"} /\ line.sound = "some"
  BY <1>1 DEF Speaks
<1>6. EndsSpeech(i) <=>
         \/ line.field = "junk"
         \/ /\ line.field = "data"
            /\ \/ p.name \in {"done", "error"}
               \/ p.name = "delta" /\ line.sound = "bad"
               \/ p.name = "" /\ line.sound = "some" /\ line.final
  BY <1>1 DEF EndsSpeech
<1> HIDE DEF i, line
<1>7. \/ line.field = "event" /\ q = [p EXCEPT !.name = line.name]
      \/ /\ \/ line.field = "junk"
            \/ line.field = "data" /\ p.name = "error"
            \/ line.field = "data" /\ p.name = "delta" /\ line.sound = "bad"
         /\ q = Give(p, Failed("Decode"), "line")
      \/ /\ line.field = "data" /\ p.name = "done"
         /\ q = Give(p, Audio(<<>>, p.seq + 1, TRUE), "line")
      \/ /\ line.field = "data" /\ p.name \in {"delta", ""} /\ line.sound = "some"
         /\ \E last, stop :
               /\ q = Give(Counted(p), Audio(<<r + 1>>, p.seq + 1, last), stop)
               /\ stop = "no" \/ (p.name = "" /\ line.final)
      \/ /\ ~(line.field = "data" /\ p.name \in {"delta", ""} /\ line.sound = "some")
         /\ line.field # "event"
         /\ q = p
  BY ReadTtsIs, Zenon
<1> HIDE DEF q
<1>8. CASE line.field = "event" /\ q = [p EXCEPT !.name = line.name]
  <2>1. /\ DOMAIN q = Fields /\ q.name = line.name /\ q.seq = p.seq /\ q.events = p.events
        /\ q.stop = p.stop /\ q.sse_buf = p.sse_buf
    BY <1>1, <1>8 DEF Fields
  <2>2. ~Speaks(i)
    BY <1>5, <1>8
  <2> QED BY <1>1, <1>2, <1>3, <1>4, <1>8, <2>1, <2>2 DEF After
<1>9. ASSUME NEW x, ~Piece(x), q = Give(p, x, "line"), EndsSpeech(i), ~Speaks(i), line.field # "event"
      PROVE  After(q, i) /\ q.sse_buf = p.sse_buf /\ (q.stop # "no" => EndsSpeech(i))
  <2>1. /\ DOMAIN q = Fields /\ q.name = p.name /\ q.seq = p.seq /\ q.events = Append(p.events, x)
        /\ q.sse_buf = p.sse_buf
    BY <1>1, <1>9, GiveIs
  <2> QED BY <1>1, <1>2, <1>3, <1>4, <1>9, <2>1 DEF After
<1>10. CASE /\ \/ line.field = "junk"
               \/ line.field = "data" /\ p.name = "error"
               \/ line.field = "data" /\ p.name = "delta" /\ line.sound = "bad"
            /\ q = Give(p, Failed("Decode"), "line")
  <2>1. EndsSpeech(i) /\ ~Speaks(i) /\ line.field # "event"
    BY <1>5, <1>6, <1>10
  <2>2. ~Piece(Failed("Decode"))
    BY EventsAre
  <2> QED BY <1>9, <1>10, <2>1, <2>2
<1>11. CASE /\ line.field = "data" /\ p.name = "done"
            /\ q = Give(p, Audio(<<>>, p.seq + 1, TRUE), "line")
  <2>1. EndsSpeech(i) /\ ~Speaks(i) /\ line.field # "event"
    BY <1>5, <1>6, <1>11
  <2>2. ~Piece(Audio(<<>>, p.seq + 1, TRUE))
    BY EventsAre, Zenon
  <2> QED BY <1>9, <1>11, <2>1, <2>2, Zenon
<1>12. ASSUME line.field = "data" /\ p.name \in {"delta", ""} /\ line.sound = "some",
              NEW last, NEW stop, q = Give(Counted(p), Audio(<<r + 1>>, p.seq + 1, last), stop),
              stop = "no" \/ (p.name = "" /\ line.final)
       PROVE  After(q, i) /\ q.sse_buf = p.sse_buf /\ (q.stop # "no" => EndsSpeech(i))
  <2> DEFINE x == Audio(<<r + 1>>, p.seq + 1, last)
  <2>1. x.kind = "audio" /\ x.data = <<r + 1>> /\ x.seq = p.seq + 1
    BY EventsAre
  <2> HIDE DEF x
  <2>2. /\ DOMAIN Counted(p) = Fields
        /\ Counted(p).seq = p.seq + 1
        /\ Counted(p).events = p.events
        /\ Counted(p).name = p.name /\ Counted(p).sse_buf = p.sse_buf
    BY <1>1, CountedIs
  <2>3. q = Give(Counted(p), x, stop)
    BY <1>12 DEF x
  <2>4. /\ DOMAIN q = Fields /\ q.name = p.name /\ q.seq = p.seq + 1 /\ q.events = Append(p.events, x)
        /\ q.sse_buf = p.sse_buf /\ q.stop = stop
    BY <2>2, <2>3, GiveIs
  <2>5. Speaks(i) /\ line.field # "event"
    BY <1>5, <1>12
  <2>6. q.seq = Numbered(i) /\ x.seq = Numbered(i)
    BY <1>1, <1>2, <2>1, <2>4, <2>5
  <2>7. AudioOf(q.events, i)
    BY <1>4, <2>1, <2>4, <2>5, <2>6 DEF i
  <2>8. stop # "no" => EndsSpeech(i)
    BY <1>6, <1>12
  <2> QED BY <1>1, <1>3, <2>4, <2>5, <2>6, <2>7, <2>8 DEF After
<1>13. CASE /\ ~(line.field = "data" /\ p.name \in {"delta", ""} /\ line.sound = "some")
            /\ line.field # "event"
            /\ q = p
  <2>1. ~Speaks(i)
    BY <1>5, <1>13
  <2> QED BY <1>1, <1>2, <1>3, <1>4, <1>13, <2>1 DEF After
<1> QED BY <1>7, <1>8, <1>10, <1>11, <1>12, <1>13, Zenon


(* Tags in a text.                                                          *)

Tags == {THINK_OPEN_TAG, THINK_CLOSE_TAG}
Signs == {"<", "/", "k", ">"}

LEMMA TagIs ==
    ASSUME NEW tag \in Tags
    PROVE  /\ Len(tag) \in {3, 4} /\ Len(tag) \in 1..Len(tag) /\ tag \in Seq(Signs)
           /\ tag[1] = "<" /\ tag[Len(tag)] = ">"
           /\ \A j \in 1..Len(tag) : /\ tag[j] = "<" <=> j = 1
                                     /\ tag[j] = ">" <=> j = Len(tag)
<1>1. CASE tag = THINK_OPEN_TAG
  <2> DEFINE t == <<"<", "k", ">">>
  <2>0. t \in Seq(Signs) /\ Len(t) = 3
    BY DEF Signs
  <2>3. t[1] = "<" /\ t[2] = "k" /\ t[3] = ">"
    OBVIOUS
  <2>1. /\ Len(tag) = 3 /\ tag \in Seq(Signs)
        /\ tag[1] = "<" /\ tag[2] = "k" /\ tag[3] = ">"
    <3> HIDE DEF t
    <3>1. tag = t
      BY <1>1 DEF THINK_OPEN_TAG, t
    <3> QED BY <2>0, <2>3, <3>1
  <2>5. Len(tag) \in 1..Len(tag) /\ tag[Len(tag)] = ">"
    BY <2>1
  <2>2. \A j \in 1..3 : j = 1 \/ j = 2 \/ j = 3
    OBVIOUS
  <2>4. "<" # "k" /\ "<" # ">" /\ "k" # ">"
    OBVIOUS
  <2> QED BY <2>1, <2>2, <2>4, <2>5
<1>2. CASE tag = THINK_CLOSE_TAG
  <2> DEFINE t == <<"<", "/", "k", ">">>
  <2>0. t \in Seq(Signs) /\ Len(t) = 4
    BY DEF Signs
  <2>3. t[1] = "<" /\ t[2] = "/" /\ t[3] = "k" /\ t[4] = ">"
    OBVIOUS
  <2>1. /\ Len(tag) = 4 /\ tag \in Seq(Signs)
        /\ tag[1] = "<" /\ tag[2] = "/" /\ tag[3] = "k" /\ tag[4] = ">"
    <3> HIDE DEF t
    <3>1. tag = t
      BY <1>2 DEF THINK_CLOSE_TAG, t
    <3> QED BY <2>0, <2>3, <3>1
  <2>5. Len(tag) \in 1..Len(tag) /\ tag[Len(tag)] = ">"
    BY <2>1
  <2>2. \A j \in 1..4 : j = 1 \/ j = 2 \/ j = 3 \/ j = 4
    OBVIOUS
  <2>4. "<" # "/" /\ "<" # "k" /\ "<" # ">" /\ "k" # ">" /\ "/" # ">"
    OBVIOUS
  <2> QED BY <2>1, <2>2, <2>4, <2>5
<1> QED BY <1>1, <1>2 DEF Tags

LEMMA PartIs ==
    ASSUME NEW D, NEW t \in Seq(D), NEW i \in 0..Len(t), NEW j \in i..Len(t)
    PROVE  /\ SubSeq(t, i + 1, j) \in Seq(D) /\ Len(SubSeq(t, i + 1, j)) = j - i
           /\ \A x \in 1..(j - i) : SubSeq(t, i + 1, j)[x] = t[i + x]
<1> DEFINE first == i + 1
<1>1. first \in Int /\ j \in Int /\ \A x \in first..j : t[x] \in D
  OBVIOUS
<1> HIDE DEF first
<1>2. /\ SubSeq(t, first, j) \in Seq(D)
      /\ Len(SubSeq(t, first, j)) = IF first <= j THEN j - first + 1 ELSE 0
      /\ \A x \in 1..(j - first + 1) : SubSeq(t, first, j)[x] = t[first + x - 1]
  BY <1>1, SubSeqProperties
<1>3. first = i + 1 /\ i \in Nat /\ j \in Nat /\ i <= j
  BY DEF first
<1>4. \A x \in 1..(j - i) : SubSeq(t, first, j)[x] = t[i + x]
  <2> TAKE x \in 1..(j - i)
  <2>1. x \in 1..(j - first + 1) /\ first + x - 1 = i + x
    BY <1>3
  <2> QED BY <1>2, <2>1
<1>5. Len(SubSeq(t, first, j)) = j - i
  BY <1>2, <1>3
<1> QED BY <1>2, <1>4, <1>5 DEF first

LEMMA Equal ==
    ASSUME NEW D, NEW s \in Seq(D), NEW E, NEW t \in Seq(E), Len(s) = Len(t), \A i \in 1..Len(s) : s[i] = t[i]
    PROVE  s = t
OBVIOUS

\* The places of a tag.
LEMMA TagsAre ==
    ASSUME NEW D, NEW t \in Seq(D), NEW tag \in Tags
    PROVE  \A o : o \in TagsAt(t, tag) <=>
              /\ o \in 1..(Len(t) - Len(tag) + 1)
              /\ \A j \in 1..Len(tag) : t[(o - 1) + j] = tag[j]
<1> DEFINE n == Len(tag)
<1>1. n \in {3, 4} /\ Len(t) \in Nat /\ tag \in Seq(Signs)
  BY TagIs
<1> HIDE DEF n
<1>2. ASSUME NEW o \in 1..(Len(t) - n + 1)
      PROVE  SubSeq(t, o, o + n - 1) = tag <=> \A j \in 1..n : t[(o - 1) + j] = tag[j]
  <2> DEFINE i == o - 1
             last == i + n
             s == SubSeq(t, i + 1, last)
  <2>1. i \in 0..Len(t) /\ last \in i..Len(t) /\ i + 1 = o /\ last = o + n - 1 /\ last - i = n
    BY <1>1, <1>2
  <2> HIDE DEF i, last
  <2>2. s \in Seq(D) /\ Len(s) = last - i /\ \A x \in 1..(last - i) : s[x] = t[i + x]
    BY <2>1, PartIs
  <2>4. s = SubSeq(t, o, o + n - 1)
    BY <2>1
  <2> HIDE DEF s
  <2>5. Len(s) = n /\ \A x \in 1..n : s[x] = t[(o - 1) + x]
    BY <2>1, <2>2 DEF i
  <2>6. s = tag <=> \A j \in 1..n : s[j] = tag[j]
    <3>1. Len(tag) = n
      BY DEF n
    <3>2. ASSUME \A j \in 1..n : s[j] = tag[j] PROVE s = tag
      BY <1>1, <2>2, <2>5, <3>1, <3>2, Equal
    <3> QED BY <3>2
  <2> QED BY <2>4, <2>5, <2>6
<1>3. TagsAt(t, tag) = {o \in 1..(Len(t) - n + 1) : SubSeq(t, o, o + n - 1) = tag}
  BY DEF TagsAt, n
<1> QED BY <1>2, <1>3 DEF n

\* Tags lie apart.
LEMMA TagsApart ==
    ASSUME NEW D, NEW t \in Seq(D), NEW tag \in Tags, NEW other \in Tags,
           NEW o \in TagsAt(t, tag), NEW c \in TagsAt(t, other), o < c
    PROVE  o + Len(tag) <= c
<1>1. /\ o \in Nat \ {0} /\ c \in Nat \ {0}
      /\ \A j \in 1..Len(tag) : t[(o - 1) + j] = tag[j]
      /\ \A j \in 1..Len(other) : t[(c - 1) + j] = other[j]
  BY TagsAre
<1>2. Len(tag) \in {3, 4} /\ Len(other) \in {3, 4} /\ other[1] = "<" /\ \A j \in 1..Len(tag) : tag[j] = "<" => j = 1
  BY TagIs
<1> SUFFICES ASSUME o + Len(tag) > c PROVE FALSE
  BY <1>1, <1>2
<1> DEFINE j == c - o + 1
<1>3. j \in 1..Len(tag) /\ j # 1 /\ (o - 1) + j = c /\ (c - 1) + 1 = c /\ 1 \in 1..Len(other)
  BY <1>1, <1>2
<1>4. t[c] = tag[j] /\ t[c] = other[1]
  <2> HIDE DEF j
  <2> QED BY <1>1, <1>3
<1> HIDE DEF j
<1> QED BY <1>2, <1>3, <1>4

\* A tag, or its beginning at the end of the text, goes over place m.
Straddles(t, tag, m) ==
    \E o \in 1..m : /\ o + Len(tag) - 1 > m
                    /\ \A j \in 1..Len(tag) : (o - 1) + j <= Len(t) => t[(o - 1) + j] = tag[j]

LEMMA StraddlesNot ==
    ASSUME NEW D, NEW t \in Seq(D), NEW tag \in Tags, NEW other \in Tags,
           NEW o \in TagsAt(t, tag)
    PROVE  ~Straddles(t, other, (o - 1) + Len(tag))
<1> DEFINE m == (o - 1) + Len(tag)
<1>1. /\ o \in 1..(Len(t) - Len(tag) + 1)
      /\ \A j \in 1..Len(tag) : t[(o - 1) + j] = tag[j]
  BY TagsAre
<1>2. /\ Len(tag) \in {3, 4} /\ tag[Len(tag)] = ">" /\ Len(tag) \in 1..Len(tag)
      /\ Len(other) \in {3, 4} /\ \A j \in 1..Len(other) : other[j] = ">" => j = Len(other)
  BY TagIs
<1>3. m \in 1..Len(t) /\ t[m] = ">"
  <2> DEFINE n == Len(tag)
  <2>3. n \in {3, 4} /\ o \in 1..(Len(t) - n + 1) /\ m = (o - 1) + n
    BY <1>1, <1>2
  <2> HIDE DEF n
  <2>4. m \in 1..Len(t)
    BY <2>3
  <2>1. Len(tag) \in 1..Len(tag) /\ m \in 1..Len(t)
    BY <1>2, <2>4
  <2>2. t[(o - 1) + Len(tag)] = tag[Len(tag)]
    BY <1>1, <2>1
  <2> QED BY <1>2, <2>1, <2>2
<1> HIDE DEF m
<1> SUFFICES ASSUME NEW c \in 1..m, c + Len(other) - 1 > m,
                    \A j \in 1..Len(other) : (c - 1) + j <= Len(t) => t[(c - 1) + j] = other[j]
             PROVE  FALSE
  BY DEF Straddles, m
<1> DEFINE j == m - c + 1
<1>4. j \in 1..Len(other) /\ j # Len(other) /\ (c - 1) + j = m /\ m <= Len(t)
  BY <1>2, <1>3
<1> HIDE DEF j
<1>5. t[m] = other[j]
  BY <1>4
<1> QED BY <1>2, <1>3, <1>4, <1>5

\* More text adds tags behind the old ones, or over the end of the old text.
LEMMA TagsMore ==
    ASSUME NEW D, NEW t \in Seq(D), NEW d \in Seq(D), NEW tag \in Tags
    PROVE  /\ \A o \in TagsAt(t, tag) : o \in TagsAt(t \o d, tag)
           /\ \A o \in TagsAt(t \o d, tag) : (o - 1) + Len(tag) <= Len(t) => o \in TagsAt(t, tag)
           /\ \A m \in 0..Len(t) : Straddles(t \o d, tag, m) => Straddles(t, tag, m)
<1> DEFINE u == t \o d
<1>1. /\ u \in Seq(D) /\ Len(u) = Len(t) + Len(d) /\ Len(t) \in Nat /\ Len(d) \in Nat
      /\ \A i \in 1..Len(t) : u[i] = t[i]
  BY ConcatIs
<1>2. Len(tag) \in {3, 4}
  BY TagIs
<1> HIDE DEF u
<1>3. ASSUME NEW o \in TagsAt(t, tag) PROVE o \in TagsAt(u, tag)
  <2>1. o \in 1..(Len(t) - Len(tag) + 1) /\ \A j \in 1..Len(tag) : t[(o - 1) + j] = tag[j]
    BY TagsAre
  <2>2. \A j \in 1..Len(tag) : (o - 1) + j \in 1..Len(t)
    BY <1>1, <1>2, <2>1
  <2>3. \A j \in 1..Len(tag) : u[(o - 1) + j] = tag[j]
    BY <1>1, <2>1, <2>2
  <2>4. o \in 1..(Len(u) - Len(tag) + 1)
    BY <1>1, <1>2, <2>1
  <2> QED BY <1>1, <2>3, <2>4, TagsAre
<1>4. ASSUME NEW o \in TagsAt(u, tag), (o - 1) + Len(tag) <= Len(t) PROVE o \in TagsAt(t, tag)
  <2>1. o \in 1..(Len(u) - Len(tag) + 1) /\ \A j \in 1..Len(tag) : u[(o - 1) + j] = tag[j]
    BY <1>1, TagsAre
  <2>2. \A j \in 1..Len(tag) : (o - 1) + j \in 1..Len(t)
    BY <1>1, <1>2, <1>4, <2>1
  <2>3. \A j \in 1..Len(tag) : t[(o - 1) + j] = tag[j]
    BY <1>1, <2>1, <2>2
  <2>4. o \in 1..(Len(t) - Len(tag) + 1)
    BY <1>1, <1>2, <1>4, <2>1
  <2> QED BY <2>3, <2>4, TagsAre
<1>5. ASSUME NEW m \in 0..Len(t), Straddles(u, tag, m) PROVE Straddles(t, tag, m)
  <2>1. PICK o \in 1..m : /\ o + Len(tag) - 1 > m
                          /\ \A j \in 1..Len(tag) : (o - 1) + j <= Len(u) => u[(o - 1) + j] = tag[j]
    BY <1>5 DEF Straddles
  <2>2. ASSUME NEW j \in 1..Len(tag), (o - 1) + j <= Len(t) PROVE t[(o - 1) + j] = tag[j]
    <3>1. (o - 1) + j \in 1..Len(t) /\ (o - 1) + j <= Len(u)
      BY <1>1, <1>2, <2>2
    <3> QED BY <1>1, <2>1, <3>1
  <2> QED BY <2>1, <2>2 DEF Straddles
<1> QED BY <1>3, <1>4, <1>5 DEF u


(* What of a text is spoken.                                                *)

Letter(t, p) == IF Thought(t, p) \/ Opens(t, p) THEN <<>> ELSE <<t[p]>>

\* What is spoken of the first m letters.
SpokenTo(t, m) == FlattenSeq([p \in 1..m |-> Letter(t, p)])

LEMMA FlattenNext ==
    ASSUME NEW D, NEW n \in Nat \ {0}, NEW s, \A i \in 1..n : s[i] \in Seq(D)
    PROVE  FlattenSeq([i \in 1..n |-> s[i]]) = FlattenSeq([i \in 1..(n - 1) |-> s[i]]) \o s[n]
<1> DEFINE before == [i \in 1..(n - 1) |-> s[i]]
           all == [i \in 1..n |-> s[i]]
<1>1. n - 1 \in Nat /\ n \in 1..n
  OBVIOUS
<1>2. before \in Seq(Seq(D)) /\ Len(before) = n - 1 /\ \A i \in 1..(n - 1) : before[i] = s[i]
  BY <1>1
<1>3. all \in Seq(Seq(D)) /\ Len(all) = n /\ \A i \in 1..n : all[i] = s[i]
  BY <1>1
<1> HIDE DEF before, all
<1>4. s[n] \in Seq(D)
  BY <1>1
<1>5. all = Append(before, s[n])
  <2> DEFINE more == Append(before, s[n])
  <2>1. more \in Seq(Seq(D)) /\ Len(more) = n /\ more[n] = s[n] /\ \A i \in 1..(n - 1) : more[i] = s[i]
    BY <1>1, <1>2, <1>4
  <2> HIDE DEF more
  <2>2. \A i \in 1..n : i = n \/ i \in 1..(n - 1)
    BY <1>1
  <2>3. \A i \in 1..Len(all) : all[i] = more[i]
    BY <1>3, <2>1, <2>2
  <2>4. all = more
    BY <1>3, <2>1, <2>3, Equal
  <2> QED BY <2>4 DEF more
<1>6. FlattenSeq(Append(before, s[n])) = FlattenSeq(before) \o s[n]
  BY <1>2, <1>4, FlattenAppend
<1> QED BY <1>5, <1>6 DEF all, before

LEMMA FlattenNone == \A s : FlattenSeq([i \in 1..0 |-> s[i]]) = <<>>
<1> TAKE s
<1>1. [i \in 1..0 |-> s[i]] = <<>>
  OBVIOUS
<1> QED BY <1>1, FlattenEmpty

LEMMA FlattenSome ==
    ASSUME NEW D, NEW n \in Nat, NEW s, \A i \in 1..n : s[i] \in Seq(D)
    PROVE  FlattenSeq([i \in 1..n |-> s[i]]) \in Seq(D)
<1>1. [i \in 1..n |-> s[i]] \in Seq(Seq(D))
  OBVIOUS
<1> QED BY <1>1, FlattenType

LEMMA SpokenToIs ==
    ASSUME NEW D, NEW t \in Seq(D)
    PROVE  /\ Spoken(t) = SpokenTo(t, Len(t)) /\ SpokenTo(t, 0) = <<>>
           /\ \A m \in 0..Len(t) : SpokenTo(t, m) \in Seq(D)
           /\ \A m \in 1..Len(t) : SpokenTo(t, m) = SpokenTo(t, m - 1) \o Letter(t, m)
<1> DEFINE s == [p \in 1..Len(t) |-> Letter(t, p)]
<1>1. \A p \in 1..Len(t) : s[p] \in Seq(D) /\ s[p] = Letter(t, p)
  BY DEF Letter
<1>2. DOMAIN t = 1..Len(t) /\ Len(t) \in Nat
  OBVIOUS
<1>3. Spoken(t) = SpokenTo(t, Len(t))
  BY <1>2 DEF Spoken, SpokenTo, Letter
<1> HIDE DEF s
<1>4. ASSUME NEW m \in 0..Len(t)
      PROVE  [p \in 1..m |-> Letter(t, p)] = [p \in 1..m |-> s[p]]
  <2>1. \A p \in 1..m : Letter(t, p) = s[p]
    BY <1>1
  <2> QED BY <2>1
<1>5. \A m \in 0..Len(t) : SpokenTo(t, m) = FlattenSeq([p \in 1..m |-> s[p]])
  BY <1>4 DEF SpokenTo
<1>6. SpokenTo(t, 0) = <<>>
  <2>1. 0 \in 0..Len(t)
    BY <1>2
  <2>2. FlattenSeq([p \in 1..0 |-> s[p]]) = <<>>
    BY FlattenNone
  <2> QED BY <1>5, <2>1, <2>2
<1>7. ASSUME NEW m \in 0..Len(t) PROVE SpokenTo(t, m) \in Seq(D)
  <2>1. m \in Nat /\ \A p \in 1..m : s[p] \in Seq(D)
    BY <1>1
  <2>2. FlattenSeq([p \in 1..m |-> s[p]]) \in Seq(D)
    BY <2>1, FlattenSome
  <2> QED BY <1>5, <2>2
<1>8. ASSUME NEW m \in 1..Len(t) PROVE SpokenTo(t, m) = SpokenTo(t, m - 1) \o Letter(t, m)
  <2>1. m \in Nat \ {0} /\ m \in 0..Len(t) /\ m - 1 \in 0..Len(t) /\ \A p \in 1..m : s[p] \in Seq(D)
    BY <1>1
  <2>2. FlattenSeq([p \in 1..m |-> s[p]]) = FlattenSeq([p \in 1..(m - 1) |-> s[p]]) \o s[m]
    BY <2>1, FlattenNext
  <2> QED BY <1>1, <1>5, <2>1, <2>2
<1> QED BY <1>3, <1>6, <1>7, <1>8

\* Letters that are dropped add nothing, and letters that are kept themselves.
LEMMA SpokenDropped ==
    ASSUME NEW D, NEW t \in Seq(D), NEW m \in 0..Len(t), NEW q \in m..Len(t),
           \A p \in (m + 1)..q : Letter(t, p) = <<>>
    PROVE  SpokenTo(t, q) = SpokenTo(t, m)
<1> DEFINE P == {n \in 0..(q - m) : SpokenTo(t, m + n) = SpokenTo(t, m)}
<1>1. 0 \in P
  <2>1. 0 \in 0..(q - m) /\ m + 0 = m
    OBVIOUS
  <2> QED BY <2>1
<1>2. ASSUME NEW n \in 1..(q - m), n - 1 \in P PROVE n \in P
  <2>1. /\ m + n \in 1..Len(t) /\ m + n \in (m + 1)..q /\ (m + n) - 1 = m + (n - 1) /\ n \in 0..(q - m)
        /\ m \in 0..Len(t)
    OBVIOUS
  <2>2. SpokenTo(t, m + n) = SpokenTo(t, (m + n) - 1) \o <<>>
    BY <2>1, SpokenToIs
  <2>3. SpokenTo(t, m) \in Seq(D)
    BY <2>1, SpokenToIs
  <2>4. SpokenTo(t, m + n) = SpokenTo(t, m)
    BY <1>2, <2>1, <2>2, <2>3
  <2> QED BY <2>1, <2>4
<1>3. q - m \in Nat /\ m + (q - m) = q /\ q - m \in 0..(q - m)
  OBVIOUS
<1> HIDE DEF P
<1>4. 0..(q - m) \subseteq P
  BY <1>1, <1>2, <1>3, UpTo
<1> QED BY <1>3, <1>4 DEF P

LEMMA SpokenKept ==
    ASSUME NEW D, NEW t \in Seq(D), NEW m \in 0..Len(t), NEW q \in m..Len(t),
           \A p \in (m + 1)..q : Letter(t, p) = <<t[p]>>
    PROVE  SpokenTo(t, q) = SpokenTo(t, m) \o SubSeq(t, m + 1, q)
<1> DEFINE P == {n \in 0..(q - m) : SpokenTo(t, m + n) = SpokenTo(t, m) \o SubSeq(t, m + 1, m + n)}
<1>0. SpokenTo(t, m) \in Seq(D)
  BY SpokenToIs
<1>1. 0 \in P
  <2>1. 0 \in 0..(q - m) /\ m + 0 = m /\ m + 1 \in Int /\ m \in Int /\ m < m + 1
    OBVIOUS
  <2>2. SubSeq(t, m + 1, m) = <<>>
    BY <2>1, SubSeqEmpty
  <2>3. SpokenTo(t, m) \o <<>> = SpokenTo(t, m)
    BY <1>0
  <2> QED BY <2>1, <2>2, <2>3
<1>2. ASSUME NEW n \in 1..(q - m), n - 1 \in P PROVE n \in P
  <2> DEFINE k == m + n
             part == SubSeq(t, m + 1, k - 1)
  <2>1. /\ k \in 1..Len(t) /\ k \in (m + 1)..q /\ k - 1 = m + (n - 1) /\ n \in 0..(q - m)
        /\ k \in (m + 1)..Len(t) /\ m + 1 \in 1..Len(t) /\ k - 1 \in m..Len(t)
    OBVIOUS
  <2>2. SpokenTo(t, k - 1) = SpokenTo(t, m) \o SubSeq(t, m + 1, m + (n - 1))
    BY <1>2, <2>1
  <2> HIDE DEF k
  <2>3. SpokenTo(t, k) = SpokenTo(t, k - 1) \o <<t[k]>>
    BY <2>1, SpokenToIs
  <2>4. SubSeq(t, m + 1, k) = part \o <<t[k]>>
    BY <2>1, SubSeqRecursiveSecond
  <2>5. part \in Seq(D) /\ <<t[k]>> \in Seq(D)
    BY <2>1, PartIs
  <2>6. SpokenTo(t, k - 1) = SpokenTo(t, m) \o part
    BY <2>1, <2>2
  <2> HIDE DEF part
  <2>7. (SpokenTo(t, m) \o part) \o <<t[k]>> = SpokenTo(t, m) \o (part \o <<t[k]>>)
    BY <1>0, <2>5, Associative, SMTT(40)
  <2>8. SpokenTo(t, k) = SpokenTo(t, m) \o SubSeq(t, m + 1, k)
    BY <2>3, <2>4, <2>6, <2>7
  <2> QED BY <2>1, <2>8 DEF k
<1>3. q - m \in Nat /\ m + (q - m) = q /\ q - m \in 0..(q - m)
  OBVIOUS
<1> HIDE DEF P
<1>4. 0..(q - m) \subseteq P
  BY <1>1, <1>2, <1>3, UpTo
<1>5. SpokenTo(t, m + (q - m)) = SpokenTo(t, m) \o SubSeq(t, m + 1, m + (q - m))
  BY <1>3, <1>4 DEF P
<1> QED BY <1>3, <1>5


(* What the filter holds back.                                              *)

\* The tags of what is behind place m.
LEMMA TagsBehind ==
    ASSUME NEW D, NEW t \in Seq(D), NEW tag \in Tags, NEW m \in 0..Len(t)
    PROVE  /\ \A o \in TagsAt(SubSeq(t, m + 1, Len(t)), tag) : o \in Nat \ {0} /\ m + o \in TagsAt(t, tag)
           /\ \A o \in TagsAt(t, tag) : o > m => o - m \in TagsAt(SubSeq(t, m + 1, Len(t)), tag)
<1> DEFINE s == SubSeq(t, m + 1, Len(t))
           n == Len(tag)
<1>1. m \in 0..Len(t) /\ Len(t) \in m..Len(t) /\ Len(t) \in Nat
  OBVIOUS
<1>2. s \in Seq(D) /\ Len(s) = Len(t) - m /\ \A x \in 1..(Len(t) - m) : s[x] = t[m + x]
  BY <1>1, PartIs
<1>3. n \in {3, 4}
  BY TagIs
<1> HIDE DEF s
<1>4. /\ \A o : o \in TagsAt(s, tag) <=> o \in 1..(Len(s) - n + 1) /\ \A j \in 1..n : s[(o - 1) + j] = tag[j]
      /\ \A o : o \in TagsAt(t, tag) <=> o \in 1..(Len(t) - n + 1) /\ \A j \in 1..n : t[(o - 1) + j] = tag[j]
  BY <1>2, TagsAre
<1> HIDE DEF n
<1>5. ASSUME NEW o \in 1..(Len(s) - n + 1), NEW j \in 1..n
      PROVE  s[(o - 1) + j] = t[((m + o) - 1) + j]
  <2>1. (o - 1) + j \in 1..(Len(t) - m) /\ m + ((o - 1) + j) = ((m + o) - 1) + j
    BY <1>1, <1>2, <1>3
  <2> QED BY <1>2, <2>1
<1>6. ASSUME NEW o \in TagsAt(s, tag) PROVE o \in Nat \ {0} /\ m + o \in TagsAt(t, tag)
  <2>1. o \in 1..(Len(s) - n + 1) /\ \A j \in 1..n : s[(o - 1) + j] = tag[j]
    BY <1>4, <1>6
  <2>2. \A j \in 1..n : t[((m + o) - 1) + j] = tag[j]
    BY <1>5, <2>1
  <2>3. m + o \in 1..(Len(t) - n + 1)
    BY <1>1, <1>2, <1>3, <2>1
  <2> QED BY <1>4, <2>1, <2>2, <2>3
<1>7. ASSUME NEW o \in TagsAt(t, tag), o > m PROVE o - m \in TagsAt(s, tag)
  <2>1. o \in 1..(Len(t) - n + 1) /\ \A j \in 1..n : t[(o - 1) + j] = tag[j]
    BY <1>4, <1>7
  <2>2. o - m \in 1..(Len(s) - n + 1) /\ m + (o - m) = o
    BY <1>1, <1>2, <1>3, <1>7, <2>1
  <2>3. \A j \in 1..n : s[((o - m) - 1) + j] = tag[j]
    BY <1>5, <2>1, <2>2
  <2> QED BY <1>4, <2>2, <2>3
<1> QED BY <1>6, <1>7 DEF s

\* The beginning of a tag at the end of a text.
LEMMA SuffixIs ==
    ASSUME NEW D, NEW s \in Seq(D), NEW tag \in Tags, NEW n \in 0..(Len(tag) - 1), n <= Len(s)
    PROVE  IsSuffix(SubSeq(tag, 1, n), s) <=> \A j \in 1..n : s[(Len(s) - n) + j] = tag[j]
<1> DEFINE a == SubSeq(tag, 0 + 1, n)
           ra == Reverse(a)
           rs == Reverse(s)
           L == Len(s)
           front == SubSeq(rs, 0 + 1, n)
<1>1. L \in Nat /\ n \in 0..L /\ 0 \in 0..L /\ n \in Nat
  OBVIOUS
<1>2. a \in Seq(Signs) /\ Len(a) = n /\ \A x \in 1..n : a[x] = tag[x]
  <2>1. tag \in Seq(Signs) /\ Len(tag) \in Nat
    BY TagIs
  <2>2. 0 \in 0..Len(tag) /\ n \in 0..Len(tag) /\ n - 0 = n /\ \A x \in 1..n : 0 + x = x
    BY <2>1
  <2>3. a \in Seq(Signs) /\ Len(a) = n - 0 /\ \A x \in 1..(n - 0) : a[x] = tag[0 + x]
    BY <2>1, <2>2, PartIs
  <2> QED BY <2>2, <2>3
<1> HIDE DEF a
<1>3. ra \in Seq(Signs) /\ Len(ra) = n /\ \A x \in 1..n : ra[x] = a[(n - x) + 1]
  BY <1>1, <1>2 DEF Reverse
<1>4. rs \in Seq(D) /\ Len(rs) = L /\ \A x \in 1..L : rs[x] = s[(L - x) + 1]
  BY <1>1 DEF Reverse
<1> HIDE DEF ra, rs
<1>5. front \in Seq(D) /\ Len(front) = n /\ \A x \in 1..n : front[x] = rs[x]
  <2>1. 0 \in 0..Len(rs) /\ n \in 0..Len(rs) /\ n - 0 = n /\ \A x \in 1..n : 0 + x = x
    BY <1>1, <1>4
  <2>2. front \in Seq(D) /\ Len(front) = n - 0 /\ \A x \in 1..(n - 0) : front[x] = rs[0 + x]
    BY <1>4, <2>1, PartIs
  <2> QED BY <2>1, <2>2
<1>6. SubSeq(ra, 1, Len(ra)) = ra
  BY <1>3, SubSeqFull
<1>7. IsSuffix(a, s) <=> ra = front
  BY <1>1, <1>3, <1>4, <1>6 DEF IsSuffix, IsPrefix, ra, rs
<1> HIDE DEF front, L
<1>8. ra = front <=> \A x \in 1..n : ra[x] = front[x]
  <2>1. (\A x \in 1..n : ra[x] = front[x]) => ra = front
    BY <1>3, <1>5, Equal
  <2> QED BY <2>1
<1>9. \A x \in 1..n : ra[x] = tag[(n - x) + 1] /\ front[x] = s[(L - x) + 1]
  <2> TAKE x \in 1..n
  <2>1. (n - x) + 1 \in 1..n /\ x \in 1..L
    BY <1>1
  <2> QED BY <1>2, <1>3, <1>4, <1>5, <2>1
<1>10. (\A x \in 1..n : tag[(n - x) + 1] = s[(L - x) + 1]) <=> \A j \in 1..n : s[(L - n) + j] = tag[j]
  <2>1. ASSUME \A x \in 1..n : tag[(n - x) + 1] = s[(L - x) + 1], NEW j \in 1..n
        PROVE  s[(L - n) + j] = tag[j]
    <3> DEFINE x == (n - j) + 1
    <3>1. x \in 1..n /\ (n - x) + 1 = j /\ (L - x) + 1 = (L - n) + j
      BY <1>1
    <3> HIDE DEF x
    <3> QED BY <2>1, <3>1
  <2>2. ASSUME \A j \in 1..n : s[(L - n) + j] = tag[j], NEW x \in 1..n
        PROVE  tag[(n - x) + 1] = s[(L - x) + 1]
    <3> DEFINE j == (n - x) + 1
    <3>1. j \in 1..n /\ (L - x) + 1 = (L - n) + j
      BY <1>1
    <3> HIDE DEF j
    <3>2. s[(L - x) + 1] = tag[j]
      BY <2>2, <3>1
    <3> QED BY <3>2 DEF j
  <2> QED BY <2>1, <2>2
<1>11. ra = front <=> \A j \in 1..n : s[(L - n) + j] = tag[j]
  BY <1>8, <1>9, <1>10
<1>12. a = SubSeq(tag, 1, n)
  BY DEF a
<1> QED BY <1>7, <1>11, <1>12 DEF L

LEMMA HeldBackIs ==
    ASSUME NEW D, NEW s \in Seq(D), NEW tag \in Tags
    PROVE  /\ HeldBack(s, tag) \in 0..(Len(tag) - 1) /\ HeldBack(s, tag) <= Len(s)
           /\ \A n \in 0..(Len(tag) - 1) :
                 n <= Len(s) /\ (\A j \in 1..n : s[(Len(s) - n) + j] = tag[j]) => n <= HeldBack(s, tag)
<1> DEFINE S == {n \in 0..(Len(tag) - 1) : n <= Len(s) /\ IsSuffix(SubSeq(tag, 1, n), s)}
<1>1. Len(tag) \in {3, 4} /\ Len(s) \in Nat
  BY TagIs
<1>2. 0 \in S
  <2>1. 0 \in 0..(Len(tag) - 1) /\ 0 <= Len(s) /\ 1..0 = {}
    BY <1>1
  <2>2. IsSuffix(SubSeq(tag, 1, 0), s)
    BY <2>1, SuffixIs
  <2> QED BY <2>1, <2>2
<1>3. \A n \in S : n = 0 \/ n = 1 \/ n = 2 \/ n = 3
  <2> DEFINE N == Len(tag)
  <2>1. N \in {3, 4} /\ \A n \in S : n \in 0..(N - 1)
    BY <1>1
  <2> HIDE DEF N, S
  <2> QED BY <2>1
<1>4. \A n \in S : n \in 0..(Len(tag) - 1) /\ n <= Len(s)
  OBVIOUS
<1>5. \A n \in 0..(Len(tag) - 1) :
         n <= Len(s) /\ (\A j \in 1..n : s[(Len(s) - n) + j] = tag[j]) => n \in S
  BY SuffixIs
<1>6. HeldBack(s, tag) = Max(S)
  BY DEF HeldBack
<1> HIDE DEF S
<1>7. \E n \in S : \A i \in S : i <= n
  <2>1. CASE 3 \in S
    BY <1>3, <2>1
  <2>2. CASE 3 \notin S /\ 2 \in S
    BY <1>3, <2>2
  <2>3. CASE 3 \notin S /\ 2 \notin S /\ 1 \in S
    BY <1>3, <2>3
  <2>4. CASE 3 \notin S /\ 2 \notin S /\ 1 \notin S
    BY <1>2, <1>3, <2>4
  <2> QED BY <2>1, <2>2, <2>3, <2>4
<1>8. PICK n \in S : \A i \in S : i <= n
  BY <1>7
<1>9. S \in SUBSET Nat
  BY <1>3
<1>10. HeldBack(s, tag) = n
  BY <1>6, <1>8, <1>9, GreatestIs
<1> QED BY <1>4, <1>5, <1>8, <1>10

\* What is held back is all that more text can make a tag of.
LEMMA HeldEnough ==
    ASSUME NEW D, NEW t \in Seq(D), NEW tag \in Tags, NEW m \in 0..Len(t), ~Straddles(t, tag, m),
           NEW s, s = SubSeq(t, m + 1, Len(t)), TagsAt(s, tag) = {}
    PROVE  ~Straddles(t, tag, Len(t) - HeldBack(s, tag))
<1> DEFINE h == HeldBack(s, tag)
           n == Len(tag)
           L == Len(t)
<1>0. m \in 0..Len(t) /\ Len(t) \in m..Len(t)
  OBVIOUS
<1>1. s \in Seq(D) /\ Len(s) = L - m /\ \A x \in 1..(L - m) : s[x] = t[m + x]
  BY <1>0, PartIs
<1>2. n \in {3, 4} /\ L \in Nat
  BY TagIs
<1>3. /\ h \in 0..(n - 1) /\ h <= L - m
      /\ \A i \in 0..(n - 1) : i <= L - m /\ (\A j \in 1..i : s[(L - m - i) + j] = tag[j]) => i <= h
  BY <1>1, HeldBackIs
<1> SUFFICES ASSUME Straddles(t, tag, L - h) PROVE FALSE
  OBVIOUS
<1> HIDE DEF h
<1>4. PICK o \in 1..(L - h) : /\ o + n - 1 > L - h
                              /\ \A j \in 1..n : (o - 1) + j <= L => t[(o - 1) + j] = tag[j]
  BY DEF Straddles
<1> HIDE DEF n, L
<1>5. o > m
  <2>1. CASE o <= m
    <3>1. o \in 1..m /\ o + n - 1 > m
      BY <1>0, <1>2, <1>3, <1>4, <2>1 DEF L
    <3> QED BY <1>4, <3>1 DEF Straddles, n, L
  <2> QED BY <1>0, <1>2, <1>4, <2>1 DEF L
<1>6. CASE (o - 1) + n <= L
  <2>1. o \in 1..(L - n + 1) /\ \A j \in 1..n : (o - 1) + j <= L
    BY <1>2, <1>4, <1>6, <1>5, <1>0
  <2>2. o \in TagsAt(t, tag)
    BY <1>4, <2>1, TagsAre DEF n, L
  <2>3. o - m \in TagsAt(s, tag)
    BY <1>5, <2>2, TagsBehind
  <2> QED BY <2>3
<1>7. CASE (o - 1) + n > L
  <2> DEFINE i == L - o + 1
  <2>1. i \in 0..(n - 1) /\ i <= L - m /\ i > h
    BY <1>0, <1>2, <1>3, <1>4, <1>5, <1>7 DEF L
  <2>2. ASSUME NEW j \in 1..i PROVE s[(L - m - i) + j] = tag[j]
    <3>1. /\ (L - m - i) + j \in 1..(L - m) /\ m + ((L - m - i) + j) = (o - 1) + j
          /\ (o - 1) + j <= L /\ j \in 1..n
      BY <1>0, <1>2, <1>5, <2>1 DEF L
    <3> QED BY <1>1, <1>4, <3>1
  <2> HIDE DEF i
  <2>3. i <= h
    BY <1>3, <2>1, <2>2
  <2> QED BY <1>2, <1>3, <2>1, <2>3
<1> QED BY <1>2, <1>4, <1>6, <1>7


(* The filter in a text.                                                    *)

\* The tag a filter looks for.
Sought(f) == IF f.in_think THEN THINK_CLOSE_TAG ELSE THINK_OPEN_TAG

\* The filter f has been given the text t and is done with its first m letters.
FilterAt(f, t, m) ==
    /\ DOMAIN f = {"pending", "in_think"} /\ m \in 0..Len(t)
    /\ f.pending = SubSeq(t, m + 1, Len(t))
    /\ f.in_think \in BOOLEAN /\ (f.in_think = TRUE <=> Thought(t, m + 1))
    /\ ~Straddles(t, Sought(f), m)

\* There is no more to do before more text comes.
AtRest(f, t, m) ==
    /\ \A o \in TagsAt(t, Sought(f)) : o <= m
    /\ Len(t) - m < Len(Sought(f))

LEMMA TagLengths ==
    /\ Len(THINK_OPEN_TAG) = 3 /\ Len(THINK_CLOSE_TAG) = 4
    /\ THINK_OPEN_TAG \in Tags /\ THINK_CLOSE_TAG \in Tags
    /\ \A D : \A t \in Seq(D) : \A o : ~(o \in TagsAt(t, THINK_OPEN_TAG) /\ o \in TagsAt(t, THINK_CLOSE_TAG))
<1>1. Len(THINK_OPEN_TAG) = 3 /\ Len(THINK_CLOSE_TAG) = 4
  BY DEF THINK_OPEN_TAG, THINK_CLOSE_TAG
<1>2. THINK_OPEN_TAG[2] = "k" /\ THINK_CLOSE_TAG[2] = "/"
  BY DEF THINK_OPEN_TAG, THINK_CLOSE_TAG
<1>3. THINK_OPEN_TAG \in Tags /\ THINK_CLOSE_TAG \in Tags
  BY DEF Tags
<1>4. ASSUME NEW D, NEW t \in Seq(D), NEW o, o \in TagsAt(t, THINK_OPEN_TAG), o \in TagsAt(t, THINK_CLOSE_TAG)
      PROVE  FALSE
  <2>1. t[(o - 1) + 2] = THINK_OPEN_TAG[2]
    <3>1. \A j \in 1..Len(THINK_OPEN_TAG) : t[(o - 1) + j] = THINK_OPEN_TAG[j]
      BY <1>3, <1>4, TagsAre
    <3>2. 2 \in 1..Len(THINK_OPEN_TAG)
      BY <1>1
    <3> QED BY <3>1, <3>2
  <2>2. t[(o - 1) + 2] = THINK_CLOSE_TAG[2]
    <3>1. \A j \in 1..Len(THINK_CLOSE_TAG) : t[(o - 1) + j] = THINK_CLOSE_TAG[j]
      BY <1>3, <1>4, TagsAre
    <3>2. 2 \in 1..Len(THINK_CLOSE_TAG)
      BY <1>1
    <3> QED BY <3>1, <3>2
  <2>3. "k" # "/"
    OBVIOUS
  <2> QED BY <1>2, <2>1, <2>2, <2>3
<1> QED BY <1>1, <1>3, <1>4

LEMMA TagPlaces ==
    ASSUME NEW D, NEW t \in Seq(D)
    PROVE  /\ \A o \in TagsAt(t, THINK_OPEN_TAG) : o \in Nat /\ 1 <= o /\ o + 2 <= Len(t)
           /\ \A c \in TagsAt(t, THINK_CLOSE_TAG) : c \in Nat /\ 1 <= c /\ c + 3 <= Len(t)
           /\ \A o \in TagsAt(t, THINK_OPEN_TAG) : \A c \in TagsAt(t, THINK_CLOSE_TAG) :
                 (o + 2 < c) \/ (c + 3 < o)
           /\ \A o, c \in TagsAt(t, THINK_OPEN_TAG) : o < c => o + 2 < c
           /\ \A o, c \in TagsAt(t, THINK_CLOSE_TAG) : o < c => o + 3 < c
<1>1. /\ Len(THINK_OPEN_TAG) = 3 /\ Len(THINK_CLOSE_TAG) = 4
      /\ THINK_OPEN_TAG \in Tags /\ THINK_CLOSE_TAG \in Tags
      /\ \A o : ~(o \in TagsAt(t, THINK_OPEN_TAG) /\ o \in TagsAt(t, THINK_CLOSE_TAG))
      /\ Len(t) \in Nat
  BY TagLengths
<1>2. \A o \in TagsAt(t, THINK_OPEN_TAG) : o \in 1..(Len(t) - 3 + 1)
  BY <1>1, TagsAre
<1>3. \A c \in TagsAt(t, THINK_CLOSE_TAG) : c \in 1..(Len(t) - 4 + 1)
  BY <1>1, TagsAre
<1>4. /\ \A o \in TagsAt(t, THINK_OPEN_TAG) : o \in Nat /\ 1 <= o /\ o + 2 <= Len(t)
      /\ \A c \in TagsAt(t, THINK_CLOSE_TAG) : c \in Nat /\ 1 <= c /\ c + 3 <= Len(t)
  BY <1>1, <1>2, <1>3
<1>5. \A o \in TagsAt(t, THINK_OPEN_TAG) : \A c \in TagsAt(t, THINK_CLOSE_TAG) :
                 (o < c => o + 3 <= c) /\ (c < o => c + 4 <= o)
  BY <1>1, TagsApart
<1>6. \A o, c \in TagsAt(t, THINK_OPEN_TAG) : o < c => o + 3 <= c
  BY <1>1, TagsApart
<1>7. \A o, c \in TagsAt(t, THINK_CLOSE_TAG) : o < c => o + 4 <= c
  BY <1>1, TagsApart
<1>8. ASSUME NEW o \in TagsAt(t, THINK_OPEN_TAG), NEW c \in TagsAt(t, THINK_CLOSE_TAG)
      PROVE  (o + 2 < c) \/ (c + 3 < o)
  <2>1. o # c /\ o \in Nat /\ c \in Nat
    BY <1>1, <1>4
  <2> QED BY <1>5, <2>1
<1>9. \A o, c \in TagsAt(t, THINK_OPEN_TAG) : o < c => o + 2 < c
  BY <1>4, <1>6
<1>10. \A o, c \in TagsAt(t, THINK_CLOSE_TAG) : o < c => o + 3 < c
  BY <1>4, <1>7
<1> QED BY <1>4, <1>8, <1>9, <1>10

\* More text changes nothing of what the filter is done with.
LEMMA FilterMore ==
    ASSUME NEW D, NEW t \in Seq(D), NEW d \in Seq(D), NEW f, NEW m, FilterAt(f, t, m)
    PROVE  /\ FilterAt([f EXCEPT !.pending = @ \o d], t \o d, m)
           /\ SpokenTo(t \o d, m) = SpokenTo(t, m)
<1> DEFINE u == t \o d
           g == [f EXCEPT !.pending = f.pending \o d]
           O(x) == TagsAt(x, THINK_OPEN_TAG)
           C(x) == TagsAt(x, THINK_CLOSE_TAG)
<1>1. /\ u \in Seq(D) /\ Len(u) = Len(t) + Len(d) /\ Len(t) \in Nat /\ Len(d) \in Nat
      /\ \A i \in 1..Len(t) : u[i] = t[i]
      /\ \A i \in 1..Len(u) : i \notin 1..Len(t) => i - Len(t) \in 1..Len(d) /\ u[i] = d[i - Len(t)]
  BY ConcatIs
<1>2. m \in 0..Len(t) /\ m \in 0..Len(u) /\ Len(t) \in m..Len(t) /\ Len(u) \in m..Len(u)
  BY <1>1 DEF FilterAt
<1>3. /\ \A o \in O(t) : o \in O(u)
      /\ \A o \in O(u) : o + 2 <= Len(t) => o \in O(t)
      /\ \A c \in C(t) : c \in C(u)
      /\ \A c \in C(u) : c + 3 <= Len(t) => c \in C(t)
      /\ ~Straddles(u, Sought(f), m)
  <2> HIDE DEF u
  <2>1. Sought(f) \in Tags /\ THINK_OPEN_TAG \in Tags /\ THINK_CLOSE_TAG \in Tags
    BY TagLengths DEF Sought
  <2>2. /\ \A o \in O(u) : (o - 1) + 3 <= Len(t) => o \in O(t)
        /\ \A o \in O(t) : o \in O(u)
    BY <2>1, TagsMore, TagLengths DEF u
  <2>3. /\ \A c \in C(u) : (c - 1) + 4 <= Len(t) => c \in C(t)
        /\ \A c \in C(t) : c \in C(u)
    BY <2>1, TagsMore, TagLengths DEF u
  <2>4. ~Straddles(u, Sought(f), m)
    BY <1>2, <2>1, TagsMore DEF FilterAt, u
  <2>5. /\ \A o \in O(u) : o \in Nat
        /\ \A c \in C(u) : c \in Nat
    BY <1>1, TagPlaces
  <2> HIDE DEF O, C
  <2>6. \A o \in O(u) : o + 2 <= Len(t) => o \in O(t)
    BY <1>1, <2>2, <2>5
  <2>7. \A c \in C(u) : c + 3 <= Len(t) => c \in C(t)
    BY <1>1, <2>3, <2>5
  <2> QED BY <2>2, <2>3, <2>4, <2>6, <2>7
<1> HIDE DEF u
<1>4. /\ \A o \in O(u) : o \in Nat /\ 1 <= o /\ o + 2 <= Len(u)
      /\ \A c \in C(u) : c \in Nat /\ 1 <= c /\ c + 3 <= Len(u)
      /\ \A o \in O(u) : \A c \in C(u) : (o + 2 < c) \/ (c + 3 < o)
      /\ \A o, c \in O(u) : o < c => o + 2 < c
  BY <1>1, TagPlaces
<1>5. ASSUME NEW p \in 1..(Len(t) + 1) PROVE Thought(u, p) <=> Thought(t, p)
  <2>1. /\ Thought(u, p) <=> \E o \in O(u) : o + 2 < p /\ ~\E c \in C(u) : o < c /\ c + 3 < p
        /\ Thought(t, p) <=> \E o \in O(t) : o + 2 < p /\ ~\E c \in C(t) : o < c /\ c + 3 < p
    BY DEF Thought
  <2> HIDE DEF O, C
  <2>2. \A o \in O(u) : o + 2 < p => o \in O(t)
    BY <1>1, <1>3, <1>4
  <2>3. \A c \in C(u) : c + 3 < p => c \in C(t)
    BY <1>1, <1>3, <1>4
  <2> QED BY <1>3, <2>1, <2>2, <2>3
<1>6. ASSUME NEW p \in 1..m PROVE Letter(u, p) = Letter(t, p)
  <2>1. p \in 1..(Len(t) + 1) /\ p \in 1..Len(t) /\ u[p] = t[p]
    BY <1>1, <1>2
  <2>2. ASSUME ~Thought(t, p) PROVE Opens(u, p) <=> Opens(t, p)
    <3>1. /\ Opens(u, p) <=> \E o \in O(u) : p \in o..(o + 2)
          /\ Opens(t, p) <=> \E o \in O(t) : p \in o..(o + 2)
      BY DEF Opens
    <3>2. ASSUME NEW o \in O(u), p \in o..(o + 2), o + 2 > Len(t) PROVE FALSE
      <4>1. o + 2 > m /\ o \in 1..m
        BY <1>1, <1>2, <1>4, <3>2
      <4>2. CASE f.in_think = TRUE
        <5>1. Thought(u, m + 1)
          <6>1. Thought(t, m + 1) /\ m + 1 \in 1..(Len(t) + 1)
            BY <1>1, <1>2, <4>2 DEF FilterAt
          <6> QED BY <1>5, <6>1
        <5>2. PICK a \in O(u) : a + 2 < m + 1 /\ ~\E c \in C(u) : a < c /\ c + 3 < m + 1
          BY <5>1 DEF Thought
        <5>3. a < o
          BY <1>4, <4>1, <5>2, <1>2
        <5>4. a + 2 < o
          BY <1>4, <5>3
        <5>5. a + 2 < p /\ ~\E c \in C(u) : a < c /\ c + 3 < p
          BY <1>4, <3>2, <5>2, <5>4, <1>2
        <5>6. Thought(u, p)
          BY <5>5 DEF Thought
        <5> QED BY <1>5, <2>1, <2>2, <5>6
      <4>3. CASE f.in_think = FALSE
        <5>1. Sought(f) = THINK_OPEN_TAG
          BY <4>3 DEF Sought
        <5>2. THINK_OPEN_TAG \in Tags /\ Len(THINK_OPEN_TAG) = 3
          BY TagLengths
        <5>3. \A j \in 1..Len(THINK_OPEN_TAG) : u[(o - 1) + j] = THINK_OPEN_TAG[j]
          <6>1. u \in Seq(D) /\ o \in TagsAt(u, THINK_OPEN_TAG) /\ THINK_OPEN_TAG \in Tags
            BY <1>1, <5>2
          <6> QED BY <6>1, TagsAre
        <5>4. o + 3 - 1 > m
          BY <1>4, <4>1
        <5>5. Straddles(u, THINK_OPEN_TAG, m)
          BY <4>1, <5>2, <5>3, <5>4 DEF Straddles
        <5> QED BY <1>3, <5>1, <5>5
      <4> QED BY <4>2, <4>3 DEF FilterAt
    <3> HIDE DEF O
    <3>3. \A o \in O(u) : p \in o..(o + 2) => o \in O(t)
      BY <1>1, <1>3, <1>4, <3>2
    <3> QED BY <1>3, <3>1, <3>3
  <2> QED BY <1>5, <2>1, <2>2 DEF Letter
<1>7. SpokenTo(u, m) = SpokenTo(t, m)
  <2>1. [p \in 1..m |-> Letter(u, p)] = [p \in 1..m |-> Letter(t, p)]
    BY <1>6
  <2> QED BY <2>1 DEF SpokenTo
<1>8. FilterAt(g, u, m)
  <2>1. DOMAIN g = {"pending", "in_think"} /\ g.in_think = f.in_think /\ g.pending = f.pending \o d
    BY DEF FilterAt
  <2> HIDE DEF g
  <2>2. Sought(g) = Sought(f)
    BY <2>1 DEF Sought
  <2>3. f.in_think = TRUE <=> Thought(u, m + 1)
    <3>1. m + 1 \in 1..(Len(t) + 1)
      BY <1>1, <1>2
    <3> QED BY <1>5, <3>1 DEF FilterAt
  <2>4. SubSeq(t, m + 1, Len(t)) \o d = SubSeq(u, m + 1, Len(u))
    <3> DEFINE a == SubSeq(t, m + 1, Len(t))
               b == SubSeq(u, m + 1, Len(u))
               e == a \o d
    <3>1. a \in Seq(D) /\ Len(a) = Len(t) - m /\ \A x \in 1..(Len(t) - m) : a[x] = t[m + x]
      BY <1>2, PartIs
    <3>2. b \in Seq(D) /\ Len(b) = Len(u) - m /\ \A x \in 1..(Len(u) - m) : b[x] = u[m + x]
      BY <1>1, <1>2, PartIs
    <3> HIDE DEF a, b
    <3>3. /\ e \in Seq(D) /\ Len(e) = Len(a) + Len(d)
          /\ \A i \in 1..Len(a) : e[i] = a[i]
          /\ \A i \in 1..(Len(a) + Len(d)) : i \notin 1..Len(a) => i - Len(a) \in 1..Len(d) /\ e[i] = d[i - Len(a)]
      BY <3>1, ConcatIs
    <3> HIDE DEF e
    <3>4. Len(e) = Len(b)
      BY <1>1, <1>2, <3>1, <3>2, <3>3
    <3>5. ASSUME NEW i \in 1..Len(e) PROVE e[i] = b[i]
      <4>1. b[i] = u[m + i] /\ m + i \in 1..Len(u)
        BY <1>1, <1>2, <3>2, <3>4
      <4>2. CASE i \in 1..Len(a)
        <5>1. e[i] = t[m + i] /\ m + i \in 1..Len(t)
          BY <1>1, <1>2, <3>1, <3>3, <4>2
        <5> QED BY <1>1, <4>1, <5>1
      <4>3. CASE i \notin 1..Len(a)
        <5>1. e[i] = d[i - Len(a)] /\ i - Len(a) = (m + i) - Len(t) /\ m + i \notin 1..Len(t)
          BY <1>1, <1>2, <3>1, <3>3, <4>3
        <5> QED BY <1>1, <4>1, <5>1
      <4> QED BY <4>2, <4>3
    <3>6. e = b
      BY <3>2, <3>3, <3>4, <3>5, Equal
    <3> QED BY <3>6 DEF e, a, b
  <2> QED BY <1>2, <1>3, <2>1, <2>2, <2>3, <2>4 DEF FilterAt
<1> QED BY <1>7, <1>8 DEF u


(* One round of push().                                                     *)

LEMMA TagStraddles ==
    ASSUME NEW D, NEW t \in Seq(D), NEW tag \in Tags, NEW m \in Nat, NEW o \in TagsAt(t, tag),
           o <= m, o + Len(tag) - 1 > m
    PROVE  Straddles(t, tag, m)
<1>1. o \in 1..(Len(t) - Len(tag) + 1) /\ \A j \in 1..Len(tag) : t[(o - 1) + j] = tag[j]
  BY TagsAre
<1>2. o \in 1..m
  BY <1>1
<1> QED BY <1>1, <1>2 DEF Straddles

\* Outside of a thought all is spoken up to the next tag.
LEMMA ShownIs ==
    ASSUME NEW D, NEW t \in Seq(D), NEW f, NEW m, FilterAt(f, t, m), f.in_think = FALSE,
           NEW q \in m..Len(t), \A o \in TagsAt(t, THINK_OPEN_TAG) : o <= m \/ o > q
    PROVE  /\ SpokenTo(t, q) = SpokenTo(t, m) \o SubSeq(t, m + 1, q)
           /\ ~Thought(t, q + 1)
<1> DEFINE O == TagsAt(t, THINK_OPEN_TAG)
           C == TagsAt(t, THINK_CLOSE_TAG)
<1>1. m \in 0..Len(t) /\ Len(t) \in Nat /\ ~Straddles(t, THINK_OPEN_TAG, m) /\ ~Thought(t, m + 1)
  BY DEF FilterAt, Sought
<1>2. /\ \A o \in O : o \in Nat /\ 1 <= o /\ o + 2 <= Len(t)
      /\ \A c \in C : c \in Nat /\ 1 <= c /\ c + 3 <= Len(t)
  BY TagPlaces
<1>3. ASSUME NEW o \in O, o <= q PROVE o + 2 <= m /\ \E c \in C : o < c /\ c + 3 < m + 1
  <2>1. o <= m
    BY <1>1, <1>2, <1>3
  <2>2. o + 2 <= m
    <3> SUFFICES ASSUME o + 3 - 1 > m PROVE FALSE
      BY <1>1, <1>2
    <3>1. THINK_OPEN_TAG \in Tags /\ Len(THINK_OPEN_TAG) = 3 /\ o \in TagsAt(t, THINK_OPEN_TAG) /\ m \in Nat
      BY <1>1, TagLengths
    <3>2. Straddles(t, THINK_OPEN_TAG, m)
      BY <2>1, <3>1, TagStraddles
    <3> QED BY <1>1, <3>2
  <2>3. o + 2 < m + 1
    BY <1>1, <1>2, <2>2
  <2>4. \E c \in C : o < c /\ c + 3 < m + 1
    BY <1>1, <2>3 DEF Thought
  <2> QED BY <2>2, <2>4
<1> HIDE DEF O, C
<1>4. ASSUME NEW p \in (m + 1)..(q + 1) PROVE ~Thought(t, p)
  <2> SUFFICES ASSUME NEW o \in O, o + 2 < p PROVE \E c \in C : o < c /\ c + 3 < p
    BY DEF Thought, O, C
  <2>1. o <= q
    BY <1>1, <1>2
  <2>2. PICK c \in C : o < c /\ c + 3 < m + 1
    BY <1>3, <2>1
  <2>3. c + 3 < p
    BY <1>1, <1>2, <2>2
  <2> QED BY <2>2, <2>3
<1>5. ASSUME NEW p \in (m + 1)..q PROVE ~Opens(t, p)
  <2> SUFFICES ASSUME NEW o \in O, p \in o..(o + 2) PROVE FALSE
    BY DEF Opens, O
  <2>1. o <= q
    BY <1>1, <1>2
  <2>2. o + 2 <= m
    BY <1>3, <2>1
  <2> QED BY <1>1, <1>2, <2>2
<1>6. \A p \in (m + 1)..q : Letter(t, p) = <<t[p]>>
  <2> TAKE p \in (m + 1)..q
  <2>1. p \in (m + 1)..(q + 1)
    BY <1>1
  <2> QED BY <1>4, <1>5, <2>1 DEF Letter
<1>7. SpokenTo(t, q) = SpokenTo(t, m) \o SubSeq(t, m + 1, q)
  BY <1>1, <1>6, SpokenKept
<1>8. q + 1 \in (m + 1)..(q + 1)
  BY <1>1
<1> QED BY <1>4, <1>7, <1>8

\* Within a thought nothing is spoken up to the end of the next tag.
LEMMA HiddenIs ==
    ASSUME NEW D, NEW t \in Seq(D), NEW f, NEW m, FilterAt(f, t, m), f.in_think = TRUE,
           NEW q \in m..Len(t), \A c \in TagsAt(t, THINK_CLOSE_TAG) : c <= m \/ c + 3 >= q
    PROVE  /\ SpokenTo(t, q) = SpokenTo(t, m)
           /\ (\A c \in TagsAt(t, THINK_CLOSE_TAG) : c <= m \/ c + 3 > q) => Thought(t, q + 1)
<1> DEFINE O == TagsAt(t, THINK_OPEN_TAG)
           C == TagsAt(t, THINK_CLOSE_TAG)
<1>1. m \in 0..Len(t) /\ Len(t) \in Nat /\ ~Straddles(t, THINK_CLOSE_TAG, m) /\ Thought(t, m + 1)
  BY DEF FilterAt, Sought
<1>2. /\ \A o \in O : o \in Nat /\ 1 <= o /\ o + 2 <= Len(t)
      /\ \A c \in C : c \in Nat /\ 1 <= c /\ c + 3 <= Len(t)
  BY TagPlaces
<1>3. PICK a \in O : a + 2 < m + 1 /\ ~\E c \in C : a < c /\ c + 3 < m + 1
  BY <1>1 DEF Thought
<1>4. ASSUME NEW c \in C, a < c, c <= m PROVE FALSE
  <2>1. c + 4 - 1 > m
    BY <1>1, <1>2, <1>3, <1>4
  <2>2. THINK_CLOSE_TAG \in Tags /\ Len(THINK_CLOSE_TAG) = 4 /\ c \in TagsAt(t, THINK_CLOSE_TAG) /\ m \in Nat
    BY <1>1, TagLengths
  <2>3. Straddles(t, THINK_CLOSE_TAG, m)
    BY <1>4, <2>1, <2>2, TagStraddles
  <2> QED BY <1>1, <2>3
<1>5. \A c \in C : c <= m \/ c + 3 >= q
  OBVIOUS
<1> HIDE DEF O, C
<1>6. ASSUME NEW p \in (m + 1)..q PROVE Thought(t, p)
  <2>1. a + 2 < p
    BY <1>1, <1>2, <1>3
  <2>2. ~\E c \in C : a < c /\ c + 3 < p
    BY <1>1, <1>2, <1>4, <1>5
  <2> QED BY <2>1, <2>2 DEF Thought, O, C
<1>7. SpokenTo(t, q) = SpokenTo(t, m)
  <2>1. \A p \in (m + 1)..q : Letter(t, p) = <<>>
    BY <1>6 DEF Letter
  <2> QED BY <1>1, <2>1, SpokenDropped
<1>8. ASSUME \A c \in C : c <= m \/ c + 3 > q PROVE Thought(t, q + 1)
  <2>1. a + 2 < q + 1
    BY <1>1, <1>2, <1>3
  <2>2. ~\E c \in C : a < c /\ c + 3 < q + 1
    BY <1>1, <1>2, <1>4, <1>8
  <2> QED BY <2>1, <2>2 DEF Thought, O, C
<1> QED BY <1>7, <1>8 DEF C

\* What a round shows, from place m to place n.
Shows(pass, t, m, n) ==
    /\ DOMAIN pass = {"shown", "filter", "again"} /\ pass.again \in BOOLEAN
    /\ FilterAt(pass.filter, t, n) /\ n >= m
    /\ SpokenTo(t, n) = SpokenTo(t, m) \o pass.shown
    /\ pass.again = TRUE => n > m
    /\ pass.again = FALSE => AtRest(pass.filter, t, n)

LEMMA PartOfPart ==
    ASSUME NEW D, NEW t \in Seq(D), NEW m \in 0..Len(t), NEW s, s = SubSeq(t, m + 1, Len(t)),
           NEW k \in 0..Len(s)
    PROVE  /\ SubSeq(s, 1, k) = SubSeq(t, m + 1, m + k)
           /\ SubSeq(s, k + 1, Len(s)) = SubSeq(t, (m + k) + 1, Len(t))
<1> DEFINE L == Len(t)
           S == Len(s)
           l == m + k
           a == SubSeq(s, 0 + 1, k)
           b == SubSeq(t, m + 1, l)
           c == SubSeq(s, k + 1, S)
           e == SubSeq(t, l + 1, L)
<1>1. m \in 0..Len(t) /\ Len(t) \in m..Len(t) /\ L \in Nat
  OBVIOUS
<1>2. s \in Seq(D) /\ S = L - m /\ \A x \in 1..(L - m) : s[x] = t[m + x]
  BY <1>1, PartIs
<1>3. /\ 0 \in 0..Len(s) /\ k \in 0..Len(s) /\ S \in k..Len(s) /\ k - 0 = k /\ S = L - m
      /\ l \in m..Len(t) /\ l \in 0..Len(t) /\ L \in l..Len(t) /\ l - m = k /\ k \in Nat /\ m \in Nat
  BY <1>1, <1>2
<1> HIDE DEF L, S, l
<1>4. a \in Seq(D) /\ Len(a) = k - 0 /\ \A x \in 1..(k - 0) : a[x] = s[0 + x]
  BY <1>2, <1>3, PartIs
<1>5. b \in Seq(D) /\ Len(b) = l - m /\ \A x \in 1..(l - m) : b[x] = t[m + x]
  BY <1>1, <1>3, PartIs
<1>6. c \in Seq(D) /\ Len(c) = S - k /\ \A x \in 1..(S - k) : c[x] = s[k + x]
  BY <1>2, <1>3, PartIs
<1>7. e \in Seq(D) /\ Len(e) = L - l /\ \A x \in 1..(L - l) : e[x] = t[l + x]
  BY <1>1, <1>3, PartIs
<1> HIDE DEF a, b, c, e
<1>8. a = b
  <2>1. \A i \in 1..k : 0 + i = i /\ i \in 1..(L - m)
    BY <1>1, <1>3 DEF S
  <2>2. Len(a) = Len(b) /\ Len(a) = k
    BY <1>3, <1>4, <1>5
  <2>3. \A i \in 1..k : a[i] = b[i]
    BY <1>2, <1>3, <1>4, <1>5, <2>1, SMTT(40)
  <2> QED BY <1>4, <1>5, <2>2, <2>3, Equal
<1>9. c = e
  <2>1. \A i \in 1..(S - k) : k + i \in 1..(L - m) /\ m + (k + i) = l + i /\ i \in 1..(L - l)
    BY <1>1, <1>3 DEF l
  <2>2. Len(c) = Len(e) /\ Len(c) = S - k
    BY <1>1, <1>3, <1>6, <1>7 DEF l
  <2>3. \A i \in 1..(S - k) : c[i] = e[i]
    <3> TAKE i \in 1..(S - k)
    <3> DEFINE j == k + i
    <3>1. c[i] = s[j] /\ e[i] = t[l + i] /\ j \in 1..(L - m) /\ m + j = l + i
      BY <1>6, <1>7, <2>1
    <3> HIDE DEF j
    <3>2. s[j] = t[m + j]
      BY <1>2, <3>1
    <3> QED BY <3>1, <3>2
  <2> QED BY <1>6, <1>7, <2>2, <2>3, Equal
<1>10. 0 + 1 = 1
  OBVIOUS
<1> QED BY <1>8, <1>9, <1>10 DEF a, b, c, e, l, L, S

\* A round that finds no tag.
LEMMA PassLast ==
    ASSUME NEW D, NEW t \in Seq(D), NEW f, NEW m, FilterAt(f, t, m), TagsAt(f.pending, Sought(f)) = {}
    PROVE  \E n \in Nat : Shows(Pass(f), t, m, n) /\ Pass(f).shown \in Seq(D)
<1> DEFINE L == Len(t)
           s == f.pending
           h == HeldBack(s, Sought(f))
           upto == Len(s) - h
           n == L - h
           pass == Pass(f)
           g == pass.filter
<1>1. m \in 0..L /\ L \in Nat /\ s = SubSeq(t, m + 1, L) /\ f.in_think \in BOOLEAN /\ Sought(f) \in Tags
      /\ L \in m..L
  BY TagLengths DEF FilterAt, Sought
<1>2. s \in Seq(D) /\ Len(s) = L - m /\ \A x \in 1..(L - m) : s[x] = t[m + x]
  BY <1>1, PartIs
<1>3. pass = [shown  |-> IF f.in_think THEN <<>> ELSE SubSeq(s, 1, upto),
              filter |-> [pending  |-> SubSeq(s, upto + 1, Len(s)), in_think |-> f.in_think # FALSE],
              again  |-> FALSE]
  BY DEF Pass, Sought
<1>4. h \in 0..(Len(Sought(f)) - 1) /\ h <= Len(s) /\ Len(Sought(f)) \in {3, 4}
  BY <1>1, <1>2, HeldBackIs, TagIs
<1> HIDE DEF h
<1>5. n \in m..L /\ upto = n - m /\ n \in 0..L /\ upto \in 0..Len(s)
  BY <1>1, <1>2, <1>4
<1>6. ~Straddles(t, Sought(f), n)
  BY <1>1, HeldEnough DEF h, FilterAt
<1>7. \A o \in TagsAt(t, Sought(f)) : o <= m
  <2>1. \A o \in TagsAt(t, Sought(f)) : o \in Nat
    BY <1>1, TagsAre
  <2>2. \A o \in TagsAt(t, Sought(f)) : ~(o > m)
    BY <1>1, TagsBehind
  <2> QED BY <1>1, <2>1, <2>2
<1> HIDE DEF L
<1>8. SubSeq(s, 1, upto) = SubSeq(t, m + 1, n) /\ SubSeq(s, upto + 1, Len(s)) = SubSeq(t, n + 1, L)
  <2>1. m + upto = n /\ m \in 0..Len(t) /\ s = SubSeq(t, m + 1, Len(t))
    BY <1>1, <1>5 DEF L
  <2> HIDE DEF upto, n, s
  <2>2. /\ SubSeq(s, 1, upto) = SubSeq(t, m + 1, m + upto)
        /\ SubSeq(s, upto + 1, Len(s)) = SubSeq(t, (m + upto) + 1, Len(t))
    BY <1>5, <2>1, PartOfPart
  <2> QED BY <2>1, <2>2 DEF L
<1>9. SubSeq(t, m + 1, n) \in Seq(D)
  BY <1>1, <1>5, PartIs DEF L
<1> HIDE DEF n, upto, s, pass
<1>10. /\ DOMAIN pass = {"shown", "filter", "again"} /\ pass.again = FALSE
       /\ DOMAIN g = {"pending", "in_think"} /\ g.pending = SubSeq(t, n + 1, L)
       /\ g.in_think = (f.in_think # FALSE)
       /\ pass.shown = IF f.in_think THEN <<>> ELSE SubSeq(t, m + 1, n)
  <2> DEFINE x == IF f.in_think THEN <<>> ELSE SubSeq(t, m + 1, n)
             y == SubSeq(t, n + 1, L)
             z == f.in_think # FALSE
  <2>1. pass = [shown |-> x, filter |-> [pending |-> y, in_think |-> z], again |-> FALSE]
    BY <1>3, <1>8
  <2> HIDE DEF x, y, z
  <2>2. /\ DOMAIN pass = {"shown", "filter", "again"} /\ pass.again = FALSE
        /\ DOMAIN g = {"pending", "in_think"} /\ g.pending = y /\ g.in_think = z /\ pass.shown = x
    BY <2>1
  <2> QED BY <2>2 DEF x, y, z
<1>11. g.in_think = f.in_think /\ g.in_think \in BOOLEAN
  <2>2. CASE f.in_think = TRUE
    BY <1>10, <2>2
  <2>3. CASE f.in_think = FALSE
    BY <1>10, <2>3
  <2> QED BY <1>1, <2>2, <2>3
<1> HIDE DEF g
<1>12. Sought(g) = Sought(f)
  BY <1>11 DEF Sought
<1>13. /\ SpokenTo(t, n) = SpokenTo(t, m) \o pass.shown /\ pass.shown \in Seq(D)
       /\ f.in_think = TRUE <=> Thought(t, n + 1)
  <2>0. n \in m..Len(t)
    BY <1>5 DEF L
  <2>1. CASE f.in_think = FALSE
    <3>1. Sought(f) = THINK_OPEN_TAG
      BY <2>1 DEF Sought
    <3>2. SpokenTo(t, n) = SpokenTo(t, m) \o SubSeq(t, m + 1, n) /\ ~Thought(t, n + 1)
      BY <1>7, <2>0, <2>1, <3>1, ShownIs
    <3> QED BY <1>9, <1>10, <2>1, <3>2
  <2>2. CASE f.in_think = TRUE
    <3>1. Sought(f) = THINK_CLOSE_TAG
      BY <2>2 DEF Sought
    <3>2. SpokenTo(t, n) = SpokenTo(t, m) /\ Thought(t, n + 1)
      BY <1>7, <2>0, <2>2, <3>1, HiddenIs
    <3>3. SpokenTo(t, m) \in Seq(D)
      BY <1>1, SpokenToIs DEF L
    <3>4. SpokenTo(t, m) \o <<>> = SpokenTo(t, m) /\ <<>> \in Seq(D)
      BY <3>3
    <3> QED BY <1>10, <2>2, <3>2, <3>4
  <2> QED BY <1>1, <2>1, <2>2
<1>14. FilterAt(g, t, n)
  BY <1>5, <1>6, <1>10, <1>11, <1>12, <1>13 DEF FilterAt, L
<1>15. AtRest(g, t, n)
  <2>1. \A o \in TagsAt(t, Sought(f)) : o <= n
    <3>1. \A o \in TagsAt(t, Sought(f)) : o \in Nat
      BY <1>1, TagsAre
    <3> QED BY <1>1, <1>5, <1>7, <3>1
  <2>2. Len(t) - n < Len(Sought(f))
    BY <1>1, <1>4 DEF n, L
  <2> QED BY <1>12, <2>1, <2>2 DEF AtRest
<1>16. n >= m /\ n \in Nat
  BY <1>1, <1>5
<1>17. Shows(pass, t, m, n)
  BY <1>10, <1>13, <1>14, <1>15, <1>16 DEF Shows, g
<1> QED BY <1>13, <1>16, <1>17 DEF pass

\* A round that finds a tag.
LEMMA PassTag ==
    ASSUME NEW D, NEW t \in Seq(D), NEW f, NEW m, FilterAt(f, t, m), TagsAt(f.pending, Sought(f)) # {}
    PROVE  \E n \in Nat : Shows(Pass(f), t, m, n) /\ Pass(f).shown \in Seq(D)
<1> DEFINE L == Len(t)
           s == f.pending
           tags == TagsAt(s, Sought(f))
           first == Min(tags)
           upto == first - 1
           past == upto + Len(Sought(f))
           o == m + first
           q == m + upto
           n == m + past
           pass == Pass(f)
           g == pass.filter
<1>1. m \in 0..L /\ L \in Nat /\ s = SubSeq(t, m + 1, L) /\ f.in_think \in BOOLEAN /\ Sought(f) \in Tags
      /\ L \in m..L
  BY TagLengths DEF FilterAt, Sought
<1>2. s \in Seq(D) /\ Len(s) = L - m
  BY <1>1, PartIs
<1>3. pass = [shown  |-> IF f.in_think THEN <<>> ELSE SubSeq(s, 1, upto),
              filter |-> [pending  |-> SubSeq(s, past + 1, Len(s)), in_think |-> f.in_think # TRUE],
              again  |-> TRUE]
  BY DEF Pass, Sought
<1>4. first \in tags /\ \A c \in tags : first <= c
  <2>1. tags \in SUBSET Nat /\ tags # {}
    BY <1>1, TagsBehind
  <2>2. PICK c \in tags : \A e \in tags : c <= e
    <3> HIDE DEF tags
    <3> QED BY <2>1, LeastNat
  <2>3. first = c
    <3> HIDE DEF tags
    <3> QED BY <2>1, <2>2, LeastIs
  <2> QED BY <2>2, <2>3
<1>5. o \in TagsAt(t, Sought(f)) /\ first \in Nat \ {0}
  BY <1>1, <1>4, TagsBehind
<1>6. \A c \in TagsAt(t, Sought(f)) : c <= m \/ c >= o
  <2> TAKE c \in TagsAt(t, Sought(f))
  <2>1. c \in Nat
    BY <1>1, TagsAre
  <2>2. CASE c > m
    <3>1. c - m \in tags
      BY <1>1, <2>2, TagsBehind
    <3>2. first <= c - m
      BY <1>4, <3>1
    <3> HIDE DEF first
    <3> QED BY <1>1, <1>5, <2>1, <3>2
  <2> QED BY <1>1, <2>1, <2>2
<1> HIDE DEF first, tags
<1>7. Len(Sought(f)) \in {3, 4} /\ o \in 1..(L - Len(Sought(f)) + 1)
  BY <1>1, <1>5, TagIs, TagsAre
<1>8. n = (o - 1) + Len(Sought(f)) /\ q = o - 1 /\ upto \in 0..Len(s) /\ past \in 0..Len(s)
      /\ q \in m..L /\ n \in m..L /\ n > m /\ n \in 0..L /\ q \in 0..L /\ n \in q..L
  <2> DEFINE K == Len(Sought(f))
             N == Len(s)
  <2>1. K \in {3, 4} /\ o \in 1..(L - K + 1) /\ N = L - m /\ past = upto + K
    BY <1>2, <1>7
  <2> HIDE DEF K, N, L
  <2>2. m \in 0..L /\ L \in Nat /\ first \in Nat \ {0}
    BY <1>1, <1>5 DEF L
  <2>3. n = (o - 1) + K /\ q = o - 1 /\ upto \in 0..N /\ past \in 0..N
        /\ q \in m..L /\ n \in m..L /\ n > m /\ n \in 0..L /\ q \in 0..L /\ n \in q..L
    BY <2>1, <2>2
  <2> QED BY <2>3 DEF K, N
<1>9. ~Straddles(t, THINK_OPEN_TAG, n) /\ ~Straddles(t, THINK_CLOSE_TAG, n)
  BY <1>1, <1>5, <1>8, StraddlesNot, TagLengths
<1> HIDE DEF L
<1>10. SubSeq(s, 1, upto) = SubSeq(t, m + 1, q) /\ SubSeq(s, past + 1, Len(s)) = SubSeq(t, n + 1, L)
  <2>1. m \in 0..Len(t) /\ s = SubSeq(t, m + 1, Len(t))
    BY <1>1 DEF L
  <2> HIDE DEF upto, past, s
  <2>2. SubSeq(s, 1, upto) = SubSeq(t, m + 1, m + upto)
    BY <1>8, <2>1, PartOfPart
  <2>3. SubSeq(s, past + 1, Len(s)) = SubSeq(t, (m + past) + 1, Len(t))
    BY <1>8, <2>1, PartOfPart
  <2> QED BY <2>2, <2>3 DEF L
<1>11. SubSeq(t, m + 1, q) \in Seq(D)
  <2>1. m \in 0..Len(t) /\ q \in m..Len(t)
    BY <1>1, <1>8 DEF L
  <2> HIDE DEF q
  <2> QED BY <2>1, PartIs
<1> HIDE DEF n, q, o, upto, past, s, pass
<1>12. /\ DOMAIN pass = {"shown", "filter", "again"} /\ pass.again = TRUE
       /\ DOMAIN g = {"pending", "in_think"} /\ g.pending = SubSeq(t, n + 1, L)
       /\ g.in_think = (f.in_think # TRUE)
       /\ pass.shown = IF f.in_think THEN <<>> ELSE SubSeq(t, m + 1, q)
  <2> DEFINE x == IF f.in_think THEN <<>> ELSE SubSeq(t, m + 1, q)
             y == SubSeq(t, n + 1, L)
             z == f.in_think # TRUE
  <2>1. pass = [shown |-> x, filter |-> [pending |-> y, in_think |-> z], again |-> TRUE]
    BY <1>3, <1>10
  <2> HIDE DEF x, y, z
  <2>2. /\ DOMAIN pass = {"shown", "filter", "again"} /\ pass.again = TRUE
        /\ DOMAIN g = {"pending", "in_think"} /\ g.pending = y /\ g.in_think = z /\ pass.shown = x
    BY <2>1
  <2> QED BY <2>2 DEF x, y, z
<1> HIDE DEF g
<1>13. /\ SpokenTo(t, n) = SpokenTo(t, m) \o pass.shown /\ pass.shown \in Seq(D)
       /\ g.in_think \in BOOLEAN /\ (g.in_think = TRUE <=> Thought(t, n + 1))
       /\ ~Straddles(t, Sought(g), n)
  <2>0. /\ n \in m..Len(t) /\ n \in q..Len(t) /\ q \in m..Len(t) /\ q \in 0..Len(t) /\ m \in Nat
        /\ o \in Nat /\ q + 1 = o
    BY <1>1, <1>7, <1>8 DEF L
  <2>00. /\ \A a \in TagsAt(t, THINK_OPEN_TAG) : a \in Nat
         /\ \A c \in TagsAt(t, THINK_CLOSE_TAG) : c \in Nat
         /\ \A a \in TagsAt(t, THINK_OPEN_TAG) : \A c \in TagsAt(t, THINK_CLOSE_TAG) :
                 (a + 2 < c) \/ (c + 3 < a)
    BY TagPlaces
  <2>1. CASE f.in_think = FALSE
    <3>0. Sought(f) = THINK_OPEN_TAG
      BY <2>1 DEF Sought
    <3>1. Sought(f) = THINK_OPEN_TAG /\ n = o + 2 /\ o \in TagsAt(t, THINK_OPEN_TAG)
      <4>1. Len(Sought(f)) = 3 /\ n = (o - 1) + Len(Sought(f))
        BY <1>8, <3>0, TagLengths
      <4> QED BY <1>5, <2>0, <3>0, <4>1
    <3>2. \A c \in TagsAt(t, THINK_OPEN_TAG) : c <= m \/ c > q
      BY <1>6, <2>0, <2>00, <3>1
    <3>3. SpokenTo(t, q) = SpokenTo(t, m) \o SubSeq(t, m + 1, q)
      BY <2>0, <2>1, <3>2, ShownIs
    <3>4. \A p \in (q + 1)..n : Letter(t, p) = <<>>
      <4> TAKE p \in (q + 1)..n
      <4>1. p \in o..(o + 2)
        BY <2>0, <3>1
      <4>2. Opens(t, p)
        BY <3>1, <4>1 DEF Opens
      <4> QED BY <4>2 DEF Letter
    <3>5. SpokenTo(t, n) = SpokenTo(t, q)
      BY <2>0, <3>4, SpokenDropped
    <3>6. g.in_think = TRUE /\ pass.shown = SubSeq(t, m + 1, q)
      BY <1>12, <2>1
    <3>7. Thought(t, n + 1)
      <4>1. o + 2 < n + 1 /\ ~\E c \in TagsAt(t, THINK_CLOSE_TAG) : o < c /\ c + 3 < n + 1
        BY <2>0, <2>00, <3>1
      <4> QED BY <3>1, <4>1 DEF Thought
    <3>8. Sought(g) = THINK_CLOSE_TAG
      BY <3>6 DEF Sought
    <3> QED BY <1>9, <1>11, <3>3, <3>5, <3>6, <3>7, <3>8
  <2>2. CASE f.in_think = TRUE
    <3>0. Sought(f) = THINK_CLOSE_TAG
      BY <2>2 DEF Sought
    <3>1. Sought(f) = THINK_CLOSE_TAG /\ n = o + 3 /\ o \in TagsAt(t, THINK_CLOSE_TAG)
      <4>1. Len(Sought(f)) = 4 /\ n = (o - 1) + Len(Sought(f))
        BY <1>8, <3>0, TagLengths
      <4> QED BY <1>5, <2>0, <3>0, <4>1
    <3>2. \A c \in TagsAt(t, THINK_CLOSE_TAG) : c <= m \/ c + 3 >= n
      BY <1>6, <2>0, <2>00, <3>1
    <3>3. SpokenTo(t, n) = SpokenTo(t, m)
      BY <2>0, <2>2, <3>2, HiddenIs
    <3>4. SpokenTo(t, m) \in Seq(D)
      BY <1>1, SpokenToIs DEF L
    <3>5. SpokenTo(t, m) \o <<>> = SpokenTo(t, m) /\ <<>> \in Seq(D)
      BY <3>4
    <3>6. g.in_think = FALSE /\ pass.shown = <<>>
      BY <1>12, <2>2
    <3>7. ~Thought(t, n + 1)
      <4> SUFFICES ASSUME NEW a \in TagsAt(t, THINK_OPEN_TAG), a + 2 < n + 1
                   PROVE  a < o /\ o + 3 < n + 1
        BY <3>1 DEF Thought
      <4> QED BY <2>0, <2>00, <3>1
    <3>8. Sought(g) = THINK_OPEN_TAG
      BY <3>6 DEF Sought
    <3> QED BY <1>9, <3>3, <3>5, <3>6, <3>7, <3>8
  <2> QED BY <1>1, <2>1, <2>2
<1>14. FilterAt(g, t, n)
  BY <1>8, <1>12, <1>13 DEF FilterAt, L
<1>15. Shows(pass, t, m, n) /\ n \in Nat
  <2>1. n \in Nat /\ n >= m /\ n > m
    BY <1>1, <1>8
  <2>2. DOMAIN pass = {"shown", "filter", "again"} /\ pass.again = TRUE /\ FilterAt(pass.filter, t, n)
    BY <1>12, <1>14 DEF g
  <2>3. pass.again \in BOOLEAN /\ pass.again # FALSE
    BY <2>2
  <2>4. SpokenTo(t, n) = SpokenTo(t, m) \o pass.shown
    BY <1>13
  <2> QED BY <2>1, <2>2, <2>3, <2>4 DEF Shows
<1> QED BY <1>13, <1>15 DEF pass

LEMMA PassIs ==
    ASSUME NEW D, NEW t \in Seq(D), NEW f, NEW m, FilterAt(f, t, m)
    PROVE  \E n \in Nat : Shows(Pass(f), t, m, n) /\ Pass(f).shown \in Seq(D)
BY PassTag, PassLast


(* All rounds of push().                                                    *)

\* The rounds of Push, and that they exist.
PushRounds(g, base, N) == g = [k \in 0..N |-> IF k = 0 THEN base ELSE PassOn(g[k - 1])]

LEMMA PassesExist ==
    ASSUME NEW N \in Nat, NEW base
    PROVE  \E g : PushRounds(g, base, N)
<1> DEFINE Solves(g, n) == PushRounds(g, base, n)
           P == {n \in 0..N : \E g : Solves(g, n)}
<1>1. 0 \in P
  <2> DEFINE g == [k \in 0..0 |-> base]
  <2>1. g = [k \in 0..0 |-> IF k = 0 THEN base ELSE PassOn(g[k - 1])]
    OBVIOUS
  <2>2. Solves(g, 0) /\ 0 \in 0..N
    BY <2>1 DEF PushRounds
  <2> HIDE DEF g, Solves
  <2> QED BY <2>2
<1>2. ASSUME NEW n \in 1..N, n - 1 \in P PROVE n \in P
  <2>1. PICK g : Solves(g, n - 1)
    BY <1>2
  <2> DEFINE h == [k \in 0..n |-> IF k = n THEN PassOn(g[n - 1]) ELSE g[k]]
  <2>2. n \in 0..N /\ n \in Nat /\ n # 0
    OBVIOUS
  <2>3. \A k \in 0..n : h[k] = IF k = 0 THEN base ELSE PassOn(h[k - 1])
    <3> TAKE k \in 0..n
    <3>1. CASE k = n
      <4>1. n - 1 \in 0..n /\ n - 1 # n
        BY <2>2
      <4>2. h[n - 1] = g[n - 1] /\ h[n] = PassOn(g[n - 1])
        BY <2>2, <4>1
      <4> QED BY <2>2, <3>1, <4>2
    <3>2. CASE k = 0
      <4>1. 0 \in 0..(n - 1) /\ 0 \in 0..n
        BY <2>2
      <4>2. h[0] = g[0] /\ g[0] = base
        BY <2>1, <2>2, <4>1 DEF PushRounds
      <4> QED BY <3>2, <4>2
    <3>3. CASE k # n /\ k # 0
      <4>1. k \in 0..(n - 1) /\ k - 1 \in 0..n /\ k - 1 # n
        BY <2>2, <3>3
      <4>2. h[k] = g[k] /\ h[k - 1] = g[k - 1]
        BY <3>3, <4>1
      <4>3. g[k] = PassOn(g[k - 1])
        BY <2>1, <3>3, <4>1 DEF PushRounds
      <4> QED BY <3>3, <4>2, <4>3
    <3> QED BY <3>1, <3>2, <3>3
  <2> DEFINE H(k) == IF k = 0 THEN base ELSE PassOn(h[k - 1])
  <2>4. h = [k \in 0..n |-> h[k]]
    OBVIOUS
  <2>5. h = [k \in 0..n |-> IF k = 0 THEN base ELSE PassOn(h[k - 1])]
    <3> HIDE DEF h
    <3> QED BY <2>3, <2>4, Zenon
  <2>6. Solves(h, n)
    BY <2>5 DEF PushRounds
  <2> HIDE DEF h, Solves
  <2> QED BY <2>2, <2>6
<1> HIDE DEF P
<1>3. 0..N \subseteq P
  BY <1>1, <1>2, UpTo
<1>4. N \in P
  BY <1>3
<1> QED BY <1>4 DEF P


\* Another round, if one is needed.
LEMMA PassOnIs ==
    ASSUME NEW D, NEW t \in Seq(D), NEW m \in Nat, m <= Len(t), NEW done, NEW n \in Nat,
           Shows(done, t, m, n), done.shown \in Seq(D), done.again = TRUE
    PROVE  \E l \in Nat : /\ Shows(PassOn(done), t, m, l) /\ PassOn(done).shown \in Seq(D)
                          /\ PassOn(done).again = TRUE => l > n
<1> DEFINE pass == Pass(done.filter)
           next == PassOn(done)
<1>1. FilterAt(done.filter, t, n)
  BY DEF Shows
<1>2. PICK l \in Nat : Shows(pass, t, n, l) /\ pass.shown \in Seq(D)
  BY <1>1, PassIs
<1>3. next = [pass EXCEPT !.shown = done.shown \o pass.shown]
  BY DEF PassOn
<1> HIDE DEF pass, next
<1>4. DOMAIN pass = {"shown", "filter", "again"}
  BY <1>2 DEF Shows
<1>5. /\ DOMAIN next = {"shown", "filter", "again"} /\ next.shown = done.shown \o pass.shown
      /\ next.filter = pass.filter /\ next.again = pass.again
  BY <1>3, <1>4
<1>6. n <= Len(t) /\ m <= n
  BY <1>1 DEF FilterAt, Shows
<1>7. SpokenTo(t, l) = SpokenTo(t, m) \o next.shown /\ next.shown \in Seq(D)
  <2>1. SpokenTo(t, n) = SpokenTo(t, m) \o done.shown /\ SpokenTo(t, l) = SpokenTo(t, n) \o pass.shown
    BY <1>2 DEF Shows
  <2>2. SpokenTo(t, m) \in Seq(D)
    <3>1. m \in 0..Len(t)
      OBVIOUS
    <3> QED BY <3>1, SpokenToIs
  <2> DEFINE a == SpokenTo(t, m)
             b == done.shown
             c == pass.shown
  <2>3. a \in Seq(D) /\ b \in Seq(D) /\ c \in Seq(D)
    BY <1>2, <2>2
  <2>4. SpokenTo(t, l) = (a \o b) \o c
    BY <2>1
  <2> HIDE DEF a, b, c
  <2>5. (a \o b) \o c = a \o (b \o c) /\ b \o c \in Seq(D)
    BY <2>3, Associative, SMTT(40)
  <2> QED BY <1>5, <2>4, <2>5 DEF a, b, c
<1>8. l >= n /\ l >= m /\ (next.again = TRUE => l > n /\ l > m)
  BY <1>2, <1>5, <1>6 DEF Shows
<1>9. FilterAt(next.filter, t, l) /\ next.again \in BOOLEAN /\ (next.again = FALSE => AtRest(next.filter, t, l))
  BY <1>2, <1>5 DEF Shows
<1>10. Shows(next, t, m, l)
  BY <1>5, <1>7, <1>8, <1>9 DEF Shows
<1> QED BY <1>7, <1>8, <1>10 DEF next

LEMMA PushIs ==
    ASSUME NEW D, NEW t \in Seq(D), NEW d \in Seq(D), NEW f, NEW m, FilterAt(f, t, m)
    PROVE  \E n \in Nat : /\ FilterAt(Push(f, d).filter, t \o d, n)
                          /\ AtRest(Push(f, d).filter, t \o d, n)
                          /\ Push(f, d).shown \in Seq(D)
                          /\ SpokenTo(t \o d, n) = SpokenTo(t, m) \o Push(f, d).shown
                          /\ DOMAIN Push(f, d) = {"shown", "filter", "again"}
<1> DEFINE u == t \o d
           before == [f EXCEPT !.pending = f.pending \o d]
           N == Len(before.pending)
           base == Pass(before)
           done == CHOOSE g : PushRounds(g, base, N)
<1>1. Push(f, d) = done[N]
  BY DEF Push, PushRounds
<1>2. FilterAt(before, u, m) /\ SpokenTo(u, m) = SpokenTo(t, m) /\ u \in Seq(D)
  BY FilterMore, ConcatIs
<1> HIDE DEF u, before
<1>3. N = Len(u) - m /\ m \in 0..Len(u) /\ Len(u) \in Nat /\ N \in Nat
  <2>1. m \in 0..Len(u) /\ Len(u) \in m..Len(u) /\ before.pending = SubSeq(u, m + 1, Len(u))
    BY <1>2 DEF FilterAt
  <2>2. N = Len(u) - m
    BY <1>2, <2>1, PartIs
  <2> QED BY <1>2, <2>1, <2>2
<1> HIDE DEF N, base
<1>4. PushRounds(done, base, N)
  BY <1>3, PassesExist
<1> HIDE DEF done
<1>5. done[0] = base /\ \A k \in 1..N : done[k] = PassOn(done[k - 1])
  <2>1. \A k \in 0..N : done[k] = IF k = 0 THEN base ELSE PassOn(done[k - 1])
    BY <1>4 DEF PushRounds
  <2>2. 0 \in 0..N /\ \A k \in 1..N : k \in 0..N /\ k # 0
    BY <1>3
  <2> QED BY <2>1, <2>2
<1> DEFINE Right(x, k, n) == /\ Shows(x, u, m, n) /\ x.shown \in Seq(D)
                             /\ x.again = TRUE => n > m + k
           P == {k \in 0..N : \E n \in Nat : Right(done[k], k, n)}
<1>6. 0 \in P
  <2>1. PICK n \in Nat : Shows(base, u, m, n) /\ base.shown \in Seq(D)
    BY <1>2, PassIs DEF base
  <2>2. base.again = TRUE => n > m + 0
    BY <1>3, <2>1 DEF Shows
  <2>3. Right(base, 0, n)
    BY <2>1, <2>2
  <2>4. 0 \in 0..N
    BY <1>3
  <2> HIDE DEF Right
  <2> QED BY <1>5, <2>3, <2>4
<1>7. ASSUME NEW k \in 1..N, k - 1 \in P PROVE k \in P
  <2> DEFINE x == done[k - 1]
  <2>1. PICK n \in Nat : Right(x, k - 1, n)
    BY <1>7
  <2>2. done[k] = PassOn(x)
    BY <1>5
  <2>3. k \in 0..N /\ k \in Nat
    BY <1>3
  <2> HIDE DEF x
  <2>4. x.again \in BOOLEAN
    BY <2>1 DEF Shows
  <2>5. CASE x.again = FALSE
    <3>1. PassOn(x) = x
      BY <2>5 DEF PassOn
    <3>2. Right(x, k, n)
      BY <2>1, <2>5
    <3> HIDE DEF Right
    <3> QED BY <2>2, <2>3, <3>1, <3>2
  <2>6. CASE x.again = TRUE
    <3>1. PICK l \in Nat : /\ Shows(PassOn(x), u, m, l) /\ PassOn(x).shown \in Seq(D)
                           /\ PassOn(x).again = TRUE => l > n
      <4>1. Shows(x, u, m, n) /\ x.shown \in Seq(D) /\ m \in Nat /\ m <= Len(u)
        BY <1>3, <2>1
      <4> HIDE DEF Right
      <4> QED BY <1>2, <2>6, <4>1, PassOnIs
    <3>2. PassOn(x).again = TRUE => l > m + k
      BY <1>3, <2>1, <2>3, <2>6, <3>1
    <3>3. Right(PassOn(x), k, l)
      BY <3>1, <3>2
    <3> HIDE DEF Right
    <3> QED BY <2>2, <2>3, <3>3
  <2> QED BY <2>4, <2>5, <2>6
<1> HIDE DEF P
<1>8. 0..N \subseteq P
  BY <1>3, <1>6, <1>7, UpTo
<1>9. PICK n \in Nat : Right(done[N], N, n)
  BY <1>3, <1>8 DEF P
<1> DEFINE x == done[N]
<1>10. /\ FilterAt(x.filter, u, n) /\ x.again \in BOOLEAN /\ (x.again = FALSE => AtRest(x.filter, u, n))
       /\ SpokenTo(u, n) = SpokenTo(u, m) \o x.shown /\ DOMAIN x = {"shown", "filter", "again"}
       /\ x.shown \in Seq(D) /\ (x.again = TRUE => n > m + N)
  BY <1>9 DEF Shows
<1> HIDE DEF x
<1>11. x.again = FALSE
  <2>1. n <= Len(u)
    BY <1>10 DEF FilterAt
  <2>2. ASSUME x.again = TRUE PROVE FALSE
    <3>1. n > m + N
      BY <1>10, <2>2
    <3> QED BY <1>3, <2>1, <3>1
  <2> QED BY <1>10, <2>2
<1> QED BY <1>1, <1>2, <1>10, <1>11 DEF u, x

\* What is not shown yet may be the beginning of a tag.
LEMMA AtRestShows ==
    ASSUME NEW D, NEW t \in Seq(D), NEW f, NEW m \in Nat, FilterAt(f, t, m), AtRest(f, t, m)
    PROVE  /\ Spoken(t) = SpokenTo(t, m) \o (IF f.in_think THEN <<>> ELSE f.pending)
           /\ (IF f.in_think THEN <<>> ELSE f.pending) \in Seq(D)
           /\ Len(IF f.in_think THEN <<>> ELSE f.pending) < 3
           /\ SpokenTo(t, m) \in Seq(D)
<1>1. /\ m \in 0..Len(t) /\ Len(t) \in Nat /\ f.pending = SubSeq(t, m + 1, Len(t)) /\ f.in_think \in BOOLEAN
      /\ Len(t) \in m..Len(t)
  BY DEF FilterAt
<1>2. Spoken(t) = SpokenTo(t, Len(t)) /\ SpokenTo(t, m) \in Seq(D)
  BY <1>1, SpokenToIs
<1>3. CASE f.in_think = FALSE
  <2>1. Sought(f) = THINK_OPEN_TAG
    BY <1>3 DEF Sought
  <2>2. \A o \in TagsAt(t, THINK_OPEN_TAG) : o <= m \/ o > Len(t)
    BY <2>1 DEF AtRest
  <2>3. Len(t) - m < 3
    BY <2>1, TagLengths DEF AtRest
  <2>4. SpokenTo(t, Len(t)) = SpokenTo(t, m) \o f.pending
    BY <1>1, <1>3, <2>2, ShownIs
  <2>5. f.pending \in Seq(D) /\ Len(f.pending) = Len(t) - m
    BY <1>1, PartIs
  <2> QED BY <1>2, <1>3, <2>3, <2>4, <2>5
<1>4. CASE f.in_think = TRUE
  <2>1. Sought(f) = THINK_CLOSE_TAG
    BY <1>4 DEF Sought
  <2>2. \A c \in TagsAt(t, THINK_CLOSE_TAG) : c <= m \/ c + 3 >= Len(t)
    BY <2>1 DEF AtRest
  <2>3. SpokenTo(t, Len(t)) = SpokenTo(t, m)
    BY <1>1, <1>4, <2>2, HiddenIs
  <2>4. SpokenTo(t, m) \o <<>> = SpokenTo(t, m) /\ <<>> \in Seq(D) /\ Len(<<>>) = 0
    BY <1>2
  <2> QED BY <1>2, <1>4, <2>3, <2>4
<1> QED BY <1>1, <1>3, <1>4

\* All of a text that is at its end is shown.
LEMMA FilteredLast ==
    ASSUME NEW D, NEW t \in Seq(D), NEW d \in Seq(D), NEW f, NEW m, FilterAt(f, t, m)
    PROVE  /\ Spoken(t \o d) = SpokenTo(t, m) \o Filtered(f, d, TRUE).shown
           /\ Filtered(f, d, TRUE).shown \in Seq(D)
<1> DEFINE u == t \o d
           pushed == Push(f, d)
           g == pushed.filter
           rest == IF g.in_think THEN <<>> ELSE g.pending
<1>1. PICK n \in Nat : /\ FilterAt(g, u, n) /\ AtRest(g, u, n) /\ pushed.shown \in Seq(D)
                       /\ SpokenTo(u, n) = SpokenTo(t, m) \o pushed.shown
  <2>1. \E n \in Nat : /\ FilterAt(Push(f, d).filter, t \o d, n)
                       /\ AtRest(Push(f, d).filter, t \o d, n)
                       /\ Push(f, d).shown \in Seq(D)
                       /\ SpokenTo(t \o d, n) = SpokenTo(t, m) \o Push(f, d).shown
                       /\ DOMAIN Push(f, d) = {"shown", "filter", "again"}
    BY PushIs
  <2> QED BY <2>1
<1>2. u \in Seq(D)
  BY ConcatIs
<1>3. Filtered(f, d, TRUE).shown = pushed.shown \o rest
  BY DEF Filtered
<1> HIDE DEF u, pushed
<1>4. Spoken(u) = SpokenTo(u, n) \o rest /\ rest \in Seq(D)
  BY <1>1, <1>2, AtRestShows
<1>5. SpokenTo(t, m) \in Seq(D)
  <2>1. m \in 0..Len(t)
    BY DEF FilterAt
  <2> QED BY <2>1, SpokenToIs
<1> HIDE DEF rest
<1>6. (SpokenTo(t, m) \o pushed.shown) \o rest = SpokenTo(t, m) \o (pushed.shown \o rest)
  <2> DEFINE a == SpokenTo(t, m)
             b == pushed.shown
  <2>1. a \in Seq(D) /\ b \in Seq(D) /\ rest \in Seq(D)
    BY <1>1, <1>4, <1>5
  <2> HIDE DEF a, b
  <2>2. (a \o b) \o rest = a \o (b \o rest)
    <3>1. \A x, y, z \in Seq(D) : (x \o y) \o z = x \o (y \o z)
      BY Associative
    <3> QED BY <2>1, <3>1
  <2> QED BY <2>2 DEF a, b
<1>7. pushed.shown \o rest \in Seq(D)
  BY <1>1, <1>4, ConcatIs
<1> QED BY <1>1, <1>3, <1>4, <1>6, <1>7 DEF u


(* The text of an answer and the events of it.                              *)

Alphabet == UNION {Range(Text(body[i])) : i \in 1..Len(body)}

\* What AnswersAssumption says of an answer of the model.
IsText ==
    /\ Len(body) \in Nat
    /\ \A i \in 1..Len(body) :
          /\ Text(body[i]) \in Seq(Alphabet)
          /\ body[i].field = "data" => body[i].final \in BOOLEAN

\* The text of the first r lines.
SaidTo(r) == FlattenSeq([i \in 1..r |-> Text(body[i])])

NoEnd(r) == \A i \in 1..r : ~EndsText(body[i])
FirstEnd(l) == EndsText(body[l]) /\ NoEnd(l - 1)

\* What the first n of the events o show.
GivenTo(o, n) == FlattenSeq([e \in 1..n |-> Shown(o[e])])
Readable(o, n) == \A e \in 1..n : Shown(o[e]) \in Seq(Alphabet)

\* The text of the first l lines is not at its end, and was given but for what
\* the filter f holds back.
Opened(o, l, f) ==
    /\ \A e \in 1..Len(o) : ~IsLast(o[e])
    /\ Readable(o, Len(o))
    /\ \E m \in Nat : /\ FilterAt(f, SaidTo(l), m) /\ AtRest(f, SaidTo(l), m)
                      /\ GivenTo(o, Len(o)) = SpokenTo(SaidTo(l), m)

\* It was given whole.
Closed(o, l) ==
    \E x \in 1..Len(o) :
        /\ IsLast(o[x]) /\ \A e \in 1..(x - 1) : ~IsLast(o[e])
        /\ Readable(o, x) /\ GivenTo(o, x) = Spoken(SaidTo(l))

\* What q knows and what it gave, after r lines of text.
TextTold(q, r) ==
    /\ DOMAIN q = Fields /\ \E E : q.events \in Seq(E)
    /\ \/ NoEnd(r) /\ Opened(q.events, r, q.filter)
       \/ \E l \in 1..r : FirstEnd(l) /\ Closed(q.events, l)
       \/ q.stop = "all" /\ r # 0 /\ FirstEnd(r) /\ Opened(q.events, r, q.filter)

\* What was given of r lines of text.
TextOf(o, r) ==
    /\ \E E : o \in Seq(E)
    /\ \E l \in 0..r :
          /\ (l = r /\ NoEnd(r)) \/ (l # 0 /\ FirstEnd(l))
          /\ Closed(o, l) \/ \E f : Opened(o, l, f)

LEMMA SaidToIs ==
    ASSUME IsText, NEW r \in 0..Len(body)
    PROVE  /\ SaidTo(r) \in Seq(Alphabet) /\ SaidTo(0) = <<>>
           /\ r # 0 => SaidTo(r) = SaidTo(r - 1) \o Text(body[r])
<1> DEFINE s == [i \in 1..Len(body) |-> Text(body[i])]
<1>1. r \in Nat /\ \A i \in 1..r : s[i] \in Seq(Alphabet) /\ s[i] = Text(body[i])
  BY DEF IsText
<1> HIDE DEF s
<1>2. ASSUME NEW k \in 0..r PROVE SaidTo(k) = FlattenSeq([i \in 1..k |-> s[i]])
  <2>1. \A i \in 1..k : Text(body[i]) = s[i]
    BY <1>1
  <2>2. [i \in 1..k |-> Text(body[i])] = [i \in 1..k |-> s[i]]
    BY <2>1
  <2> QED BY <2>2 DEF SaidTo
<1>3. SaidTo(r) \in Seq(Alphabet)
  <2>1. FlattenSeq([i \in 1..r |-> s[i]]) \in Seq(Alphabet)
    BY <1>1, FlattenSome
  <2>2. r \in 0..r
    BY <1>1
  <2> QED BY <1>2, <2>1, <2>2
<1>4. SaidTo(0) = <<>>
  <2>1. FlattenSeq([i \in 1..0 |-> s[i]]) = <<>> /\ 0 \in 0..r
    BY <1>1, FlattenNone
  <2> QED BY <1>2, <2>1
<1>5. ASSUME r # 0 PROVE SaidTo(r) = SaidTo(r - 1) \o Text(body[r])
  <2>1. r \in Nat \ {0} /\ r \in 0..r /\ r - 1 \in 0..r /\ r \in 1..r
    BY <1>1, <1>5
  <2>2. FlattenSeq([i \in 1..r |-> s[i]]) = FlattenSeq([i \in 1..(r - 1) |-> s[i]]) \o s[r]
    BY <1>1, <2>1, FlattenNext
  <2> QED BY <1>1, <1>2, <2>1, <2>2
<1> QED BY <1>3, <1>4, <1>5

\* One event more.
LEMMA GivenMore ==
    ASSUME NEW o, \E E : o \in Seq(E), NEW x
    PROVE  /\ \A n \in 0..Len(o) : /\ GivenTo(Append(o, x), n) = GivenTo(o, n)
                                   /\ Readable(Append(o, x), n) <=> Readable(o, n)
           /\ Readable(o, Len(o)) /\ Shown(x) \in Seq(Alphabet) =>
                 /\ Readable(Append(o, x), Len(o) + 1)
                 /\ GivenTo(Append(o, x), Len(o) + 1) = GivenTo(o, Len(o)) \o Shown(x)
<1> DEFINE p == Append(o, x)
<1>1. /\ \E E : p \in Seq(E)
      /\ Len(o) \in Nat /\ Len(p) = Len(o) + 1 /\ p[Len(o) + 1] = x
      /\ \A i \in 1..Len(o) : p[i] = o[i]
  <2>1. IsAppended(p, o, x)
    BY AppendAny
  <2> QED BY <2>1 DEF IsAppended
<1> HIDE DEF p
<1>2. ASSUME NEW n \in 0..Len(o)
      PROVE  GivenTo(p, n) = GivenTo(o, n) /\ (Readable(p, n) <=> Readable(o, n))
  <2>1. \A e \in 1..n : Shown(p[e]) = Shown(o[e])
    BY <1>1
  <2>2. [e \in 1..n |-> Shown(p[e])] = [e \in 1..n |-> Shown(o[e])]
    BY <2>1
  <2>3. Readable(p, n) <=> Readable(o, n)
    BY <2>1 DEF Readable
  <2> QED BY <2>2, <2>3 DEF GivenTo
<1>3. ASSUME Readable(o, Len(o)), Shown(x) \in Seq(Alphabet)
      PROVE  /\ Readable(p, Len(o) + 1)
             /\ GivenTo(p, Len(o) + 1) = GivenTo(o, Len(o)) \o Shown(x)
  <2> DEFINE n == Len(o) + 1
             s == [e \in 1..n |-> Shown(p[e])]
  <2>1. n \in Nat \ {0} /\ n - 1 = Len(o) /\ n - 1 \in 0..Len(o) /\ n \in 1..n
        /\ \A e \in 1..n : e = n \/ e \in 1..Len(o)
    BY <1>1
  <2>2. \A e \in 1..n : Shown(p[e]) \in Seq(Alphabet)
    BY <1>1, <1>3, <2>1 DEF Readable
  <2>3. s[n] = Shown(x) /\ \A e \in 1..n : s[e] = Shown(p[e])
    BY <1>1, <2>1
  <2> HIDE DEF s, n
  <2>4. FlattenSeq([e \in 1..n |-> s[e]]) = FlattenSeq([e \in 1..(n - 1) |-> s[e]]) \o s[n]
    BY <2>1, <2>2, <2>3, FlattenNext
  <2>5. [e \in 1..n |-> s[e]] = [e \in 1..n |-> Shown(p[e])]
    BY <2>3
  <2>6. [e \in 1..(n - 1) |-> s[e]] = [e \in 1..(n - 1) |-> Shown(p[e])]
    <3>1. \A e \in 1..(n - 1) : e \in 1..n
      BY <2>1
    <3> QED BY <2>3, <3>1
  <2>7. GivenTo(p, n) = GivenTo(p, n - 1) \o Shown(x)
    BY <2>3, <2>4, <2>5, <2>6 DEF GivenTo
  <2>8. GivenTo(p, n) = GivenTo(o, Len(o)) \o Shown(x)
    BY <1>2, <2>1, <2>7
  <2> QED BY <2>2, <2>8 DEF n, Readable
<1> QED BY <1>2, <1>3 DEF p

\* What is not text leaves the text as it is.
LEMMA OpenedOther ==
    ASSUME NEW o, \E E : o \in Seq(E), NEW l, NEW f, Opened(o, l, f), NEW x, ~IsLast(x), Shown(x) = <<>>
    PROVE  Opened(Append(o, x), l, f)
<1> DEFINE p == Append(o, x)
<1>1. /\ Len(o) \in Nat /\ Len(p) = Len(o) + 1 /\ p[Len(o) + 1] = x
      /\ \A i \in 1..Len(o) : p[i] = o[i]
  <2>1. IsAppended(p, o, x)
    BY AppendAny
  <2> QED BY <2>1 DEF IsAppended
<1>2. Readable(o, Len(o)) /\ Shown(x) \in Seq(Alphabet) /\ \A e \in 1..Len(o) : ~IsLast(o[e])
  <2>1. Readable(o, Len(o)) /\ \A e \in 1..Len(o) : ~IsLast(o[e])
    BY DEF Opened
  <2>2. <<>> \in Seq(Alphabet)
    OBVIOUS
  <2> QED BY <2>1, <2>2
<1>3. Readable(p, Len(o) + 1) /\ GivenTo(p, Len(o) + 1) = GivenTo(o, Len(o)) \o <<>>
  <2>1. Readable(p, Len(o) + 1) /\ GivenTo(p, Len(o) + 1) = GivenTo(o, Len(o)) \o Shown(x)
    BY <1>2, GivenMore
  <2> QED BY <2>1
<1>4. GivenTo(o, Len(o)) \in Seq(Alphabet)
  <2> DEFINE s == [e \in 1..Len(o) |-> Shown(o[e])]
             n == Len(o)
  <2>1. n \in Nat /\ \A i \in 1..n : s[i] \in Seq(Alphabet)
    BY <1>1, <1>2 DEF Readable
  <2>2. [e \in 1..n |-> s[e]] = s
    OBVIOUS
  <2> HIDE DEF s, n
  <2>3. FlattenSeq([e \in 1..n |-> s[e]]) \in Seq(Alphabet)
    BY <2>1, FlattenSome
  <2> QED BY <2>2, <2>3 DEF GivenTo, s, n
<1>5. GivenTo(p, Len(p)) = GivenTo(o, Len(o)) /\ Readable(p, Len(p))
  BY <1>1, <1>3, <1>4
<1> HIDE DEF p
<1>6. \A e \in 1..Len(p) : ~IsLast(p[e])
  <2>1. \A e \in 1..Len(p) : e = Len(o) + 1 \/ e \in 1..Len(o)
    BY <1>1
  <2> QED BY <1>1, <1>2, <2>1
<1>7. Opened(p, l, f)
  BY <1>5, <1>6 DEF Opened
<1> QED BY <1>7 DEF p

\* What comes behind the end leaves it as it was.
LEMMA ClosedMore ==
    ASSUME NEW o, \E E : o \in Seq(E), NEW l, Closed(o, l), NEW x
    PROVE  Closed(Append(o, x), l)
<1> DEFINE p == Append(o, x)
<1>1. /\ Len(o) \in Nat /\ Len(p) = Len(o) + 1 /\ \A i \in 1..Len(o) : p[i] = o[i]
  <2>1. IsAppended(p, o, x)
    BY AppendAny
  <2> QED BY <2>1 DEF IsAppended
<1>2. PICK k \in 1..Len(o) :
        /\ IsLast(o[k]) /\ \A e \in 1..(k - 1) : ~IsLast(o[e])
        /\ Readable(o, k) /\ GivenTo(o, k) = Spoken(SaidTo(l))
  BY DEF Closed
<1>3. k \in 0..Len(o) /\ k \in 1..Len(p) /\ \A e \in 1..(k - 1) : e \in 1..Len(o)
  BY <1>1
<1>4. Readable(p, k) /\ GivenTo(p, k) = Spoken(SaidTo(l))
  BY <1>2, <1>3, GivenMore
<1> HIDE DEF p
<1>5. IsLast(p[k]) /\ \A e \in 1..(k - 1) : ~IsLast(p[e])
  BY <1>1, <1>2, <1>3
<1>6. Closed(p, l)
  BY <1>3, <1>4, <1>5 DEF Closed
<1> QED BY <1>6 DEF p


(* The model's line.                                                        *)

\* An event, and what it shows.
LEMMA ShownBy ==
    /\ \A why : ~IsLast(Failed(why)) /\ Shown(Failed(why)) = <<>>
    /\ \A text, last : Shown(Delta(text, last)) = text /\ (IsLast(Delta(text, last)) <=> last)
BY DEF IsLast, Shown, Failed, Delta

\* What the model's line does, case by case.
LEMMA ReadLlmIs ==
    ASSUME NEW p, DOMAIN p = Fields, NEW line,
           line.field = "data" => line.final \in BOOLEAN
    PROVE  \/ line.field = "junk" /\ ReadLlm(p, line) = Give(p, Failed("Decode"), "all")
           \/ line.field \notin {"junk", "data"} /\ ReadLlm(p, line) = p
           \/ /\ line.field = "data" /\ line.final = FALSE
              /\ LET out == Push(p.filter, line.said)
                     q   == [p EXCEPT !.filter = out.filter]
                 IN  \/ out.shown = <<>> /\ ReadLlm(p, line) = q
                     \/ ReadLlm(p, line) = Give(q, Delta(out.shown, FALSE), "no")
           \/ /\ line.field = "data" /\ line.final = TRUE
              /\ LET out == Filtered(p.filter, line.said, TRUE)
                     q   == [p EXCEPT !.filter = out.filter]
                 IN  ReadLlm(p, line) = Give(q, Delta(out.shown, TRUE), "no")
<1> DEFINE out == Filtered(p.filter, line.said, line.final)
           q   == [p EXCEPT !.filter = out.filter]
<1>1. ReadLlm(p, line) =
          IF line.field = "junk" THEN Give(p, Failed("Decode"), "all")
          ELSE IF line.field # "data" THEN p
          ELSE IF out.shown = <<>> /\ ~line.final THEN q
          ELSE Give(q, Delta(out.shown, line.final), "no")
  BY Zenon DEF ReadLlm
<1>2. CASE line.field = "junk"
  BY <1>1, <1>2, Zenon
<1>3. CASE line.field \notin {"junk", "data"}
  <2>1. line.field # "junk" /\ line.field # "data"
    BY <1>3
  <2> HIDE DEF out, q
  <2>2. ReadLlm(p, line) = p
    BY <1>1, <2>1
  <2> QED BY <1>3, <2>2
<1>4. CASE line.field = "data" /\ line.final = FALSE
  <2>1. out = Push(p.filter, line.said)
    BY <1>4 DEF Filtered
  <2>2. line.field # "junk"
    BY <1>4
  <2> HIDE DEF out
  <2>3. CASE out.shown = <<>>
    <3>1. ReadLlm(p, line) = q
      BY <1>1, <1>4, <2>2, <2>3, Zenon
    <3> QED BY <1>4, <2>1, <2>3, <3>1, Zenon
  <2>4. CASE out.shown # <<>>
    <3>1. ReadLlm(p, line) = Give(q, Delta(out.shown, FALSE), "no")
      BY <1>1, <1>4, <2>2, <2>4, Zenon
    <3> QED BY <1>4, <2>1, <3>1, Zenon
  <2> QED BY <2>3, <2>4
<1>5. CASE line.field = "data" /\ line.final = TRUE
  <2>2. line.field # "junk"
    BY <1>5
  <2>3. out = Filtered(p.filter, line.said, TRUE)
    BY <1>5
  <2> HIDE DEF out
  <2>4. ReadLlm(p, line) = Give(q, Delta(out.shown, TRUE), "no")
    BY <1>1, <1>5, <2>2, Zenon
  <2> QED BY <1>5, <2>3, <2>4, Zenon
<1> QED BY <1>2, <1>3, <1>4, <1>5

\* What is said of the events so far is a sequence of letters.
LEMMA GivenIs ==
    ASSUME NEW o, Len(o) \in Nat, NEW n \in 0..Len(o), Readable(o, n)
    PROVE  GivenTo(o, n) \in Seq(Alphabet)
<1> DEFINE s == [e \in 1..n |-> Shown(o[e])]
<1>1. n \in Nat /\ \A i \in 1..n : s[i] \in Seq(Alphabet)
  BY DEF Readable
<1>2. [e \in 1..n |-> s[e]] = s
  OBVIOUS
<1> HIDE DEF s
<1>3. FlattenSeq([e \in 1..n |-> s[e]]) \in Seq(Alphabet)
  BY <1>1, FlattenSome
<1> QED BY <1>2, <1>3 DEF GivenTo, s

\* Text that is not the last is shown but for what the filter holds back.
LEMMA OpenedText ==
    ASSUME IsText, NEW r \in Nat, r + 1 <= Len(body),
           NEW o, \E E : o \in Seq(E), NEW f, Opened(o, r, f),
           NEW out, out = Push(f, Text(body[r + 1]))
    PROVE  /\ out.shown = <<>> => Opened(o, r + 1, out.filter)
           /\ Opened(Append(o, Delta(out.shown, FALSE)), r + 1, out.filter)
<1> DEFINE x == Delta(out.shown, FALSE)
           p == Append(o, x)
           d == Text(body[r + 1])
           t == SaidTo(r)
           u == SaidTo(r + 1)
<1>1. t \in Seq(Alphabet) /\ u = t \o d /\ d \in Seq(Alphabet)
  <2>1. Len(body) \in Nat /\ r \in 0..Len(body) /\ r + 1 \in 0..Len(body) /\ r + 1 # 0 /\ r + 1 \in 1..Len(body)
        /\ (r + 1) - 1 = r
    BY DEF IsText
  <2>2. SaidTo(r) \in Seq(Alphabet)
    BY <2>1, SaidToIs
  <2>3. SaidTo(r + 1) = SaidTo((r + 1) - 1) \o Text(body[r + 1])
    BY <2>1, SaidToIs
  <2>4. Text(body[r + 1]) \in Seq(Alphabet)
    BY <2>1 DEF IsText
  <2> QED BY <2>1, <2>2, <2>3, <2>4
<1>2. PICK m \in Nat : /\ FilterAt(f, t, m) /\ AtRest(f, t, m)
                       /\ GivenTo(o, Len(o)) = SpokenTo(t, m)
  BY DEF Opened
<1>3. Readable(o, Len(o)) /\ \A e \in 1..Len(o) : ~IsLast(o[e])
  BY DEF Opened
<1>4. /\ Len(o) \in Nat /\ Len(p) = Len(o) + 1 /\ p[Len(o) + 1] = x
      /\ \A i \in 1..Len(o) : p[i] = o[i]
  <2>1. IsAppended(p, o, x)
    BY AppendAny
  <2> QED BY <2>1 DEF IsAppended
<1>5. ~IsLast(x) /\ Shown(x) = out.shown
  BY ShownBy
<1>6. GivenTo(o, Len(o)) \in Seq(Alphabet)
  <2>1. Len(o) \in 0..Len(o)
    BY <1>4
  <2> QED BY <1>3, <1>4, <2>1, GivenIs
<1>7. \A y : Shown(y) \in Seq(Alphabet) =>
         /\ Readable(Append(o, y), Len(o) + 1)
         /\ GivenTo(Append(o, y), Len(o) + 1) = GivenTo(o, Len(o)) \o Shown(y)
  BY <1>3, GivenMore
<1>8. out.shown \in Seq(Alphabet) =>
         Readable(p, Len(p)) /\ (GivenTo(p, Len(p)) = GivenTo(o, Len(o)) \o out.shown)
  BY <1>4, <1>5, <1>7
<1> HIDE DEF d, t, u
<1>9. out = Push(f, d)
  BY DEF d
<1> HIDE DEF p, x
<1>10. PICK n \in Nat : /\ FilterAt(out.filter, u, n) /\ AtRest(out.filter, u, n)
                        /\ out.shown \in Seq(Alphabet)
                        /\ SpokenTo(u, n) = SpokenTo(t, m) \o out.shown
  <2>1. \E n \in Nat : /\ FilterAt(Push(f, d).filter, t \o d, n)
                       /\ AtRest(Push(f, d).filter, t \o d, n)
                       /\ Push(f, d).shown \in Seq(Alphabet)
                       /\ SpokenTo(t \o d, n) = SpokenTo(t, m) \o Push(f, d).shown
                       /\ DOMAIN Push(f, d) = {"shown", "filter", "again"}
    BY <1>1, <1>2, PushIs
  <2> QED BY <1>1, <1>9, <2>1
<1>11. ASSUME out.shown = <<>> PROVE Opened(o, r + 1, out.filter)
  <2>1. GivenTo(o, Len(o)) = SpokenTo(u, n)
    BY <1>2, <1>6, <1>10, <1>11
  <2> QED BY <1>3, <1>10, <2>1 DEF Opened, u
<1>12. Opened(p, r + 1, out.filter)
  <2>1. GivenTo(p, Len(p)) = SpokenTo(u, n) /\ Readable(p, Len(p))
    BY <1>2, <1>8, <1>10
  <2>2. \A e \in 1..Len(p) : ~IsLast(p[e])
    <3>1. \A e \in 1..Len(p) : e = Len(o) + 1 \/ e \in 1..Len(o)
      BY <1>4
    <3> QED BY <1>3, <1>4, <1>5, <3>1
  <2> QED BY <1>10, <2>1, <2>2 DEF Opened, u
<1> QED BY <1>11, <1>12 DEF p, x

\* With the last of the text it is shown whole.
LEMMA ClosedText ==
    ASSUME IsText, NEW r \in Nat, r + 1 <= Len(body),
           NEW o, \E E : o \in Seq(E), NEW f, Opened(o, r, f)
    PROVE  Closed(Append(o, Delta(Filtered(f, Text(body[r + 1]), TRUE).shown, TRUE)), r + 1)
<1> DEFINE out == Filtered(f, Text(body[r + 1]), TRUE)
           x == Delta(out.shown, TRUE)
           p == Append(o, x)
           d == Text(body[r + 1])
           t == SaidTo(r)
           u == SaidTo(r + 1)
<1>1. t \in Seq(Alphabet) /\ u = t \o d /\ d \in Seq(Alphabet)
  <2>1. Len(body) \in Nat /\ r \in 0..Len(body) /\ r + 1 \in 0..Len(body) /\ r + 1 # 0 /\ r + 1 \in 1..Len(body)
        /\ (r + 1) - 1 = r
    BY DEF IsText
  <2>2. SaidTo(r) \in Seq(Alphabet)
    BY <2>1, SaidToIs
  <2>3. SaidTo(r + 1) = SaidTo((r + 1) - 1) \o Text(body[r + 1])
    BY <2>1, SaidToIs
  <2>4. Text(body[r + 1]) \in Seq(Alphabet)
    BY <2>1 DEF IsText
  <2> QED BY <2>1, <2>2, <2>3, <2>4
<1>2. PICK m \in Nat : /\ FilterAt(f, t, m) /\ AtRest(f, t, m)
                       /\ GivenTo(o, Len(o)) = SpokenTo(t, m)
  BY DEF Opened
<1>3. Readable(o, Len(o)) /\ \A e \in 1..Len(o) : ~IsLast(o[e])
  BY DEF Opened
<1>4. /\ Len(o) \in Nat /\ Len(p) = Len(o) + 1 /\ p[Len(o) + 1] = x
      /\ \A i \in 1..Len(o) : p[i] = o[i]
  <2>1. IsAppended(p, o, x)
    BY AppendAny
  <2> QED BY <2>1 DEF IsAppended
<1>5. IsLast(x) /\ Shown(x) = out.shown
  BY ShownBy
<1>6. \A y : Shown(y) \in Seq(Alphabet) =>
         /\ Readable(Append(o, y), Len(o) + 1)
         /\ GivenTo(Append(o, y), Len(o) + 1) = GivenTo(o, Len(o)) \o Shown(y)
  BY <1>3, GivenMore
<1>7. out = Filtered(f, d, TRUE)
  OBVIOUS
<1> HIDE DEF d, t, u, out
<1>8. Spoken(u) = SpokenTo(t, m) \o out.shown /\ out.shown \in Seq(Alphabet)
  <2>1. /\ Spoken(t \o d) = SpokenTo(t, m) \o Filtered(f, d, TRUE).shown
        /\ Filtered(f, d, TRUE).shown \in Seq(Alphabet)
    <3>1. t \in Seq(Alphabet) /\ d \in Seq(Alphabet) /\ FilterAt(f, t, m)
      BY <1>1, <1>2
    <3> QED BY <3>1, FilteredLast
  <2> QED BY <1>1, <1>7, <2>1
<1>9. Readable(p, Len(p)) /\ GivenTo(p, Len(p)) = Spoken(u)
  <2>1. Shown(x) \in Seq(Alphabet)
    BY <1>5, <1>8
  <2>2. Readable(p, Len(o) + 1) /\ GivenTo(p, Len(o) + 1) = GivenTo(o, Len(o)) \o Shown(x)
    BY <1>6, <2>1
  <2> HIDE DEF p, x
  <2> QED BY <1>2, <1>4, <1>5, <1>8, <2>2
<1> HIDE DEF p, x
<1>10. \A e \in 1..(Len(p) - 1) : ~IsLast(p[e])
  <2>1. \A e \in 1..(Len(p) - 1) : e \in 1..Len(o)
    BY <1>4
  <2> QED BY <1>3, <1>4, <2>1
<1>11. Len(p) \in 1..Len(p) /\ IsLast(p[Len(p)])
  BY <1>4, <1>5
<1>12. Closed(p, r + 1)
  BY <1>9, <1>10, <1>11 DEF Closed, u
<1> QED BY <1>12 DEF p, x, out


\* Whether the text was at its end before line r + 1, and is behind it.
LEMMA EndNext ==
    ASSUME NEW r \in Nat
    PROVE  /\ NoEnd(r) /\ ~EndsText(body[r + 1]) => NoEnd(r + 1)
           /\ NoEnd(r) /\ EndsText(body[r + 1]) => FirstEnd(r + 1)
<1>1. \A i \in 1..(r + 1) : i = r + 1 \/ i \in 1..r
  OBVIOUS
<1>2. (r + 1) - 1 = r
  OBVIOUS
<1> QED BY <1>1, <1>2 DEF NoEnd, FirstEnd

\* A line without text.
LEMMA OpenedSilent ==
    ASSUME IsText, NEW r \in Nat, r + 1 <= Len(body), Text(body[r + 1]) = <<>>,
           NEW o, NEW f, Opened(o, r, f)
    PROVE  Opened(o, r + 1, f)
<1>1. Len(body) \in Nat /\ r + 1 \in 0..Len(body) /\ r \in 0..Len(body) /\ r + 1 # 0 /\ (r + 1) - 1 = r
  BY DEF IsText
<1>2. SaidTo(r) \in Seq(Alphabet) /\ SaidTo(r + 1) = SaidTo((r + 1) - 1) \o Text(body[r + 1])
  BY <1>1, SaidToIs
<1>3. SaidTo(r + 1) = SaidTo(r)
  BY <1>1, <1>2
<1> QED BY <1>3 DEF Opened

\* A line is read as it was said.
LEMMA ReadLlmKeeps ==
    ASSUME IsText, NEW r \in Nat, r + 1 <= Len(body), NEW p, TextTold(p, r), p.stop = "no"
    PROVE  /\ TextTold(ReadLlm(p, body[r + 1]), r + 1)
           /\ ReadLlm(p, body[r + 1]).sse_buf = p.sse_buf
           /\ ReadLlm(p, body[r + 1]).stop \in {"no", "all"}
           /\ ReadLlm(p, body[r + 1]).stop = "all" => EndsText(body[r + 1])
<1> DEFINE line == body[r + 1]
           q == ReadLlm(p, line)
           i == r + 1
           o == p.events
<1> SUFFICES TextTold(q, i) /\ q.sse_buf = p.sse_buf /\ q.stop \in {"no", "all"} /\ (q.stop = "all" => EndsText(line))
  OBVIOUS
<1>1. DOMAIN p = Fields /\ \E E : o \in Seq(E)
  BY DEF TextTold
<1>2. i \in 1..Len(body) /\ i \in Nat /\ i # 0 /\ Len(body) \in Nat
  BY DEF IsText
<1>3. line.field = "data" => line.final \in BOOLEAN
  BY <1>2 DEF IsText
<1>4. \/ NoEnd(r) /\ Opened(o, r, p.filter)
      \/ \E l \in 1..r : FirstEnd(l) /\ Closed(o, l)
  BY DEF TextTold
<1>5. /\ NoEnd(r) /\ ~EndsText(line) => NoEnd(i)
      /\ NoEnd(r) /\ EndsText(line) => FirstEnd(i)
  BY EndNext
<1>6. \A x : \E E : Append(o, x) \in Seq(E)
  <2>1. ASSUME NEW x PROVE IsAppended(Append(o, x), o, x)
    BY <1>1, AppendAny
  <2> QED BY <2>1 DEF IsAppended
<1>7. ASSUME NEW l \in 1..r, FirstEnd(l), Closed(o, l), NEW x
      PROVE  \E m \in 1..i : FirstEnd(m) /\ Closed(o, m) /\ Closed(Append(o, x), m)
  <2>1. l \in 1..i
    BY <1>2
  <2>2. Closed(Append(o, x), l)
    BY <1>1, <1>7, ClosedMore
  <2> QED BY <1>7, <2>1, <2>2
<1>8. /\ line.field = "data" => Text(line) = line.said
      /\ line.field # "data" => Text(line) = <<>>
      /\ EndsText(line) <=> line.field = "junk" \/ (line.field = "data" /\ line.final)
  BY DEF Text, EndsText
<1> DEFINE Moved(filter) == [p EXCEPT !.filter = filter]
<1>9. \A filter : /\ DOMAIN Moved(filter) = Fields /\ Moved(filter).events = o
                  /\ Moved(filter).filter = filter /\ Moved(filter).stop = "no"
                  /\ Moved(filter).sse_buf = p.sse_buf
  BY <1>1 DEF Fields
<1>10. ASSUME NEW y, DOMAIN y = Fields, NEW x, NEW stop
       PROVE  /\ DOMAIN Give(y, x, stop) = Fields /\ Give(y, x, stop).events = Append(y.events, x)
              /\ Give(y, x, stop).stop = stop /\ Give(y, x, stop).filter = y.filter
              /\ Give(y, x, stop).sse_buf = y.sse_buf
  BY <1>10 DEF Give, Fields
<1> HIDE DEF Moved
<1> USE DEF TextTold
<1>11. CASE line.field = "junk" /\ q = Give(p, Failed("Decode"), "all")
  <2> DEFINE x == Failed("Decode")
  <2>1. ~IsLast(x) /\ Shown(x) = <<>>
    BY ShownBy
  <2>2. DOMAIN q = Fields /\ q.events = Append(o, x) /\ q.stop = "all" /\ q.filter = p.filter /\ q.sse_buf = p.sse_buf
    BY <1>1, <1>10, <1>11
  <2>3. EndsText(line) /\ Text(line) = <<>>
    BY <1>8, <1>11
  <2> HIDE DEF x, q
  <2>4. CASE NoEnd(r) /\ Opened(o, r, p.filter)
    <3>1. Opened(Append(o, x), r, p.filter)
      BY <1>1, <2>1, <2>4, OpenedOther
    <3>2. Opened(Append(o, x), i, p.filter)
      BY <2>3, <3>1, OpenedSilent
    <3> QED BY <1>2, <1>5, <1>6, <2>2, <2>3, <2>4, <3>2
  <2>5. CASE \E l \in 1..r : FirstEnd(l) /\ Closed(o, l)
    <3>1. \E m \in 1..i : FirstEnd(m) /\ Closed(Append(o, x), m)
      BY <1>7, <2>5
    <3> QED BY <1>6, <2>2, <2>3, <3>1
  <2> QED BY <1>4, <2>4, <2>5
<1>12. CASE line.field \notin {"junk", "data"} /\ q = p
  <2>1. ~EndsText(line) /\ Text(line) = <<>>
    BY <1>8, <1>12
  <2> HIDE DEF q
  <2>2. CASE NoEnd(r) /\ Opened(o, r, p.filter)
    <3>1. Opened(o, i, p.filter)
      BY <2>1, <2>2, OpenedSilent
    <3> QED BY <1>1, <1>5, <1>12, <2>1, <2>2, <3>1
  <2>3. CASE \E l \in 1..r : FirstEnd(l) /\ Closed(o, l)
    <3>1. \E m \in 1..i : FirstEnd(m) /\ Closed(o, m)
      BY <1>7, <2>3
    <3> QED BY <1>1, <1>12, <3>1
  <2> QED BY <1>4, <2>2, <2>3
<1>13. CASE /\ line.field = "data" /\ line.final = FALSE
            /\ LET out == Push(p.filter, line.said)
                   y   == [p EXCEPT !.filter = out.filter]
               IN  \/ out.shown = <<>> /\ q = y
                   \/ q = Give(y, Delta(out.shown, FALSE), "no")
  <2> DEFINE out == Push(p.filter, line.said)
             x == Delta(out.shown, FALSE)
             y == Moved(out.filter)
  <2>1. (out.shown = <<>> /\ q = y) \/ q = Give(y, x, "no")
    BY <1>13 DEF Moved
  <2>2. ~EndsText(line) /\ Text(line) = line.said
    BY <1>8, <1>13
  <2>3. /\ DOMAIN y = Fields /\ y.events = o /\ y.filter = out.filter /\ y.stop = "no"
        /\ y.sse_buf = p.sse_buf
    BY <1>9
  <2>4. out = Push(p.filter, Text(body[r + 1]))
    BY <2>2
  <2> HIDE DEF x, q, y
  <2>5. ASSUME Opened(o, r, p.filter)
        PROVE  /\ out.shown = <<>> => Opened(o, i, out.filter)
               /\ Opened(Append(o, x), i, out.filter)
    <3> HIDE DEF out
    <3> QED BY <1>1, <2>4, <2>5, OpenedText DEF x
  <2> HIDE DEF out
  <2>6. CASE out.shown = <<>> /\ q = y
    <3>1. CASE NoEnd(r) /\ Opened(o, r, p.filter)
      BY <1>1, <1>5, <2>2, <2>3, <2>5, <2>6, <3>1
    <3>2. CASE \E l \in 1..r : FirstEnd(l) /\ Closed(o, l)
      <4>1. \E m \in 1..i : FirstEnd(m) /\ Closed(o, m)
        BY <1>7, <3>2
      <4> QED BY <1>1, <2>3, <2>6, <4>1
    <3> QED BY <1>4, <3>1, <3>2
  <2>7. CASE q = Give(y, x, "no")
    <3>0. /\ DOMAIN q = Fields /\ q.events = Append(o, x) /\ q.stop = "no" /\ q.filter = out.filter
          /\ q.sse_buf = p.sse_buf
      BY <1>10, <2>3, <2>7, SMTT(40)
    <3>1. CASE NoEnd(r) /\ Opened(o, r, p.filter)
      BY <1>5, <1>6, <2>2, <2>5, <3>0, <3>1
    <3>2. CASE \E l \in 1..r : FirstEnd(l) /\ Closed(o, l)
      <4>1. \E m \in 1..i : FirstEnd(m) /\ Closed(Append(o, x), m)
        BY <1>7, <3>2
      <4> QED BY <1>6, <3>0, <4>1
    <3> QED BY <1>4, <3>1, <3>2
  <2> QED BY <2>1, <2>6, <2>7
<1>14. CASE /\ line.field = "data" /\ line.final = TRUE
            /\ LET out == Filtered(p.filter, line.said, TRUE)
                   y   == [p EXCEPT !.filter = out.filter]
               IN  q = Give(y, Delta(out.shown, TRUE), "no")
  <2> DEFINE out == Filtered(p.filter, line.said, TRUE)
             x == Delta(out.shown, TRUE)
             y == Moved(out.filter)
  <2>1. q = Give(y, x, "no")
    BY <1>14 DEF Moved
  <2>2. EndsText(line) /\ Text(line) = line.said
    BY <1>8, <1>14
  <2>3. /\ DOMAIN y = Fields /\ y.events = o /\ y.filter = out.filter /\ y.stop = "no"
        /\ y.sse_buf = p.sse_buf
    BY <1>9
  <2>4. x = Delta(Filtered(p.filter, Text(body[r + 1]), TRUE).shown, TRUE)
    BY <2>2
  <2> HIDE DEF x, q, y, out
  <2>5. /\ DOMAIN q = Fields /\ q.events = Append(o, x) /\ q.stop = "no" /\ q.sse_buf = p.sse_buf
    BY <1>10, <2>1, <2>3
  <2>6. CASE NoEnd(r) /\ Opened(o, r, p.filter)
    <3>1. Closed(Append(o, x), i)
      BY <1>1, <2>4, <2>6, ClosedText
    <3>2. i \in 1..i
      BY <1>2
    <3> QED BY <1>5, <1>6, <2>2, <2>5, <2>6, <3>1, <3>2
  <2>7. CASE \E l \in 1..r : FirstEnd(l) /\ Closed(o, l)
    <3>1. \E m \in 1..i : FirstEnd(m) /\ Closed(Append(o, x), m)
      BY <1>7, <2>7
    <3> QED BY <1>6, <2>5, <3>1
  <2> QED BY <1>4, <2>6, <2>7
<1>15. \/ line.field = "junk" /\ q = Give(p, Failed("Decode"), "all")
       \/ line.field \notin {"junk", "data"} /\ q = p
       \/ /\ line.field = "data" /\ line.final = FALSE
          /\ LET out == Push(p.filter, line.said)
                 y   == [p EXCEPT !.filter = out.filter]
             IN  \/ out.shown = <<>> /\ q = y
                 \/ q = Give(y, Delta(out.shown, FALSE), "no")
       \/ /\ line.field = "data" /\ line.final = TRUE
          /\ LET out == Filtered(p.filter, line.said, TRUE)
                 y   == [p EXCEPT !.filter = out.filter]
             IN  q = Give(y, Delta(out.shown, TRUE), "no")
  BY <1>1, <1>3, ReadLlmIs
<1> QED BY <1>11, <1>12, <1>13, <1>14, <1>15, Zenon


(* Both streamed answers.                                                   *)

\* What q knows and what it gave, and what was given, after r lines.
Knows(q, r) == IF client = "tts" THEN After(q, r) ELSE TextTold(q, r)
GivenOf(o, r) == IF client = "tts" THEN AudioOf(o, r) ELSE TextOf(o, r)

EndsAnswer(i) == IF client = "tts" THEN EndsSpeech(i) ELSE EndsText(body[i])

Streamed == client = "tts" \/ (client = "llm" /\ IsText)

\* q read r of the lines in the first a bytes, and has the rest before it.
At(q, eol, a, r) ==
    /\ Knows(q, r)
    /\ Cut(q.sse_buf, eol, r * Size(eol), a)
    /\ r * Size(eol) <= a

LEMMA KnowsGiven ==
    ASSUME Streamed, NEW q, NEW r \in Nat, Knows(q, r)
    PROVE  DOMAIN q = Fields /\ GivenOf(q.events, r)
<1>1. CASE client = "tts"
  BY <1>1 DEF Knows, GivenOf, After
<1>2. CASE client = "llm"
  <2>1. TextTold(q, r)
    BY <1>2 DEF Knows
  <2>2. /\ DOMAIN q = Fields /\ \E E : q.events \in Seq(E)
        /\ \/ NoEnd(r) /\ Opened(q.events, r, q.filter)
           \/ \E l \in 1..r : FirstEnd(l) /\ Closed(q.events, l)
           \/ q.stop = "all" /\ r # 0 /\ FirstEnd(r) /\ Opened(q.events, r, q.filter)
    BY <2>1 DEF TextTold
  <2>3. r \in 0..r /\ \A l \in 1..r : l \in 0..r /\ l # 0
    OBVIOUS
  <2>4. TextOf(q.events, r)
    BY <2>2, <2>3 DEF TextOf
  <2> QED BY <1>2, <2>2, <2>4 DEF GivenOf
<1> QED BY <1>1, <1>2 DEF Streamed

\* An error gives nothing of an answer.
LEMMA GivenFailed ==
    ASSUME Streamed, NEW o, NEW r \in Nat, GivenOf(o, r), NEW why
    PROVE  GivenOf(Append(o, Failed(why)), r)
<1> DEFINE x == Failed(why)
<1>1. CASE client = "tts"
  <2>1. AudioOf(Append(o, x), r)
    BY <1>1, EventsAre, AudioOfOther DEF GivenOf
  <2> QED BY <1>1, <2>1 DEF GivenOf
<1>2. CASE client = "llm"
  <2>1. ~IsLast(x) /\ Shown(x) = <<>>
    BY ShownBy
  <2> HIDE DEF x
  <2>2. TextOf(o, r)
    BY <1>2 DEF GivenOf
  <2>3. \E E : o \in Seq(E)
    BY <2>2 DEF TextOf
  <2>4. PICK l \in 0..r : /\ (l = r /\ NoEnd(r)) \/ (l # 0 /\ FirstEnd(l))
                          /\ Closed(o, l) \/ \E f : Opened(o, l, f)
    BY <2>2 DEF TextOf
  <2>5. \E E : Append(o, x) \in Seq(E)
    <3>1. IsAppended(Append(o, x), o, x)
      BY <2>3, AppendAny
    <3> QED BY <3>1 DEF IsAppended
  <2>6. Closed(Append(o, x), l) \/ \E f : Opened(Append(o, x), l, f)
    <3>1. CASE Closed(o, l)
      BY <2>3, <3>1, ClosedMore
    <3>2. CASE \E f : Opened(o, l, f)
      <4>1. PICK f : Opened(o, l, f)
        BY <3>2
      <4>2. Opened(Append(o, x), l, f)
        BY <2>1, <2>3, <4>1, OpenedOther
      <4> QED BY <4>2
    <3> QED BY <2>4, <3>1, <3>2
  <2>7. TextOf(Append(o, x), r)
    BY <2>4, <2>5, <2>6 DEF TextOf
  <2> QED BY <1>2, <2>7 DEF GivenOf, x
<1> QED BY <1>1, <1>2 DEF Streamed

LEMMA ReadLineKeeps ==
    ASSUME Streamed, NEW eol \in LineEndings, NEW a \in Nat, a <= Len(body) * Size(eol),
           Len(body) \in Nat, NEW r \in Nat,
           NEW q, At(q, eol, a, r), q.stop = "no", LineEnds(q.sse_buf) # {}
    PROVE  /\ At(ReadLine(q), eol, a, r + 1)
           /\ ReadLine(q).stop # "no" => EndsAnswer(r + 1)
<1> DEFINE taken == TakeLine(q.sse_buf)
           p == [q EXCEPT !.sse_buf = taken.rest]
<1>1. /\ taken.line = body[r + 1] /\ taken.at = r + 1
      /\ Cut(taken.rest, eol, (r + 1) * Size(eol), a)
      /\ (r + 1) * Size(eol) <= a
  BY TakeLineIs DEF At
<1>2. ReadLine(q) = IF client = "llm" THEN ReadLlm(p, taken.line) ELSE ReadTts(p, taken.line, taken.at)
  BY DEF ReadLine
<1>3. r + 1 <= Len(body)
  <2> DEFINE n == Size(eol)
  <2>1. n \in {3, 4} /\ (r + 1) * n <= Len(body) * n
    BY <1>1, SizeIs
  <2> HIDE DEF n
  <2> QED BY <2>1
<1> HIDE DEF taken
<1>4. CASE client = "tts"
  <2>1. /\ After(p, r) /\ p.stop = "no" /\ p.sse_buf = taken.rest
    BY <1>4 DEF At, Knows, After, Fields
  <2> HIDE DEF p
  <2>2. ReadLine(q) = ReadTts(p, body[r + 1], r + 1)
    BY <1>1, <1>2, <1>4
  <2> QED BY <1>1, <1>4, <2>1, <2>2, ReadTtsKeeps DEF At, Knows, EndsAnswer
<1>5. CASE client = "llm" /\ IsText
  <2>1. TextTold(q, r)
    BY <1>5 DEF At, Knows
  <2>2. /\ DOMAIN p = Fields /\ p.stop = "no" /\ p.sse_buf = taken.rest
        /\ p.events = q.events /\ p.filter = q.filter
    BY <2>1 DEF TextTold, Fields
  <2>3. TextTold(p, r)
    BY <2>1, <2>2 DEF TextTold
  <2> HIDE DEF p
  <2>4. ReadLine(q) = ReadLlm(p, body[r + 1])
    BY <1>1, <1>2, <1>5
  <2> QED BY <1>1, <1>3, <1>5, <2>2, <2>3, <2>4, ReadLlmKeeps DEF At, Knows, EndsAnswer
<1> QED BY <1>4, <1>5 DEF Streamed


\* The rounds of ReadLines, and that they exist.
Rounds(g, base, N) == g = [k \in 0..N |-> IF k = 0 THEN base ELSE ReadLine(g[k - 1])]

LEMMA RoundsExist ==
    ASSUME NEW N \in Nat, NEW base
    PROVE  \E g : Rounds(g, base, N)
<1> DEFINE Solves(g, n) == Rounds(g, base, n)
           P == {n \in 0..N : \E g : Solves(g, n)}
<1>1. 0 \in P
  <2> DEFINE g == [k \in 0..0 |-> base]
  <2>1. g = [k \in 0..0 |-> IF k = 0 THEN base ELSE ReadLine(g[k - 1])]
    OBVIOUS
  <2>2. Solves(g, 0) /\ 0 \in 0..N
    BY <2>1 DEF Rounds
  <2> HIDE DEF g, Solves
  <2> QED BY <2>2
<1>2. ASSUME NEW n \in 1..N, n - 1 \in P PROVE n \in P
  <2>1. PICK g : Solves(g, n - 1)
    BY <1>2
  <2> DEFINE h == [k \in 0..n |-> IF k = n THEN ReadLine(g[n - 1]) ELSE g[k]]
  <2>2. n \in 0..N /\ n \in Nat /\ n # 0
    OBVIOUS
  <2>3. \A k \in 0..n : h[k] = IF k = 0 THEN base ELSE ReadLine(h[k - 1])
    <3> TAKE k \in 0..n
    <3>1. CASE k = n
      <4>1. n - 1 \in 0..n /\ n - 1 # n
        BY <2>2
      <4>2. h[n - 1] = g[n - 1] /\ h[n] = ReadLine(g[n - 1])
        BY <2>2, <4>1
      <4> QED BY <2>2, <3>1, <4>2
    <3>2. CASE k = 0
      <4>1. 0 \in 0..(n - 1) /\ 0 \in 0..n
        BY <2>2
      <4>2. h[0] = g[0] /\ g[0] = base
        BY <2>1, <2>2, <4>1 DEF Rounds
      <4> QED BY <3>2, <4>2
    <3>3. CASE k # n /\ k # 0
      <4>1. k \in 0..(n - 1) /\ k - 1 \in 0..n /\ k - 1 # n
        BY <2>2, <3>3
      <4>2. h[k] = g[k] /\ h[k - 1] = g[k - 1]
        BY <3>3, <4>1
      <4>3. g[k] = ReadLine(g[k - 1])
        BY <2>1, <3>3, <4>1 DEF Rounds
      <4> QED BY <3>3, <4>2, <4>3
    <3> QED BY <3>1, <3>2, <3>3
  <2> DEFINE H(k) == IF k = 0 THEN base ELSE ReadLine(h[k - 1])
  <2>4. h = [k \in 0..n |-> h[k]]
    OBVIOUS
  <2>5. h = [k \in 0..n |-> IF k = 0 THEN base ELSE ReadLine(h[k - 1])]
    <3> HIDE DEF h
    <3> QED BY <2>3, <2>4, Zenon
  <2>6. Solves(h, n)
    BY <2>5 DEF Rounds
  <2> HIDE DEF h, Solves
  <2> QED BY <2>2, <2>6
<1> HIDE DEF P
<1>3. 0..N \subseteq P
  BY <1>1, <1>2, UpTo
<1>4. N \in P
  BY <1>3
<1> QED BY <1>4 DEF P


\* All that can be read is read, unless something ended the answer.
LEMMA ReadLinesKeeps ==
    ASSUME Streamed, NEW eol \in LineEndings, NEW a \in Nat, a <= Len(body) * Size(eol),
           Len(body) \in Nat, NEW r0 \in Nat,
           NEW p, At(p, eol, a, r0), p.stop # "all"
    PROVE  \E r \in Nat : /\ At(ReadLines(p), eol, a, r)
                          /\ (\A e \in 1..r : ~EndsAnswer(e)) => a < (r + 1) * Size(eol)
<1> DEFINE N == Len(p.sse_buf)
           base == [p EXCEPT !.stop = "no"]
           read == CHOOSE g : Rounds(g, base, N)
<1>1. ReadLines(p) = read[N]
  BY DEF ReadLines, Rounds
<1>2. N \in Nat /\ N = a - r0 * Size(eol)
  BY DEF At, Cut
<1> HIDE DEF N, base
<1>3. Rounds(read, base, N)
  BY <1>2, RoundsExist
<1> HIDE DEF read
<1>5. read[0] = base /\ \A k \in 1..N : read[k] = ReadLine(read[k - 1])
  <2>1. \A k \in 0..N : read[k] = IF k = 0 THEN base ELSE ReadLine(read[k - 1])
    BY <1>3 DEF Rounds
  <2>2. 0 \in 0..N /\ \A k \in 1..N : k \in 0..N /\ k # 0
    BY <1>2
  <2> QED BY <2>1, <2>2
<1> DEFINE Right(q, k, r) ==
             /\ At(q, eol, a, r)
             /\ q.stop # "no" => r # 0 /\ EndsAnswer(r)
             /\ q.stop = "no" => r >= r0 + k \/ LineEnds(q.sse_buf) = {}
           P == {k \in 0..N : \E r \in Nat : Right(read[k], k, r)}
<1>6. 0 \in P
  <2>0. DOMAIN p = Fields
    BY KnowsGiven DEF At
  <2>1. /\ base.stop = "no" /\ base.sse_buf = p.sse_buf /\ DOMAIN base = Fields
        /\ base.events = p.events /\ base.filter = p.filter
        /\ base.name = p.name /\ base.seq = p.seq
    BY <2>0 DEF base, Fields
  <2>4. Knows(base, r0)
    <3>1. CASE client = "tts"
      BY <2>1, <3>1 DEF At, Knows, After
    <3>2. CASE client # "tts"
      BY <2>1, <3>2 DEF At, Knows, TextTold
    <3> QED BY <3>1, <3>2
  <2>2. Right(base, 0, r0)
    BY <2>1, <2>4 DEF At
  <2>3. 0 \in 0..N
    BY <1>2
  <2> HIDE DEF Right
  <2> QED BY <1>5, <2>2, <2>3
<1>7. ASSUME NEW k \in 1..N, k - 1 \in P PROVE k \in P
  <2> DEFINE q == read[k - 1]
  <2>1. PICK r \in Nat : Right(q, k - 1, r)
    BY <1>7
  <2>2. read[k] = ReadLine(q)
    BY <1>5
  <2>3. k \in 0..N /\ k \in Nat
    BY <1>2
  <2> HIDE DEF q
  <2>4. CASE q.stop # "no" \/ LineEnds(q.sse_buf) = {}
    <3>1. ReadLine(q) = q
      BY <2>4 DEF ReadLine
    <3>2. Right(q, k, r)
      BY <2>1, <2>4
    <3> HIDE DEF Right
    <3> QED BY <2>2, <2>3, <3>1, <3>2
  <2>5. CASE q.stop = "no" /\ LineEnds(q.sse_buf) # {}
    <3>1. /\ At(ReadLine(q), eol, a, r + 1)
          /\ ReadLine(q).stop # "no" => EndsAnswer(r + 1)
      BY <2>1, <2>5, ReadLineKeeps
    <3>2. r + 1 \in Nat /\ r + 1 # 0 /\ r + 1 >= r0 + k
      BY <2>1, <2>3, <2>5
    <3>3. Right(ReadLine(q), k, r + 1)
      BY <3>1, <3>2
    <3> HIDE DEF Right
    <3> QED BY <2>2, <2>3, <3>2, <3>3
  <2> QED BY <2>4, <2>5
<1> HIDE DEF P
<1>8. 0..N \subseteq P
  BY <1>2, <1>6, <1>7, UpTo
<1>9. PICK r \in Nat : Right(read[N], N, r)
  <2>1. N \in P
    BY <1>2, <1>8
  <2> HIDE DEF Right
  <2> QED BY <2>1 DEF P
<1>10. ASSUME \A e \in 1..r : ~EndsAnswer(e)
       PROVE  a < (r + 1) * Size(eol)
  <2>1. read[N].stop = "no"
    <3>1. r # 0 => r \in 1..r
      OBVIOUS
    <3> QED BY <1>9, <1>10, <3>1
  <2>2. CASE LineEnds(read[N].sse_buf) = {}
    BY <1>9, <2>2, LineEndsAre DEF At
  <2>3. CASE r >= r0 + N
    <3>1. Size(eol) \in {3, 4} /\ r * Size(eol) <= a
      BY <1>9, SizeIs DEF At
    <3> QED BY <1>2, <2>3, <3>1
  <2> QED BY <1>9, <2>1, <2>2, <2>3
<1> QED BY <1>1, <1>9, <1>10


\* The state of a request for a streamed answer: of an answer that is read, how
\* far it was read; of one that is over, what was given.
StreamInv ==
    /\ Len(body) \in Nat
    /\ client = "llm" => IsText
    /\ client \in {"llm", "tts"} =>
          \/ state = "asking" /\ arrived = <<>> /\ parser = NewParser
          \/ state = "over" /\ arrived = <<>>
          \/ \E eol \in LineEndings : \E a, r \in Nat :
                /\ a <= Len(body) * Size(eol) /\ r * Size(eol) <= a
                /\ Cut(arrived, eol, 0, a)
                /\ (\A e \in 1..r : ~EndsAnswer(e)) => a < (r + 1) * Size(eol)
                /\ GivenOf(parser.events, r)
                /\ state = "over" \/ (/\ state = "reading" /\ parser.stop # "all"
                                      /\ Cut(wire, eol, a, Len(body) * Size(eol))
                                      /\ At(parser, eol, a, r))

LEMMA SpeechHeard == StreamInv => HeardAsSaid
<1> SUFFICES ASSUME StreamInv, client = "tts", arrived # <<>>
             PROVE  HeardAsSaid
  BY DEF HeardAsSaid
<1>1. PICK eol \in LineEndings : \E a, r \in Nat :
                /\ r * Size(eol) <= a
                /\ Cut(arrived, eol, 0, a)
                /\ (\A e \in 1..r : ~EndsSpeech(e)) => a < (r + 1) * Size(eol)
                /\ AudioOf(parser.events, r)
  BY DEF StreamInv, GivenOf, EndsAnswer
<1>2. PICK a, r \in Nat :
                /\ r * Size(eol) <= a
                /\ Cut(arrived, eol, 0, a)
                /\ (\A e \in 1..r : ~EndsSpeech(e)) => a < (r + 1) * Size(eol)
                /\ AudioOf(parser.events, r)
  BY <1>1
<1> DEFINE n == Size(eol)
           o == parser.events
<1>3. PICK w \in Nat : /\ Cardinality(LineEnds(arrived)) = w
                       /\ w * n <= a /\ a < (w + 1) * n
  BY <1>2, WholeLines
<1>4. n \in {3, 4}
  BY SizeIs
<1>5. r <= w
  <2> HIDE DEF n
  <2>1. r * n <= a
    BY <1>2 DEF n
  <2> QED BY <1>3, <1>4, <2>1
<1>6. (\A e \in 1..r : ~EndsSpeech(e)) => w <= r
  <2> HIDE DEF n
  <2> SUFFICES ASSUME \A e \in 1..r : ~EndsSpeech(e) PROVE w <= r
    OBVIOUS
  <2>1. a < (r + 1) * n
    BY <1>2 DEF n
  <2> QED BY <1>3, <1>4, <2>1
<1>7. DOMAIN o = 1..Len(o)
  BY <1>2 DEF AudioOf
<1> DEFINE before(i) == ~\E e \in 1..(i - 1) : EndsSpeech(e)
           pieces == {e \in DOMAIN o : o[e].kind = "audio" /\ o[e].data # <<>>}
           Of(e) == o[e].data[1]
<1>8. \A e : e \in pieces <=> e \in 1..Len(o) /\ Piece(o[e])
  BY <1>7 DEF Piece
<1>9. \A e \in pieces :
         /\ o[e].data = <<Of(e)>> /\ Of(e) \in 1..r /\ Speaks(Of(e))
         /\ o[e].seq = Cardinality({i \in 1..Of(e) : Speaks(i)})
  <2> HIDE DEF pieces
  <2> QED BY <1>2, <1>8 DEF AudioOf, Numbered
<1>10. \A e, f \in pieces : e < f => Of(e) < Of(f)
  <2> HIDE DEF pieces
  <2> QED BY <1>2, <1>8 DEF AudioOf
<1>11. ASSUME NEW i \in 1..w, before(i), Speaks(i) PROVE \E e \in pieces : Of(e) = i
  <2>1. i \in 1..r
    <3>1. CASE i > r
      <4>1. \A e \in 1..r : e \in 1..(i - 1)
        BY <3>1
      <4>2. \A e \in 1..r : ~EndsSpeech(e)
        BY <1>11, <4>1
      <4> QED BY <1>6, <3>1, <4>2
    <3> QED BY <3>1
  <2> HIDE DEF pieces
  <2> QED BY <1>2, <1>8, <1>11, <2>1 DEF AudioOf
<1>12. \A i : i \in 1..r => i \in 1..w
  BY <1>5
<1> HIDE DEF pieces
<1>13. /\ \A e \in pieces :
             /\ o[e].data = <<Of(e)>> /\ Of(e) \in 1..w /\ Speaks(Of(e))
             /\ o[e].seq = Cardinality({i \in 1..Of(e) : Speaks(i)})
       /\ \A e, f \in pieces : e < f => Of(e) < Of(f)
       /\ \A i \in 1..w : before(i) /\ Speaks(i) => \E e \in pieces : Of(e) = i
  BY <1>9, <1>10, <1>11, <1>12
<1> QED BY <1>3, <1>13, Zenon DEF HeardAsSaid, pieces


\* What is not given yet of a text is short.
LEMMA PrefixIs ==
    ASSUME NEW D, NEW s \in Seq(D), NEW t \in Seq(D)
    PROVE  IsPrefix(s, s \o t) /\ Len(s \o t) - Len(s) = Len(t)
<1>1. /\ s \o t \in Seq(D) /\ Len(s \o t) = Len(s) + Len(t) /\ Len(s) \in Nat /\ Len(t) \in Nat
      /\ \A i \in 1..Len(s) : (s \o t)[i] = s[i]
  BY ConcatIs
<1>2. SubSeq(s, 1, Len(s)) = SubSeq(s \o t, 1, Len(s))
  <2>1. Len(s) \in 0..Len(s) /\ Len(s) \in 0..Len(s \o t) /\ 0 \in 0..Len(s)
    BY <1>1
  <2>2. \A u \in Seq(D) : Len(s) <= Len(u) =>
           SubSeq(u, 1, Len(s)) = [i \in 1..Len(s) |-> u[i]]
    <3> TAKE u \in Seq(D)
    <3> HAVE Len(s) <= Len(u)
    <3> QED BY <1>1
  <2>3. [i \in 1..Len(s) |-> s[i]] = [i \in 1..Len(s) |-> (s \o t)[i]]
    BY <1>1
  <2> QED BY <1>1, <2>2, <2>3
<1> QED BY <1>1, <1>2 DEF IsPrefix

LEMMA TextSeen == StreamInv => SeenAsSaid
<1> SUFFICES ASSUME StreamInv, client = "llm", arrived # <<>>
             PROVE  SeenAsSaid
  BY DEF SeenAsSaid
<1>1. PICK eol \in LineEndings : \E a, r \in Nat :
                /\ a <= Len(body) * Size(eol) /\ r * Size(eol) <= a
                /\ Cut(arrived, eol, 0, a)
                /\ (\A e \in 1..r : ~EndsText(body[e])) => a < (r + 1) * Size(eol)
                /\ TextOf(parser.events, r)
  BY DEF StreamInv, GivenOf, EndsAnswer
<1>2. PICK a, r \in Nat :
                /\ a <= Len(body) * Size(eol) /\ r * Size(eol) <= a
                /\ Cut(arrived, eol, 0, a)
                /\ (\A e \in 1..r : ~EndsText(body[e])) => a < (r + 1) * Size(eol)
                /\ TextOf(parser.events, r)
  BY <1>1
<1> DEFINE n == Size(eol)
           o == parser.events
<1>3. PICK w \in Nat : /\ Cardinality(LineEnds(arrived)) = w
                       /\ w * n <= a /\ a < (w + 1) * n
  BY <1>2, WholeLines
<1>4. n \in {3, 4} /\ Len(body) \in Nat /\ IsText
  BY SizeIs DEF StreamInv
<1>5. r <= w /\ w <= Len(body)
  <2> HIDE DEF n
  <2>1. r * n <= a /\ a <= Len(body) * n
    BY <1>2 DEF n
  <2> QED BY <1>3, <1>4, <2>1
<1>6. NoEnd(r) => w <= r
  <2> HIDE DEF n
  <2> SUFFICES ASSUME NoEnd(r) PROVE w <= r
    OBVIOUS
  <2>1. a < (r + 1) * n
    BY <1>2 DEF n, NoEnd
  <2> QED BY <1>3, <1>4, <2>1
<1>7. PICK l \in 0..r : /\ (l = r /\ NoEnd(r)) \/ (l # 0 /\ FirstEnd(l))
                        /\ Closed(o, l) \/ \E f : Opened(o, l, f)
  BY <1>2 DEF TextOf
<1>8. \E E : o \in Seq(E)
  BY <1>2 DEF TextOf
<1>9. DOMAIN o = 1..Len(o) /\ Len(o) \in Nat
  BY <1>8
<1> HIDE DEF o, n
<1> DEFINE ends == {i \in 1..w : EndsText(body[i])} \union {w}
           last == Min(ends)
           said == Spoken(FlattenSeq([i \in 1..last |-> Text(body[i])]))
           finals == {e \in DOMAIN o : IsLast(o[e])}
           upto == Min(finals \union {Len(o)})
           shown == FlattenSeq([e \in 1..upto |-> Shown(o[e])])
<1>10. last = l
  <2>1. ends \in SUBSET Nat
    BY <1>3
  <2>2. l \in ends
    <3>1. CASE l = r /\ NoEnd(r)
      BY <1>5, <1>6, <3>1
    <3>2. CASE l # 0 /\ FirstEnd(l)
      BY <1>5, <3>2 DEF FirstEnd
    <3> QED BY <1>7, <3>1, <3>2
  <2>3. ASSUME NEW i \in ends PROVE l <= i
    <3>1. i \in Nat /\ l \in Nat /\ l <= w /\ (i = w \/ EndsText(body[i])) /\ (i = w \/ i \in 1..w)
      BY <1>5
    <3>2. CASE l = r /\ NoEnd(r)
      BY <1>5, <1>6, <3>1, <3>2 DEF NoEnd
    <3>3. CASE l # 0 /\ FirstEnd(l)
      <4>1. ASSUME i < l PROVE FALSE
        <5>1. i # w /\ i \in 1..(l - 1)
          BY <3>1, <4>1
        <5> QED BY <3>1, <3>3, <5>1 DEF FirstEnd, NoEnd
      <4> QED BY <3>1, <4>1
    <3> QED BY <1>7, <3>2, <3>3
  <2> HIDE DEF ends
  <2> QED BY <2>1, <2>2, <2>3, LeastIs
<1>11. said = Spoken(SaidTo(l))
  <2> HIDE DEF last
  <2> QED BY <1>10 DEF SaidTo
<1>12. l \in 0..Len(body) /\ SaidTo(l) \in Seq(Alphabet)
  <2>1. l \in 0..Len(body)
    BY <1>4, <1>5
  <2> QED BY <1>4, <2>1, SaidToIs
<1> HIDE DEF said
<1>13. ASSUME NEW x, upto = x PROVE shown = GivenTo(o, x)
  <2> HIDE DEF upto
  <2> QED BY <1>13 DEF GivenTo
<1> SUFFICES /\ IsPrefix(shown, said)
             /\ Len(said) - Len(shown) < Len(THINK_OPEN_TAG)
             /\ finals # {} => shown = said
  <2> HIDE DEF shown, finals
  <2> SUFFICES ASSUME /\ IsPrefix(shown, said)
                      /\ Len(said) - Len(shown) < Len(THINK_OPEN_TAG)
                      /\ finals # {} => shown = said
               PROVE  SeenAsSaid
    OBVIOUS
  <2> QED BY <1>3 DEF SeenAsSaid, shown, finals, upto, said, last, ends, o
<1>14. CASE Closed(o, l)
  <2>1. PICK x \in 1..Len(o) :
           /\ IsLast(o[x]) /\ \A e \in 1..(x - 1) : ~IsLast(o[e])
           /\ Readable(o, x) /\ GivenTo(o, x) = Spoken(SaidTo(l))
    BY <1>14 DEF Closed
  <2>2. upto = x
    <3> DEFINE S == finals \union {Len(o)}
    <3>0. x \in finals /\ \A i \in finals : i \in 1..Len(o)
      BY <1>9, <2>1
    <3>1. S \in SUBSET Nat /\ x \in S
      <4>1. \A i \in S : i \in finals \/ i = Len(o)
        OBVIOUS
      <4> HIDE DEF S
      <4>2. \A i \in S : i \in Nat
        BY <1>9, <3>0, <4>1
      <4> QED BY <3>0, <4>2 DEF S
    <3>2. ASSUME NEW i \in S PROVE x <= i
      <4>1. i \in 1..Len(o) /\ (i = Len(o) \/ IsLast(o[i]))
        BY <1>9, <2>1
      <4>2. ASSUME i < x PROVE FALSE
        <5>1. i \in 1..(x - 1) /\ i # Len(o)
          BY <1>9, <2>1, <4>1, <4>2
        <5> QED BY <2>1, <4>1, <5>1
      <4> QED BY <1>9, <2>1, <4>1, <4>2
    <3> HIDE DEF S
    <3>3. Min(S) = x
      BY <3>1, <3>2, LeastIs
    <3> QED BY <3>3 DEF S
  <2>3. shown = said
    BY <1>11, <1>13, <2>1, <2>2
  <2>4. shown \in Seq(Alphabet)
    <3>1. x \in 0..Len(o)
      BY <1>9
    <3>2. GivenTo(o, x) \in Seq(Alphabet)
      BY <1>9, <2>1, <3>1, GivenIs
    <3> QED BY <1>13, <2>2, <3>2
  <2> HIDE DEF shown
  <2>5. <<>> \in Seq(Alphabet) /\ shown \o <<>> = shown /\ Len(<<>>) = 0
    BY <2>4
  <2>6. IsPrefix(shown, shown) /\ Len(shown) - Len(shown) = 0
    BY <2>4, <2>5, PrefixIs
  <2> QED BY <2>3, <2>6, TagLengths
<1>15. CASE \E f : Opened(o, l, f)
  <2>1. PICK f : Opened(o, l, f)
    BY <1>15
  <2>2. PICK m \in Nat : /\ FilterAt(f, SaidTo(l), m) /\ AtRest(f, SaidTo(l), m)
                         /\ GivenTo(o, Len(o)) = SpokenTo(SaidTo(l), m)
    BY <2>1 DEF Opened
  <2>3. finals = {}
    BY <1>9, <2>1 DEF Opened
  <2>4. upto = Len(o)
    <3>1. {Len(o)} \in SUBSET Nat /\ Len(o) \in {Len(o)} /\ \A i \in {Len(o)} : Len(o) <= i
      BY <1>9
    <3>2. Min({Len(o)}) = Len(o)
      BY <3>1, LeastIs
    <3>3. finals \union {Len(o)} = {Len(o)}
      BY <2>3
    <3> QED BY <3>2, <3>3
  <2>5. shown = SpokenTo(SaidTo(l), m)
    BY <1>13, <2>2, <2>4
  <2> DEFINE kept == IF f.in_think THEN <<>> ELSE f.pending
  <2>6. /\ Spoken(SaidTo(l)) = SpokenTo(SaidTo(l), m) \o kept
        /\ kept \in Seq(Alphabet) /\ Len(kept) < 3
        /\ SpokenTo(SaidTo(l), m) \in Seq(Alphabet)
    BY <1>12, <2>2, AtRestShows
  <2> HIDE DEF kept, shown, finals
  <2>7. said = shown \o kept /\ shown \in Seq(Alphabet)
    BY <1>11, <2>5, <2>6
  <2>8. IsPrefix(shown, shown \o kept) /\ Len(shown \o kept) - Len(shown) = Len(kept)
    BY <2>6, <2>7, PrefixIs
  <2> QED BY <2>3, <2>6, <2>7, <2>8, TagLengths
<1> QED BY <1>7, <1>14, <1>15


\* What is there before the first byte.
LEMMA NothingSeen == TextTold(NewParser, 0)
<1>1. /\ DOMAIN NewParser = Fields /\ NewParser.events = <<>> /\ NewParser.filter = NewFilter
      /\ DOMAIN NewFilter = {"pending", "in_think"} /\ NewFilter.pending = <<>> /\ NewFilter.in_think = FALSE
  BY DEF NewParser, Fields, NewFilter
<1>2. <<>> \in Seq({}) /\ Len(<<>>) = 0 /\ 1..0 = {} /\ SubSeq(<<>>, 0 + 1, 0) = <<>> /\ 0 \in Nat
  OBVIOUS
<1>3. \A s : FlattenSeq([i \in 1..0 |-> s[i]]) = <<>>
  BY FlattenNone
<1>4. SaidTo(0) = <<>>
  <2> DEFINE s == [i \in {} |-> Text(body[i])]
  <2>1. [i \in 1..0 |-> Text(body[i])] = [i \in 1..0 |-> s[i]]
    BY <1>2
  <2> QED BY <1>3, <2>1 DEF SaidTo
<1>5. GivenTo(<<>>, 0) = <<>>
  <2> DEFINE s == [i \in {} |-> <<>>]
  <2>1. [e \in 1..0 |-> Shown(<<>>[e])] = [e \in 1..0 |-> s[e]]
    BY <1>2
  <2> QED BY <1>3, <2>1 DEF GivenTo
<1>6. SpokenTo(<<>>, 0) = <<>>
  BY <1>2, SpokenToIs
<1>7. Sought(NewFilter) = THINK_OPEN_TAG
  BY <1>1 DEF Sought
<1>8. TagsAt(<<>>, THINK_OPEN_TAG) = {}
  <2>1. 1..(0 - 3 + 1) = {}
    OBVIOUS
  <2> QED BY <1>2, <2>1, TagLengths DEF TagsAt
<1>9. FilterAt(NewFilter, <<>>, 0) /\ AtRest(NewFilter, <<>>, 0)
  <2>1. ~Thought(<<>>, 0 + 1) /\ ~Straddles(<<>>, THINK_OPEN_TAG, 0)
    BY <1>8 DEF Thought, Straddles
  <2>2. 0 \in 0..Len(<<>>) /\ Len(<<>>) - 0 < 3
    BY <1>2
  <2>3. FilterAt(NewFilter, <<>>, 0)
    BY <1>1, <1>2, <1>7, <2>1, <2>2 DEF FilterAt
  <2>4. AtRest(NewFilter, <<>>, 0)
    BY <1>7, <1>8, <2>2, TagLengths DEF AtRest
  <2> QED BY <2>3, <2>4
<1>10. Opened(<<>>, 0, NewFilter)
  <2>1. Readable(<<>>, 0) /\ \A e \in 1..Len(<<>>) : ~IsLast(<<>>[e])
    BY <1>2 DEF Readable
  <2> QED BY <1>2, <1>4, <1>5, <1>6, <1>9, <2>1 DEF Opened
<1>11. NoEnd(0)
  BY <1>2 DEF NoEnd
<1>12. \E E : NewParser.events \in Seq(E)
  BY <1>1, <1>2
<1> QED BY <1>1, <1>10, <1>11, <1>12 DEF TextTold

LEMMA NothingRead ==
    ASSUME Streamed, NEW eol \in LineEndings
    PROVE  /\ Cut(<<>>, eol, 0, 0)
           /\ At(NewParser, eol, 0, 0)
           /\ GivenOf(NewParser.events, 0) /\ NewParser.stop # "all"
<1>1. 0 * Size(eol) = 0
  BY SizeIs
<1>2. <<>> \in Seq(Nat \X Nat) /\ Len(<<>>) = 0 - 0 /\ 1..Len(<<>>) = {}
  OBVIOUS
<1>3. Cut(<<>>, eol, 0, 0)
  <2>1. \A i \in 1..Len(<<>>) : <<>>[i] = Byte(eol, 0 + i)
    BY <1>2
  <2> QED BY <1>2, <2>1 DEF Cut
<1>4. /\ DOMAIN NewParser = Fields /\ NewParser.name = "" /\ NewParser.seq = 0
      /\ NewParser.events = <<>> /\ NewParser.sse_buf = <<>>
  BY DEF NewParser, Fields
<1>5. NameOf(0 + 1) = "" /\ Numbered(0) = 0
  <2>1. 0 \in Nat /\ 0 + 1 = 1
    OBVIOUS
  <2>2. NameOf(1) = ""
    BY <2>1, NameNext
  <2>3. Numbered(0) = 0
    BY <2>1, NumberedNext
  <2> QED BY <2>1, <2>2, <2>3
<1>6. AudioOf(<<>>, 0)
  <2>1. <<>> \in Seq({}) /\ 1..Len(<<>>) = {} /\ 1..0 = {}
    OBVIOUS
  <2> QED BY <2>1 DEF AudioOf
<1>7. Knows(NewParser, 0)
  <2>1. After(NewParser, 0)
    BY <1>4, <1>5, <1>6 DEF After
  <2> QED BY <2>1, NothingSeen DEF Knows
<1>8. At(NewParser, eol, 0, 0)
  <2>1. Cut(NewParser.sse_buf, eol, 0 * Size(eol), 0)
    BY <1>1, <1>3, <1>4
  <2>2. 0 * Size(eol) <= 0
    BY <1>1
  <2> QED BY <1>7, <2>1, <2>2 DEF At
<1>9. GivenOf(NewParser.events, 0) /\ NewParser.stop # "all"
  <2>1. NewParser.stop = "no"
    BY DEF NewParser
  <2> QED BY <1>7, <2>1, KnowsGiven
<1> QED BY <1>3, <1>8, <1>9

\* What is said of an answer stays so when another event is given.
LEMMA Stays ==
    ASSUME UNCHANGED <<client, body>>
    PROVE  /\ \A e : EndsAnswer(e)' <=> EndsAnswer(e)
           /\ IsText' <=> IsText
           /\ \A r : GivenOf(parser.events, r)' <=> GivenOf(parser'.events, r)
           /\ \A eol, a, r : At(parser, eol, a, r)' <=> At(parser', eol, a, r)
<1>1. \A e : EndsAnswer(e)' <=> EndsAnswer(e)
  BY DEF EndsAnswer, EndsSpeech, NameOf, EndsText
<1>2. IsText' <=> IsText
  BY DEF IsText, Alphabet
<1>3. \A r : AudioOf(parser.events, r)' <=> AudioOf(parser'.events, r)
  BY DEF AudioOf, Piece, Numbered, Speaks, NameOf
<1>4. /\ \A r : NoEnd(r)' <=> NoEnd(r)
      /\ \A r : FirstEnd(r)' <=> FirstEnd(r)
      /\ \A r : Closed(parser.events, r)' <=> Closed(parser'.events, r)
      /\ \A r, f : Opened(parser.events, r, f)' <=> Opened(parser'.events, r, f)
      /\ \A r : Opened(parser.events, r, parser.filter)' <=> Opened(parser'.events, r, parser'.filter)
  <2>1. \A r : NoEnd(r)' <=> NoEnd(r)
    BY DEF NoEnd
  <2>2. \A r : FirstEnd(r)' <=> FirstEnd(r)
    BY DEF FirstEnd, NoEnd
  <2>3. \A r : Closed(parser.events, r)' <=> Closed(parser'.events, r)
    BY DEF Closed, SaidTo, Readable, Alphabet
  <2>4. \A r, f : Opened(parser.events, r, f)' <=> Opened(parser'.events, r, f)
    BY DEF Opened, SaidTo, Readable, Alphabet
  <2>5. \A r : Opened(parser.events, r, parser.filter)' <=> Opened(parser'.events, r, parser'.filter)
    BY DEF Opened, SaidTo, Readable, Alphabet
  <2> QED BY <2>1, <2>2, <2>3, <2>4, <2>5
<1>5. \A r : TextOf(parser.events, r)' <=> TextOf(parser'.events, r)
  BY <1>4 DEF TextOf
<1>6. \A r : GivenOf(parser.events, r)' <=> GivenOf(parser'.events, r)
  BY <1>3, <1>5 DEF GivenOf
<1>7. \A r : TextTold(parser, r)' <=> TextTold(parser', r)
  BY <1>4 DEF TextTold
<1>8. \A r : After(parser, r)' <=> After(parser', r)
  BY DEF After, AudioOf, Piece, Numbered, Speaks, NameOf
<1>9. \A r : Knows(parser, r)' <=> Knows(parser', r)
  BY <1>7, <1>8 DEF Knows
<1>10. \A eol, a, r : At(parser, eol, a, r)' <=> At(parser', eol, a, r)
  BY <1>9 DEF At, Cut
<1> QED BY <1>1, <1>2, <1>6, <1>10

LEMMA StreamBegins == InitHttp => StreamInv
<1> SUFFICES ASSUME InitHttp PROVE StreamInv
  OBVIOUS
<1>1. PICK a \in Answers : client = a.client /\ body = a.lines
  BY DEF InitHttp
<1>2. Len(body) \in Nat
  BY <1>1, AnswersAssumption
<1>3. ASSUME client = "llm" PROVE IsText
  <2>1. \A i \in 1..Len(body) :
           body[i].field = "data" =>
               body[i].said \in Seq(Range(body[i].said)) /\ body[i].final \in BOOLEAN
    BY <1>1, <1>3, AnswersAssumption
  <2>2. ASSUME NEW i \in 1..Len(body) PROVE Text(body[i]) \in Seq(Alphabet)
    <3>1. Range(Text(body[i])) \subseteq Alphabet
      BY DEF Alphabet
    <3>2. CASE body[i].field = "data"
      <4>1. Text(body[i]) = body[i].said
        BY <3>2 DEF Text
      <4>2. Text(body[i]) \in Seq(Range(Text(body[i])))
        BY <2>1, <3>2, <4>1
      <4> QED BY <3>1, <4>2
    <3>3. CASE body[i].field # "data"
      BY <3>3 DEF Text
    <3> QED BY <3>2, <3>3
  <2> QED BY <1>2, <2>1, <2>2 DEF IsText
<1> QED BY <1>2, <1>3 DEF InitHttp, StreamInv

\* A chunk is read as far as it goes.
LEMMA ChunkKeeps ==
    ASSUME StreamInv, Chunk
    PROVE  StreamInv'
<1>1. /\ Len(body') \in Nat /\ Len(body) \in Nat /\ body' = body /\ client' = client
      /\ UNCHANGED <<client, body>> /\ (client = "llm" => IsText)
  BY DEF StreamInv, Chunk
<1>0. client' = "llm" => IsText'
  BY <1>1, Stays
<1>2. SUFFICES ASSUME client \in {"llm", "tts"}
               PROVE  \E eol \in LineEndings : \E a, r \in Nat :
                /\ a <= Len(body) * Size(eol) /\ r * Size(eol) <= a
                /\ Cut(arrived', eol, 0, a)
                /\ (\A e \in 1..r : ~EndsAnswer(e)') => a < (r + 1) * Size(eol)
                /\ GivenOf(parser.events, r)'
                /\ state' = "over" \/ (/\ state' = "reading" /\ parser'.stop # "all"
                                       /\ Cut(wire', eol, a, Len(body) * Size(eol))
                                       /\ At(parser, eol, a, r)')
  BY <1>0, <1>1 DEF StreamInv
<1>19. Streamed
  BY <1>1, <1>2 DEF Streamed
<1>3. PICK eol \in LineEndings : \E a, r \in Nat :
                /\ a <= Len(body) * Size(eol) /\ r * Size(eol) <= a
                /\ Cut(arrived, eol, 0, a)
                /\ Cut(wire, eol, a, Len(body) * Size(eol))
                /\ At(parser, eol, a, r) /\ parser.stop # "all"
  BY <1>2 DEF StreamInv, Chunk
<1>4. PICK a, r0 \in Nat :
                /\ a <= Len(body) * Size(eol) /\ r0 * Size(eol) <= a
                /\ Cut(arrived, eol, 0, a)
                /\ Cut(wire, eol, a, Len(body) * Size(eol))
                /\ At(parser, eol, a, r0) /\ parser.stop # "all"
  BY <1>3
<1> DEFINE N == Len(body) * Size(eol)
           m == r0 * Size(eol)
<1>5. Size(eol) \in {3, 4} /\ N \in Nat /\ m \in Nat /\ m <= a
  BY <1>1, <1>4, SizeIs
<1>6. PICK n \in 1..Len(wire) :
         LET chunk == SubSeq(wire, 1, n)
             read  == ReadLines([parser EXCEPT !.sse_buf = @ \o chunk])
         IN  /\ arrived' = arrived \o chunk
             /\ wire' = SubSeq(wire, n + 1, Len(wire))
             /\ parser' = read
             /\ state' = IF read.stop = "all" THEN "over" ELSE "reading"
  BY DEF Chunk
<1> DEFINE chunk == SubSeq(wire, 1, n)
           p == [parser EXCEPT !.sse_buf = parser.sse_buf \o chunk]
<1>7. /\ arrived' = arrived \o chunk
      /\ wire' = SubSeq(wire, n + 1, Len(wire))
      /\ parser' = ReadLines(p)
      /\ state' = "over" \/ (state' = "reading" /\ parser'.stop # "all")
  BY <1>6
<1> HIDE DEF N, m
<1>8. /\ Cut(arrived, eol, 0, a) /\ Cut(wire, eol, a, N) /\ Len(wire) = N - a
      /\ Cut(parser.sse_buf, eol, m, a) /\ a <= N
  BY <1>4 DEF N, m, At, Cut
<1>9. n \in Nat /\ n \in 0..Len(wire) /\ Len(wire) \in n..Len(wire) /\ 0 \in 0..Len(wire) /\ n \in 0..Len(wire)
      /\ Len(wire) \in Nat
  BY <1>5, <1>8
<1>10. Cut(chunk, eol, a, a + n)
  <2>1. Cut(SubSeq(wire, 0 + 1, n), eol, a + 0, a + n)
    BY <1>5, <1>8, <1>9, CutPart
  <2> QED BY <2>1
<1>11. Cut(wire', eol, a + n, N)
  <2>1. Cut(SubSeq(wire, n + 1, Len(wire)), eol, a + n, a + Len(wire))
    BY <1>5, <1>8, <1>9, CutPart
  <2>2. a + Len(wire) = N
    BY <1>5, <1>8
  <2> QED BY <1>7, <2>1, <2>2
<1> HIDE DEF chunk
<1>12. a + n \in Nat /\ a <= a + n /\ a + n <= N /\ m <= a + n
  BY <1>5, <1>8, <1>9
<1>13. Cut(arrived', eol, 0, a + n)
  <2>1. 0 \in Nat /\ 0 <= a
    OBVIOUS
  <2>2. Cut(arrived \o chunk, eol, 0, a + n)
    BY <1>8, <1>10, <1>12, <2>1, CutMore
  <2> QED BY <1>7, <2>2
<1>14. Cut(parser.sse_buf \o chunk, eol, m, a + n)
  BY <1>5, <1>8, <1>10, <1>12, CutMore
<1>15. At(p, eol, a + n, r0) /\ p.stop # "all"
  <2>1. Knows(parser, r0) /\ DOMAIN parser = Fields
    BY <1>4, <1>19, KnowsGiven DEF At
  <2>2. /\ p.sse_buf = parser.sse_buf \o chunk /\ DOMAIN p = Fields
        /\ p.events = parser.events /\ p.filter = parser.filter /\ p.stop = parser.stop
        /\ p.name = parser.name /\ p.seq = parser.seq
    BY <2>1 DEF Fields
  <2> HIDE DEF p
  <2>3. Knows(p, r0)
    <3>1. CASE client = "tts"
      BY <2>1, <2>2, <3>1 DEF Knows, After
    <3>2. CASE client # "tts"
      BY <2>1, <2>2, <3>2 DEF Knows, TextTold
    <3> QED BY <3>1, <3>2
  <2> QED BY <1>4, <1>12, <1>14, <2>2, <2>3 DEF At, m
<1> HIDE DEF p
<1>16. PICK r \in Nat : /\ At(parser', eol, a + n, r)
                        /\ (\A e \in 1..r : ~EndsAnswer(e)) => a + n < (r + 1) * Size(eol)
  <2>1. a + n <= Len(body) * Size(eol)
    BY <1>12 DEF N
  <2> QED BY <1>1, <1>7, <1>12, <1>15, <1>19, <2>1, ReadLinesKeeps
<1>17. GivenOf(parser'.events, r) /\ r * Size(eol) <= a + n
  BY <1>16, <1>19, KnowsGiven DEF At
<1>18. /\ \A e : EndsAnswer(e)' <=> EndsAnswer(e)
       /\ GivenOf(parser.events, r)' <=> GivenOf(parser'.events, r)
       /\ At(parser, eol, a + n, r)' <=> At(parser', eol, a + n, r)
  BY <1>1, Stays
<1> QED BY <1>7, <1>11, <1>12, <1>13, <1>16, <1>17, <1>18 DEF N

LEMMA StreamKept == StreamInv /\ [NextHttp]_httpVars => StreamInv'
<1> SUFFICES ASSUME StreamInv, [NextHttp]_httpVars PROVE StreamInv'
  OBVIOUS
<1>1. CASE Chunk
  BY <1>1, ChunkKeeps
<1>2. Len(body) \in Nat /\ (client = "llm" => IsText)
  BY DEF StreamInv
<1>3. ASSUME UNCHANGED <<client, body>>
      PROVE  Len(body') \in Nat /\ (client' = "llm" => IsText')
  BY <1>2, <1>3, Stays
<1>4. CASE FailToSend \/ Refuse \/ AnswerWholeText \/ AnswerWholeAudio \/ AnswerTranscript
  <2>1. UNCHANGED <<client, body, arrived>> /\ state = "asking" /\ state' = "over"
    BY <1>4, Zenon DEF FailToSend, Refuse, AnswerWholeText, AnswerWholeAudio, AnswerTranscript, Conclude
  <2>2. client \in {"llm", "tts"} => arrived = <<>>
    BY <2>1 DEF StreamInv
  <2> QED BY <1>3, <2>1, <2>2 DEF StreamInv
<1>5. CASE StartStream
  <2>1. /\ UNCHANGED <<client, body, arrived, parser>> /\ state = "asking" /\ state' = "reading"
        /\ UNCHANGED <<client, body>> /\ client \in {"llm", "tts"}
    BY <1>5 DEF StartStream
  <2>2. PICK eol \in LineEndings : wire' = Sendable(body, eol)
    BY <1>5 DEF StartStream, LineEndings
  <2>3. Cut(wire', eol, 0, Len(body) * Size(eol))
    BY <1>2, <2>2, SentIs
  <2>4. arrived = <<>> /\ parser = NewParser
    BY <2>1 DEF StreamInv
  <2>5. Streamed
    BY <1>2, <2>1 DEF Streamed
  <2>6. /\ Cut(arrived', eol, 0, 0) /\ At(parser', eol, 0, 0) /\ GivenOf(parser'.events, 0)
        /\ parser'.stop # "all"
    BY <2>1, <2>4, <2>5, NothingRead
  <2>7. /\ GivenOf(parser.events, 0)' <=> GivenOf(parser'.events, 0)
        /\ At(parser, eol, 0, 0)' <=> At(parser', eol, 0, 0)
    BY <2>1, Stays
  <2>8. /\ 0 <= Len(body') * Size(eol) /\ 0 * Size(eol) <= 0 /\ 0 < (0 + 1) * Size(eol)
    BY <1>2, <2>1, SizeIs
  <2>9. Cut(wire', eol, 0, Len(body') * Size(eol)) /\ 0 \in Nat
    BY <2>1, <2>3
  <2> QED BY <1>3, <2>1, <2>6, <2>7, <2>8, <2>9 DEF StreamInv
<1>6. CASE BreakStream \/ EndStream
  <2>1. UNCHANGED <<client, body, arrived>> /\ state = "reading" /\ state' = "over" /\ UNCHANGED <<client, body>>
    BY <1>6 DEF BreakStream, EndStream, Conclude
  <2>2. \/ parser'.events = parser.events
        \/ DOMAIN parser = Fields => parser'.events = Append(parser.events, Failed("Http"))
    BY <1>6 DEF BreakStream, EndStream, Conclude, Fields
  <2> SUFFICES ASSUME client \in {"llm", "tts"} PROVE StreamInv'
    BY <1>3, <2>1 DEF StreamInv
  <2>3. PICK eol \in LineEndings : \E a, r \in Nat :
                /\ a <= Len(body) * Size(eol) /\ r * Size(eol) <= a
                /\ Cut(arrived, eol, 0, a)
                /\ (\A e \in 1..r : ~EndsAnswer(e)) => a < (r + 1) * Size(eol)
                /\ GivenOf(parser.events, r)
                /\ At(parser, eol, a, r)
    BY <2>1 DEF StreamInv
  <2>4. PICK a, r \in Nat :
                /\ a <= Len(body) * Size(eol) /\ r * Size(eol) <= a
                /\ Cut(arrived, eol, 0, a)
                /\ (\A e \in 1..r : ~EndsAnswer(e)) => a < (r + 1) * Size(eol)
                /\ GivenOf(parser.events, r)
                /\ At(parser, eol, a, r)
    BY <2>3
  <2>5. GivenOf(parser'.events, r)
    <3>1. Streamed
      BY <1>2 DEF Streamed
    <3>2. DOMAIN parser = Fields
      BY <2>4, <3>1, KnowsGiven DEF At
    <3> QED BY <2>2, <2>4, <3>1, <3>2, GivenFailed
  <2>6. /\ GivenOf(parser.events, r)' <=> GivenOf(parser'.events, r)
        /\ \A e : EndsAnswer(e)' <=> EndsAnswer(e)
    BY <2>1, Stays
  <2>7. Cut(arrived', eol, 0, a)
    BY <2>1, <2>4
  <2> QED BY <1>3, <2>1, <2>4, <2>5, <2>6, <2>7 DEF StreamInv
<1>7. CASE UNCHANGED httpVars
  <2>1. /\ UNCHANGED <<client, body>> /\ client' = client /\ body' = body /\ arrived' = arrived
        /\ wire' = wire /\ state' = state /\ parser' = parser
    BY <1>7 DEF httpVars
  <2>2. /\ \A e : EndsAnswer(e)' <=> EndsAnswer(e)
        /\ \A r : GivenOf(parser.events, r)' <=> GivenOf(parser.events, r)
        /\ \A eol, a, r : At(parser, eol, a, r)' <=> At(parser, eol, a, r)
    BY <2>1, Stays
  <2> QED BY <1>3, <2>1, <2>2 DEF StreamInv
<1> QED BY <1>1, <1>4, <1>5, <1>6, <1>7 DEF NextHttp

\* The audio of a streamed answer is given in order, each piece once and
\* numbered from 1, however the provider ends its lines and wherever the network
\* cuts them; up to the first end nothing that has arrived is missing (the loop
\* of synthesize over sse_buf, parse_speech_audio_event).
THEOREM HeardAlwaysAsSaid == SpecHttp => []HeardAsSaid
BY StreamBegins, StreamKept, SpeechHeard, PTL DEF SpecHttp

\* The text of a streamed answer, up to its first end, is given as the model
\* said it without its thoughts, however the provider ends its lines and wherever
\* the network cuts them and the tags in them: no letter of a thought is given,
\* none of the rest is lost or given twice, what is not given yet is shorter than
\* a tag, and behind the end nothing is missing (the loop of chat_with_messages
\* over sse_buf, ThinkTagFilter).
THEOREM SeenAlwaysAsSaid == SpecHttp => []SeenAsSaid
BY StreamBegins, StreamKept, TextSeen, PTL DEF SpecHttp

=============================================================================
