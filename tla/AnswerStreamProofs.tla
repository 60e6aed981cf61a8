------------------------- MODULE AnswerStreamProofs -------------------------
EXTENDS AnswerStream, CrossfadeLemmas

(* The pieces of the text.                                                  *)

Voiced(A) == {p \in A : IsKind(p, "letter")}

\* Positions among the first g, in order.
Pieces(g) == {s \in Seq(1..g) : Rising(s)}

Pcs == {"receive", "text", "segment", "flush", "listen", "split", "synthesize", "tail",
        "finish", "over", "dropped"}

\* What the provider was asked for, and how much sound it gave for it.
Requests == [text : Seq(Nat), sound : Nat]

Mains == [pc : Pcs, buf : Seq(Nat), rest : Seq(Nat), pending : Seq(Nat),
          final : BOOLEAN, tail : BOOLEAN]

StreamTypes ==
    /\ transport \in {"http", "ws"}
    /\ text \in Seq(Kinds)
    /\ main \in Mains
    /\ wire \in Seq(Nat) /\ owed \in Seq(Nat) /\ lost \subseteq Nat
    /\ spoken \in Seq(Requests)

\* What was asked for, and what went down unheard.
Asks(t, l, g) == t \in Pieces(g) /\ l \subseteq 1..g /\ Range(t) \cap l = {}

Asked == Asks(SpokenText, lost, Given)

\* What the stream still has of the text, from the first to the last: over a
\* WebSocket with o owed and w of it on the wire,
WsHolds(t, o, w, l, b, r, g) ==
    /\ Asks(t, l, g) /\ {o, w, b, r} \subseteq Pieces(g)
    /\ Below(Range(t), Range(o))
    /\ Below(Range(t) \cup Range(o) \cup l, Range(r))
    /\ Range(w) \subseteq Range(o)
    /\ Range(o) \ Range(w) \subseteq l
    /\ l \cap Range(w) = {}

WsHas == WsHolds(SpokenText, owed, wire, lost, main.buf, main.rest, Given)

WsAt ==
    /\ main.pc \notin {"split", "synthesize"}
    /\ main.pc \in {"receive", "tail", "finish"} \/ main.tail => main.rest = <<>>
    /\ main.tail => main.pc \in {"flush", "listen", "finish"}
    /\ main.pc \in {"flush", "listen"} /\ ~main.tail => main.buf = <<>>
    /\ main.pc \in {"receive", "text", "segment", "tail"} =>
          /\ owed = main.buf
          /\ \A i \in 1..Len(main.buf) : ~IsKind(main.buf[i], "stop")
    /\ main.pc = "listen" => owed = <<>>
    /\ main.pc = "finish" => \A p \in Range(owed) : ~IsKind(p, "letter")

\* and over HTTP with p of the pieces waiting for a request, b of them behind.
HttpHolds(t, p, b, r, pc, g) ==
    /\ Asks(t, {}, g) /\ {p, b, r} \subseteq Pieces(g)
    /\ Below(Range(t), Range(p) \cup Range(r))
    /\ Below(Range(t) \cup Range(p), Range(b))
    /\ pc = "text" => Below(Range(p) \cup Range(b), Range(r))
    /\ pc = "synthesize" => Below(Range(r), Range(b))

\* The request for the tail takes all there is.
Behind == IF main.tail THEN <<>> ELSE main.buf

HttpHas ==
    /\ wire = <<>> /\ owed = <<>> /\ lost = {}
    /\ HttpHolds(SpokenText, main.pending, Behind, main.rest, main.pc, Given)

HttpAt ==
    /\ main.pc \notin {"segment", "flush"}
    /\ main.pc \in {"receive", "split", "listen", "tail"} => main.rest = <<>>
    /\ main.pc \in {"synthesize", "listen"} => main.pending = <<>>
    /\ main.tail => main.pc \in {"synthesize", "listen", "finish"} /\ main.pending = <<>>
    /\ main.pc = "finish" /\ ~main.tail =>
          main.pending = <<>> /\ \A p \in Range(main.buf) : ~IsKind(p, "letter")

\* Every letter that was given was asked for, is lost, or is still there.
Unspoken ==
    IF transport = "ws" THEN Range(owed)
    ELSE Range(main.pending) \cup Range(Behind)

Kept ==
    \A p \in 1..Given : IsKind(p, "letter") =>
        p \in Range(SpokenText) \cup lost \cup Range(main.rest) \cup Unspoken

Words ==
    /\ Asked
    /\ ~Over => /\ transport = "ws" => WsHas /\ WsAt
                /\ transport = "http" => HttpHas /\ HttpAt
                /\ Kept
    /\ NothingForgotten

(* The events of the LLM.                                                   *)

\* Read and not yet received.
Read == IF reader.pc = "sending" THEN Append(chan, reader.item) ELSE chan

\* Each event begins where the one before ended; a failure is the last.
Joined ==
    /\ \A i \in 1..Len(Read) : Read[i].kind = "failed" => i = Len(Read) /\ reader.pc \in {"sending", "gone"}
    /\ \A i \in 1..Len(Read) : Read[i].kind = "event" =>
          /\ Read[i].from = IF i = 1 THEN Given ELSE Read[i - 1].upto
          /\ Read[i].from <= Read[i].upto /\ Read[i].upto <= said
          /\ i = Len(Read) => Read[i].upto = said
    /\ Read = <<>> => Given = said

ChanItems ==
    [kind : {"event"}, from : Nat, upto : Nat, final : BOOLEAN] \cup [kind : {"failed"}, code : Nat]

ReaderTypes ==
    /\ said \in 0..Len(text)
    /\ reader \in [pc : {"asking", "reading", "sending", "gone"}, item : ChanItems \cup {<<>>}]
    /\ reader.pc = "sending" => reader.item \in ChanItems
    /\ chan \in Seq(ChanItems)

Reading == ReaderTypes /\ (~Over => Joined)

(* The items.                                                               *)

IsAudio(item) == item.kind \in {"audio", "last"}
IsEnd(item) == item.kind \in {"last", "failed"}
IsText(item) == item.kind = "text"

\* The last text in o reaches g.
Reaches(o, g) ==
    /\ \A i \in 1..Len(o) : IsText(o[i]) => o[i].upto \in 0..g
    /\ g = 0 \/ \E i \in 1..Len(o) : IsText(o[i]) /\ o[i].upto = g
    /\ \A i, j \in 1..Len(o) : IsText(o[i]) /\ IsText(o[j]) /\ i < j => o[i].upto <= o[j].upto

Handed ==
    /\ \E D : out \in Seq(D)
    /\ seq \in Nat /\ Given \in 0..Len(text)
    /\ Reaches(out, Given)
    /\ ItemsOrdered

(***************************************************************************)
(* What the operators on pieces of text do.                                *)
(***************************************************************************)

\* A part of a piece.
LEMMA PartOf ==
    ASSUME NEW S, NEW s \in Seq(S), NEW m \in Nat, NEW n \in Nat, m >= 1, n <= Len(s)
    PROVE  /\ SubSeq(s, m, n) \in Seq(S)
           /\ \A x \in Range(SubSeq(s, m, n)) : \E k \in m..n : x = s[k]
           /\ \A k \in m..n : s[k] \in Range(SubSeq(s, m, n))
           /\ Range(SubSeq(s, m, n)) \subseteq Range(s)
           /\ Rising(s) /\ S \subseteq Nat => Rising(SubSeq(s, m, n))
<1> DEFINE part == SubSeq(s, m, n)
<1>0. Len(s) \in Nat /\ \A i \in 1..Len(s) : s[i] \in S /\ s[i] \in Range(s)
  BY RangeIs
<1>1. part \in Seq(S)
  <2>1. \A i \in m..n : s[i] \in S
    BY <1>0
  <2> QED BY <2>1
<1>2. Len(part) = IF m <= n THEN n - m + 1 ELSE 0
  BY <1>0
<1>3. \A i \in 1..Len(part) : m + i - 1 \in m..n /\ m + i - 1 \in 1..Len(s) /\ part[i] = s[m + i - 1]
  BY <1>0, <1>2
<1> HIDE DEF part
<1>4. ASSUME NEW k \in m..n PROVE k - m + 1 \in 1..Len(part) /\ part[k - m + 1] = s[k]
  <2>1. k - m + 1 \in 1..Len(part) /\ m + (k - m + 1) - 1 = k
    BY <1>2
  <2> QED BY <1>3, <2>1
<1>5. /\ \A i \in 1..Len(part) : part[i] \in Range(part)
      /\ \A x \in Range(part) : \E i \in 1..Len(part) : x = part[i]
  BY <1>1, RangeIs
<1>6. /\ \A x \in Range(part) : \E k \in m..n : x = s[k]
      /\ \A k \in m..n : s[k] \in Range(part)
  <2>1. ASSUME NEW x \in Range(part) PROVE \E k \in m..n : x = s[k]
    <3>1. PICK i \in 1..Len(part) : x = part[i]
      BY <1>5
    <3>2. m + i - 1 \in m..n /\ x = s[m + i - 1]
      BY <1>3, <3>1
    <3> QED BY <3>2
  <2>2. \A k \in m..n : s[k] \in Range(part)
    BY <1>4, <1>5
  <2> QED BY <2>1, <2>2
<1>7. Range(part) \subseteq Range(s)
  BY <1>0, <1>3, <1>5
<1>8. ASSUME Rising(s), S \subseteq Nat PROVE Rising(part)
  <2> SUFFICES ASSUME NEW i \in 1..Len(part), NEW j \in 1..Len(part), i < j
               PROVE  part[i] < part[j]
    BY DEF Rising
  <2>1. m + i - 1 \in 1..Len(s) /\ m + j - 1 \in 1..Len(s)
    BY <1>3
  <2>2. m + i - 1 < m + j - 1
    BY <1>0
  <2>3. s[m + i - 1] < s[m + j - 1]
    BY <1>8, <2>1, <2>2 DEF Rising
  <2> QED BY <1>3, <2>3
<1> QED BY <1>1, <1>6, <1>7, <1>8 DEF part

\* A piece cut in two.
LEMMA KeepOf ==
    ASSUME NEW S, NEW s \in Seq(S), NEW n \in Nat, n <= Len(s)
    PROVE  /\ Keep(s, n) \in Seq(S)
           /\ \A x \in Range(Keep(s, n)) : \E k \in 1..n : x = s[k]
           /\ \A k \in 1..n : s[k] \in Range(Keep(s, n))
           /\ Range(Keep(s, n)) \subseteq Range(s)
           /\ Rising(s) /\ S \subseteq Nat => Rising(Keep(s, n))
<1>1. 1 \in Nat /\ 1 >= 1
  OBVIOUS
<1> QED BY <1>1, PartOf DEF Keep

LEMMA PastOf ==
    ASSUME NEW S, NEW s \in Seq(S), NEW n \in Nat, n <= Len(s)
    PROVE  /\ Past(s, n) \in Seq(S)
           /\ \A x \in Range(Past(s, n)) : \E k \in (n + 1)..Len(s) : x = s[k]
           /\ \A k \in (n + 1)..Len(s) : s[k] \in Range(Past(s, n))
           /\ Range(Past(s, n)) \subseteq Range(s)
           /\ Rising(s) /\ S \subseteq Nat => Rising(Past(s, n))
<1>1. n + 1 \in Nat /\ n + 1 >= 1 /\ Len(s) \in Nat /\ Len(s) <= Len(s)
  OBVIOUS
<1> QED BY <1>1, PartOf DEF Past

LEMMA CutAt ==
    ASSUME NEW S, S \subseteq Nat, NEW s \in Seq(S), Rising(s), NEW n \in 0..Len(s)
    PROVE  /\ Keep(s, n) \in Seq(S) /\ Rising(Keep(s, n))
           /\ Past(s, n) \in Seq(S) /\ Rising(Past(s, n))
           /\ Range(Keep(s, n)) \cup Range(Past(s, n)) = Range(s)
           /\ Below(Range(Keep(s, n)), Range(Past(s, n)))
<1>0. n \in Nat /\ n <= Len(s) /\ Len(s) \in Nat
  OBVIOUS
<1>1. \A x \in Range(s) : \E i \in 1..Len(s) : x = s[i]
  BY RangeIs
<1>2. /\ Keep(s, n) \in Seq(S)
      /\ \A x \in Range(Keep(s, n)) : \E k \in 1..n : x = s[k]
      /\ \A k \in 1..n : s[k] \in Range(Keep(s, n))
      /\ Range(Keep(s, n)) \subseteq Range(s)
      /\ Rising(Keep(s, n))
  BY <1>0, KeepOf
<1>3. /\ Past(s, n) \in Seq(S)
      /\ \A x \in Range(Past(s, n)) : \E k \in (n + 1)..Len(s) : x = s[k]
      /\ \A k \in (n + 1)..Len(s) : s[k] \in Range(Past(s, n))
      /\ Range(Past(s, n)) \subseteq Range(s)
      /\ Rising(Past(s, n))
  BY <1>0, PastOf
<1>4. \A i \in 1..Len(s) : i \in 1..n \/ i \in (n + 1)..Len(s)
  BY <1>0
<1>5. Range(s) \subseteq Range(Keep(s, n)) \cup Range(Past(s, n))
  BY <1>0, <1>1, <1>2, <1>3, <1>4
<1>6. ASSUME NEW k \in 1..n, NEW l \in (n + 1)..Len(s) PROVE s[k] < s[l]
  <2>1. k \in 1..Len(s) /\ l \in 1..Len(s) /\ k < l
    BY <1>0
  <2> QED BY <2>1 DEF Rising
<1>7. Below(Range(Keep(s, n)), Range(Past(s, n)))
  BY <1>2, <1>3, <1>6 DEF Below
<1> QED BY <1>2, <1>3, <1>5, <1>7

LEMMA MinOf ==
    ASSUME NEW A \in SUBSET Nat, A # {}
    PROVE  Min(A) \in A /\ \A x \in A : Min(A) <= x
BY LeastNat DEF Min

LEMMA MaxIs ==
    ASSUME NEW A \in SUBSET Nat, NEW n \in A, \A x \in A : x <= n
    PROVE  Max(A) = n
<1>1. \A y \in A : n >= y
  OBVIOUS
<1>2. Max(A) \in A /\ \A y \in A : Max(A) >= y
  BY <1>1 DEF Max
<1>3. Max(A) \in Nat /\ n \in Nat /\ Max(A) <= n /\ Max(A) >= n
  BY <1>2
<1> QED BY <1>3

LEMMA MaxOf ==
    ASSUME NEW A \in SUBSET Nat, A # {}, NEW b \in Nat, \A x \in A : x <= b
    PROVE  Max(A) \in A /\ \A x \in A : x <= Max(A)
<1> DEFINE Gaps == {b - x : x \in A}
<1>1. Gaps \in SUBSET Nat /\ Gaps # {}
  <2>1. \A x \in A : b - x \in Nat
    OBVIOUS
  <2> QED BY <2>1
<1>2. PICK gap \in Gaps : \A h \in Gaps : gap <= h
  <2> HIDE DEF Gaps
  <2> QED BY <1>1, LeastNat
<1>3. PICK n \in A : gap = b - n
  BY <1>2
<1>4. \A x \in A : b - n <= b - x
  BY <1>2, <1>3
<1>5. \A x \in A : x <= n
  BY <1>4
<1> QED BY <1>5, MaxIs

\* Trimming takes no letter, nor anything from within.
LEMMA StripOf ==
    ASSUME NEW D, D \subseteq Nat, NEW s \in Seq(D)
    PROVE  /\ Strip(s) \in Seq(D) /\ (Rising(s) => Rising(Strip(s)))
           /\ Range(Strip(s)) \subseteq Range(s)
           /\ Voiced(Range(s)) \subseteq Range(Strip(s))
<1> DEFINE solid == {i \in DOMAIN s : ~IsKind(s[i], "blank")}
<1>1. /\ Len(s) \in Nat /\ DOMAIN s = 1..Len(s)
      /\ \A x \in Range(s) : \E i \in 1..Len(s) : x = s[i]
  BY RangeIs
<1>2. ASSUME NEW i \in 1..Len(s), IsKind(s[i], "letter") PROVE i \in solid
  BY <1>1, <1>2 DEF IsKind
<1>3. CASE solid = {}
  <2>1. Strip(s) = <<>>
    BY <1>3 DEF Strip
  <2>2. Voiced(Range(s)) = {}
    BY <1>1, <1>2, <1>3 DEF Voiced
  <2>3. Rising(<<>>) /\ <<>> \in Seq(D)
    BY DEF Rising
  <2> QED BY <2>1, <2>2, <2>3, RangeEmpty
<1>4. CASE solid # {}
  <2>1. solid \in SUBSET Nat /\ \A i \in solid : i \in 1..Len(s)
    BY <1>1
  <2> DEFINE m == Min(solid)
             n == Max(solid)
  <2>2. Strip(s) = SubSeq(s, m, n)
    BY <1>4 DEF Strip
  <2> HIDE DEF solid
  <2>3. m \in solid /\ \A i \in solid : m <= i
    BY <1>4, <2>1, MinOf
  <2>4. n \in solid /\ \A i \in solid : i <= n
    <3>1. \A i \in solid : i <= Len(s)
      BY <1>1, <2>1
    <3> QED BY <1>1, <1>4, <2>1, <3>1, MaxOf
  <2> HIDE DEF m, n
  <2>5. m \in Nat /\ n \in Nat /\ m >= 1 /\ n <= Len(s)
    BY <1>1, <2>1, <2>3, <2>4
  <2>6. /\ SubSeq(s, m, n) \in Seq(D)
        /\ \A k \in m..n : s[k] \in Range(SubSeq(s, m, n))
        /\ Range(SubSeq(s, m, n)) \subseteq Range(s)
        /\ Rising(s) => Rising(SubSeq(s, m, n))
    BY <2>5, PartOf
  <2>7. ASSUME NEW x \in Voiced(Range(s)) PROVE x \in Range(SubSeq(s, m, n))
    <3>1. PICK i \in 1..Len(s) : x = s[i]
      BY <1>1 DEF Voiced
    <3>2. i \in solid
      BY <1>2, <3>1 DEF Voiced
    <3>3. i \in m..n
      BY <1>1, <2>3, <2>4, <2>5, <3>2
    <3> QED BY <2>6, <3>1, <3>3
  <2> QED BY <2>2, <2>6, <2>7
<1> QED BY <1>3, <1>4

LEMMA CleanOf ==
    ASSUME NEW D, D \subseteq Nat, NEW s \in Seq(D)
    PROVE  /\ Clean(s) \in Seq(D) /\ (Rising(s) => Rising(Clean(s)))
           /\ Range(Clean(s)) \subseteq Range(s)
           /\ Range(s) \subseteq DOMAIN text => Voiced(Range(s)) \subseteq Range(Clean(s))
<1> DEFINE S == {p \in DOMAIN text : ~IsKind(p, "decoration")}
<1>1. Clean(s) = Only(s, S)
  BY DEF Clean
<1>2. Range(s) \subseteq DOMAIN text => Voiced(Range(s)) \subseteq S
  BY DEF Voiced, IsKind
<1> HIDE DEF S
<1>3. /\ Only(s, S) \in Seq(D)
      /\ Range(Only(s, S)) = Range(s) \cap S
      /\ Rising(s) => Rising(Only(s, S))
  BY OnlyIs
<1> QED BY <1>1, <1>2, <1>3 DEF Voiced

LEMMA SpeechOf ==
    ASSUME NEW D, D \subseteq Nat, NEW s \in Seq(D)
    PROVE  /\ Speech(s) \in Seq(D) /\ (Rising(s) => Rising(Speech(s)))
           /\ Range(Speech(s)) \subseteq Range(s)
           /\ Range(s) \subseteq DOMAIN text => Voiced(Range(s)) \subseteq Range(Speech(s))
<1>1. /\ Clean(s) \in Seq(D) /\ (Rising(s) => Rising(Clean(s)))
      /\ Range(Clean(s)) \subseteq Range(s)
      /\ Range(s) \subseteq DOMAIN text => Voiced(Range(s)) \subseteq Range(Clean(s))
  BY CleanOf
<1>2. /\ Strip(Clean(s)) \in Seq(D) /\ (Rising(Clean(s)) => Rising(Strip(Clean(s))))
      /\ Range(Strip(Clean(s))) \subseteq Range(Clean(s))
      /\ Voiced(Range(Clean(s))) \subseteq Range(Strip(Clean(s)))
  BY <1>1, StripOf
<1>3. Range(s) \subseteq DOMAIN text => Voiced(Range(s)) \subseteq Voiced(Range(Clean(s)))
  BY <1>1 DEF Voiced
<1> QED BY <1>1, <1>2, <1>3 DEF Speech

\* A sentence ends at its first stop.
LEMMA SentenceEndOf ==
    ASSUME NEW D, NEW s \in Seq(D)
    PROVE  /\ SentenceEnd(s) \in 0..Len(s)
           /\ SentenceEnd(s) > 0 => IsKind(s[SentenceEnd(s)], "stop")
           /\ SentenceEnd(s) = 0 => \A i \in 1..Len(s) : ~IsKind(s[i], "stop")
<1> DEFINE stops == {i \in 1..Len(s) : IsKind(s[i], "stop")}
<1>1. Len(s) \in Nat /\ stops \in SUBSET Nat
  OBVIOUS
<1>2. SentenceEnd(s) = IF stops # {} THEN Min(stops) ELSE 0
  BY DEF SentenceEnd, SelectInSeq
<1>3. CASE stops = {}
  BY <1>1, <1>2, <1>3
<1>4. CASE stops # {}
  <2>1. Min(stops) \in stops
    <3> HIDE DEF stops
    <3> QED BY <1>1, <1>4, MinOf
  <2> QED BY <1>1, <1>2, <1>4, <2>1
<1> QED BY <1>3, <1>4

-----------------------------------------------------------------------------
(* Types.                                                                   *)

LEMMA SegmentTypes ==
    ASSUME NEW m \in Mains
    PROVE  Segment(m).send \in Seq(Nat) /\ Segment(m).next \in Mains
<1> DEFINE whole == m.buf \o m.rest
           end == SentenceEnd(whole)
<1>e. <<>> \in Seq(Nat)
  OBVIOUS
<1>1. /\ m.buf \in Seq(Nat) /\ m.rest \in Seq(Nat) /\ whole \in Seq(Nat) /\ Len(whole) \in Nat
      /\ Len(m.buf) \in Nat /\ m.final \in BOOLEAN
  BY DEF Mains
<1> HIDE DEF whole
<1>2. end \in 0..Len(whole)
  BY <1>1, SentenceEndOf
<1>3. Segment(m) = IF end > 0
                   THEN [send |-> SubSeq(whole, Len(m.buf) + 1, end),
                         next |-> [m EXCEPT !.pc = "flush", !.rest = Past(whole, end), !.buf = <<>>]]
                   ELSE [send |-> m.rest, next |-> [m EXCEPT !.pc = After(m), !.rest = <<>>, !.buf = whole]]
  BY DEF Segment, whole
<1> HIDE DEF end
<1>4. CASE end > 0
  <2>1. end \in Nat /\ end <= Len(whole) /\ Len(m.buf) + 1 \in Nat /\ Len(m.buf) + 1 >= 1
    BY <1>1, <1>2
  <2>2. SubSeq(whole, Len(m.buf) + 1, end) \in Seq(Nat)
    BY <1>1, <2>1, PartOf
  <2>3. Past(whole, end) \in Seq(Nat)
    BY <1>1, <2>1, PastOf
  <2> DEFINE rest == Past(whole, end)
  <2> HIDE DEF rest
  <2>4. [m EXCEPT !.pc = "flush", !.rest = rest, !.buf = <<>>] \in Mains
    BY <1>e, <2>3 DEF Mains, Pcs, rest
  <2> QED BY <1>3, <1>4, <2>2, <2>4 DEF rest
<1>5. CASE ~(end > 0)
  <2>1. After(m) \in Pcs
    BY DEF After, Pcs
  <2> DEFINE pc == After(m)
  <2> HIDE DEF pc
  <2>2. [m EXCEPT !.pc = pc, !.rest = <<>>, !.buf = whole] \in Mains
    BY <1>e, <1>1, <2>1 DEF Mains, pc
  <2> QED BY <1>1, <1>3, <1>5, <2>2 DEF pc
<1> QED BY <1>4, <1>5

-----------------------------------------------------------------------------
(* What is played.                                                          *)

LEMMA BytesAre ==
    ASSUME Len(spoken) \in Nat, NEW n \in Nat, NEW l \in Nat
    PROVE  /\ Bytes(n, l) \in Seq(AudioByte) /\ Len(Bytes(n, l)) = l
           /\ Stretch(Bytes(n, l), Len(spoken))
           /\ Range(Bytes(n, l)) = {[ask |-> Len(spoken), byte |-> n + i] : i \in 1..l}
<1> DEFINE a == Len(spoken)
           s == [i \in 1..l |-> [ask |-> a, byte |-> n + i]]
<1>1. Bytes(n, l) = s
  BY DEF Bytes
<1> HIDE DEF a
<1>2. a \in Nat
  BY DEF a
<1>3. s \in Seq(AudioByte) /\ Len(s) = l /\ \A i \in 1..l : s[i].ask = a /\ s[i].byte = n + i
  BY <1>2 DEF AudioByte
<1>4. Stretch(s, a)
  BY <1>3 DEF Stretch
<1>5. Range(s) = {[ask |-> a, byte |-> n + i] : i \in 1..l}
  BY DEF Range
<1> QED BY <1>1, <1>3, <1>4, <1>5 DEF a

\* How far the playing of a sentence has got after each of its chunks.
PlayStates == [fader : Faders, sent : Sent, upto : Nat]

Plays(g, lengths) ==
    /\ g[0] = [fader |-> BeginSentence(fader), sent |-> <<>>, upto |-> 0]
    /\ \A n \in 1..Len(lengths) :
          LET r == Feed(g[n - 1].fader, Bytes(g[n - 1].upto, lengths[n]))
          IN  g[n] = [fader |-> r.fader, sent |-> r.sent, upto |-> g[n - 1].upto + lengths[n]]

LEMMA PlayedIs ==
    ASSUME fader \in Faders, Len(spoken) \in Nat, NEW lengths \in Seq(Nat)
    PROVE  \E g \in [0..Len(lengths) -> PlayStates] :
              /\ Plays(g, lengths)
              /\ Played(lengths) = [fader  |-> g[Len(lengths)].fader,
                                    pieces |-> [n \in 1..Len(lengths) |-> g[n].sent],
                                    length |-> g[Len(lengths)].upto]
<1> DEFINE N == Len(lengths)
           first == [fader |-> BeginSentence(fader), sent |-> <<>>, upto |-> 0]
           fed(s, n) == Feed(s.fader, Bytes(s.upto, lengths[n]))
           next(s, n) == [fader |-> fed(s, n).fader, sent |-> fed(s, n).sent, upto |-> s.upto + lengths[n]]
           step == [n \in 1..N |-> [s \in PlayStates |-> next(s, n)]]
           Solves(g) == g = [n \in 0..N |-> IF n = 0 THEN first ELSE next(g[n - 1], n)]
           played == CHOOSE g : Solves(g)
<1>1. N \in Nat /\ \A n \in 1..N : lengths[n] \in Nat
  OBVIOUS
<1>2. first \in PlayStates
  BY BeginType, NothingSent DEF PlayStates
<1>3. ASSUME NEW n \in 1..N, NEW s \in PlayStates PROVE next(s, n) \in PlayStates
  <2>1. s.fader \in Faders /\ s.upto \in Nat /\ lengths[n] \in Nat
    BY <1>1 DEF PlayStates
  <2>2. Bytes(s.upto, lengths[n]) \in Seq(AudioByte)
    BY <2>1, BytesAre
  <2>3. fed(s, n).fader \in Faders /\ fed(s, n).sent \in Sent
    BY <2>1, <2>2, FeedType
  <2> HIDE DEF fed
  <2> QED BY <2>1, <2>3 DEF PlayStates
<1>p. Played(lengths) = [fader |-> played[N].fader, pieces |-> [n \in 1..N |-> played[n].sent],
                         length |-> played[N].upto]
  BY DEF Played
<1> HIDE DEF first, next, N
<1>4. step \in [1..N -> [PlayStates -> PlayStates]]
  BY <1>3
<1>5. PICK g \in [0..N -> PlayStates] : Iterates(g, first, step, N)
  <2> HIDE DEF step
  <2> QED BY <1>1, <1>2, <1>4, IterationExists
<1>6. g[0] = first /\ \A n \in 1..N : g[n] = next(g[n - 1], n)
  <2>1. ASSUME NEW n \in 1..N PROVE step[n][g[n - 1]] = next(g[n - 1], n)
    <3>1. g[n - 1] \in PlayStates
      <4>1. n - 1 \in 0..N
        BY <1>1
      <4> QED BY <4>1
    <3> QED BY <3>1
  <2> HIDE DEF step
  <2> QED BY <1>5, <2>1 DEF Iterates
<1>7. Solves(g)
  <2>1. \A n \in 0..N : g[n] = IF n = 0 THEN first ELSE next(g[n - 1], n)
    BY <1>1, <1>6
  <2> QED BY <2>1
<1>8. Solves(played)
  <2> HIDE DEF Solves
  <2> QED BY <1>7
<1> HIDE DEF played
<1>9. \A n \in 0..N : played[n] = g[n]
  <2>1. played[0] = first /\ \A n \in 1..N : played[n] = next(played[n - 1], n)
    BY <1>1, <1>8
  <2> DEFINE P == {n \in 0..N : played[n] = g[n]}
  <2>2. 0 \in P
    BY <1>1, <1>6, <2>1
  <2>3. ASSUME NEW n \in 1..N, n - 1 \in P PROVE n \in P
    <3>1. n \in 0..N /\ played[n - 1] = g[n - 1]
      BY <1>1, <2>3
    <3> QED BY <1>6, <2>1, <3>1
  <2> HIDE DEF P
  <2>4. 0..N \subseteq P
    BY <1>1, <2>2, <2>3, UpTo
  <2> QED BY <2>4 DEF P
<1>10. Plays(g, lengths)
  <2>1. g[0] = [fader |-> BeginSentence(fader), sent |-> <<>>, upto |-> 0]
    BY <1>6 DEF first
  <2>2. ASSUME NEW n \in 1..N
        PROVE  LET r == Feed(g[n - 1].fader, Bytes(g[n - 1].upto, lengths[n]))
               IN  g[n] = [fader |-> r.fader, sent |-> r.sent, upto |-> g[n - 1].upto + lengths[n]]
    BY <1>6 DEF next
  <2> QED BY <2>1, <2>2 DEF Plays, N
<1>11. Played(lengths) = [fader |-> g[N].fader, pieces |-> [n \in 1..N |-> g[n].sent], length |-> g[N].upto]
  <2>1. N \in 0..N /\ \A n \in 1..N : n \in 0..N
    BY <1>1
  <2>2. [n \in 1..N |-> played[n].sent] = [n \in 1..N |-> g[n].sent]
    BY <1>9, <2>1
  <2> QED BY <1>9, <1>p, <2>1, <2>2
<1> QED BY <1>5, <1>10, <1>11 DEF N

LEMMA SoundsAre == \A sound \in Sounds : sound \in Seq(Nat)
BY SoundsAssumption

LEMMA PlayedType ==
    ASSUME fader \in Faders, Len(spoken) \in Nat, NEW lengths \in Seq(Nat)
    PROVE  /\ Played(lengths).fader \in Faders /\ Played(lengths).length \in Nat
           /\ Played(lengths).pieces \in Seq(Sent)
<1>1. PICK g \in [0..Len(lengths) -> PlayStates] :
         Played(lengths) = [fader  |-> g[Len(lengths)].fader,
                            pieces |-> [n \in 1..Len(lengths) |-> g[n].sent],
                            length |-> g[Len(lengths)].upto]
  BY PlayedIs
<1>2. Len(lengths) \in Nat /\ Len(lengths) \in 0..Len(lengths) /\ \A n \in 1..Len(lengths) : n \in 0..Len(lengths)
  OBVIOUS
<1>3. \A n \in 0..Len(lengths) : g[n].fader \in Faders /\ g[n].sent \in Sent /\ g[n].upto \in Nat
  BY DEF PlayStates
<1> DEFINE pieces == [n \in 1..Len(lengths) |-> g[n].sent]
<1>4. pieces \in Seq(Sent)
  BY <1>2, <1>3
<1> HIDE DEF pieces
<1>5. Played(lengths).pieces = pieces
  BY <1>1 DEF pieces
<1> QED BY <1>1, <1>2, <1>3, <1>4, <1>5

LEMMA StreamTypesStep ==
    ASSUME StreamTypes, ReaderTypes, fader \in Faders, Next
    PROVE  StreamTypes'
<1> USE DEF StreamTypes
<1>e. <<>> \in Seq(Nat)
  OBVIOUS
<1>0. /\ main.pc \in Pcs /\ main.buf \in Seq(Nat) /\ main.rest \in Seq(Nat) /\ main.pending \in Seq(Nat)
      /\ main.final \in BOOLEAN /\ main.tail \in BOOLEAN
  BY DEF Mains
<1>1. CASE ReaderStep \/ ReaderCancelled
  BY <1>1 DEF ReaderStep, ReaderAsks, ReaderReads, ReaderEnds, ReaderSends, ReaderCancelled, ttsVars
<1>2. CASE Drop
  BY <1>2 DEF Drop, ttsVars, llmVars, Mains, Pcs
<1>3. ASSUME NEW code, Fail(code) PROVE StreamTypes'
  BY <1>3 DEF Fail, ttsVars, llmVars, Mains, Pcs
<1>4. ASSUME NEW m \in Mains, Go(m) PROVE StreamTypes'
  BY <1>4 DEF Go, ttsVars, llmVars
<1>5. CASE Receive
  <2>1. UNCHANGED <<transport, text, ttsVars>>
    BY <1>5 DEF Receive
  <2>2. main' \in Mains
    <3>1. chan # <<>> /\ Head(chan) \in ChanItems
      BY <1>5 DEF Receive, ReaderTypes
    <3>2. PICK item \in ChanItems :
             \/ /\ item.kind = "event"
                /\ main' = [main EXCEPT !.pc = "text", !.rest = Positions(item.from, item.upto), !.final = item.final]
             \/ main' = [main EXCEPT !.pc = "over"]
      BY <1>5, <3>1 DEF Receive
    <3>3. CASE item.kind = "event" /\ main' = [main EXCEPT !.pc = "text", !.rest = Positions(item.from, item.upto), !.final = item.final]
      <4>1. item.from \in Nat /\ item.upto \in Nat /\ item.final \in BOOLEAN
        BY <3>3 DEF ChanItems
      <4>2. Positions(item.from, item.upto) \in Seq(Nat)
        <5>1. \A i \in 1..(item.upto - item.from) : item.from + i \in Nat
          BY <4>1
        <5>2. CASE item.upto - item.from \in Nat
          BY <5>1, <5>2, SMTT(40) DEF Positions
        <5>3. CASE item.upto - item.from \notin Nat
          <6>1. 1..(item.upto - item.from) = 1..0
            BY <4>1, <5>3
          <6>2. [i \in 1..0 |-> item.from + i] \in [1..0 -> Nat]
            OBVIOUS
          <6>3. [i \in 1..0 |-> item.from + i] \in Seq(Nat)
            BY <6>2, SeqDef
          <6> QED BY <6>1, <6>3 DEF Positions
        <5> QED BY <5>2, <5>3
      <4> DEFINE rest == Positions(item.from, item.upto)
      <4> HIDE DEF rest
      <4>3. main' = [main EXCEPT !.pc = "text", !.rest = rest, !.final = item.final]
        BY <3>3 DEF rest
      <4> QED BY <4>1, <4>2, <4>3 DEF Mains, Pcs, rest
    <3>4. CASE main' = [main EXCEPT !.pc = "over"]
      BY <3>4 DEF Mains, Pcs
    <3> QED BY <3>2, <3>3, <3>4
  <2> QED BY <2>1, <2>2 DEF ttsVars
<1>6. CASE ChannelCloses
  <2>1. [main EXCEPT !.pc = "tail"] \in Mains
    BY DEF Mains, Pcs
  <2> QED BY <1>4, <1>6, <2>1 DEF ChannelCloses
<1>7. CASE CleanDelta
  <2> DEFINE cleaned == Clean(main.rest)
             pc == After(main)
  <2>1. cleaned \in Seq(Nat)
    BY <1>0, CleanOf
  <2>2. pc \in Pcs
    BY DEF After, Pcs
  <2>3. Go([main EXCEPT !.pc = "segment", !.rest = cleaned]) \/ Go([main EXCEPT !.pc = pc, !.rest = <<>>])
    BY <1>7 DEF CleanDelta
  <2> HIDE DEF cleaned, pc
  <2>4. [main EXCEPT !.pc = "segment", !.rest = cleaned] \in Mains
    BY <2>1 DEF Mains, Pcs
  <2>5. [main EXCEPT !.pc = pc, !.rest = <<>>] \in Mains
    BY <1>e, <2>2 DEF Mains
  <2> QED BY <1>4, <2>3, <2>4, <2>5
<1>8. CASE SendText
  <2> DEFINE segment == Segment(main)
  <2>1. segment.send \in Seq(Nat) /\ segment.next \in Mains
    BY SegmentTypes
  <2>2. CASE Fail(1004)
    BY <1>3, <2>2
  <2>3. CASE ~Fail(1004)
    <3>1. /\ wire' = wire \o segment.send \/ wire' = segment.send
          /\ lost' = lost \/ lost' = lost \cup Range(wire)
          /\ owed' = owed \o segment.send
          /\ main' = segment.next
          /\ UNCHANGED <<transport, llmVars, spoken>>
      BY <1>8, <2>3 DEF SendText
    <3> HIDE DEF segment
    <3>2. Range(wire) \subseteq Nat
      BY RangeIs
    <3>3. wire' \in Seq(Nat) /\ owed' \in Seq(Nat)
      <4>1. wire \o segment.send \in Seq(Nat) /\ owed \o segment.send \in Seq(Nat)
        BY <2>1
      <4> QED BY <2>1, <3>1, <4>1
    <3> QED BY <2>1, <3>1, <3>2, <3>3 DEF llmVars
  <2> QED BY <2>2, <2>3
<1>9. ASSUME NEW s \in Seq(Nat), Ask(s) PROVE spoken' \in Seq(Requests)
  <2>1. [text |-> s, sound |-> 0] \in Requests
    BY DEF Requests
  <2> QED BY <1>9, <2>1 DEF Ask
<1>10. CASE Flush
  <2>1. CASE Fail(IF main.tail THEN 1005 ELSE 1004)
    BY <1>3, <2>1
  <2>2. CASE ~Fail(IF main.tail THEN 1005 ELSE 1004)
    <3>1. /\ Ask(wire) \/ Ask(owed)
          /\ lost' = lost \/ lost' = lost \ Range(owed)
          /\ wire' = <<>> /\ owed' = <<>>
          /\ main' = [main EXCEPT !.pc = "listen"]
          /\ UNCHANGED <<transport, llmVars>>
      BY <1>10, <2>2 DEF Flush
    <3>2. main' \in Mains
      BY <3>1 DEF Mains, Pcs
    <3> QED BY <1>9, <3>1, <3>2 DEF llmVars
  <2> QED BY <2>1, <2>2
<1>11. CASE Collect
  <2> DEFINE buf == main.buf \o main.rest
  <2>1. buf \in Seq(Nat)
    BY <1>0
  <2>2. Go([main EXCEPT !.pc = "split", !.buf = buf, !.rest = <<>>])
    BY <1>11 DEF Collect
  <2> HIDE DEF buf
  <2>3. [main EXCEPT !.pc = "split", !.buf = buf, !.rest = <<>>] \in Mains
    BY <1>e, <2>1 DEF Mains, Pcs
  <2> QED BY <1>4, <2>2, <2>3
<1>12. CASE Split
  <2> DEFINE end == SentenceEnd(main.buf)
             sentence == Speech(Keep(main.buf, end))
             request == main.pending \o sentence
             buf == Past(main.buf, end)
             cut == [main EXCEPT !.buf = buf]
             pc == After(main)
  <2>1. end \in Nat /\ end <= Len(main.buf)
    BY <1>0, SentenceEndOf
  <2>2. \/ Go([main EXCEPT !.pc = pc])
        \/ Go([cut EXCEPT !.pending = request])
        \/ Go([cut EXCEPT !.pc = "synthesize", !.rest = request, !.pending = <<>>])
    BY <1>12 DEF Split
  <2> HIDE DEF end
  <2>3. Keep(main.buf, end) \in Seq(Nat) /\ buf \in Seq(Nat)
    BY <1>0, <2>1, KeepOf, PastOf
  <2>4. sentence \in Seq(Nat)
    BY <2>3, SpeechOf
  <2> HIDE DEF sentence, buf
  <2>5. request \in Seq(Nat)
    BY <1>0, <2>4
  <2>6. pc \in Pcs
    BY DEF After, Pcs
  <2> HIDE DEF request, pc
  <2>7. cut \in Mains
    BY <2>3 DEF Mains
  <2> HIDE DEF cut
  <2>8. [main EXCEPT !.pc = pc] \in Mains
    BY <2>6 DEF Mains
  <2>9. [cut EXCEPT !.pending = request] \in Mains
    BY <2>5, <2>7 DEF Mains
  <2>10. [cut EXCEPT !.pc = "synthesize", !.rest = request, !.pending = <<>>] \in Mains
    BY <1>e, <2>5, <2>7 DEF Mains, Pcs
  <2> QED BY <1>4, <2>2, <2>8, <2>9, <2>10
<1>13. CASE Synthesize
  <2>1. CASE Fail(1004)
    BY <1>3, <2>1
  <2>2. CASE Go([main EXCEPT !.pc = "finish"])
    <3>1. [main EXCEPT !.pc = "finish"] \in Mains
      BY DEF Mains, Pcs
    <3> QED BY <1>4, <2>2, <3>1
  <2>3. CASE /\ Ask(main.rest)
             /\ main' = [main EXCEPT !.pc = "listen", !.rest = <<>>]
             /\ UNCHANGED <<transport, llmVars, wire, owed, lost, fader, seq, out>>
    <3>1. main' \in Mains
      BY <1>e, <2>3 DEF Mains, Pcs
    <3> QED BY <1>0, <1>9, <2>3, <3>1 DEF llmVars
  <2> QED BY <1>13, <2>1, <2>2, <2>3 DEF Synthesize
<1>14. CASE Listen
  <2>1. PICK lengths \in Sounds : spoken' = [spoken EXCEPT ![Len(spoken)].sound = Played(lengths).length]
    BY <1>14 DEF Listen
  <2>2. spoken' \in Seq(Requests)
    <3> DEFINE i == Len(spoken)
               total == Played(lengths).length
    <3>1. total \in Nat
      <4>1. lengths \in Seq(Nat) /\ Len(spoken) \in Nat
        BY SoundsAre
      <4> QED BY <4>1, PlayedType
    <3> HIDE DEF total
    <3>2. \A r \in Requests : [r EXCEPT !.sound = total] \in Requests
      BY <3>1 DEF Requests
    <3>3. spoken' = [spoken EXCEPT ![i] = [spoken[i] EXCEPT !.sound = total]]
      BY <2>1 DEF total
    <3>4. CASE i \in 1..Len(spoken)
      <4> DEFINE r == [spoken[i] EXCEPT !.sound = total]
      <4>1. r \in Requests
        BY <3>2, <3>4
      <4> HIDE DEF r
      <4>2. spoken' = [spoken EXCEPT ![i] = r]
        BY <3>3 DEF r
      <4> HIDE DEF i
      <4> QED BY <3>4, <4>1, <4>2
    <3>5. CASE i \notin 1..Len(spoken)
      <4> DEFINE r == [spoken[i] EXCEPT !.sound = total]
      <4>1. i \notin DOMAIN spoken /\ spoken' = [spoken EXCEPT ![i] = r]
        BY <3>3, <3>5
      <4> HIDE DEF i, r
      <4>2. [spoken EXCEPT ![i] = r] = spoken
        BY <4>1
      <4> QED BY <4>1, <4>2
    <3> QED BY <3>4, <3>5
  <2>3. UNCHANGED <<transport, llmVars, wire, owed, lost>>
    BY <1>14 DEF Listen
  <2>4. main' = [main EXCEPT !.pc = "split"] \/ main' = Exhausted(main)
    BY <1>14 DEF Listen
  <2>5. main' \in Mains
    BY <2>4 DEF Exhausted, After, Mains, Pcs
  <2> QED BY <2>2, <2>3, <2>5 DEF llmVars
<1>15. CASE ListenFails
  <2>1. main' = [main EXCEPT !.pc = "over"] /\ UNCHANGED <<transport, llmVars, ttsVars>>
    BY <1>15 DEF ListenFails
  <2> QED BY <2>1 DEF Mains, Pcs, llmVars, ttsVars
<1>16. CASE SpeakTail
  <2> DEFINE request == main.pending \o Speech(main.buf)
  <2>1. Speech(main.buf) \in Seq(Nat)
    BY <1>0, SpeechOf
  <2>2. request \in Seq(Nat)
    BY <1>0, <2>1
  <2>3. \/ Go([main EXCEPT !.pc = "flush", !.tail = TRUE])
        \/ Go([main EXCEPT !.pc = "synthesize", !.tail = TRUE, !.rest = request, !.pending = <<>>])
        \/ Go([main EXCEPT !.pc = "finish"])
    BY <1>16 DEF SpeakTail
  <2> HIDE DEF request
  <2>4. [main EXCEPT !.pc = "flush", !.tail = TRUE] \in Mains
    BY DEF Mains, Pcs
  <2>5. [main EXCEPT !.pc = "synthesize", !.tail = TRUE, !.rest = request, !.pending = <<>>] \in Mains
    BY <1>e, <2>2 DEF Mains, Pcs
  <2>6. [main EXCEPT !.pc = "finish"] \in Mains
    BY DEF Mains, Pcs
  <2> QED BY <1>4, <2>3, <2>4, <2>5, <2>6
<1>17. CASE Finish
  <2>1. main' = [main EXCEPT !.pc = "over"] /\ UNCHANGED <<transport, llmVars, ttsVars>>
    BY <1>17 DEF Finish
  <2> QED BY <2>1 DEF Mains, Pcs, llmVars, ttsVars
<1> QED BY <1>1, <1>2, <1>5, <1>6, <1>7, <1>8, <1>10, <1>11, <1>12, <1>13, <1>14, <1>15, <1>16,
           <1>17 DEF Next, MainStep

-----------------------------------------------------------------------------
(* What the consumer is given.                                              *)

\* Given and ItemsOrdered of any sequence of items.
GivenBy(o) == Max({0} \cup {o[i].upto : i \in {j \in DOMAIN o : o[j].kind = "text"}})

Numbers(o, q) ==
    /\ \A i \in 1..Len(o) : IsAudio(o[i]) => o[i].seq \in 1..q
    /\ \A k \in 1..q : \E i \in 1..Len(o) : IsAudio(o[i]) /\ o[i].seq = k
    /\ \A i, j \in 1..Len(o) : IsAudio(o[i]) /\ IsAudio(o[j]) /\ i < j => o[i].seq < o[j].seq

Ends(o, pc) == \A i \in 1..Len(o) : IsEnd(o[i]) => i = Len(o) /\ pc = "over"

LEMMA GivenByIs ==
    ASSUME NEW D, NEW o \in Seq(D), NEW g \in Nat, Reaches(o, g)
    PROVE  GivenBy(o) = g
<1> DEFINE A == {0} \cup {o[i].upto : i \in {j \in DOMAIN o : o[j].kind = "text"}}
<1>1. DOMAIN o = 1..Len(o)
  OBVIOUS
<1>2. \A x \in A : x \in 0..g
  BY <1>1 DEF Reaches, IsText
<1>3. g \in A
  BY <1>1 DEF Reaches, IsText
<1>4. GivenBy(o) = Max(A)
  BY DEF GivenBy
<1> HIDE DEF A
<1>5. A \in SUBSET Nat /\ \A x \in A : x <= g
  BY <1>2
<1> QED BY <1>3, <1>4, <1>5, MaxIs

OrderedBy(o, q, pc) ==
    LET audio == {i \in DOMAIN o : o[i].kind \in {"audio", "last"}}
        texts == {i \in DOMAIN o : o[i].kind = "text"}
    IN  /\ {o[i].seq : i \in audio} = 1..q
        /\ \A i, j \in audio : i < j => o[i].seq < o[j].seq
        /\ \A i \in DOMAIN o : o[i].kind \in {"last", "failed"} => i = Len(o) /\ pc = "over"
        /\ \A i, j \in texts : i < j => o[i].upto <= o[j].upto

LEMMA OrderedByIs ==
    ASSUME NEW D, NEW o \in Seq(D), NEW q \in Nat, NEW pc, NEW g \in Nat
    PROVE  /\ OrderedBy(o, q, pc) => Numbers(o, q) /\ Ends(o, pc)
           /\ Numbers(o, q) /\ Ends(o, pc) /\ Reaches(o, g) => OrderedBy(o, q, pc)
<1> DEFINE audio == {i \in DOMAIN o : o[i].kind \in {"audio", "last"}}
           texts == {i \in DOMAIN o : o[i].kind = "text"}
           numbers == {o[i].seq : i \in audio}
<1>1. DOMAIN o = 1..Len(o)
  OBVIOUS
<1>2. OrderedBy(o, q, pc) <=>
        /\ numbers = 1..q
        /\ \A i, j \in audio : i < j => o[i].seq < o[j].seq
        /\ Ends(o, pc)
        /\ \A i, j \in texts : i < j => o[i].upto <= o[j].upto
  BY <1>1 DEF OrderedBy, Ends, IsEnd
<1>3. \A i : i \in audio <=> i \in 1..Len(o) /\ IsAudio(o[i])
  BY <1>1 DEF IsAudio
<1>4. \A i : i \in texts <=> i \in 1..Len(o) /\ IsText(o[i])
  BY <1>1 DEF IsText
<1> HIDE DEF audio, texts
<1>5. ASSUME OrderedBy(o, q, pc) PROVE Numbers(o, q) /\ Ends(o, pc)
  <2>1. \A i \in audio : o[i].seq \in 1..q
    BY <1>2, <1>5
  <2>2. \A k \in 1..q : \E i \in audio : o[i].seq = k
    BY <1>2, <1>5
  <2> QED BY <1>2, <1>3, <1>5, <2>1, <2>2 DEF Numbers
<1>6. ASSUME Numbers(o, q), Ends(o, pc), Reaches(o, g) PROVE OrderedBy(o, q, pc)
  <2>1. \A i \in audio : o[i].seq \in 1..q
    BY <1>3, <1>6 DEF Numbers
  <2>2. \A k \in 1..q : \E i \in audio : o[i].seq = k
    BY <1>3, <1>6 DEF Numbers
  <2>3. numbers = 1..q
    BY <2>1, <2>2
  <2>4. \A i, j \in audio : i < j => o[i].seq < o[j].seq
    BY <1>3, <1>6 DEF Numbers
  <2>5. \A i, j \in texts : i < j => o[i].upto <= o[j].upto
    BY <1>4, <1>6 DEF Reaches
  <2> QED BY <1>2, <1>6, <2>3, <2>4, <2>5
<1> QED BY <1>5, <1>6

\* What a step hands out: first n pieces of sound that go on counting, then no
\* more than a text or an end.
Burst(items, n, q, g, h, pc) ==
    /\ \A k \in 1..n : IsAudio(items[k]) /\ items[k].seq = q + k
    /\ \A k \in 1..Len(items) : k > n => ~IsAudio(items[k])
    /\ Ends(items, pc)
    /\ \A k \in 1..Len(items) : IsText(items[k]) => items[k].upto = h
    /\ h = g \/ \E k \in 1..Len(items) : IsText(items[k])

LEMMA BurstAdds ==
    ASSUME NEW D, NEW o \in Seq(D), NEW items \in Seq(D), NEW q \in Nat, NEW n \in Nat, n <= Len(items),
           NEW g \in Nat, NEW h \in Nat, g <= h, NEW pc,
           Numbers(o, q), (\A i \in 1..Len(o) : ~IsEnd(o[i])), Reaches(o, g), Burst(items, n, q, g, h, pc)
    PROVE  /\ Numbers(o \o items, q + n)
           /\ Ends(o \o items, pc)
           /\ Reaches(o \o items, h)
<1> DEFINE all == o \o items
           m == Len(o)
<1>1. /\ m \in Nat /\ Len(items) \in Nat /\ Len(all) = m + Len(items)
      /\ \A i \in 1..m : all[i] = o[i]
      /\ \A k \in 1..Len(items) : all[m + k] = items[k]
      /\ \A i \in 1..(m + Len(items)) : i \notin 1..m =>
            i - m \in 1..Len(items) /\ all[i] = items[i - m]
  BY ConcatIs
<1> HIDE DEF all, m
<1>2. \A i \in 1..Len(all) : i \in 1..m \/ (i - m \in 1..Len(items) /\ i > m /\ all[i] = items[i - m])
  BY <1>1
<1>3. \A i \in 1..m : IsAudio(all[i]) => all[i].seq \in 1..q
  BY <1>1 DEF Numbers, m
<1>4. ASSUME NEW i \in 1..Len(all), i \notin 1..m, IsAudio(all[i])
      PROVE  i - m \in 1..n /\ all[i].seq = q + (i - m)
  <2>1. i - m \in 1..Len(items) /\ all[i] = items[i - m]
    BY <1>2, <1>4
  <2>2. ~(i - m > n)
    BY <1>4, <2>1 DEF Burst
  <2>3. i - m \in 1..n
    BY <1>1, <2>1, <2>2
  <2> QED BY <2>1, <2>3 DEF Burst
<1>5. Numbers(all, q + n)
  <2>1. ASSUME NEW i \in 1..Len(all), IsAudio(all[i]) PROVE all[i].seq \in 1..(q + n)
    <3>1. CASE i \in 1..m
      <4>1. all[i].seq \in 1..q
        BY <1>3, <2>1, <3>1
      <4> QED BY <4>1
    <3>2. CASE i \notin 1..m
      <4>1. i - m \in 1..n /\ all[i].seq = q + (i - m)
        BY <1>4, <2>1, <3>2
      <4> QED BY <4>1
    <3> QED BY <3>1, <3>2
  <2>2. ASSUME NEW k \in 1..(q + n) PROVE \E i \in 1..Len(all) : IsAudio(all[i]) /\ all[i].seq = k
    <3>1. CASE k \in 1..q
      <4>1. PICK i \in 1..m : IsAudio(o[i]) /\ o[i].seq = k
        BY <3>1 DEF Numbers, m
      <4> QED BY <1>1, <4>1
    <3>2. CASE k \notin 1..q
      <4>1. k - q \in 1..n /\ k - q \in 1..Len(items) /\ q + (k - q) = k
        BY <1>1, <3>2
      <4>2. IsAudio(items[k - q]) /\ items[k - q].seq = k
        BY <4>1 DEF Burst
      <4>3. m + (k - q) \in 1..Len(all) /\ all[m + (k - q)] = items[k - q]
        BY <1>1, <4>1
      <4> QED BY <4>2, <4>3
    <3> QED BY <3>1, <3>2
  <2>3. ASSUME NEW i \in 1..Len(all), NEW j \in 1..Len(all), IsAudio(all[i]), IsAudio(all[j]), i < j
        PROVE  all[i].seq < all[j].seq
    <3>1. CASE j \in 1..m
      <4>1. i \in 1..m
        BY <1>1, <2>3, <3>1
      <4> QED BY <1>1, <2>3, <3>1, <4>1 DEF Numbers, m
    <3>2. CASE i \in 1..m /\ j \notin 1..m
      <4>1. all[i].seq \in 1..q
        BY <1>3, <2>3, <3>2
      <4>2. j - m \in 1..n /\ all[j].seq = q + (j - m)
        BY <1>4, <2>3, <3>2
      <4> QED BY <4>1, <4>2
    <3>3. CASE i \notin 1..m /\ j \notin 1..m
      <4>1. i - m \in 1..n /\ all[i].seq = q + (i - m)
        BY <1>4, <2>3, <3>3
      <4>2. j - m \in 1..n /\ all[j].seq = q + (j - m)
        BY <1>4, <2>3, <3>3
      <4>3. i - m < j - m
        BY <1>1, <2>3
      <4> QED BY <4>1, <4>2, <4>3
    <3>4. CASE i \notin 1..m /\ j \in 1..m
      BY <1>1, <2>3, <3>4
    <3> QED BY <3>1, <3>2, <3>3, <3>4
  <2> QED BY <2>1, <2>2, <2>3 DEF Numbers
<1>6. Ends(all, pc)
  <2> SUFFICES ASSUME NEW i \in 1..Len(all), IsEnd(all[i]) PROVE i = Len(all) /\ pc = "over"
    BY DEF Ends
  <2>1. CASE i \in 1..m
    BY <1>1, <2>1 DEF Ends, m
  <2>2. CASE i \notin 1..m
    <3>1. i - m \in 1..Len(items) /\ all[i] = items[i - m]
      BY <1>2, <2>2
    <3>2. i - m = Len(items) /\ pc = "over"
      BY <3>1 DEF Burst, Ends
    <3> QED BY <1>1, <3>2
  <2> QED BY <2>1, <2>2
<1>7. Reaches(all, h)
  <2>1. \A i \in 1..m : IsText(all[i]) => all[i].upto \in 0..g /\ all[i].upto \in 0..h
    BY <1>1 DEF Reaches, m
  <2>2. \A i \in 1..Len(all) : i \notin 1..m /\ IsText(all[i]) => all[i].upto = h
    BY <1>2 DEF Burst
  <2>3. h = 0 \/ \E i \in 1..Len(all) : IsText(all[i]) /\ all[i].upto = h
    <3>1. CASE h = g
      <4>1. g = 0 \/ \E i \in 1..m : IsText(o[i]) /\ o[i].upto = g
        BY DEF Reaches, m
      <4> QED BY <1>1, <3>1, <4>1
    <3>2. CASE h # g
      <4>1. PICK k \in 1..Len(items) : IsText(items[k])
        BY <3>2 DEF Burst
      <4>2. m + k \in 1..Len(all) /\ all[m + k] = items[k] /\ items[k].upto = h
        BY <1>1, <4>1 DEF Burst
      <4> QED BY <4>1, <4>2
    <3> QED BY <3>1, <3>2
  <2>4. ASSUME NEW i \in 1..Len(all), NEW j \in 1..Len(all), IsText(all[i]), IsText(all[j]), i < j
        PROVE  all[i].upto <= all[j].upto
    <3>1. CASE j \in 1..m
      <4>1. i \in 1..m
        BY <1>1, <2>4, <3>1
      <4> QED BY <1>1, <2>4, <3>1, <4>1 DEF Reaches, m
    <3>2. CASE j \notin 1..m
      <4>1. all[j].upto = h
        BY <2>2, <2>4, <3>2
      <4>2. all[i].upto \in 0..h \/ all[i].upto = h
        BY <2>1, <2>2, <2>4
      <4> QED BY <4>1, <4>2
    <3> QED BY <3>1, <3>2
  <2>5. \A i \in 1..Len(all) : IsText(all[i]) => all[i].upto \in 0..h
    BY <2>1, <2>2
  <2> QED BY <2>3, <2>4, <2>5 DEF Reaches
<1> QED BY <1>5, <1>6, <1>7 DEF all

LEMMA HandedIs ==
    ASSUME Handed
    PROVE  /\ Numbers(out, seq) /\ Ends(out, main.pc) /\ Reaches(out, Given)
           /\ seq \in Nat /\ Given \in Nat /\ Given <= Len(text)
<1>1. /\ \E D : out \in Seq(D)
      /\ seq \in Nat /\ Given \in Nat /\ Given <= Len(text)
      /\ Reaches(out, Given)
  BY DEF Handed
<1>2. PICK D : out \in Seq(D)
  BY <1>1
<1>3. OrderedBy(out, seq, main.pc)
  BY DEF Handed, ItemsOrdered, OrderedBy, At
<1> QED BY <1>1, <1>2, <1>3, OrderedByIs

LEMMA Hands ==
    ASSUME Handed, ~Over, text' = text, NEW E, NEW items \in Seq(E), NEW n \in Nat, n <= Len(items),
           NEW h \in Nat, Given <= h, h <= Len(text),
           Burst(items, n, seq, Given, h, main'.pc),
           out' = out \o items, seq' = seq + n
    PROVE  Handed' /\ Given' = h
<1>1. /\ Numbers(out, seq) /\ (\A i \in 1..Len(out) : ~IsEnd(out[i])) /\ Reaches(out, Given)
      /\ seq \in Nat /\ Given \in Nat
  BY HandedIs DEF Over, At, Ends
<1>2. PICK D : out \in Seq(D)
  BY DEF Handed
<1>3. out \in Seq(D \cup E) /\ items \in Seq(D \cup E)
  BY <1>2, SeqMonotonic
<1>4. out' \in Seq(D \cup E)
  BY <1>3
<1>5. /\ Numbers(out', seq') /\ Ends(out', main'.pc) /\ Reaches(out', h)
  <2> DEFINE pc == main'.pc
             F == D \cup E
  <2>1. out \in Seq(F) /\ items \in Seq(F)
    BY <1>3
  <2>2. Burst(items, n, seq, Given, h, pc)
    OBVIOUS
  <2> HIDE DEF pc, F
  <2>3. Numbers(out \o items, seq + n) /\ Ends(out \o items, pc) /\ Reaches(out \o items, h)
    BY <1>1, <2>1, <2>2, BurstAdds
  <2> QED BY <2>3 DEF pc
<1>6. Given' = h
  <2>1. GivenBy(out') = h
    BY <1>4, <1>5, GivenByIs
  <2> QED BY <2>1 DEF Given, GivenBy
<1>7. seq' \in Nat
  BY <1>1
<1>8. OrderedBy(out', seq', main'.pc)
  BY <1>4, <1>5, <1>7, OrderedByIs
<1>9. ItemsOrdered'
  BY <1>8 DEF ItemsOrdered, OrderedBy, At
<1> QED BY <1>4, <1>5, <1>6, <1>7, <1>9 DEF Handed

LEMMA Silence ==
    ASSUME Handed, text' = text, UNCHANGED <<out, seq>>, ~Over \/ main' = main
    PROVE  Handed' /\ Given' = Given
<1>1. Given' = Given
  BY DEF Given
<1>2. CASE main' = main
  BY <1>1, <1>2 DEF Handed, ItemsOrdered, At, Reaches
<1>3. CASE ~Over
  <2>1. (\A i \in 1..Len(out) : ~IsEnd(out[i])) /\ Numbers(out, seq) /\ Reaches(out, Given) /\ seq \in Nat /\ Given \in Nat
    BY <1>3, HandedIs DEF Over, At, Ends
  <2>2. PICK D : out \in Seq(D)
    BY DEF Handed
  <2>3. Ends(out, main'.pc)
    BY <2>1 DEF Ends
  <2>4. OrderedBy(out, seq, main'.pc)
    BY <2>1, <2>2, <2>3, OrderedByIs
  <2>5. ItemsOrdered'
    BY <2>4 DEF ItemsOrdered, OrderedBy, At
  <2> QED BY <1>1, <2>1, <2>2, <2>5 DEF Handed, Reaches
<1> QED BY <1>2, <1>3

LEMMA NumberedIs ==
    ASSUME seq \in Nat, NEW E, NEW pieces \in Seq(E)
    PROVE  /\ Numbered(pieces) \in Seq([kind : {"audio"}, seq : Nat, sound : E])
           /\ \A k \in 1..Len(Numbered(pieces)) :
                 Numbered(pieces)[k].kind = "audio" /\ Numbered(pieces)[k].seq = seq + k
<1> DEFINE audible == Only(pieces, Range(pieces) \ {<<>>})
           items == [i \in DOMAIN audible |-> [kind |-> "audio", seq |-> seq + i, sound |-> audible[i]]]
<1>1. audible \in Seq(E)
  BY OnlyIs
<1>2. Numbered(pieces) = items
  BY DEF Numbered
<1> HIDE DEF audible
<1>3. Len(audible) \in Nat /\ DOMAIN audible = 1..Len(audible) /\ \A i \in 1..Len(audible) : audible[i] \in E
  BY <1>1
<1>4. items \in Seq([kind : {"audio"}, seq : Nat, sound : E]) /\ Len(items) = Len(audible)
  BY <1>3
<1>5. \A k \in 1..Len(audible) : items[k].kind = "audio" /\ items[k].seq = seq + k
  BY <1>3
<1> QED BY <1>2, <1>4, <1>5

\* items are the numbered sound and then more.
AudioAnd(N, items, more) ==
    /\ \E G : items \in Seq(G)
    /\ out \o N \o more = out \o items
    /\ Len(N) \in Nat /\ Len(items) = Len(N) + Len(more)
    /\ \A k \in 1..Len(N) : items[k].kind = "audio" /\ items[k].seq = seq + k
    /\ \A k \in 1..Len(more) : items[Len(N) + k] = more[k]

LEMMA AudioThen ==
    ASSUME Handed, NEW E, NEW pieces \in Seq(E), NEW F, NEW more \in Seq(F)
    PROVE  AudioAnd(Numbered(pieces), Numbered(pieces) \o more, more)
<1> DEFINE N == Numbered(pieces)
<1>1. PICK D : out \in Seq(D)
  BY DEF Handed
<1>2. seq \in Nat
  BY HandedIs
<1>3. /\ N \in Seq([kind : {"audio"}, seq : Nat, sound : E])
      /\ \A k \in 1..Len(N) : N[k].kind = "audio" /\ N[k].seq = seq + k
  BY <1>2, NumberedIs
<1> HIDE DEF N
<1> DEFINE G == D \cup [kind : {"audio"}, seq : Nat, sound : E] \cup F
<1>4. out \in Seq(G) /\ N \in Seq(G) /\ more \in Seq(G)
  BY <1>1, <1>3, SeqMonotonic
<1> HIDE DEF G
<1>5. (out \o N) \o more = out \o (N \o more)
  BY <1>4, ConcatAssociative
<1>6. /\ N \o more \in Seq(G) /\ Len(N) \in Nat /\ Len(N \o more) = Len(N) + Len(more)
      /\ \A k \in 1..Len(N) : (N \o more)[k] = N[k]
      /\ \A k \in 1..Len(more) : (N \o more)[Len(N) + k] = more[k]
  BY <1>4, ConcatIs
<1>7. out \o N \o more = out \o (N \o more)
  BY <1>5
<1>8. AudioAnd(N, N \o more, more)
  BY <1>3, <1>6, <1>7 DEF AudioAnd
<1> QED BY <1>8 DEF N

\* Sound.
LEMMA HandsSound ==
    ASSUME Handed, ~Over, text' = text, NEW E, NEW pieces \in Seq(E),
           out' = out \o Numbered(pieces) \o <<>>, seq' = seq + Len(Numbered(pieces))
    PROVE  Handed' /\ Given' = Given
<1> DEFINE N == Numbered(pieces)
           items == N \o <<>>
           n == Len(N)
           pc == main'.pc
<1>1. <<>> \in Seq({}) /\ Len(<<>>) = 0
  OBVIOUS
<1>2. /\ \E G : items \in Seq(G)
      /\ out \o N \o <<>> = out \o items
      /\ n \in Nat /\ Len(items) = n + Len(<<>>)
      /\ \A k \in 1..n : items[k].kind = "audio" /\ items[k].seq = seq + k
  <2>1. AudioAnd(Numbered(pieces), Numbered(pieces) \o <<>>, <<>>)
    BY <1>1, AudioThen
  <2> QED BY <2>1 DEF AudioAnd
<1>3. seq \in Nat /\ Given \in Nat /\ Given <= Len(text) /\ Given <= Given
  BY HandedIs
<1>4. out' = out \o items /\ seq' = seq + n
  BY <1>2
<1> HIDE DEF N, items, n
<1>5. Len(items) = n
  BY <1>1, <1>2
<1>6. Burst(items, n, seq, Given, Given, pc)
  BY <1>2, <1>5 DEF Burst, IsAudio, IsText, Ends, IsEnd
<1>7. PICK G : items \in Seq(G)
  BY <1>2
<1>8. n <= Len(items) /\ n \in Nat
  BY <1>2, <1>5
<1> QED BY <1>3, <1>4, <1>6, <1>7, <1>8, Hands

\* Sound and then a failure.
LEMMA HandsFailure ==
    ASSUME Handed, ~Over, text' = text, NEW E, NEW pieces \in Seq(E), NEW code,
           main'.pc = "over",
           out' = out \o Numbered(pieces) \o <<Failure(code)>>, seq' = seq + Len(Numbered(pieces))
    PROVE  Handed' /\ Given' = Given
<1> DEFINE N == Numbered(pieces)
           more == <<Failure(code)>>
           items == N \o more
           n == Len(N)
           pc == main'.pc
<1>1. PICK F : more \in Seq(F)
  <2>1. more \in Seq({more[1]})
    OBVIOUS
  <2> QED BY <2>1
<1>z. Len(more) = 1 /\ Len(more) = 1 /\ more[1].kind = "failed"
  BY DEF Failure
<1> HIDE DEF more
<1>2. /\ \E G : items \in Seq(G)
      /\ out \o N \o more = out \o items
      /\ n \in Nat /\ Len(items) = n + Len(more)
      /\ \A k \in 1..n : items[k].kind = "audio" /\ items[k].seq = seq + k
      /\ \A k \in 1..Len(more) : items[n + k] = more[k]
  <2>1. AudioAnd(Numbered(pieces), Numbered(pieces) \o more, more)
    BY <1>1, AudioThen
  <2> QED BY <2>1 DEF AudioAnd
<1>3. seq \in Nat /\ Given \in Nat /\ Given <= Len(text) /\ Given <= Given
  BY HandedIs
<1>4. out' = out \o items /\ seq' = seq + n /\ pc = "over"
  BY <1>2 DEF more
<1> HIDE DEF N, more, items, n, pc
<1>5. Len(items) = n + 1 /\ items[n + 1].kind = "failed"
  BY <1>z, <1>2
<1>6. \A k \in 1..Len(items) : k \in 1..n \/ k = n + 1
  BY <1>2, <1>5
<1>7. \A k \in 1..Len(items) : k > n => k = n + 1
  BY <1>2, <1>5
<1>8. Burst(items, n, seq, Given, Given, pc)
  <2>1. \A k \in 1..n : IsAudio(items[k]) /\ ~IsEnd(items[k]) /\ ~IsText(items[k]) /\ items[k].seq = seq + k
    BY <1>2 DEF IsAudio, IsEnd, IsText
  <2>2. ~IsAudio(items[n + 1]) /\ ~IsText(items[n + 1])
    BY <1>5 DEF IsAudio, IsText
  <2>3. \A k \in 1..Len(items) : k > n => ~IsAudio(items[k])
    BY <1>7, <2>2
  <2>4. \A k \in 1..Len(items) : ~IsText(items[k])
    BY <1>6, <2>1, <2>2
  <2>5. Ends(items, pc)
    BY <1>4, <1>5, <1>6, <2>1 DEF Ends
  <2> QED BY <2>1, <2>3, <2>4, <2>5 DEF Burst
<1>9. PICK G : items \in Seq(G)
  BY <1>2
<1>10. n <= Len(items) /\ n \in Nat
  BY <1>2, <1>5
<1>11. Burst(items, n, seq, Given, Given, main'.pc)
  BY <1>8 DEF pc
<1> QED BY <1>3, <1>4, <1>9, <1>10, <1>11, Hands

\* Sound and then the end mark.
LEMMA HandsEnd ==
    ASSUME Handed, ~Over, text' = text, NEW E, NEW pieces \in Seq(E), NEW end,
           main'.pc = "over", end = seq + Len(Numbered(pieces)) + 1,
           out' = out \o Numbered(pieces) \o <<[kind |-> "last", seq |-> end]>>, seq' = end
    PROVE  Handed' /\ Given' = Given
<1> DEFINE N == Numbered(pieces)
           more == <<[kind |-> "last", seq |-> end]>>
           items == N \o more
           n == Len(N)
           pc == main'.pc
<1>1. PICK F : more \in Seq(F)
  <2>1. more \in Seq({more[1]})
    OBVIOUS
  <2> QED BY <2>1
<1>z. Len(more) = 1 /\ Len(more) = 1 /\ more[1].kind = "last" /\ more[1].seq = end
  OBVIOUS
<1> HIDE DEF more
<1>2. /\ \E G : items \in Seq(G)
      /\ out \o N \o more = out \o items
      /\ n \in Nat /\ Len(items) = n + Len(more)
      /\ \A k \in 1..n : items[k].kind = "audio" /\ items[k].seq = seq + k
      /\ \A k \in 1..Len(more) : items[n + k] = more[k]
  <2>1. AudioAnd(Numbered(pieces), Numbered(pieces) \o more, more)
    BY <1>1, AudioThen
  <2> QED BY <2>1 DEF AudioAnd
<1>3. seq \in Nat /\ Given \in Nat /\ Given <= Len(text) /\ Given <= Given
  BY HandedIs
<1>4. out' = out \o items /\ pc = "over" /\ end = seq + n + 1
  BY <1>2 DEF more
<1> HIDE DEF N, more, items, n, pc
<1>5. Len(items) = n + 1 /\ items[n + 1].kind = "last" /\ items[n + 1].seq = end
  BY <1>z, <1>2
<1>6. \A k \in 1..Len(items) : k \in 1..n \/ k = n + 1
  BY <1>2, <1>5
<1>7. \A k \in 1..(n + 1) : k \in 1..n \/ k = n + 1
  BY <1>2
<1>8. end = seq + (n + 1)
  BY <1>2, <1>3, <1>4
<1>9. Burst(items, n + 1, seq, Given, Given, pc)
  <2>1. \A k \in 1..n : IsAudio(items[k]) /\ ~IsEnd(items[k]) /\ ~IsText(items[k]) /\ items[k].seq = seq + k
    BY <1>2 DEF IsAudio, IsEnd, IsText
  <2>2. IsAudio(items[n + 1]) /\ ~IsText(items[n + 1]) /\ items[n + 1].seq = seq + (n + 1)
    BY <1>5, <1>8 DEF IsAudio, IsText
  <2>3. \A k \in 1..(n + 1) : IsAudio(items[k]) /\ items[k].seq = seq + k
    BY <1>7, <2>1, <2>2
  <2>4. \A k \in 1..Len(items) : ~IsText(items[k])
    BY <1>6, <2>1, <2>2
  <2>5. Ends(items, pc)
    BY <1>4, <1>5, <1>6, <2>1 DEF Ends
  <2>6. \A k \in 1..Len(items) : ~(k > n + 1)
    BY <1>2, <1>5
  <2> QED BY <2>3, <2>4, <2>5, <2>6 DEF Burst
<1>10. PICK G : items \in Seq(G)
  BY <1>2
<1>11. n + 1 <= Len(items) /\ n + 1 \in Nat
  BY <1>2, <1>5
<1>12. Burst(items, n + 1, seq, Given, Given, main'.pc)
  BY <1>9 DEF pc
<1>13. seq' = seq + (n + 1)
  BY <1>8
<1> QED BY <1>3, <1>4, <1>10, <1>11, <1>12, <1>13, Hands

\* One item that is not sound.
LEMMA HandsItem ==
    ASSUME Handed, ~Over, text' = text, NEW item, ~IsAudio(item), NEW h \in Nat, Given <= h, h <= Len(text),
           IsEnd(item) => main'.pc = "over",
           IF IsText(item) THEN item.upto = h ELSE h = Given,
           out' = Append(out, item), seq' = seq
    PROVE  Handed' /\ Given' = h
<1> DEFINE items == <<item>>
           pc == main'.pc
<1>1. PICK D : out \in Seq(D)
  BY DEF Handed
<1>2. seq \in Nat /\ Given \in Nat
  BY HandedIs
<1>3. items \in Seq({item}) /\ Len(items) = 1 /\ items[1] = item
  OBVIOUS
<1>4. out' = out \o items
  BY <1>1
<1> HIDE DEF items, pc
<1>5. IsEnd(item) => pc = "over"
  BY DEF pc
<1>6. Burst(items, 0, seq, Given, h, pc)
  <2>1. \A k \in 1..Len(items) : k = 1 /\ items[k] = item
    BY <1>3
  <2>2. Ends(items, pc)
    BY <1>3, <1>5, <2>1 DEF Ends
  <2>3. \A k \in 1..Len(items) : IsText(items[k]) => items[k].upto = h
    BY <2>1
  <2>4. h = Given \/ \E k \in 1..Len(items) : IsText(items[k])
    BY <1>3
  <2> QED BY <2>1, <2>2, <2>3, <2>4 DEF Burst
<1>7. 0 \in Nat /\ 0 <= Len(items) /\ seq' = seq + 0
  BY <1>2, <1>3
<1>8. Burst(items, 0, seq, Given, h, main'.pc)
  BY <1>6 DEF pc
<1> QED BY <1>3, <1>4, <1>7, <1>8, Hands

LEMMA HandsFailed ==
    ASSUME Handed, ~Over, NEW code, Fail(code), StreamTypes
    PROVE  Handed' /\ Given' = Given
<1> DEFINE item == Failure(code)
<1>1. /\ text' = text /\ out' = Append(out, item) /\ seq' = seq
      /\ main' = [main EXCEPT !.pc = "over"]
  BY DEF Fail, llmVars
<1>2. main'.pc = "over"
  BY <1>1 DEF StreamTypes, Mains
<1>3. ~IsAudio(item) /\ ~IsText(item)
  BY DEF Failure, IsAudio, IsText
<1>4. Given \in Nat /\ Given <= Len(text) /\ Given <= Given
  BY HandedIs
<1> HIDE DEF item
<1> QED BY <1>1, <1>2, <1>3, <1>4, HandsItem

\* Every step but that of receiving: what has been given stays.
LEMMA HandedElse ==
    ASSUME Handed, StreamTypes, fader \in Faders, Next, ~Receive
    PROVE  Handed' /\ Given' = Given
<1>0. Len(<<>>) = 0
  OBVIOUS
<1>1. ASSUME NEW m, Go(m), ~Over PROVE Handed' /\ Given' = Given
  <2>1. text' = text /\ UNCHANGED <<out, seq>>
    BY <1>1 DEF Go, llmVars
  <2> QED BY <1>1, <2>1, Silence
<1>2. ASSUME NEW code, Fail(code), ~Over PROVE Handed' /\ Given' = Given
  BY <1>2, HandsFailed
<1>3. CASE ReaderStep \/ ReaderCancelled
  <2>1. text' = text /\ UNCHANGED <<out, seq, main>>
    BY <1>3 DEF ReaderStep, ReaderAsks, ReaderReads, ReaderEnds, ReaderSends, ReaderCancelled
  <2> QED BY <2>1, Silence
<1>4. CASE Drop
  <2>1. text' = text /\ UNCHANGED <<out, seq>> /\ ~Over
    BY <1>4 DEF Drop, llmVars
  <2> QED BY <2>1, Silence
<1>5. CASE ChannelCloses
  BY <1>1, <1>5 DEF ChannelCloses, At, Over
<1>6. CASE CleanDelta
  BY <1>1, <1>6 DEF CleanDelta, At, Over
<1>7. CASE Collect
  BY <1>1, <1>7 DEF Collect, At, Over
<1>8. CASE Split
  BY <1>1, <1>8 DEF Split, At, Over
<1>9. CASE SpeakTail
  BY <1>1, <1>9 DEF SpeakTail, At, Over
<1>10. CASE SendText
  <2>1. ~Over
    BY <1>10 DEF SendText, At, Over
  <2>2. Fail(1004) \/ (text' = text /\ UNCHANGED <<out, seq>>)
    BY <1>10 DEF SendText, llmVars
  <2> QED BY <1>2, <2>1, <2>2, Silence
<1>11. CASE Flush
  <2>1. ~Over
    BY <1>11 DEF Flush, At, Over
  <2>2. Fail(IF main.tail THEN 1005 ELSE 1004) \/ (text' = text /\ UNCHANGED <<out, seq>>)
    BY <1>11 DEF Flush, llmVars
  <2> QED BY <1>2, <2>1, <2>2, Silence
<1>12. CASE Synthesize
  <2>1. ~Over
    BY <1>12 DEF Synthesize, At, Over
  <2>2. Fail(1004) \/ (\E m : Go(m)) \/ (text' = text /\ UNCHANGED <<out, seq>>)
    BY <1>12 DEF Synthesize, llmVars
  <2> QED BY <1>1, <1>2, <2>1, <2>2, Silence
<1>13. CASE Listen
  <2>1. ~Over /\ text' = text
    BY <1>13 DEF Listen, At, Over, llmVars
  <2>2. PICK lengths \in Sounds :
           Emit(Append(Played(lengths).pieces, EndSentence(Played(lengths).fader).sent), <<>>)
    BY <1>13 DEF Listen
  <2>3. PICK E : Played(lengths).pieces \in Seq(E)
    <3>1. lengths \in Seq(Nat) /\ Len(spoken) \in Nat
      BY SoundsAre DEF StreamTypes
    <3> QED BY <3>1, PlayedType
  <2> DEFINE last == EndSentence(Played(lengths).fader).sent
             pieces == Append(Played(lengths).pieces, last)
  <2>4. pieces \in Seq(E \cup {last})
    <3>1. Played(lengths).pieces \in Seq(E \cup {last})
      BY <2>3, SeqMonotonic
    <3> HIDE DEF last
    <3> QED BY <3>1
  <2>5. out' = out \o Numbered(pieces) \o <<>> /\ seq' = seq + Len(Numbered(pieces))
    BY <2>2 DEF Emit
  <2> HIDE DEF pieces
  <2> QED BY <2>1, <2>4, <2>5, HandsSound
<1>14. CASE ListenFails
  <2>1. ~Over /\ text' = text /\ main' = [main EXCEPT !.pc = "over"]
    BY <1>14 DEF ListenFails, At, Over, llmVars
  <2>2. main'.pc = "over"
    BY <2>1 DEF StreamTypes, Mains
  <2>3. PICK lengths \in IF transport = "ws" THEN {<<>>} ELSE Sounds :
           Emit(Played(lengths).pieces, <<Failure(IF transport = "ws" /\ ~main.tail THEN 1004 ELSE 1005)>>)
    BY <1>14 DEF ListenFails
  <2>4. lengths \in Seq(Nat)
    <3>1. \A sound \in Sounds : sound \in Seq(Nat)
      BY SoundsAssumption
    <3>2. <<>> \in Seq(Nat) /\ (lengths \in Sounds \/ lengths = <<>>)
      BY <2>3
    <3> QED BY <3>1, <3>2
  <2>5. PICK E : Played(lengths).pieces \in Seq(E)
    BY <2>4, PlayedType DEF StreamTypes
  <2> DEFINE pieces == Played(lengths).pieces
             code == IF transport = "ws" /\ ~main.tail THEN 1004 ELSE 1005
  <2>6. out' = out \o Numbered(pieces) \o <<Failure(code)>> /\ seq' = seq + Len(Numbered(pieces))
    BY <2>3 DEF Emit
  <2> HIDE DEF pieces, code
  <2>7. pieces \in Seq(E)
    BY <2>5 DEF pieces
  <2> QED BY <2>1, <2>2, <2>6, <2>7, HandsFailure
<1>15. CASE Finish
  <2>1. ~Over /\ text' = text /\ main' = [main EXCEPT !.pc = "over"]
    BY <1>15 DEF Finish, At, Over, llmVars
  <2>2. main'.pc = "over"
    BY <2>1 DEF StreamTypes, Mains
  <2> DEFINE pieces == <<FinishFader(fader)>>
             end == seq + Len(Numbered(pieces)) + 1
  <2>3. pieces \in Seq({FinishFader(fader)})
    OBVIOUS
  <2>4. out' = out \o Numbered(pieces) \o <<[kind |-> "last", seq |-> end]>> /\ seq' = end
    BY <1>15 DEF Finish
  <2> HIDE DEF pieces
  <2>5. end = seq + Len(Numbered(pieces)) + 1
    OBVIOUS
  <2> HIDE DEF end
  <2> QED BY <2>1, <2>2, <2>3, <2>4, <2>5, HandsEnd
<1> QED BY <1>3, <1>4, <1>5, <1>6, <1>7, <1>8, <1>9, <1>10, <1>11, <1>12, <1>13, <1>14, <1>15 DEF Next, MainStep

-----------------------------------------------------------------------------
(* What is read and what is received.                                       *)

\* Joined of any events r between what was given and what was said.
Chained(r, g, s, pc) ==
    /\ \A i \in 1..Len(r) : r[i].kind = "failed" => i = Len(r) /\ pc \in {"sending", "gone"}
    /\ \A i \in 1..Len(r) : r[i].kind = "event" =>
          /\ r[i].from = IF i = 1 THEN g ELSE r[i - 1].upto
          /\ r[i].from <= r[i].upto /\ r[i].upto <= s
          /\ i = Len(r) => r[i].upto = s
    /\ r = <<>> => g = s

LEMMA ReaderTypesStep ==
    ASSUME ReaderTypes, StreamTypes, Next
    PROVE  ReaderTypes'
<1>0. Len(text) \in Nat
  BY DEF StreamTypes
<1>1. ASSUME NEW item \in ChanItems, Hand(item), UNCHANGED <<text, said, chan>> PROVE ReaderTypes'
  BY <1>1 DEF Hand, ReaderTypes
<1>2. \A code \in Nat : Failure(code) \in ChanItems
  BY DEF Failure, ChanItems
<1>3. CASE ReaderAsks
  <2>1. CASE Hand(Failure(1002))
    BY <1>1, <1>2, <1>3, <2>1 DEF ReaderAsks
  <2>2. CASE reader' = [reader EXCEPT !.pc = "reading"]
    BY <1>3, <2>2 DEF ReaderAsks, ReaderTypes
  <2> QED BY <1>3, <2>1, <2>2 DEF ReaderAsks
<1>4. CASE ReaderReads
  <2>1. UNCHANGED <<text, chan>>
    BY <1>4 DEF ReaderReads
  <2>2. CASE Hand(Failure(1003)) /\ UNCHANGED said
    BY <1>1, <1>2, <2>1, <2>2
  <2>3. CASE ~(Hand(Failure(1003)) /\ UNCHANGED said)
    <3>1. PICK upto \in said..(said + Cut), final \in BOOLEAN :
             upto <= Len(text) /\ Hand(Event(said, upto, final)) /\ said' = upto
      BY <1>4, <2>3 DEF ReaderReads
    <3>2. said \in Nat /\ Cut \in Nat
      BY <1>0, BoundsAssumption DEF ReaderTypes
    <3>3. upto \in 0..Len(text) /\ upto \in Nat
      BY <1>0, <3>1, <3>2
    <3>4. Event(said, upto, final) \in ChanItems
      BY <3>2, <3>3 DEF Event, ChanItems
    <3> QED BY <2>1, <3>1, <3>3, <3>4 DEF Hand, ReaderTypes
  <2> QED BY <2>2, <2>3
<1>5. CASE ReaderEnds
  BY <1>5 DEF ReaderEnds, ReaderTypes
<1>6. CASE ReaderCancelled
  BY <1>6 DEF ReaderCancelled, ReaderTypes
<1>7. CASE ReaderSends
  <2>1. chan' = Append(chan, reader.item) /\ reader.item \in ChanItems /\ UNCHANGED <<text, said>>
    BY <1>7 DEF ReaderSends, ReaderTypes
  <2>2. chan' \in Seq(ChanItems)
    BY <2>1 DEF ReaderTypes
  <2>3. \E pc \in {"gone", "reading"} : reader' = [pc |-> pc, item |-> <<>>]
    BY <1>7 DEF ReaderSends
  <2> QED BY <2>1, <2>2, <2>3 DEF ReaderTypes
<1>8. CASE Receive
  <2>1. chan' = Tail(chan) /\ chan # <<>> /\ UNCHANGED <<text, said, reader>>
    BY <1>8 DEF Receive
  <2>2. chan' \in Seq(ChanItems)
    BY <2>1 DEF ReaderTypes
  <2> QED BY <2>1, <2>2 DEF ReaderTypes
<1>9. CASE (MainStep /\ ~Receive) \/ Drop
  <2>1. UNCHANGED llmVars
    BY <1>9 DEF MainStep, Drop, ChannelCloses, CleanDelta, SendText, Flush, Collect, Split,
                Synthesize, Listen, ListenFails, SpeakTail, Finish, Go, Fail
  <2> QED BY <2>1 DEF llmVars, ReaderTypes
<1> QED BY <1>3, <1>4, <1>5, <1>6, <1>7, <1>8, <1>9 DEF Next, ReaderStep

\* What receiving an event or a failure does.
LEMMA Receives ==
    ASSUME ReaderTypes, StreamTypes, Handed, Reading, Receive
    PROVE  /\ Handed'
           /\ \/ /\ chan[1].kind = "event" /\ chan[1].from = Given /\ Given' = chan[1].upto
                 /\ chan[1].from \in Nat /\ chan[1].upto \in Nat
                 /\ Given <= Given' /\ Given' <= said /\ chan[1].final \in BOOLEAN
                 /\ main' = [main EXCEPT !.pc = "text", !.rest = Positions(Given, Given'),
                                         !.final = chan[1].final]
              \/ /\ chan[1].kind = "failed" /\ Given' = Given
                 /\ main' = [main EXCEPT !.pc = "over"]
<1> DEFINE item == chan[1]
<1>1. /\ ~Over /\ chan # <<>> /\ chan \in Seq(ChanItems) /\ Head(chan) = item /\ item \in ChanItems
      /\ Len(chan) \in Nat /\ Len(chan) >= 1
  BY DEF Receive, At, Over, ReaderTypes
<1>2. Read \in Seq(ChanItems) /\ Len(Read) \in Nat /\ Len(Read) >= 1 /\ Read[1] = item
  BY <1>1 DEF Read, ReaderTypes
<1>3. text' = text /\ seq' = seq
  BY DEF Receive
<1>4. seq \in Nat /\ Given \in Nat /\ Given <= Len(text) /\ Given <= Given
  BY HandedIs
<1>5. said \in Nat /\ said <= Len(text) /\ Len(text) \in Nat
  BY DEF ReaderTypes, StreamTypes
<1>6. CASE item.kind = "event"
  <2>1. item.from \in Nat /\ item.upto \in Nat /\ item.final \in BOOLEAN
    BY <1>1, <1>6 DEF ChanItems
  <2>2. item.from = Given /\ item.from <= item.upto /\ item.upto <= said
    BY <1>1, <1>2, <1>6 DEF Reading, Joined
  <2>3. /\ main' = [main EXCEPT !.pc = "text", !.rest = Positions(item.from, item.upto), !.final = item.final]
        /\ out' = Append(out, [kind |-> "text", upto |-> item.upto])
    BY <1>1, <1>6 DEF Receive
  <2> DEFINE given == [kind |-> "text", upto |-> item.upto]
  <2>4. ~IsAudio(given) /\ ~IsEnd(given) /\ IsText(given) /\ given.upto = item.upto
    BY DEF IsAudio, IsEnd, IsText
  <2>5. Given <= item.upto /\ item.upto <= Len(text)
    BY <1>4, <1>5, <2>1, <2>2
  <2> HIDE DEF given, item
  <2>6. out' = Append(out, given)
    BY <2>3 DEF given, item
  <2>7. Handed' /\ Given' = item.upto
    BY <1>1, <1>3, <2>1, <2>4, <2>5, <2>6, HandsItem
  <2> QED BY <1>6, <2>1, <2>2, <2>3, <2>5, <2>7 DEF item
<1>7. CASE item.kind # "event"
  <2>1. item.kind = "failed"
    BY <1>1, <1>7 DEF ChanItems
  <2>2. main' = [main EXCEPT !.pc = "over"] /\ out' = Append(out, item)
    BY <1>1, <1>7 DEF Receive
  <2>3. main'.pc = "over"
    BY <2>2 DEF StreamTypes, Mains
  <2>4. ~IsAudio(item) /\ ~IsText(item)
    BY <2>1 DEF IsAudio, IsText
  <2> HIDE DEF item
  <2>5. Handed' /\ Given' = Given
    BY <1>1, <1>3, <1>4, <2>2, <2>3, <2>4, HandsItem
  <2> QED BY <2>1, <2>2, <2>5 DEF item
<1> QED BY <1>6, <1>7 DEF item

LEMMA ChainedAppend ==
    ASSUME NEW r \in Seq(ChanItems), NEW g \in Nat, NEW s \in Nat, NEW pc, pc \notin {"sending", "gone"},
           Chained(r, g, s, pc), NEW t \in Nat, NEW x \in ChanItems,
           x.kind = "event" => x.from = s /\ s <= t /\ x.upto = t,
           x.kind = "failed" => t = s
    PROVE  Chained(Append(r, x), g, t, "sending")
<1> DEFINE q == Append(r, x)
           n == Len(r)
<1>1. /\ n \in Nat /\ Len(q) = n + 1 /\ q[n + 1] = x /\ q # <<>>
      /\ \A i \in 1..n : q[i] = r[i]
      /\ \A i \in 1..n : r[i] \in ChanItems
  OBVIOUS
<1>2. \A y \in ChanItems : y.kind = "failed" \/ (y.kind = "event" /\ y.from \in Nat /\ y.upto \in Nat)
  BY DEF ChanItems
<1> HIDE DEF q, n
<1>3. \A i \in 1..Len(q) : i \in 1..n \/ i = n + 1
  BY <1>1
<1>4. \A i \in 1..n : r[i].kind = "event"
  BY <1>1, <1>2 DEF Chained, n
<1>5. s <= t
  BY <1>2
<1>6. \A i \in 1..Len(q) : q[i].kind = "failed" => i = Len(q)
  BY <1>1, <1>3, <1>4
<1>7. ASSUME NEW i \in 1..Len(q), q[i].kind = "event"
      PROVE  /\ q[i].from = IF i = 1 THEN g ELSE q[i - 1].upto
             /\ q[i].from <= q[i].upto /\ q[i].upto <= t
             /\ i = Len(q) => q[i].upto = t
  <2>1. CASE i \in 1..n
    <3>1. /\ r[i].from = IF i = 1 THEN g ELSE r[i - 1].upto
          /\ r[i].from <= r[i].upto /\ r[i].upto <= s
      BY <1>4, <2>1 DEF Chained, n
    <3>2. r[i].upto \in Nat
      BY <1>1, <1>2, <1>4, <2>1
    <3>3. i = 1 \/ i - 1 \in 1..n
      BY <1>1, <2>1
    <3> QED BY <1>1, <1>5, <2>1, <3>1, <3>2, <3>3
  <2>2. CASE i = n + 1
    <3>1. q[i] = x /\ x.from = s /\ x.upto = t
      BY <1>1, <1>7, <2>2
    <3>2. CASE n = 0
      <4>1. r = <<>> /\ g = s
        BY <3>2 DEF Chained, n
      <4> QED BY <1>5, <2>2, <3>1, <3>2, <4>1
    <3>3. CASE n # 0
      <4>1. n \in 1..n /\ i - 1 = n /\ i # 1
        BY <1>1, <2>2, <3>3
      <4>2. r[n].upto = s
        BY <1>4, <4>1 DEF Chained, n
      <4> QED BY <1>1, <1>5, <3>1, <4>1, <4>2
    <3> QED BY <3>2, <3>3
  <2> QED BY <1>3, <2>1, <2>2
<1>8. Chained(q, g, t, "sending")
  BY <1>1, <1>6, <1>7 DEF Chained
<1> QED BY <1>8 DEF q

LEMMA ChainedTail ==
    ASSUME NEW r \in Seq(ChanItems), NEW g \in Nat, NEW s \in Nat, NEW pc,
           Chained(r, g, s, pc), r # <<>>, r[1].kind = "event"
    PROVE  Chained(Tail(r), r[1].upto, s, pc)
<1> DEFINE q == Tail(r)
           n == Len(r)
<1>1. /\ n \in Nat /\ n >= 1 /\ Len(q) = n - 1 /\ q \in Seq(ChanItems)
      /\ \A i \in 1..(n - 1) : q[i] = r[i + 1] /\ i + 1 \in 1..n /\ i + 1 # 1 /\ (i + 1) - 1 = i
  OBVIOUS
<1> HIDE DEF q, n
<1>2. q = <<>> => n = 1
  <2>1. Len(<<>>) = 0
    OBVIOUS
  <2> QED BY <1>1, <2>1
<1>3. \A i \in 1..Len(q) : q[i].kind = "failed" => i = Len(q) /\ pc \in {"sending", "gone"}
  <2> SUFFICES ASSUME NEW i \in 1..Len(q), q[i].kind = "failed" PROVE i = Len(q) /\ pc \in {"sending", "gone"}
    OBVIOUS
  <2>1. i \in 1..(n - 1) /\ q[i] = r[i + 1] /\ i + 1 \in 1..n
    BY <1>1
  <2>2. i + 1 = n /\ pc \in {"sending", "gone"}
    BY <2>1 DEF Chained, n
  <2> QED BY <1>1, <2>1, <2>2
<1>4. ASSUME NEW i \in 1..Len(q), q[i].kind = "event"
      PROVE  /\ q[i].from = IF i = 1 THEN r[1].upto ELSE q[i - 1].upto
             /\ q[i].from <= q[i].upto /\ q[i].upto <= s
             /\ i = Len(q) => q[i].upto = s
  <2>1. i \in 1..(n - 1)
    BY <1>1
  <2>2. q[i] = r[i + 1] /\ i + 1 \in 1..n /\ i + 1 # 1 /\ (i + 1) - 1 = i
    BY <1>1, <2>1
  <2>3. /\ r[i + 1].from = r[i].upto
        /\ r[i + 1].from <= r[i + 1].upto /\ r[i + 1].upto <= s
        /\ i + 1 = n => r[i + 1].upto = s
    BY <1>4, <2>2 DEF Chained, n
  <2>4. i = 1 \/ (i - 1 \in 1..(n - 1) /\ (i - 1) + 1 = i)
    BY <1>1, <2>1
  <2>5. i = 1 \/ q[i - 1] = r[i]
    BY <1>1, <2>4
  <2>6. i = Len(q) => i + 1 = n
    BY <1>1, <2>1
  <2> QED BY <2>2, <2>3, <2>5, <2>6
<1>5. q = <<>> => r[1].upto = s
  BY <1>1, <1>2 DEF Chained, n
<1>6. Chained(q, r[1].upto, s, pc)
  BY <1>3, <1>4, <1>5 DEF Chained
<1> QED BY <1>6 DEF q

LEMMA OverStays ==
    ASSUME StreamTypes, Next, Over
    PROVE  Over'
<1>1. main' = main
  BY DEF Next, ReaderStep, ReaderAsks, ReaderReads, ReaderEnds, ReaderSends, ReaderCancelled, MainStep, Drop,
         Receive, ChannelCloses, CleanDelta, SendText, Flush, Collect, Split, Synthesize, Listen, ListenFails,
         SpeakTail, Finish, At, Over
<1> QED BY <1>1 DEF Over

LEMMA ReadingStep ==
    ASSUME StreamTypes, fader \in Faders, Reading, Handed, Next
    PROVE  Reading'
<1>0. ReaderTypes /\ ReaderTypes' /\ Given \in Nat /\ said \in Nat
  <2>1. Len(text) \in Nat
    BY DEF StreamTypes
  <2> QED BY <2>1, ReaderTypesStep, HandedIs DEF Reading, ReaderTypes
<1> SUFFICES ASSUME ~Over' PROVE Joined'
  BY <1>0 DEF Reading
<1>1. ~Over /\ Joined
  BY OverStays DEF Reading
<1>2. Joined <=> Chained(Read, Given, said, reader.pc)
  BY DEF Joined, Chained
<1>3. Joined' <=> Chained(Read', Given', said', reader'.pc)
  BY DEF Joined, Chained
<1>4. Chained(Read, Given, said, reader.pc)
  BY <1>1, <1>2
<1>5. Read \in Seq(ChanItems)
  BY <1>0 DEF ReaderTypes, Read
<1>6. ~Receive => Given' = Given
  BY HandedElse
<1>7. \A code \in Nat : Failure(code) \in ChanItems /\ Failure(code).kind = "failed"
  BY DEF Failure, ChanItems
<1>8. ASSUME NEW item \in ChanItems, Hand(item), chan' = chan
      PROVE  reader'.pc = "sending" /\ Read' = Append(chan, item)
  BY <1>8 DEF Hand, Read
<1>9. CASE ReaderAsks
  <2>1. UNCHANGED <<said, chan>> /\ reader.pc = "asking" /\ Given' = Given /\ Read = chan
    <3>1. main' = main /\ UNCHANGED <<said, chan>> /\ reader.pc = "asking"
      BY <1>9 DEF ReaderAsks
    <3>2. ~Receive \/ Given' = Given
      BY <1>9 DEF ReaderAsks, Given
    <3> QED BY <1>6, <3>1, <3>2 DEF Read
  <2>2. CASE Hand(Failure(1002))
    <3> DEFINE x == Failure(1002)
    <3>1. x \in ChanItems /\ x.kind = "failed" /\ Hand(x)
      BY <1>7, <2>2
    <3> HIDE DEF x
    <3>2. reader'.pc = "sending" /\ Read' = Append(chan, x)
      BY <1>8, <2>1, <3>1
    <3>3. Chained(Append(Read, x), Given, said, "sending")
      BY <1>0, <1>4, <1>5, <2>1, <3>1, ChainedAppend
    <3> QED BY <1>3, <2>1, <3>2, <3>3
  <2>3. CASE reader' = [reader EXCEPT !.pc = "reading"]
    <3>1. reader'.pc = "reading"
      BY <1>0, <2>3 DEF ReaderTypes
    <3>2. Read' = Read
      BY <2>1, <3>1 DEF Read
    <3>3. Chained(Read, Given, said, "reading")
      BY <1>4, <2>1 DEF Chained
    <3> QED BY <1>3, <2>1, <3>1, <3>2, <3>3
  <2> QED BY <1>9, <2>2, <2>3 DEF ReaderAsks
<1>10. CASE ReaderReads
  <2>1. UNCHANGED chan /\ reader.pc = "reading" /\ Given' = Given /\ Read = chan
    <3>1. UNCHANGED chan /\ reader.pc = "reading"
      BY <1>10 DEF ReaderReads
    <3>2. Given' = Given
      BY <1>10 DEF ReaderReads, Given
    <3> QED BY <3>1, <3>2 DEF Read
  <2>2. CASE Hand(Failure(1003)) /\ UNCHANGED said
    <3> DEFINE x == Failure(1003)
    <3>1. x \in ChanItems /\ x.kind = "failed" /\ Hand(x)
      BY <1>7, <2>2
    <3> HIDE DEF x
    <3>2. reader'.pc = "sending" /\ Read' = Append(chan, x)
      BY <1>8, <2>1, <3>1
    <3>3. Chained(Append(Read, x), Given, said, "sending")
      BY <1>0, <1>4, <1>5, <2>1, <3>1, ChainedAppend
    <3> QED BY <1>3, <2>1, <2>2, <3>2, <3>3
  <2>3. CASE ~(Hand(Failure(1003)) /\ UNCHANGED said)
    <3>1. PICK upto \in said..(said + Cut), final \in BOOLEAN :
             Hand(Event(said, upto, final)) /\ said' = upto
      BY <1>10, <2>3 DEF ReaderReads
    <3>2. upto \in Nat /\ said <= upto
      BY <1>0, <3>1, BoundsAssumption
    <3> DEFINE x == Event(said, upto, final)
    <3>3. x \in ChanItems /\ x.kind = "event" /\ x.from = said /\ x.upto = upto
      BY <1>0, <3>2 DEF Event, ChanItems
    <3>4. Hand(x)
      BY <3>1
    <3> HIDE DEF x
    <3>5. reader'.pc = "sending" /\ Read' = Append(chan, x)
      BY <1>8, <2>1, <3>3, <3>4
    <3>6. Chained(Append(Read, x), Given, upto, "sending")
      BY <1>0, <1>4, <1>5, <2>1, <3>2, <3>3, ChainedAppend
    <3> QED BY <1>3, <2>1, <3>1, <3>5, <3>6
  <2> QED BY <2>2, <2>3
<1>11. CASE ReaderEnds
  <2>1. UNCHANGED <<said, chan>> /\ reader.pc = "reading" /\ reader'.pc = "gone"
    BY <1>11 DEF ReaderEnds
  <2>2. Read' = Read /\ Given' = Given
    BY <1>11, <2>1 DEF Read, Given, ReaderEnds
  <2>3. Chained(Read, Given, said, "gone")
    BY <1>4 DEF Chained
  <2> QED BY <1>3, <2>1, <2>2, <2>3
<1>12. CASE ReaderSends
  <2>1. /\ UNCHANGED <<said, out>> /\ reader.pc = "sending" /\ Read = Append(chan, reader.item)
        /\ chan' = Append(chan, reader.item) /\ reader'.pc \in {"gone", "reading"}
        /\ reader.item.kind = "failed" => reader'.pc = "gone"
    BY <1>12 DEF ReaderSends, Read
  <2>2. Read' = Read /\ Given' = Given
    BY <2>1 DEF Read, Given
  <2>3. Read[Len(Read)] = reader.item
    BY <1>0, <2>1 DEF ReaderTypes
  <2>4. \A i \in 1..Len(Read) : Read[i].kind = "failed" => i = Len(Read) /\ reader'.pc \in {"sending", "gone"}
    BY <1>4, <2>1, <2>3 DEF Chained
  <2>5. Chained(Read, Given, said, reader'.pc)
    BY <1>4, <2>4 DEF Chained
  <2> QED BY <1>3, <2>1, <2>2, <2>5
<1>13. CASE Receive
  <2>1. UNCHANGED <<said, reader>> /\ chan # <<>> /\ chan' = Tail(chan)
    BY <1>13 DEF Receive
  <2>2. chan[1].kind = "event" /\ Given' = chan[1].upto
    <3>1. \/ chan[1].kind = "event" /\ Given' = chan[1].upto
          \/ main' = [main EXCEPT !.pc = "over"]
      BY <1>0, <1>13, Receives
    <3>2. main' = [main EXCEPT !.pc = "over"] => Over'
      BY DEF Over, StreamTypes, Mains
    <3> QED BY <3>1, <3>2
  <2>3. Read # <<>> /\ Read[1] = chan[1] /\ Read' = Tail(Read)
    <3>1. chan \in Seq(ChanItems) /\ Len(chan) \in Nat /\ Len(chan) >= 1
      BY <1>0, <2>1 DEF ReaderTypes
    <3>2. CASE reader.pc # "sending"
      BY <2>1, <3>2 DEF Read
    <3>3. CASE reader.pc = "sending"
      <4>1. reader.item \in ChanItems
        BY <1>0, <3>3 DEF ReaderTypes
      <4>2. Read = Append(chan, reader.item) /\ Read' = Append(Tail(chan), reader.item)
        BY <2>1, <3>3 DEF Read
      <4>3. Append(chan, reader.item) # <<>> /\ Append(chan, reader.item)[1] = chan[1]
        BY <3>1, <4>1
      <4>4. Tail(Append(chan, reader.item)) = Append(Tail(chan), reader.item)
        BY <2>1, <3>1, <4>1
      <4> QED BY <4>2, <4>3, <4>4
    <3> QED BY <3>2, <3>3
  <2>4. Chained(Tail(Read), Read[1].upto, said, reader.pc)
    BY <1>0, <1>4, <1>5, <2>2, <2>3, ChainedTail
  <2> QED BY <1>3, <2>1, <2>2, <2>3, <2>4
<1>14. CASE ReaderCancelled
  BY <1>1, <1>14 DEF ReaderCancelled
<1>15. CASE (MainStep /\ ~Receive) \/ Drop
  <2>1. UNCHANGED llmVars
    BY <1>15 DEF MainStep, Drop, ChannelCloses, CleanDelta, SendText, Flush, Collect, Split,
                Synthesize, Listen, ListenFails, SpeakTail, Finish, Go, Fail
  <2>2. UNCHANGED <<said, reader>> /\ Read' = Read
    BY <2>1 DEF llmVars, Read
  <2>3. CASE ~Receive
    BY <1>3, <1>4, <1>6, <2>2, <2>3
  <2> QED BY <1>13, <2>3
<1> QED BY <1>9, <1>10, <1>11, <1>12, <1>13, <1>14, <1>15 DEF Next, ReaderStep

-----------------------------------------------------------------------------
(* Pieces that move on.                                                     *)

LEMMA PieceIs ==
    ASSUME NEW g \in Nat, NEW s \in Pieces(g)
    PROVE  s \in Seq(1..g) /\ s \in Seq(Nat) /\ Rising(s) /\ Range(s) \subseteq 1..g /\ 1..g \subseteq Nat
<1>1. s \in Seq(1..g) /\ Rising(s) /\ 1..g \subseteq Nat
  BY DEF Pieces
<1>2. s \in Seq(Nat)
  BY <1>1, SeqMonotonic
<1> QED BY <1>1, <1>2, RangeIs

LEMMA NoPiece ==
    ASSUME NEW g \in Nat
    PROVE  <<>> \in Pieces(g) /\ Range(<<>>) = {}
<1>1. <<>> \in Seq(1..g) /\ Len(<<>>) = 0
  OBVIOUS
<1> QED BY <1>1, RangeEmpty DEF Pieces, Rising

LEMMA PiecesGrow ==
    ASSUME NEW g \in Nat, NEW h \in Nat, g <= h, NEW s \in Pieces(g)
    PROVE  s \in Pieces(h)
<1>1. 1..g \subseteq 1..h
  OBVIOUS
<1>2. s \in Seq(1..h)
  BY <1>1, PieceIs, SeqMonotonic
<1> QED BY <1>2, PieceIs DEF Pieces

LEMMA PieceConcat ==
    ASSUME NEW g \in Nat, NEW s \in Pieces(g), NEW t \in Pieces(g), Below(Range(s), Range(t))
    PROVE  s \o t \in Pieces(g) /\ Range(s \o t) = Range(s) \cup Range(t)
<1>1. /\ s \in Seq(1..g) /\ s \in Seq(Nat) /\ Rising(s)
      /\ t \in Seq(1..g) /\ t \in Seq(Nat) /\ Rising(t)
  BY PieceIs
<1>2. s \o t \in Seq(1..g)
  BY <1>1, ConcatIs
<1>3. Rising(s \o t)
  BY <1>1, RisingConcat
<1>4. Range(s \o t) = Range(s) \cup Range(t)
  BY <1>1, RangeConcat
<1> QED BY <1>2, <1>3, <1>4 DEF Pieces

LEMMA PositionsAre ==
    ASSUME NEW g \in Nat, NEW h \in Nat, g <= h
    PROVE  /\ Positions(g, h) \in Pieces(h)
           /\ \A p \in Range(Positions(g, h)) : g < p
           /\ \A p \in 1..h : g < p => p \in Range(Positions(g, h))
<1> DEFINE s == Positions(g, h)
<1>1. h - g \in Nat /\ \A i \in 1..(h - g) : g + i \in 1..h /\ g + i > g
  OBVIOUS
<1>2. s = [i \in 1..(h - g) |-> g + i]
  BY DEF Positions
<1> HIDE DEF s
<1>3. s \in Seq(1..h) /\ Len(s) = h - g /\ \A i \in 1..(h - g) : s[i] = g + i
  BY <1>1, <1>2
<1>4. Rising(s)
  BY <1>1, <1>3 DEF Rising
<1>5. \A p \in Range(s) : g < p
  <2> SUFFICES ASSUME NEW p \in Range(s) PROVE g < p
    OBVIOUS
  <2>1. PICK i \in 1..Len(s) : p = s[i]
    BY <1>3, RangeIs
  <2> QED BY <1>1, <1>3, <2>1
<1>6. \A p \in 1..h : g < p => p \in Range(s)
  <2> SUFFICES ASSUME NEW p \in 1..h, g < p PROVE p \in Range(s)
    OBVIOUS
  <2>1. p - g \in 1..(h - g) /\ g + (p - g) = p
    OBVIOUS
  <2>2. s[p - g] = p /\ p - g \in 1..Len(s)
    BY <1>3, <2>1
  <2>3. s[p - g] \in Range(s)
    BY <1>3, <2>2, RangeIs
  <2> QED BY <2>2, <2>3
<1> QED BY <1>3, <1>4, <1>5, <1>6 DEF Pieces, s

\* WebSocket.
LEMMA WsReceives ==
    ASSUME NEW g \in Nat, NEW h \in Nat, g <= h, NEW t, NEW o, NEW w, NEW l, NEW b, NEW r,
           WsHolds(t, o, w, l, b, r, g)
    PROVE  WsHolds(t, o, w, l, b, Positions(g, h), h)
<1>1. /\ t \in Pieces(g) /\ o \in Pieces(g) /\ w \in Pieces(g) /\ b \in Pieces(g)
      /\ l \subseteq 1..g
  BY DEF WsHolds, Asks
<1>2. t \in Pieces(h) /\ o \in Pieces(h) /\ w \in Pieces(h) /\ b \in Pieces(h)
  BY <1>1, PiecesGrow
<1>3. l \subseteq 1..h /\ Asks(t, l, h)
  BY <1>1, <1>2 DEF Asks, WsHolds
<1>4. Range(t) \subseteq 1..g /\ Range(o) \subseteq 1..g
  BY <1>1, PieceIs
<1>5. /\ Positions(g, h) \in Pieces(h)
      /\ \A p \in Range(Positions(g, h)) : g < p
  BY PositionsAre
<1>6. Range(Positions(g, h)) \subseteq 1..h
  BY <1>5, PieceIs
<1>7. Below(Range(t) \cup Range(o) \cup l, Range(Positions(g, h)))
  <2>1. \A p \in Range(t) \cup Range(o) \cup l : p \in 1..g
    BY <1>1, <1>4
  <2>2. \A p \in Range(Positions(g, h)) : p \in 1..h /\ g < p
    BY <1>5, <1>6
  <2> QED BY <2>1, <2>2 DEF Below
<1> QED BY <1>2, <1>3, <1>5, <1>7 DEF WsHolds

LEMMA WsLeaves ==
    ASSUME NEW g \in Nat, NEW t, NEW o, NEW w, NEW l, NEW b, NEW r,
           WsHolds(t, o, w, l, b, r, g), NEW q \in Pieces(g), Range(q) \subseteq Range(r)
    PROVE  WsHolds(t, o, w, l, b, q, g)
BY DEF WsHolds, Below

LEMMA WsSends ==
    ASSUME NEW g \in Nat, NEW t, NEW o, NEW w, NEW l, NEW b, NEW r,
           WsHolds(t, o, w, l, b, r, g), NEW s \in Pieces(g), NEW q \in Pieces(g), NEW c \in Pieces(g),
           Range(s) \cup Range(q) \subseteq Range(r), Below(Range(s), Range(q))
    PROVE  /\ WsHolds(t, o \o s, w \o s, l, c, q, g)
           /\ WsHolds(t, o \o s, s, l \cup Range(w), c, q, g)
           /\ Range(o \o s) = Range(o) \cup Range(s)
<1>1. /\ t \in Pieces(g) /\ o \in Pieces(g) /\ w \in Pieces(g) /\ l \subseteq 1..g
      /\ Below(Range(t), Range(o)) /\ Below(Range(t) \cup Range(o) \cup l, Range(r))
      /\ Range(w) \subseteq Range(o) /\ Range(o) \ Range(w) \subseteq l
      /\ l \cap Range(w) = {} /\ Range(t) \cap l = {} /\ Asks(t, l, g)
  BY DEF WsHolds, Asks
<1>2. /\ Range(t) \subseteq Nat /\ Range(o) \subseteq Nat /\ Range(w) \subseteq Nat /\ Range(s) \subseteq Nat
      /\ Range(w) \subseteq 1..g /\ l \subseteq Nat
  BY <1>1, PieceIs
<1>3. Below(Range(o), Range(s)) /\ Below(Range(w), Range(s)) /\ Below(Range(t), Range(s)) /\ Below(l, Range(s))
  BY <1>1 DEF Below
<1>4. /\ o \o s \in Pieces(g) /\ Range(o \o s) = Range(o) \cup Range(s)
      /\ w \o s \in Pieces(g) /\ Range(w \o s) = Range(w) \cup Range(s)
  BY <1>1, <1>3, PieceConcat
<1>5. Range(s) \cap l = {} /\ Range(s) \cap Range(w) = {}
  BY <1>2, <1>3 DEF Below
<1>6. Below(Range(t), Range(o \o s))
  BY <1>1, <1>3, <1>4 DEF Below
<1>7. Below(Range(t) \cup Range(o \o s) \cup l \cup Range(w), Range(q))
  BY <1>1, <1>4 DEF Below
<1>8. WsHolds(t, o \o s, w \o s, l, c, q, g)
  <2>1. Below(Range(t) \cup Range(o \o s) \cup l, Range(q))
    BY <1>7 DEF Below
  <2>2. Range(w \o s) \subseteq Range(o \o s) /\ Range(o \o s) \ Range(w \o s) \subseteq l /\ l \cap Range(w \o s) = {}
    BY <1>1, <1>4, <1>5
  <2> QED BY <1>1, <1>4, <1>6, <2>1, <2>2 DEF WsHolds
<1>9. WsHolds(t, o \o s, s, l \cup Range(w), c, q, g)
  <2>1. Below(Range(t) \cup Range(o \o s) \cup (l \cup Range(w)), Range(q))
    BY <1>7 DEF Below
  <2>2. Range(t) \cap Range(w) = {}
    BY <1>1, <1>2 DEF Below
  <2>3. Asks(t, l \cup Range(w), g)
    BY <1>1, <1>2, <2>2 DEF Asks
  <2>4. /\ Range(s) \subseteq Range(o \o s) /\ Range(o \o s) \ Range(s) \subseteq l \cup Range(w)
        /\ (l \cup Range(w)) \cap Range(s) = {}
    BY <1>1, <1>4, <1>5
  <2> QED BY <1>4, <1>6, <2>1, <2>3, <2>4 DEF WsHolds
<1> QED BY <1>4, <1>8, <1>9

LEMMA WsFlushes ==
    ASSUME NEW g \in Nat, NEW t, NEW o, NEW w, NEW l, NEW b, NEW r, WsHolds(t, o, w, l, b, r, g)
    PROVE  /\ WsHolds(t \o w, <<>>, <<>>, l, b, r, g)
           /\ WsHolds(t \o o, <<>>, <<>>, l \ Range(o), b, r, g)
           /\ Range(t \o w) = Range(t) \cup Range(w) /\ Range(t \o o) = Range(t) \cup Range(o)
           /\ Range(o) \subseteq Range(w) \cup l
<1>1. /\ t \in Pieces(g) /\ o \in Pieces(g) /\ w \in Pieces(g) /\ b \in Pieces(g) /\ r \in Pieces(g)
      /\ l \subseteq 1..g
      /\ Below(Range(t), Range(o)) /\ Below(Range(t) \cup Range(o) \cup l, Range(r))
      /\ Range(w) \subseteq Range(o) /\ Range(o) \ Range(w) \subseteq l
      /\ l \cap Range(w) = {} /\ Range(t) \cap l = {}
  BY DEF WsHolds, Asks
<1>2. <<>> \in Pieces(g) /\ Range(<<>>) = {}
  BY NoPiece
<1>3. Below(Range(t), Range(w))
  BY <1>1 DEF Below
<1>4. /\ t \o w \in Pieces(g) /\ Range(t \o w) = Range(t) \cup Range(w)
      /\ t \o o \in Pieces(g) /\ Range(t \o o) = Range(t) \cup Range(o)
  BY <1>1, <1>3, PieceConcat
<1>5. Asks(t \o w, l, g) /\ Asks(t \o o, l \ Range(o), g)
  BY <1>1, <1>4 DEF Asks
<1>6. /\ Below(Range(t \o w), {}) /\ Below(Range(t \o o), {})
      /\ Below(Range(t \o w) \cup {} \cup l, Range(r))
      /\ Below(Range(t \o o) \cup {} \cup (l \ Range(o)), Range(r))
  BY <1>1, <1>4 DEF Below
<1> QED BY <1>1, <1>2, <1>4, <1>5, <1>6 DEF WsHolds

\* HTTP.
LEMMA HttpReceives ==
    ASSUME NEW g \in Nat, NEW h \in Nat, g <= h, NEW t, NEW p, NEW b, NEW r, NEW pc, pc # "synthesize",
           HttpHolds(t, p, b, r, pc, g)
    PROVE  HttpHolds(t, p, b, Positions(g, h), "text", h)
<1>1. /\ t \in Pieces(g) /\ p \in Pieces(g) /\ b \in Pieces(g)
      /\ Below(Range(t), Range(p) \cup Range(r)) /\ Below(Range(t) \cup Range(p), Range(b))
  BY DEF HttpHolds, Asks
<1>2. t \in Pieces(h) /\ p \in Pieces(h) /\ b \in Pieces(h)
  BY <1>1, PiecesGrow
<1>3. Range(t) \subseteq 1..g /\ Range(p) \subseteq 1..g /\ Range(b) \subseteq 1..g
  BY <1>1, PieceIs
<1>4. /\ Positions(g, h) \in Pieces(h)
      /\ \A x \in Range(Positions(g, h)) : g < x
  BY PositionsAre
<1>5. Range(Positions(g, h)) \subseteq 1..h
  BY <1>4, PieceIs
<1>6. /\ Below(Range(t), Range(p) \cup Range(Positions(g, h)))
      /\ Below(Range(p) \cup Range(b), Range(Positions(g, h)))
  BY <1>1, <1>3, <1>4, <1>5 DEF Below
<1>7. Asks(t, {}, h)
  BY <1>2 DEF Asks
<1> QED BY <1>1, <1>2, <1>4, <1>6, <1>7 DEF HttpHolds

LEMMA HttpCollects ==
    ASSUME NEW g \in Nat, NEW t, NEW p, NEW b, NEW r, HttpHolds(t, p, b, r, "text", g)
    PROVE  /\ HttpHolds(t, p, b \o r, <<>>, "split", g)
           /\ Range(b \o r) = Range(b) \cup Range(r)
<1>1. /\ Asks(t, {}, g) /\ p \in Pieces(g) /\ b \in Pieces(g) /\ r \in Pieces(g)
      /\ Below(Range(t), Range(p) \cup Range(r)) /\ Below(Range(t) \cup Range(p), Range(b))
      /\ Below(Range(p) \cup Range(b), Range(r))
  BY DEF HttpHolds
<1>2. Below(Range(b), Range(r)) /\ <<>> \in Pieces(g) /\ Range(<<>>) = {}
  BY <1>1, NoPiece DEF Below
<1>3. b \o r \in Pieces(g) /\ Range(b \o r) = Range(b) \cup Range(r)
  BY <1>1, <1>2, PieceConcat
<1>4. Below(Range(t), Range(p) \cup {}) /\ Below(Range(t) \cup Range(p), Range(b \o r))
  BY <1>1, <1>3 DEF Below
<1> QED BY <1>1, <1>2, <1>3, <1>4 DEF HttpHolds

\* A sentence s is cut off b, and q stays.
LEMMA HttpCuts ==
    ASSUME NEW g \in Nat, NEW t, NEW p, NEW b, NEW r, NEW pc, pc # "text", pc # "synthesize",
           HttpHolds(t, p, b, r, pc, g), r = <<>>,
           NEW s \in Pieces(g), NEW q \in Pieces(g),
           Range(s) \cup Range(q) \subseteq Range(b), Below(Range(s), Range(q))
    PROVE  /\ HttpHolds(t, p \o s, q, <<>>, pc, g)
           /\ HttpHolds(t, <<>>, q, p \o s, "synthesize", g)
           /\ HttpHolds(t, <<>>, <<>>, p \o s, "synthesize", g)
           /\ Range(p \o s) = Range(p) \cup Range(s)
<1>1. /\ Asks(t, {}, g) /\ p \in Pieces(g) /\ b \in Pieces(g)
      /\ Below(Range(t), Range(p) \cup Range(r)) /\ Below(Range(t) \cup Range(p), Range(b))
  BY DEF HttpHolds
<1>2. Below(Range(p), Range(s)) /\ <<>> \in Pieces(g) /\ Range(<<>>) = {}
  BY <1>1, NoPiece DEF Below
<1>3. p \o s \in Pieces(g) /\ Range(p \o s) = Range(p) \cup Range(s)
  BY <1>1, <1>2, PieceConcat
<1>4. /\ Below(Range(t), Range(p \o s) \cup {}) /\ Below(Range(t), {} \cup Range(p \o s))
      /\ Below(Range(t) \cup Range(p \o s), Range(q))
      /\ Below(Range(t) \cup {}, Range(q))
      /\ Below(Range(p \o s), Range(q))
  BY <1>1, <1>3 DEF Below
<1>5. HttpHolds(t, p \o s, q, <<>>, pc, g)
  BY <1>1, <1>2, <1>3, <1>4 DEF HttpHolds
<1>6. HttpHolds(t, <<>>, q, p \o s, "synthesize", g)
  BY <1>1, <1>2, <1>3, <1>4 DEF HttpHolds
<1>7. HttpHolds(t, <<>>, <<>>, p \o s, "synthesize", g)
  <2>1. Below(Range(t) \cup {}, {}) /\ Below(Range(p \o s), {})
    BY DEF Below
  <2> QED BY <1>1, <1>2, <1>3, <1>4, <2>1 DEF HttpHolds
<1> QED BY <1>3, <1>5, <1>6, <1>7

LEMMA HttpAsks ==
    ASSUME NEW g \in Nat, NEW t, NEW b, NEW r,
           HttpHolds(t, <<>>, b, r, "synthesize", g)
    PROVE  /\ HttpHolds(t \o r, <<>>, b, <<>>, "listen", g)
           /\ Range(t \o r) = Range(t) \cup Range(r)
<1>0. <<>> \in Pieces(g) /\ Range(<<>>) = {}
  BY NoPiece
<1>1. /\ t \in Pieces(g) /\ b \in Pieces(g) /\ r \in Pieces(g)
      /\ Below(Range(t), Range(r))
      /\ Below(Range(t), Range(b)) /\ Below(Range(r), Range(b))
  BY <1>0 DEF HttpHolds, Asks, Below
<1>2. t \o r \in Pieces(g) /\ Range(t \o r) = Range(t) \cup Range(r)
  BY <1>1, PieceConcat
<1>3. Asks(t \o r, {}, g)
  BY <1>2 DEF Asks
<1>4. Below(Range(t \o r), {} \cup {}) /\ Below(Range(t \o r) \cup {}, Range(b))
  BY <1>1, <1>2 DEF Below
<1> QED BY <1>0, <1>1, <1>2, <1>3, <1>4 DEF HttpHolds

-----------------------------------------------------------------------------
(* What was asked for.                                                      *)

LEMMA SpokenTextIs ==
    ASSUME spoken \in Seq(Requests)
    PROVE  [i \in DOMAIN spoken |-> spoken[i].text] \in Seq(Seq(Nat)) /\ SpokenText \in Seq(Nat)
<1> DEFINE texts == [i \in DOMAIN spoken |-> spoken[i].text]
<1>1. \A r \in Requests : r.text \in Seq(Nat)
  BY DEF Requests
<1>2. Len(spoken) \in Nat /\ DOMAIN spoken = 1..Len(spoken) /\ \A i \in 1..Len(spoken) : spoken[i] \in Requests
  OBVIOUS
<1>3. texts \in Seq(Seq(Nat))
  BY <1>1, <1>2
<1>4. SpokenText = FlattenSeq(texts)
  BY DEF SpokenText
<1> HIDE DEF texts
<1>5. FlattenSeq(texts) \in Seq(Nat)
  BY <1>3, FlattenType
<1> QED BY <1>3, <1>4, <1>5 DEF texts

LEMMA AskAdds ==
    ASSUME spoken \in Seq(Requests), NEW s \in Seq(Nat), Ask(s)
    PROVE  SpokenText' = SpokenText \o s
<1> DEFINE texts == [i \in DOMAIN spoken |-> spoken[i].text]
           r == [text |-> s, sound |-> 0]
           more == Append(spoken, r)
<1>1. r.text = s /\ r \in Requests
  BY DEF Requests
<1>2. Len(spoken) \in Nat /\ DOMAIN spoken = 1..Len(spoken)
  OBVIOUS
<1>3. spoken' = more
  BY DEF Ask
<1> HIDE DEF r
<1>4. /\ more \in Seq(Requests) /\ Len(more) = Len(spoken) + 1 /\ DOMAIN more = 1..(Len(spoken) + 1)
      /\ \A i \in 1..Len(spoken) : more[i] = spoken[i]
      /\ more[Len(spoken) + 1] = r
  BY <1>1
<1>5. texts \in Seq(Seq(Nat)) /\ Len(texts) = Len(spoken) /\ \A i \in 1..Len(spoken) : texts[i] = spoken[i].text
  BY <1>2, SpokenTextIs
<1> HIDE DEF more
<1> DEFINE longer == [i \in DOMAIN more |-> more[i].text]
<1>6. longer = Append(texts, s)
  <2>1. /\ Append(texts, s) \in Seq(Seq(Nat)) /\ Len(Append(texts, s)) = Len(spoken) + 1
        /\ \A i \in 1..Len(spoken) : Append(texts, s)[i] = texts[i]
        /\ Append(texts, s)[Len(spoken) + 1] = s
    BY <1>5
  <2> HIDE DEF texts
  <2>2. \A i \in 1..(Len(spoken) + 1) : i \in 1..Len(spoken) \/ i = Len(spoken) + 1
    BY <1>2
  <2>3. \A i \in 1..(Len(spoken) + 1) : longer[i] = Append(texts, s)[i]
    BY <1>1, <1>4, <1>5, <2>1, <2>2
  <2>4. /\ longer = [i \in 1..(Len(spoken) + 1) |-> longer[i]]
    BY <1>4
  <2> DEFINE all == Append(texts, s)
  <2>5. all = [i \in 1..(Len(spoken) + 1) |-> all[i]]
    <3>1. all \in Seq(Seq(Nat)) /\ Len(all) = Len(spoken) + 1
      BY <2>1
    <3> HIDE DEF all
    <3> QED BY <3>1
  <2> HIDE DEF longer
  <2> QED BY <2>3, <2>4, <2>5
<1>7. FlattenSeq(Append(texts, s)) = FlattenSeq(texts) \o s
  <2> HIDE DEF texts
  <2> QED BY <1>5, FlattenAppend
<1>8. SpokenText = FlattenSeq(texts)
  BY DEF SpokenText
<1>9. SpokenText' = FlattenSeq(longer)
  BY <1>3 DEF SpokenText
<1> QED BY <1>6, <1>7, <1>8, <1>9

LEMMA SpokenStays ==
    ASSUME spoken \in Seq(Requests), NEW x, spoken' = [spoken EXCEPT ![Len(spoken)].sound = x]
    PROVE  SpokenText' = SpokenText
<1>1. \A r \in Requests : [r EXCEPT !.sound = x].text = r.text
  BY DEF Requests
<1>2. DOMAIN spoken' = DOMAIN spoken /\ \A i \in DOMAIN spoken : spoken'[i].text = spoken[i].text
  BY <1>1
<1>3. [i \in DOMAIN spoken' |-> spoken'[i].text] = [i \in DOMAIN spoken |-> spoken[i].text]
  BY <1>2
<1> QED BY <1>3 DEF SpokenText

-----------------------------------------------------------------------------
(* Cutting.                                                                 *)

\* What is behind an index that is in the second of two sequences.
LEMMA CutBehind ==
    ASSUME NEW D, NEW b \in Seq(D), NEW r \in Seq(D), NEW n \in Nat, n <= Len(r)
    PROVE  /\ SubSeq(b \o r, Len(b) + 1, Len(b) + n) = Keep(r, n)
           /\ Past(b \o r, Len(b) + n) = Past(r, n)
<1> DEFINE whole == b \o r
           k == Len(b)
           end == k + n
<1>1. /\ k \in Nat /\ Len(r) \in Nat /\ whole \in Seq(D) /\ Len(whole) = k + Len(r)
      /\ \A i \in 1..Len(r) : whole[k + i] = r[i]
  BY ConcatIs
<1> HIDE DEF whole, k
<1>2. SubSeq(whole, k + 1, end) = Keep(r, n)
  <2>1. k + 1 \in Nat /\ end \in Nat /\ (1 + end) - (k + 1) = n /\ \A i \in 1..n : (i + (k + 1)) - 1 = k + i
    BY <1>1
  <2>2. SubSeq(whole, k + 1, end) = [i \in 1..((1 + end) - (k + 1)) |-> whole[(i + (k + 1)) - 1]]
    BY <1>1, <2>1
  <2>3. Keep(r, n) = [i \in 1..n |-> r[i]]
    BY <1>1 DEF Keep
  <2>4. \A i \in 1..n : i \in 1..Len(r)
    BY <1>1
  <2>5. \A i \in 1..n : whole[k + i] = r[i]
    BY <1>1, <2>4
  <2> HIDE DEF end
  <2>6. SubSeq(whole, k + 1, end) = [i \in 1..n |-> whole[k + i]]
    BY <2>1, <2>2
  <2> QED BY <2>3, <2>5, <2>6
<1>3. Past(whole, end) = Past(r, n)
  <2> DEFINE l == Len(r) - n
  <2>1. /\ end + 1 \in Nat /\ n + 1 \in Nat /\ l \in Nat
        /\ (1 + Len(whole)) - (end + 1) = l /\ (1 + Len(r)) - (n + 1) = l
        /\ \A i \in 1..l : (i + (end + 1)) - 1 = k + (n + i) /\ (i + (n + 1)) - 1 = n + i /\ n + i \in 1..Len(r)
    BY <1>1
  <2>2. SubSeq(whole, end + 1, Len(whole)) = [i \in 1..((1 + Len(whole)) - (end + 1)) |-> whole[(i + (end + 1)) - 1]]
    BY <1>1, <2>1
  <2>3. SubSeq(r, n + 1, Len(r)) = [i \in 1..((1 + Len(r)) - (n + 1)) |-> r[(i + (n + 1)) - 1]]
    <3>1. n + 1 \in Nat /\ Len(r) \in Nat
      BY <1>1, <2>1
    <3> DEFINE first == n + 1
               last == Len(r)
    <3> HIDE DEF first, last
    <3>2. SubSeq(r, first, last) = [i \in 1..((1 + last) - first) |-> r[(i + first) - 1]]
      BY <3>1 DEF first, last
    <3> QED BY <3>2 DEF first, last
  <2> HIDE DEF end, l
  <2>4. SubSeq(whole, end + 1, Len(whole)) = [i \in 1..l |-> whole[k + (n + i)]]
    BY <2>1, <2>2
  <2>5. SubSeq(r, n + 1, Len(r)) = [i \in 1..l |-> r[n + i]]
    BY <2>1, <2>3
  <2>6. \A i \in 1..l : whole[k + (n + i)] = r[n + i]
    BY <1>1, <2>1
  <2> QED BY <2>4, <2>5, <2>6 DEF Past
<1> QED BY <1>2, <1>3 DEF whole, k

\* What is sent of the sentence that b began, and what stays.
LEMMA SegmentCuts ==
    ASSUME NEW g \in Nat, NEW m \in Mains, m.buf \in Pieces(g), m.rest \in Pieces(g),
           \A i \in 1..Len(m.buf) : ~IsKind(m.buf[i], "stop")
    PROVE  LET s == Segment(m).send
               next == Segment(m).next
           IN  /\ s \in Pieces(g) /\ next.rest \in Pieces(g)
               /\ Range(s) \cup Range(next.rest) = Range(m.rest) /\ Below(Range(s), Range(next.rest))
               /\ \/ /\ next = [m EXCEPT !.pc = "flush", !.rest = next.rest, !.buf = <<>>]
                  \/ /\ next = [m EXCEPT !.pc = After(m), !.rest = <<>>, !.buf = m.buf \o s]
                     /\ next.rest = <<>>
                     /\ \A i \in 1..Len(m.buf \o s) : ~IsKind((m.buf \o s)[i], "stop")
<1> DEFINE b == m.buf
           r == m.rest
           whole == b \o r
           end == SentenceEnd(whole)
           n == end - Len(b)
<1>1. /\ b \in Seq(Nat) /\ r \in Seq(Nat) /\ b \in Seq(1..g) /\ r \in Seq(1..g) /\ Rising(r) /\ 1..g \subseteq Nat
      /\ Len(b) \in Nat /\ Len(r) \in Nat
  BY PieceIs
<1>3. /\ Segment(m) = IF end > 0
                      THEN [send |-> SubSeq(whole, Len(b) + 1, end),
                            next |-> [m EXCEPT !.pc = "flush", !.rest = Past(whole, end), !.buf = <<>>]]
                      ELSE [send |-> r, next |-> [m EXCEPT !.pc = After(m), !.rest = <<>>, !.buf = whole]]
      /\ \A i \in 1..Len(b) : ~IsKind(b[i], "stop")
  BY DEF Segment
<1>m. \A x, y, pc : [m EXCEPT !.pc = pc, !.rest = x, !.buf = y].rest = x
  BY DEF Mains
<1>r. Range(m.rest) = Range(r) /\ m.buf = b /\ r \in Pieces(g)
  OBVIOUS
<1> HIDE DEF b, r
<1>2. /\ whole \in Seq(Nat) /\ Len(whole) = Len(b) + Len(r)
      /\ \A i \in 1..Len(b) : whole[i] = b[i]
  BY <1>1, ConcatIs
<1> HIDE DEF whole
<1>4. /\ end \in 0..Len(whole)
      /\ end > 0 => IsKind(whole[end], "stop")
      /\ end = 0 => \A i \in 1..Len(whole) : ~IsKind(whole[i], "stop")
  BY <1>2, SentenceEndOf
<1> HIDE DEF end
<1>5. CASE end > 0
  <2>1. end \notin 1..Len(b)
    BY <1>2, <1>3, <1>4, <1>5
  <2>2. n \in 0..Len(r) /\ n \in Nat /\ n <= Len(r) /\ end = Len(b) + n
    BY <1>1, <1>2, <1>4, <1>5, <2>1
  <2> HIDE DEF n
  <2>3. SubSeq(whole, Len(b) + 1, end) = Keep(r, n) /\ Past(whole, end) = Past(r, n)
    BY <1>1, <2>2, CutBehind DEF whole
  <2>5. /\ Keep(r, n) \in Seq(1..g) /\ Rising(Keep(r, n))
        /\ Past(r, n) \in Seq(1..g) /\ Rising(Past(r, n))
        /\ Range(Keep(r, n)) \cup Range(Past(r, n)) = Range(r)
        /\ Below(Range(Keep(r, n)), Range(Past(r, n)))
    BY <1>1, <2>2, CutAt
  <2>6. /\ Segment(m).send = Keep(r, n)
        /\ Segment(m).next = [m EXCEPT !.pc = "flush", !.rest = Past(r, n), !.buf = <<>>]
    BY <1>3, <1>5, <2>3
  <2>7. Segment(m).next.rest = Past(r, n)
    BY <1>m, <2>6
  <2>8. Keep(r, n) \in Pieces(g) /\ Past(r, n) \in Pieces(g)
    BY <2>5 DEF Pieces
  <2> QED BY <1>r, <2>5, <2>6, <2>7, <2>8
<1>6. CASE ~(end > 0)
  <2>1. end = 0
    BY <1>1, <1>2, <1>4, <1>6
  <2>2. Segment(m).send = r /\ Segment(m).next = [m EXCEPT !.pc = After(m), !.rest = <<>>, !.buf = whole]
    BY <1>3, <1>6
  <2>3. Segment(m).next.rest = <<>>
    BY <1>m, <2>2
  <2>4. <<>> \in Pieces(g) /\ Range(<<>>) = {}
    BY NoPiece
  <2>5. Range(r) \cup {} = Range(r) /\ Below(Range(r), {})
    BY DEF Below
  <2> QED BY <1>r, <1>4, <2>1, <2>2, <2>3, <2>4, <2>5 DEF whole
<1> QED BY <1>5, <1>6

-----------------------------------------------------------------------------
(* The words, step by step.                                                 *)

\* Where a letter that was given can be.
Somewhere == Range(SpokenText) \cup lost \cup Range(main.rest) \cup Unspoken

LEMMA KeptIf ==
    ASSUME Kept, text' = text, Given' = Given, \A p \in Somewhere : IsKind(p, "letter") => p \in Somewhere'
    PROVE  Kept'
<1>1. \A p \in 1..Given : IsKind(p, "letter") => p \in Somewhere
  BY DEF Kept, Somewhere
<1>2. \A p \in 1..Given' : text'[p] = "letter" => p \in Somewhere'
  BY <1>1 DEF IsKind
<1> QED BY <1>2 DEF Kept, Somewhere, IsKind

LEMMA MainFields ==
    ASSUME StreamTypes
    PROVE  /\ main \in Mains /\ main.pc \in Pcs /\ main.buf \in Seq(Nat) /\ main.rest \in Seq(Nat)
           /\ main.pending \in Seq(Nat) /\ main.final \in BOOLEAN /\ main.tail \in BOOLEAN
BY DEF StreamTypes, Mains

LEMMA WsStep ==
    ASSUME StreamTypes, fader \in Faders, Reading, Handed, MainStep, transport = "ws", ~Over, ~Over',
           WsHas, WsAt, Kept
    PROVE  WsHas' /\ WsAt' /\ Kept'
<1> DEFINE t == SpokenText
           g == Given
<1>0. /\ main.pc \in Pcs /\ main.buf \in Seq(Nat) /\ main.rest \in Seq(Nat) /\ main.pending \in Seq(Nat)
      /\ main.final \in BOOLEAN /\ main.tail \in BOOLEAN /\ main \in Mains /\ spoken \in Seq(Requests)
  BY MainFields DEF StreamTypes
<1>g. g \in Nat
  BY HandedIs
<1>e. <<>> \in Pieces(g) /\ Range(<<>>) = {}
  BY <1>g, NoPiece
<1>h. /\ WsHolds(t, owed, wire, lost, main.buf, main.rest, g)
      /\ owed \in Pieces(g) /\ wire \in Pieces(g) /\ main.buf \in Pieces(g) /\ main.rest \in Pieces(g)
  BY DEF WsHas, WsHolds
<1>s. ASSUME transport' = transport
      PROVE  /\ Somewhere = Range(t) \cup lost \cup Range(main.rest) \cup Range(owed)
             /\ Somewhere' = Range(SpokenText') \cup lost' \cup Range(main'.rest) \cup Range(owed')
  BY <1>s DEF Somewhere, Unspoken
\* Steps that touch no more than the rest of the delta.
<1>1. ASSUME NEW m, Go(m), m.rest \in Pieces(g), Range(m.rest) \subseteq Range(main.rest), m.buf = main.buf,
             \A p \in Range(main.rest) : IsKind(p, "letter") => p \in Range(m.rest), ~Receive
      PROVE  /\ WsHas' /\ Kept'
             /\ main' = m /\ owed' = owed /\ text' = text
  <2>1. /\ main' = m /\ UNCHANGED <<transport, text, owed, wire, lost, spoken>>
    BY <1>1 DEF Go, llmVars, ttsVars
  <2>2. SpokenText' = t
    BY <2>1 DEF SpokenText
  <2>3. Given' = g
    BY <1>1, HandedElse DEF Next
  <2>4. WsHolds(t, owed, wire, lost, main.buf, m.rest, g)
    BY <1>1, <1>g, <1>h, WsLeaves
  <2>5. WsHas'
    BY <1>1, <2>1, <2>2, <2>3, <2>4 DEF WsHas
  <2>6. \A p \in Somewhere : IsKind(p, "letter") => p \in Somewhere'
    BY <1>1, <1>s, <2>1, <2>2
  <2> QED BY <2>1, <2>3, <2>5, <2>6, KeptIf
<1>2. CASE Receive
  <2>1. /\ Given' \in Nat /\ g <= Given'
        /\ main' = [main EXCEPT !.pc = "text", !.rest = Positions(g, Given'), !.final = chan[1].final]
    <3>1. ReaderTypes
      BY DEF Reading
    <3>2. main' = [main EXCEPT !.pc = "over"] => Over'
      BY <1>0 DEF Over, Mains
    <3> QED BY <1>2, <1>g, <3>1, <3>2, Receives
  <2> DEFINE r == Positions(g, Given')
  <2>2. /\ main'.pc = "text" /\ main'.rest = r /\ main'.buf = main.buf /\ main'.tail = main.tail
    BY <1>0, <2>1 DEF Mains
  <2>3. UNCHANGED <<transport, text, owed, wire, lost, spoken>>
    BY <1>2 DEF Receive, ttsVars
  <2>4. SpokenText' = t
    BY <2>3 DEF SpokenText
  <2>5. WsHas'
    <3>1. WsHolds(t, owed, wire, lost, main.buf, r, Given')
      BY <1>g, <1>h, <2>1, WsReceives
    <3> QED BY <2>2, <2>3, <2>4, <3>1 DEF WsHas
  <2>6. /\ main.pc = "receive" /\ main.rest = <<>>
    BY <1>2 DEF Receive, At, WsAt
  <2>7. WsAt'
    BY <2>2, <2>3, <2>6 DEF WsAt, IsKind
  <2>8. Kept'
    <3> SUFFICES ASSUME NEW p \in 1..Given', text'[p] = "letter" PROVE p \in Somewhere'
      BY DEF Kept, Somewhere, IsKind
    <3>1. CASE p \in 1..g
      <4>1. p \in Somewhere
        BY <2>3, <3>1 DEF Kept, Somewhere, IsKind
      <4> QED BY <1>e, <1>s, <2>3, <2>4, <2>6, <4>1
    <3>2. CASE p \notin 1..g
      <4>1. g < p /\ p \in 1..Given'
        BY <1>g, <2>1, <3>2
      <4>2. p \in Range(r)
        BY <1>g, <2>1, <4>1, PositionsAre
      <4> QED BY <1>s, <2>2, <2>3, <4>2
    <3> QED BY <3>1, <3>2
  <2> QED BY <2>5, <2>7, <2>8
<1>3. CASE ChannelCloses
  <2> DEFINE m == [main EXCEPT !.pc = "tail"]
  <2>1. /\ m.pc = "tail" /\ m.rest = main.rest /\ m.buf = main.buf /\ m.tail = main.tail
        /\ Go(m) /\ main.pc = "receive"
    BY <1>0, <1>3 DEF ChannelCloses, Mains, At
  <2>2. ~Receive
    BY <1>3 DEF ChannelCloses, Receive
  <2> HIDE DEF m
  <2>3. WsHas' /\ Kept' /\ main' = m /\ owed' = owed /\ text' = text
    BY <1>1, <1>h, <2>1, <2>2
  <2>4. WsAt'
    BY <2>1, <2>3 DEF WsAt, IsKind
  <2> QED BY <2>3, <2>4
<1>4. CASE CleanDelta
  <2> DEFINE cleaned == Clean(main.rest)
             m1 == [main EXCEPT !.pc = "segment", !.rest = cleaned]
             m2 == [main EXCEPT !.pc = After(main), !.rest = <<>>]
  <2>1. /\ main.pc = "text" /\ main.tail = FALSE /\ ~Receive
        /\ Go(m1) \/ ((cleaned = <<>> \/ Strip(cleaned) = <<>>) /\ Go(m2))
    BY <1>0, <1>4 DEF CleanDelta, At, WsAt, Receive
  <2>2. After(main) \in {"receive", "tail"}
    BY DEF After
  <2>3. /\ m1.pc = "segment" /\ m1.rest = cleaned /\ m1.buf = main.buf /\ m1.tail = main.tail
        /\ m2.pc = After(main) /\ m2.rest = <<>> /\ m2.buf = main.buf /\ m2.tail = main.tail
    BY <1>0 DEF Mains
  <2>4. /\ cleaned \in Pieces(g) /\ Range(cleaned) \subseteq Range(main.rest)
        /\ \A p \in Range(main.rest) : IsKind(p, "letter") => p \in Range(cleaned)
    <3>1. main.rest \in Seq(1..g) /\ Rising(main.rest) /\ Range(main.rest) \subseteq 1..g /\ 1..g \subseteq Nat
      BY <1>g, <1>h, PieceIs
    <3>2. Range(main.rest) \subseteq DOMAIN text
      <4>1. DOMAIN text = 1..Len(text) /\ Len(text) \in Nat /\ g <= Len(text)
        BY HandedIs DEF StreamTypes
      <4> QED BY <1>g, <3>1, <4>1
    <3>3. /\ cleaned \in Seq(1..g) /\ Rising(cleaned) /\ Range(cleaned) \subseteq Range(main.rest)
          /\ Voiced(Range(main.rest)) \subseteq Range(cleaned)
      BY <3>1, <3>2, CleanOf
    <3> QED BY <3>3 DEF Pieces, Voiced
  <2>5. cleaned = <<>> \/ Strip(cleaned) = <<>> => \A p \in Range(main.rest) : ~IsKind(p, "letter")
    <3>1. CASE cleaned = <<>>
      BY <1>e, <2>4, <3>1
    <3>2. CASE Strip(cleaned) = <<>>
      <4>1. cleaned \in Seq(Nat)
        BY <1>g, <2>4, PieceIs
      <4>2. Voiced(Range(cleaned)) \subseteq {}
        BY <1>e, <3>2, <4>1, StripOf
      <4> QED BY <2>4, <4>2 DEF Voiced
    <3> QED BY <3>1, <3>2
  <2> HIDE DEF cleaned, m1, m2
  <2>6. CASE Go(m1)
    <3>1. WsHas' /\ Kept' /\ main' = m1 /\ owed' = owed /\ text' = text
      BY <1>1, <2>1, <2>3, <2>4, <2>6
    <3>2. WsAt'
      BY <2>1, <2>3, <3>1 DEF WsAt, IsKind
    <3> QED BY <3>1, <3>2
  <2>7. CASE (cleaned = <<>> \/ Strip(cleaned) = <<>>) /\ Go(m2)
    <3>1. Range(m2.rest) \subseteq Range(main.rest) /\ m2.rest \in Pieces(g)
      BY <1>e, <2>3
    <3>2. WsHas' /\ Kept' /\ main' = m2 /\ owed' = owed /\ text' = text
      BY <1>1, <2>1, <2>3, <2>5, <2>7, <3>1
    <3>3. WsAt'
      BY <2>1, <2>2, <2>3, <3>2 DEF WsAt, IsKind
    <3> QED BY <3>2, <3>3
  <2> QED BY <2>1, <2>6, <2>7
<1>5. CASE SendText
  <2> DEFINE s == Segment(main).send
             next == Segment(main).next
  <2>1. ~Fail(1004) /\ ~Receive
    <3>1. Fail(1004) => Over'
      BY <1>0 DEF Fail, Over, Mains
    <3> QED BY <1>5, <3>1 DEF SendText, Receive, At
  <2>2. /\ main.pc = "segment" /\ main.tail = FALSE /\ owed = main.buf
        /\ \A i \in 1..Len(main.buf) : ~IsKind(main.buf[i], "stop")
        /\ \/ wire' = wire \o s /\ lost' = lost
           \/ wire' = s /\ lost' = lost \cup Range(wire)
        /\ owed' = owed \o s /\ main' = next
        /\ UNCHANGED <<transport, text, spoken>>
    BY <1>0, <1>5, <2>1 DEF SendText, At, WsAt, llmVars
  <2>3. /\ s \in Pieces(g) /\ next.rest \in Pieces(g)
        /\ Range(s) \cup Range(next.rest) = Range(main.rest) /\ Below(Range(s), Range(next.rest))
        /\ \/ next = [main EXCEPT !.pc = "flush", !.rest = next.rest, !.buf = <<>>]
           \/ /\ next = [main EXCEPT !.pc = After(main), !.rest = <<>>, !.buf = main.buf \o s]
              /\ next.rest = <<>>
              /\ \A i \in 1..Len(main.buf \o s) : ~IsKind((main.buf \o s)[i], "stop")
    BY <1>0, <1>g, <1>h, <2>2, SegmentCuts
  <2> HIDE DEF s, next
  <2>4. /\ next.tail = FALSE
        /\ \/ next.pc = "flush" /\ next.buf = <<>>
           \/ /\ next.pc \in {"receive", "tail"} /\ next.buf = owed \o s /\ next.rest = <<>>
              /\ \A i \in 1..Len(next.buf) : ~IsKind(next.buf[i], "stop")
    <3>1. \A pc, x, y :
             /\ [main EXCEPT !.pc = pc, !.rest = x, !.buf = y].pc = pc
             /\ [main EXCEPT !.pc = pc, !.rest = x, !.buf = y].rest = x
             /\ [main EXCEPT !.pc = pc, !.rest = x, !.buf = y].buf = y
             /\ [main EXCEPT !.pc = pc, !.rest = x, !.buf = y].tail = main.tail
      BY <1>0 DEF Mains
    <3>2. After(main) \in {"receive", "tail"}
      BY DEF After
    <3>3. CASE next = [main EXCEPT !.pc = "flush", !.rest = next.rest, !.buf = <<>>]
      <4> DEFINE rest == next.rest
      <4>0. next = [main EXCEPT !.pc = "flush", !.rest = rest, !.buf = <<>>]
        BY <3>3
      <4> HIDE DEF rest
      <4>1. next.pc = "flush" /\ next.buf = <<>> /\ next.tail = main.tail
        BY <3>1, <4>0
      <4> QED BY <2>2, <4>1
    <3>4. CASE /\ next = [main EXCEPT !.pc = After(main), !.rest = <<>>, !.buf = main.buf \o s]
               /\ \A i \in 1..Len(main.buf \o s) : ~IsKind((main.buf \o s)[i], "stop")
      <4>1. next.pc = After(main) /\ next.buf = main.buf \o s /\ next.rest = <<>> /\ next.tail = main.tail
        BY <3>1, <3>4
      <4> QED BY <2>2, <3>2, <3>4, <4>1
    <3> QED BY <2>3, <3>3, <3>4
  <2>5. SpokenText' = t /\ Given' = g
    <3>1. SpokenText' = t
      BY <2>2 DEF SpokenText
    <3> QED BY <2>1, <3>1, HandedElse DEF Next
  <2>6. next.buf \in Pieces(g) /\ Range(owed \o s) = Range(owed) \cup Range(s)
        /\ WsHolds(t, owed \o s, wire \o s, lost, next.buf, next.rest, g)
        /\ WsHolds(t, owed \o s, s, lost \cup Range(wire), next.buf, next.rest, g)
    <3>1. Range(s) \cup Range(next.rest) \subseteq Range(main.rest)
      BY <2>3
    <3>0. /\ s \in Pieces(g) /\ next.rest \in Pieces(g) /\ main.buf \in Pieces(g)
          /\ Below(Range(s), Range(next.rest)) /\ WsHolds(t, owed, wire, lost, main.buf, main.rest, g)
      BY <1>h, <2>3
    <3>2. /\ WsHolds(t, owed \o s, wire \o s, lost, main.buf, next.rest, g)
          /\ Range(owed \o s) = Range(owed) \cup Range(s)
      <4>1. WsHolds(t, owed \o s, wire \o s, lost, main.buf, next.rest, g)
        BY <1>g, <3>0, <3>1, WsSends
      <4>2. owed \in Seq(Nat) /\ s \in Seq(Nat)
        BY <1>g, <1>h, <3>0, PieceIs
      <4> QED BY <4>1, <4>2, RangeConcat
    <3>3. owed \o s \in Pieces(g)
      BY <3>2 DEF WsHolds
    <3>4. next.buf \in Pieces(g)
      BY <1>e, <2>4, <3>3
    <3> QED BY <1>g, <1>h, <2>3, <3>1, <3>2, <3>4, WsSends
  <2>7. WsHas'
    BY <2>2, <2>5, <2>6 DEF WsHas
  <2>8. Kept'
    <3>1. lost \subseteq lost' /\ Range(main'.rest) = Range(next.rest) /\ Range(owed') = Range(owed) \cup Range(s)
      BY <2>2, <2>6
    <3>2. \A p \in Somewhere : IsKind(p, "letter") => p \in Somewhere'
      BY <1>s, <2>2, <2>3, <2>5, <3>1
    <3> QED BY <2>2, <2>5, <3>2, KeptIf
  <2>9. WsAt'
    BY <2>2, <2>4 DEF WsAt, IsKind
  <2> QED BY <2>7, <2>8, <2>9
<1>6. CASE Flush
  <2>1. ~Fail(IF main.tail THEN 1005 ELSE 1004) /\ ~Receive
    <3>1. Fail(IF main.tail THEN 1005 ELSE 1004) => Over'
      BY <1>0 DEF Fail, Over, Mains
    <3> QED BY <1>6, <3>1 DEF Flush, Receive, At
  <2>2. /\ main.pc = "flush"
        /\ \/ Ask(wire) /\ lost' = lost
           \/ Ask(owed) /\ lost' = lost \ Range(owed)
        /\ wire' = <<>> /\ owed' = <<>> /\ main' = [main EXCEPT !.pc = "listen"]
        /\ UNCHANGED <<transport, text>>
    BY <1>6, <2>1 DEF Flush, At, llmVars
  <2>3. /\ main'.pc = "listen" /\ main'.rest = main.rest /\ main'.buf = main.buf /\ main'.tail = main.tail
    BY <1>0, <2>2 DEF Mains
  <2>4. Given' = g
    BY <2>1, HandedElse DEF Next
  <2>5. /\ WsHolds(t \o wire, <<>>, <<>>, lost, main.buf, main.rest, g)
        /\ WsHolds(t \o owed, <<>>, <<>>, lost \ Range(owed), main.buf, main.rest, g)
        /\ Range(t \o wire) = Range(t) \cup Range(wire) /\ Range(t \o owed) = Range(t) \cup Range(owed)
        /\ Range(owed) \subseteq Range(wire) \cup lost
    BY <1>g, <1>h, WsFlushes
  <2>6. \/ SpokenText' = t \o wire /\ lost' = lost
        \/ SpokenText' = t \o owed /\ lost' = lost \ Range(owed)
    <3>1. wire \in Seq(Nat) /\ owed \in Seq(Nat)
      BY DEF StreamTypes
    <3> QED BY <1>0, <2>2, <3>1, AskAdds
  <2>7. WsHas'
    BY <2>2, <2>3, <2>4, <2>5, <2>6 DEF WsHas
  <2>8. Kept'
    <3>1. \A p \in Somewhere : p \in Somewhere'
      BY <1>s, <1>e, <2>2, <2>3, <2>5, <2>6
    <3> QED BY <2>2, <2>4, <3>1, KeptIf
  <2>9. WsAt'
    BY <2>2, <2>3 DEF WsAt, IsKind
  <2> QED BY <2>7, <2>8, <2>9
<1>7. CASE Listen
  <2>1. PICK x : spoken' = [spoken EXCEPT ![Len(spoken)].sound = x]
    BY <1>7 DEF Listen
  <2>2. /\ main.pc = "listen" /\ main' = Exhausted(main) /\ UNCHANGED <<transport, text, wire, owed, lost>>
        /\ ~Receive
    BY <1>7 DEF Listen, At, llmVars, Receive
  <2>3. SpokenText' = t /\ Given' = g
    <3>1. SpokenText' = t
      BY <1>0, <2>1, SpokenStays
    <3> QED BY <2>2, <3>1, HandedElse DEF Next
  <2>4. /\ main'.pc = IF main.tail THEN "finish" ELSE IF main.rest = <<>> THEN After(main) ELSE "segment"
        /\ main'.rest = main.rest /\ main'.buf = main.buf /\ main'.tail = main.tail
    BY <1>0, <2>2 DEF Mains, Exhausted
  <2>5. After(main) \in {"receive", "tail"}
    BY DEF After
  <2>6. WsHas'
    BY <1>h, <2>2, <2>3, <2>4 DEF WsHas
  <2>7. Kept'
    <3>1. \A p \in Somewhere : p \in Somewhere'
      BY <1>s, <2>2, <2>3, <2>4
    <3> QED BY <2>2, <2>3, <3>1, KeptIf
  <2>8. owed = <<>>
    BY <2>2 DEF WsAt
  <2>9. WsAt'
    <3>1. CASE main.tail
      <4>1. main'.pc = "finish" /\ main'.rest = <<>>
        BY <2>2, <2>4, <3>1 DEF WsAt
      <4> QED BY <1>e, <2>2, <2>4, <2>8, <3>1, <4>1 DEF WsAt
    <3>2. CASE ~main.tail
      <4>1. main.buf = <<>>
        BY <2>2, <3>2 DEF WsAt
      <4>2. \A i \in 1..Len(<<>>) : FALSE
        OBVIOUS
      <4> QED BY <2>2, <2>4, <2>5, <2>8, <3>2, <4>1, <4>2 DEF WsAt
    <3> QED BY <3>1, <3>2
  <2> QED BY <2>6, <2>7, <2>9
<1>8. CASE SpeakTail
  <2> DEFINE m1 == [main EXCEPT !.pc = "flush", !.tail = TRUE]
             m2 == [main EXCEPT !.pc = "finish"]
  <2>1. /\ main.pc = "tail" /\ ~Receive
        /\ Go(m1) \/ (Strip(main.buf) = <<>> /\ Go(m2))
    BY <1>8 DEF SpeakTail, At, Receive
  <2>2. /\ m1.pc = "flush" /\ m1.rest = main.rest /\ m1.buf = main.buf /\ m1.tail = TRUE
        /\ m2.pc = "finish" /\ m2.rest = main.rest /\ m2.buf = main.buf /\ m2.tail = main.tail
    BY <1>0 DEF Mains
  <2>3. main.rest = <<>> /\ main.tail = FALSE /\ owed = main.buf
    BY <1>0, <2>1 DEF WsAt
  <2> HIDE DEF m1, m2
  <2>4. CASE Go(m1)
    <3>1. WsHas' /\ Kept' /\ main' = m1 /\ owed' = owed /\ text' = text
      BY <1>1, <1>h, <2>1, <2>2, <2>4
    <3>2. WsAt'
      BY <2>2, <2>3, <3>1 DEF WsAt
    <3> QED BY <3>1, <3>2
  <2>5. CASE Strip(main.buf) = <<>> /\ Go(m2)
    <3>1. WsHas' /\ Kept' /\ main' = m2 /\ owed' = owed /\ text' = text
      BY <1>1, <1>h, <2>1, <2>2, <2>5
    <3>2. \A p \in Range(owed) : ~IsKind(p, "letter")
      <4>1. Voiced(Range(main.buf)) \subseteq {}
        BY <1>0, <1>e, <2>5, StripOf
      <4> QED BY <2>3, <4>1 DEF Voiced
    <3>3. WsAt'
      BY <2>2, <2>3, <3>1, <3>2 DEF WsAt, IsKind
    <3> QED BY <3>1, <3>3
  <2> QED BY <2>1, <2>4, <2>5
<1>9. CASE ListenFails \/ Finish
  <2>1. main' = [main EXCEPT !.pc = "over"]
    BY <1>9 DEF ListenFails, Finish
  <2>2. Over'
    BY <1>0, <2>1 DEF Over, Mains
  <2> QED BY <2>2
<1>10. CASE Collect \/ Split \/ Synthesize
  BY <1>10 DEF Collect, Split, Synthesize, At, WsAt
<1> QED BY <1>2, <1>3, <1>4, <1>5, <1>6, <1>7, <1>8, <1>9, <1>10 DEF MainStep

LEMMA HttpStep ==
    ASSUME StreamTypes, fader \in Faders, Reading, Handed, MainStep, transport = "http", ~Over, ~Over',
           HttpHas, HttpAt, Kept
    PROVE  HttpHas' /\ HttpAt' /\ Kept'
<1> DEFINE t == SpokenText
           g == Given
<1>0. /\ main.pc \in Pcs /\ main.buf \in Seq(Nat) /\ main.rest \in Seq(Nat) /\ main.pending \in Seq(Nat)
      /\ main.final \in BOOLEAN /\ main.tail \in BOOLEAN /\ main \in Mains /\ spoken \in Seq(Requests)
  BY MainFields DEF StreamTypes
<1>g. g \in Nat
  BY HandedIs
<1>e. <<>> \in Pieces(g) /\ Range(<<>>) = {}
  BY <1>g, NoPiece
<1>h. /\ HttpHolds(t, main.pending, Behind, main.rest, main.pc, g)
      /\ main.pending \in Pieces(g) /\ Behind \in Pieces(g) /\ main.rest \in Pieces(g)
      /\ wire = <<>> /\ owed = <<>> /\ lost = {}
  BY DEF HttpHas, HttpHolds
<1>b. main.tail = FALSE => Behind = main.buf
  BY DEF Behind
<1>c. main.tail = FALSE =>
         main.buf \in Pieces(g) /\ HttpHolds(t, main.pending, main.buf, main.rest, main.pc, g)
  BY <1>b, <1>h
<1>s. ASSUME transport' = transport
      PROVE  /\ Somewhere = Range(t) \cup lost \cup Range(main.rest) \cup Range(main.pending) \cup Range(Behind)
             /\ Somewhere' = Range(SpokenText') \cup lost' \cup Range(main'.rest) \cup Range(main'.pending)
                               \cup Range(Behind')
  BY <1>s DEF Somewhere, Unspoken
<1>t. DOMAIN text = 1..Len(text) /\ 1..g \subseteq DOMAIN text
  <2>1. DOMAIN text = 1..Len(text) /\ Len(text) \in Nat /\ g <= Len(text)
    BY HandedIs DEF StreamTypes
  <2> QED BY <1>g, <2>1
\* Steps within the stream.
<1>1. ASSUME NEW m, Go(m), ~Receive
      PROVE  /\ main' = m /\ text' = text /\ transport' = transport /\ UNCHANGED <<wire, owed, lost>>
             /\ SpokenText' = t /\ Given' = g
  <2>1. /\ main' = m /\ UNCHANGED <<transport, text, owed, wire, lost, spoken>>
    BY <1>1 DEF Go, llmVars, ttsVars
  <2>2. SpokenText' = t
    BY <2>1 DEF SpokenText
  <2>3. Given' = g
    BY <1>1, HandedElse DEF Next
  <2> QED BY <2>1, <2>2, <2>3
\* What is spoken of a piece.
<1>2. ASSUME NEW s \in Pieces(g)
      PROVE  /\ Speech(s) \in Pieces(g) /\ Range(Speech(s)) \subseteq Range(s)
             /\ \A p \in Range(s) : IsKind(p, "letter") => p \in Range(Speech(s))
  <2>1. s \in Seq(1..g) /\ Rising(s) /\ Range(s) \subseteq 1..g /\ 1..g \subseteq Nat
    BY <1>g, PieceIs
  <2>2. /\ Speech(s) \in Seq(1..g) /\ Rising(Speech(s)) /\ Range(Speech(s)) \subseteq Range(s)
        /\ Voiced(Range(s)) \subseteq Range(Speech(s))
    BY <1>t, <2>1, SpeechOf
  <2> QED BY <2>2 DEF Pieces, Voiced
<1>3. CASE Receive
  <2>1. /\ Given' \in Nat /\ g <= Given'
        /\ main' = [main EXCEPT !.pc = "text", !.rest = Positions(g, Given'), !.final = chan[1].final]
    <3>1. ReaderTypes
      BY DEF Reading
    <3>2. main' = [main EXCEPT !.pc = "over"] => Over'
      BY <1>0 DEF Over, Mains
    <3> QED BY <1>3, <1>g, <3>1, <3>2, Receives
  <2> DEFINE r == Positions(g, Given')
  <2>2. /\ main'.pc = "text" /\ main'.rest = r /\ main'.buf = main.buf /\ main'.tail = main.tail
        /\ main'.pending = main.pending
    BY <1>0, <2>1 DEF Mains
  <2>3. UNCHANGED <<transport, text, owed, wire, lost, spoken>>
    BY <1>3 DEF Receive, ttsVars
  <2>4. SpokenText' = t
    BY <2>3 DEF SpokenText
  <2>5. main.pc = "receive" /\ main.rest = <<>> /\ main.tail = FALSE
    BY <1>0, <1>3 DEF Receive, At, HttpAt
  <2>6. HttpHas'
    <3>1. HttpHolds(t, main.pending, Behind, r, "text", Given')
      BY <1>g, <1>h, <2>1, <2>5, HttpReceives
    <3> QED BY <1>h, <2>2, <2>3, <2>4, <2>5, <3>1 DEF HttpHas, Behind
  <2>7. HttpAt'
    BY <2>2, <2>5 DEF HttpAt
  <2>8. Kept'
    <3> SUFFICES ASSUME NEW p \in 1..Given', text'[p] = "letter" PROVE p \in Somewhere'
      BY DEF Kept, Somewhere, IsKind
    <3>1. CASE p \in 1..g
      <4>1. p \in Somewhere
        BY <2>3, <3>1 DEF Kept, Somewhere, IsKind
      <4> QED BY <1>e, <1>s, <2>2, <2>3, <2>4, <2>5, <4>1 DEF Behind
    <3>2. CASE p \notin 1..g
      <4>1. g < p /\ p \in 1..Given'
        BY <1>g, <2>1, <3>2
      <4>2. p \in Range(r)
        BY <1>g, <2>1, <4>1, PositionsAre
      <4> QED BY <1>s, <2>2, <2>3, <4>2
    <3> QED BY <3>1, <3>2
  <2> QED BY <2>6, <2>7, <2>8
<1>4. CASE ChannelCloses
  <2>1. /\ main.pc = "receive" /\ Go([main EXCEPT !.pc = "tail"]) /\ ~Receive
    BY <1>4 DEF ChannelCloses, At, Receive
  <2>2. /\ main' = [main EXCEPT !.pc = "tail"] /\ text' = text /\ transport' = transport
        /\ UNCHANGED <<wire, owed, lost>> /\ SpokenText' = t /\ Given' = g
    BY <1>1, <2>1
  <2>3. /\ main'.pc = "tail" /\ main'.rest = main.rest /\ main'.buf = main.buf /\ main'.tail = main.tail
        /\ main'.pending = main.pending
    BY <1>0, <2>2 DEF Mains
  <2>4. main.rest = <<>> /\ main.tail = FALSE
    BY <1>0, <2>1 DEF HttpAt
  <2>5. HttpHolds(t, main.pending, Behind, main.rest, "tail", g)
    BY <1>h DEF HttpHolds
  <2>6. HttpHas' /\ HttpAt'
    BY <1>h, <2>2, <2>3, <2>4, <2>5 DEF HttpHas, HttpAt, Behind
  <2>7. \A p \in Somewhere : p \in Somewhere'
    BY <1>s, <2>2, <2>3 DEF Behind
  <2> QED BY <2>2, <2>6, <2>7, KeptIf
<1>5. CASE Collect
  <2> DEFINE b == main.buf \o main.rest
  <2>1. main.pc = "text" /\ ~Receive /\ Go([main EXCEPT !.pc = "split", !.buf = b, !.rest = <<>>])
    BY <1>5 DEF Collect, At, Receive
  <2>2. /\ main' = [main EXCEPT !.pc = "split", !.buf = b, !.rest = <<>>] /\ text' = text /\ transport' = transport
        /\ UNCHANGED <<wire, owed, lost>> /\ SpokenText' = t /\ Given' = g
    BY <1>1, <2>1
  <2> HIDE DEF b
  <2>3. /\ main'.pc = "split" /\ main'.rest = <<>> /\ main'.buf = b /\ main'.tail = main.tail
        /\ main'.pending = main.pending
    BY <1>0, <2>2 DEF Mains
  <2>4. main.tail = FALSE
    BY <1>0, <2>1 DEF HttpAt
  <2>5. /\ HttpHolds(t, main.pending, b, <<>>, "split", g)
        /\ Range(b) = Range(main.buf) \cup Range(main.rest)
    BY <1>c, <1>g, <2>1, <2>4, HttpCollects DEF b
  <2>6. HttpHas' /\ HttpAt'
    BY <1>h, <2>2, <2>3, <2>4, <2>5 DEF HttpHas, HttpAt, Behind
  <2>7. \A p \in Somewhere : p \in Somewhere'
    BY <1>s, <2>2, <2>3, <2>4, <2>5 DEF Behind
  <2> QED BY <2>2, <2>6, <2>7, KeptIf
<1>6. CASE Split
  <2> DEFINE end == SentenceEnd(main.buf)
             head == Keep(main.buf, end)
             s == Speech(head)
             q == Past(main.buf, end)
             request == main.pending \o s
             cut == [main EXCEPT !.buf = q]
  <2>1. /\ main.pc = "split" /\ ~Receive
        /\ \/ Go([main EXCEPT !.pc = After(main)])
           \/ Go([cut EXCEPT !.pending = request])
           \/ Go([cut EXCEPT !.pc = "synthesize", !.rest = request, !.pending = <<>>])
    BY <1>6 DEF Split, At, Receive
  <2>2. main.rest = <<>> /\ main.tail = FALSE
    BY <1>0, <2>1 DEF HttpAt
  <2>3. end \in 0..Len(main.buf)
    BY <1>0, SentenceEndOf
  <2> HIDE DEF end
  <2>4. /\ head \in Pieces(g) /\ q \in Pieces(g)
        /\ Range(head) \cup Range(q) = Range(main.buf) /\ Below(Range(head), Range(q))
    <3>1. main.buf \in Seq(1..g) /\ Rising(main.buf) /\ 1..g \subseteq Nat
      BY <1>c, <1>g, <2>2, PieceIs
    <3> QED BY <2>3, <3>1, CutAt DEF Pieces
  <2> HIDE DEF head, q
  <2>5. /\ s \in Pieces(g) /\ Range(s) \subseteq Range(head)
        /\ \A p \in Range(head) : IsKind(p, "letter") => p \in Range(s)
    BY <1>2, <2>4
  <2> HIDE DEF s
  <2>6. Range(s) \cup Range(q) \subseteq Range(main.buf) /\ Below(Range(s), Range(q))
    BY <2>4, <2>5 DEF Below
  <2>7. /\ HttpHolds(t, request, q, <<>>, "split", g)
        /\ HttpHolds(t, <<>>, q, request, "synthesize", g)
        /\ Range(request) = Range(main.pending) \cup Range(s)
    BY <1>c, <1>g, <2>1, <2>2, <2>4, <2>5, <2>6, HttpCuts
  <2> HIDE DEF request
  <2>8. CASE Go([main EXCEPT !.pc = After(main)])
    <3>1. /\ main' = [main EXCEPT !.pc = After(main)] /\ text' = text /\ transport' = transport
          /\ UNCHANGED <<wire, owed, lost>> /\ SpokenText' = t /\ Given' = g
      BY <1>1, <2>1, <2>8
    <3>2. /\ main'.pc = After(main) /\ main'.rest = main.rest /\ main'.buf = main.buf /\ main'.tail = main.tail
          /\ main'.pending = main.pending
      BY <1>0, <3>1 DEF Mains
    <3>3. After(main) \in {"receive", "tail"}
      BY DEF After
    <3>4. HttpHolds(t, main.pending, Behind, main.rest, After(main), g)
      BY <1>h, <3>3 DEF HttpHolds
    <3>5. HttpHas' /\ HttpAt'
      BY <1>h, <2>2, <3>1, <3>2, <3>3, <3>4 DEF HttpHas, HttpAt, Behind
    <3>6. \A p \in Somewhere : p \in Somewhere'
      BY <1>s, <3>1, <3>2 DEF Behind
    <3> QED BY <3>1, <3>5, <3>6, KeptIf
  <2>9. CASE Go([cut EXCEPT !.pending = request])
    <3>1. /\ main' = [cut EXCEPT !.pending = request] /\ text' = text /\ transport' = transport
          /\ UNCHANGED <<wire, owed, lost>> /\ SpokenText' = t /\ Given' = g
      BY <1>1, <2>1, <2>9
    <3>2. /\ main'.pc = main.pc /\ main'.rest = main.rest /\ main'.buf = q /\ main'.tail = main.tail
          /\ main'.pending = request
      BY <1>0, <3>1 DEF Mains
    <3>3. HttpHas' /\ HttpAt'
      BY <1>h, <2>1, <2>2, <2>7, <3>1, <3>2 DEF HttpHas, HttpAt, Behind
    <3>4. \A p \in Somewhere : IsKind(p, "letter") => p \in Somewhere'
      BY <1>s, <2>2, <2>4, <2>5, <2>7, <3>1, <3>2 DEF Behind
    <3> QED BY <3>1, <3>3, <3>4, KeptIf
  <2>10. CASE Go([cut EXCEPT !.pc = "synthesize", !.rest = request, !.pending = <<>>])
    <3>1. /\ main' = [cut EXCEPT !.pc = "synthesize", !.rest = request, !.pending = <<>>]
          /\ text' = text /\ transport' = transport
          /\ UNCHANGED <<wire, owed, lost>> /\ SpokenText' = t /\ Given' = g
      BY <1>1, <2>1, <2>10
    <3>2. /\ main'.pc = "synthesize" /\ main'.rest = request /\ main'.buf = q /\ main'.tail = main.tail
          /\ main'.pending = <<>>
      BY <1>0, <3>1 DEF Mains
    <3>3. HttpHas' /\ HttpAt'
      BY <1>h, <2>2, <2>7, <3>1, <3>2 DEF HttpHas, HttpAt, Behind
    <3>4. \A p \in Somewhere : IsKind(p, "letter") => p \in Somewhere'
      BY <1>s, <1>e, <2>2, <2>4, <2>5, <2>7, <3>1, <3>2 DEF Behind
    <3> QED BY <3>1, <3>3, <3>4, KeptIf
  <2> QED BY <2>1, <2>8, <2>9, <2>10
<1>7. CASE Synthesize
  <2>1. /\ main.pc = "synthesize" /\ main.pending = <<>> /\ ~Receive
        /\ \/ Ask(main.rest) /\ main' = [main EXCEPT !.pc = "listen", !.rest = <<>>]
              /\ UNCHANGED <<transport, text, wire, owed, lost>>
           \/ main.tail = TRUE /\ Go([main EXCEPT !.pc = "finish"])
    <3>1. Fail(1004) => Over'
      BY <1>0 DEF Fail, Over, Mains
    <3>2. main.pc = "synthesize" /\ main.pending = <<>> /\ ~Receive
      BY <1>7 DEF Synthesize, At, HttpAt, Receive
    <3> QED BY <1>0, <1>7, <3>1, <3>2 DEF Synthesize, llmVars
  <2>2. CASE Ask(main.rest) /\ main' = [main EXCEPT !.pc = "listen", !.rest = <<>>]
             /\ UNCHANGED <<transport, text, wire, owed, lost>>
    <3>1. SpokenText' = t \o main.rest /\ Given' = g
      BY <1>0, <2>1, <2>2, AskAdds, HandedElse DEF Next
    <3>2. /\ main'.pc = "listen" /\ main'.rest = <<>> /\ main'.buf = main.buf /\ main'.tail = main.tail
          /\ main'.pending = <<>>
      BY <1>0, <2>1, <2>2 DEF Mains
    <3>3. /\ HttpHolds(t \o main.rest, <<>>, Behind, <<>>, "listen", g)
          /\ Range(t \o main.rest) = Range(t) \cup Range(main.rest)
      BY <1>0, <1>g, <1>h, <2>1, HttpAsks
    <3>4. HttpHas' /\ HttpAt'
      BY <1>h, <2>2, <3>1, <3>2, <3>3 DEF HttpHas, HttpAt, Behind
    <3>5. \A p \in Somewhere : p \in Somewhere'
      BY <1>s, <2>1, <2>2, <3>1, <3>2, <3>3 DEF Behind
    <3> QED BY <2>2, <3>1, <3>4, <3>5, KeptIf
  <2>3. CASE main.tail = TRUE /\ Go([main EXCEPT !.pc = "finish"])
    <3>1. /\ main' = [main EXCEPT !.pc = "finish"] /\ text' = text /\ transport' = transport
          /\ UNCHANGED <<wire, owed, lost>> /\ SpokenText' = t /\ Given' = g
      BY <1>1, <2>1, <2>3
    <3>2. /\ main'.pc = "finish" /\ main'.rest = main.rest /\ main'.buf = main.buf /\ main'.tail = main.tail
          /\ main'.pending = main.pending
      BY <1>0, <3>1 DEF Mains
    <3>3. HttpHolds(t, main.pending, Behind, main.rest, "finish", g)
      BY <1>h, <2>3 DEF HttpHolds
    <3>4. HttpHas' /\ HttpAt'
      BY <1>h, <2>1, <2>3, <3>1, <3>2, <3>3 DEF HttpHas, HttpAt, Behind
    <3>5. \A p \in Somewhere : p \in Somewhere'
      BY <1>s, <3>1, <3>2 DEF Behind
    <3> QED BY <3>1, <3>4, <3>5, KeptIf
  <2> QED BY <2>1, <2>2, <2>3
<1>8. CASE Listen
  <2>1. PICK x : spoken' = [spoken EXCEPT ![Len(spoken)].sound = x]
    BY <1>8 DEF Listen
  <2>2. /\ main.pc = "listen" /\ UNCHANGED <<transport, text, wire, owed, lost>> /\ ~Receive
        /\ main' = IF main.tail THEN Exhausted(main) ELSE [main EXCEPT !.pc = "split"]
    BY <1>8 DEF Listen, At, llmVars, Receive
  <2>3. SpokenText' = t /\ Given' = g
    <3>1. SpokenText' = t
      BY <1>0, <2>1, SpokenStays
    <3> QED BY <2>2, <3>1, HandedElse DEF Next
  <2>4. /\ main'.pc = IF main.tail THEN "finish" ELSE "split"
        /\ main'.rest = main.rest /\ main'.buf = main.buf /\ main'.tail = main.tail
        /\ main'.pending = main.pending
    BY <1>0, <2>2 DEF Mains, Exhausted
  <2>5. main.rest = <<>> /\ main.pending = <<>>
    BY <2>2 DEF HttpAt
  <2>6. HttpHolds(t, main.pending, Behind, main.rest, main'.pc, g)
    BY <1>h, <2>4 DEF HttpHolds
  <2>7. HttpHas' /\ HttpAt'
    BY <1>h, <2>2, <2>3, <2>4, <2>5, <2>6 DEF HttpHas, HttpAt, Behind
  <2>8. \A p \in Somewhere : p \in Somewhere'
    BY <1>s, <2>2, <2>3, <2>4 DEF Behind
  <2> QED BY <2>2, <2>3, <2>7, <2>8, KeptIf
<1>9. CASE SpeakTail
  <2> DEFINE s == Speech(main.buf)
             request == main.pending \o s
  <2>1. /\ main.pc = "tail" /\ ~Receive
        /\ \/ Go([main EXCEPT !.pc = "synthesize", !.tail = TRUE, !.rest = request, !.pending = <<>>])
           \/ request = <<>> /\ Go([main EXCEPT !.pc = "finish"])
    BY <1>9 DEF SpeakTail, At, Receive
  <2>2. main.rest = <<>> /\ main.tail = FALSE
    BY <1>0, <2>1 DEF HttpAt
  <2>3. /\ s \in Pieces(g) /\ Range(s) \subseteq Range(main.buf)
        /\ \A p \in Range(main.buf) : IsKind(p, "letter") => p \in Range(s)
    BY <1>2, <1>c, <2>2
  <2> HIDE DEF s
  <2>4. Range(s) \cup Range(<<>>) \subseteq Range(main.buf) /\ Below(Range(s), Range(<<>>))
    BY <1>e, <2>3 DEF Below
  <2>5. /\ HttpHolds(t, <<>>, <<>>, request, "synthesize", g)
        /\ Range(request) = Range(main.pending) \cup Range(s)
    BY <1>c, <1>e, <1>g, <2>1, <2>2, <2>3, <2>4, HttpCuts
  <2>6. request = <<>> => main.pending = <<>> /\ s = <<>>
    <3>1. main.pending \in Seq(Nat) /\ s \in Seq(Nat)
      BY <1>0, <1>g, <2>3, PieceIs
    <3>2. request = <<>> => Range(main.pending) = {} /\ Range(s) = {}
      BY <1>e, <2>5
    <3> QED BY <3>1, <3>2, NoneInRange
  <2> HIDE DEF request
  <2>7. CASE Go([main EXCEPT !.pc = "synthesize", !.tail = TRUE, !.rest = request, !.pending = <<>>])
    <3>1. /\ main' = [main EXCEPT !.pc = "synthesize", !.tail = TRUE, !.rest = request, !.pending = <<>>]
          /\ text' = text /\ transport' = transport
          /\ UNCHANGED <<wire, owed, lost>> /\ SpokenText' = t /\ Given' = g
      BY <1>1, <2>1, <2>7
    <3>2. /\ main'.pc = "synthesize" /\ main'.rest = request /\ main'.buf = main.buf /\ main'.tail = TRUE
          /\ main'.pending = <<>>
      BY <1>0, <3>1 DEF Mains
    <3>3. HttpHas' /\ HttpAt'
      BY <1>h, <2>5, <3>1, <3>2 DEF HttpHas, HttpAt, Behind
    <3>4. \A p \in Somewhere : IsKind(p, "letter") => p \in Somewhere'
      BY <1>s, <1>e, <2>2, <2>3, <2>5, <3>1, <3>2 DEF Behind
    <3> QED BY <3>1, <3>3, <3>4, KeptIf
  <2>8. CASE request = <<>> /\ Go([main EXCEPT !.pc = "finish"])
    <3>1. /\ main' = [main EXCEPT !.pc = "finish"] /\ text' = text /\ transport' = transport
          /\ UNCHANGED <<wire, owed, lost>> /\ SpokenText' = t /\ Given' = g
      BY <1>1, <2>1, <2>8
    <3>2. /\ main'.pc = "finish" /\ main'.rest = main.rest /\ main'.buf = main.buf /\ main'.tail = main.tail
          /\ main'.pending = main.pending
      BY <1>0, <3>1 DEF Mains
    <3>3. HttpHolds(t, main.pending, Behind, main.rest, "finish", g)
      BY <1>h DEF HttpHolds
    <3>4. main.pending = <<>> /\ \A p \in Range(main.buf) : ~IsKind(p, "letter")
      BY <1>e, <2>3, <2>6, <2>8
    <3>5. HttpHas' /\ HttpAt'
      BY <1>h, <2>2, <3>1, <3>2, <3>3, <3>4 DEF HttpHas, HttpAt, Behind, IsKind
    <3>6. \A p \in Somewhere : p \in Somewhere'
      BY <1>s, <3>1, <3>2 DEF Behind
    <3> QED BY <3>1, <3>5, <3>6, KeptIf
  <2> QED BY <2>1, <2>7, <2>8
<1>10. CASE ListenFails \/ Finish
  <2>1. main' = [main EXCEPT !.pc = "over"]
    BY <1>10 DEF ListenFails, Finish
  <2>2. Over'
    BY <1>0, <2>1 DEF Over, Mains
  <2> QED BY <2>2
<1>11. CASE CleanDelta \/ SendText \/ Flush
  BY <1>11 DEF CleanDelta, SendText, Flush, At, HttpAt
<1> QED BY <1>3, <1>4, <1>5, <1>6, <1>7, <1>8, <1>9, <1>10, <1>11 DEF MainStep

\* What is not over is not complete.
LEMMA NotYet ==
    ASSUME Handed', main'.pc # "over"
    PROVE  ~Completed'
<1>1. PICK D : out' \in Seq(D)
  BY DEF Handed
<1>2. Ends(out', main'.pc)
  <2>1. OrderedBy(out', seq', main'.pc)
    BY DEF Handed, ItemsOrdered, OrderedBy, At
  <2>2. seq' \in Nat
    BY DEF Handed
  <2> QED BY <1>1, <2>1, <2>2, OrderedByIs
<1>3. ASSUME out' # <<>> PROVE Last(out') = out'[Len(out')] /\ Len(out') \in 1..Len(out')
  BY <1>1, <1>3 DEF Last
<1> QED BY <1>2, <1>3 DEF Completed, Ends, IsEnd

LEMMA FailedLast ==
    ASSUME NEW D, NEW o \in Seq(D), NEW item, item.kind = "failed"
    PROVE  Last(Append(o, item)).kind # "last" /\ Last(o \o <<item>>).kind # "last"
<1>1. o \in Seq(D \cup {item}) /\ <<item>> \in Seq(D \cup {item}) /\ Len(<<item>>) = 1 /\ <<item>>[1] = item
  <2>1. item \in D \cup {item}
    OBVIOUS
  <2> QED BY <2>1, SeqMonotonic
<1>2. Len(o \o <<item>>) = Len(o) + 1 /\ (o \o <<item>>)[Len(o) + 1] = item
  BY <1>1
<1>3. Len(Append(o, item)) = Len(o) + 1 /\ Append(o, item)[Len(o) + 1] = item
  BY <1>1
<1> QED BY <1>2, <1>3 DEF Last

\* A step after which all is where it was.
LEMMA WordsStay ==
    ASSUME Words, UNCHANGED <<transport, text, wire, owed, lost, spoken, out, main>>
    PROVE  Words'
<1>1. Given' = Given /\ SpokenText' = SpokenText /\ (Completed' <=> Completed)
  BY DEF Given, SpokenText, Completed
<1>2. Asked' /\ NothingForgotten'
  BY <1>1 DEF Words, Asked, NothingForgotten, Missing, IsKind
<1>3. (Over' <=> Over) /\ (~Over => Kept')
  BY <1>1 DEF Words, Over, Kept, Unspoken, Behind, IsKind
<1>4. ~Over /\ transport = "ws" => WsHas' /\ WsAt'
  BY <1>1 DEF Words, WsHas, WsAt, IsKind
<1>5. ~Over /\ transport = "http" => HttpHas' /\ HttpAt'
  BY <1>1 DEF Words, HttpHas, HttpAt, Behind, IsKind
<1> QED BY <1>2, <1>3, <1>4, <1>5 DEF Words

\* A step that ends the stream.
LEMMA WordsEnd ==
    ASSUME StreamTypes, fader \in Faders, Reading, Handed, Handed', Words, ~Over, Over', MainStep \/ Drop
    PROVE  Words'
<1>0. /\ main.pc \in Pcs /\ main \in Mains /\ spoken \in Seq(Requests)
  BY MainFields DEF StreamTypes
<1>p. \A m \in Mains : \A pc : [m EXCEPT !.pc = pc].pc = pc /\ [m EXCEPT !.pc = pc].rest = m.rest
  BY DEF Mains
<1>d. PICK D : out \in Seq(D)
  BY DEF Handed
<1>1. ASSUME UNCHANGED <<text, lost, spoken>>, Given' = Given, NothingForgotten' PROVE Words'
  <2>1. SpokenText' = SpokenText
    BY <1>1 DEF SpokenText
  <2> QED BY <1>1, <2>1 DEF Words, Asked
<1>2. ASSUME NEW code, Fail(code) PROVE Words'
  <2>1. Given' = Given
    BY <1>2, HandedElse, HandsFailed
  <2>2. out' = Append(out, Failure(code)) /\ UNCHANGED <<text, lost, spoken>>
    BY <1>2 DEF Fail, llmVars, ttsVars
  <2>3. Failure(code).kind = "failed"
    BY DEF Failure
  <2>4. ~Completed'
    BY <1>d, <2>2, <2>3, FailedLast DEF Completed
  <2> QED BY <1>1, <2>1, <2>2, <2>4 DEF NothingForgotten, Missing
<1>3. CASE Drop
  <2>1. main'.pc = "dropped" /\ UNCHANGED <<text, lost, spoken, out>>
    BY <1>0, <1>3, <1>p DEF Drop, llmVars, ttsVars
  <2>2. ~Completed' /\ Given' = Given
    BY <2>1, NotYet DEF Given
  <2> QED BY <1>1, <2>1, <2>2 DEF NothingForgotten, Missing
<1>4. CASE Receive
  <2>1. /\ chan[1].kind = "failed" /\ Given' = Given
        /\ out' = Append(out, chan[1]) /\ UNCHANGED <<text, lost, spoken>>
    <3>1. ReaderTypes
      BY DEF Reading
    <3>2. chan[1].kind = "event" => ~Over'
      <4> SUFFICES ASSUME chan[1].kind = "event" PROVE ~Over'
        OBVIOUS
      <4>1. main' = [main EXCEPT !.pc = "text", !.rest = Positions(Given, Given'), !.final = chan[1].final]
        BY <1>4, <3>1, Receives
      <4>2. main'.pc = "text"
        BY <1>0, <4>1 DEF Mains
      <4> QED BY <4>2 DEF Over
    <3>3. chan[1].kind = "failed" /\ Given' = Given
      BY <1>4, <3>1, <3>2, Receives
    <3>4. Head(chan) = chan[1]
      BY <1>4, <3>1 DEF Receive, ReaderTypes
    <3> QED BY <1>4, <3>3, <3>4 DEF Receive, ttsVars
  <2>2. ~Completed'
    BY <1>d, <2>1, FailedLast DEF Completed
  <2> QED BY <1>1, <2>1, <2>2 DEF NothingForgotten, Missing
<1>5. CASE ListenFails
  <2>1. UNCHANGED <<text, lost, spoken>> /\ ~Receive
    BY <1>5 DEF ListenFails, Receive, At, llmVars, ttsVars
  <2>2. Given' = Given
    BY <1>5, <2>1, HandedElse DEF Next
  <2>3. \E lengths \in IF transport = "ws" THEN {<<>>} ELSE Sounds :
           Emit(Played(lengths).pieces, <<Failure(IF transport = "ws" /\ ~main.tail THEN 1004 ELSE 1005)>>)
    BY <1>5 DEF ListenFails
  <2>4. PICK lengths \in IF transport = "ws" THEN {<<>>} ELSE Sounds :
           Emit(Played(lengths).pieces, <<Failure(IF transport = "ws" /\ ~main.tail THEN 1004 ELSE 1005)>>)
    BY <2>3
  <2> DEFINE pieces == Played(lengths).pieces
             item == Failure(IF transport = "ws" /\ ~main.tail THEN 1004 ELSE 1005)
  <2>5. item.kind = "failed"
    BY DEF Failure
  <2>6. out' = out \o Numbered(pieces) \o <<item>>
    BY <2>4 DEF Emit
  <2>7. \E E : out \o Numbered(pieces) \in Seq(E)
    <3>1. \A s \in Sounds : s \in Seq(Nat)
      BY SoundsAssumption
    <3>2. <<>> \in Seq(Nat) /\ (lengths \in Sounds \/ lengths = <<>>)
      OBVIOUS
    <3>3. lengths \in Seq(Nat)
      BY <3>1, <3>2
    <3>4. PICK E : pieces \in Seq(E)
      BY <3>3, PlayedType DEF StreamTypes
    <3> HIDE DEF pieces
    <3>5. Numbered(pieces) \in Seq([kind : {"audio"}, seq : Nat, sound : E])
      BY <3>4, HandedIs, NumberedIs
    <3>6. /\ Numbered(pieces) \in Seq(D \cup [kind : {"audio"}, seq : Nat, sound : E])
          /\ out \in Seq(D \cup [kind : {"audio"}, seq : Nat, sound : E])
      BY <1>d, <3>5, SeqMonotonic
    <3> QED BY <3>6, ConcatIs
  <2>8. PICK E : out \o Numbered(pieces) \in Seq(E)
    BY <2>7
  <2> DEFINE o == out \o Numbered(pieces)
  <2>9. out' = o \o <<item>> /\ o \in Seq(E)
    BY <2>6, <2>8
  <2> HIDE DEF o, item, pieces
  <2>10. ~Completed'
    BY <2>5, <2>9, FailedLast DEF Completed
  <2> QED BY <1>1, <2>1, <2>2, <2>10 DEF NothingForgotten, Missing
<1>6. CASE Finish
  <2>1. /\ main.pc = "finish" /\ main' = [main EXCEPT !.pc = "over"] /\ ~Receive
        /\ UNCHANGED <<transport, text, lost, spoken>>
    BY <1>6 DEF Finish, Receive, At, llmVars, ttsVars
  <2>2. Given' = Given /\ SpokenText' = SpokenText /\ main'.rest = main.rest
    <3>1. SpokenText' = SpokenText
      BY <2>1 DEF SpokenText
    <3> QED BY <1>0, <1>6, <1>p, <2>1, <3>1, HandedElse DEF Next
  <2>3. ASSUME NEW p \in 1..Given, IsKind(p, "letter")
        PROVE  p \in Range(SpokenText) \cup lost \cup Range(main.rest)
    <3>1. p \in Range(SpokenText) \cup lost \cup Range(main.rest) \cup Unspoken
      BY <2>3 DEF Words, Kept
    <3>2. p \notin Unspoken
      <4>0. Range(<<>>) = {}
        BY RangeEmpty
      <4>1. CASE transport = "ws"
        BY <2>1, <2>3, <4>1 DEF Words, WsAt, Unspoken
      <4>2. CASE transport = "http"
        <5>1. main.pending = <<>> /\ (main.tail \/ \A x \in Range(main.buf) : ~IsKind(x, "letter"))
          BY <2>1, <4>2 DEF Words, HttpAt
        <5> QED BY <2>3, <4>0, <4>2, <5>1 DEF Unspoken, Behind
      <4> QED BY <4>1, <4>2 DEF StreamTypes
    <3> QED BY <3>1, <3>2
  <2>4. NothingForgotten'
    BY <2>1, <2>2, <2>3 DEF NothingForgotten, Missing, IsKind
  <2> QED BY <1>1, <2>1, <2>2, <2>4
<1>7. CASE SendText
  <2>1. ~Fail(1004) => main' = Segment(main).next
    BY <1>7 DEF SendText
  <2>2. Segment(main).next.pc \in {"flush", "receive", "tail"}
    <3>1. \A pc, x, y : [main EXCEPT !.pc = pc, !.rest = x, !.buf = y].pc = pc
      BY <1>0 DEF Mains
    <3>2. After(main) \in {"receive", "tail"}
      BY DEF After
    <3>3. \E pc \in {"flush", "receive", "tail"} : \E x, y :
             Segment(main).next = [main EXCEPT !.pc = pc, !.rest = x, !.buf = y]
      BY <3>2 DEF Segment
    <3> QED BY <3>1, <3>3
  <2>3. Fail(1004)
    BY <2>1, <2>2 DEF Over
  <2> QED BY <1>2, <2>3
<1>8. CASE Flush
  <2>1. Fail(IF main.tail THEN 1005 ELSE 1004) \/ main' = [main EXCEPT !.pc = "listen"]
    BY <1>8 DEF Flush
  <2>2. Fail(IF main.tail THEN 1005 ELSE 1004)
    <3>1. main' # [main EXCEPT !.pc = "listen"]
      <4>1. [main EXCEPT !.pc = "listen"].pc = "listen"
        BY <1>0 DEF Mains
      <4>2. main'.pc # "listen"
        BY <1>p DEF Over
      <4> QED BY <4>1, <4>2
    <3> QED BY <2>1, <3>1
  <2> QED BY <1>2, <2>2
<1>9. CASE Synthesize
  <2>1. \/ Fail(1004)
        \/ main' = [main EXCEPT !.pc = "listen", !.rest = <<>>]
        \/ main' = [main EXCEPT !.pc = "finish"]
    BY <1>9 DEF Synthesize, Go
  <2>2. Fail(1004)
    BY <1>0, <2>1 DEF Over, Mains
  <2> QED BY <1>2, <2>2
<1>10. CASE ChannelCloses \/ CleanDelta \/ Collect \/ SpeakTail
  <2>1. main'.pc \notin {"over", "dropped"}
    BY <1>0, <1>10 DEF ChannelCloses, CleanDelta, Collect, SpeakTail, Go, After, Mains
  <2> QED BY <2>1 DEF Over
<1>11. CASE Split
  <2>1. \E b, request :
           \/ main' = [main EXCEPT !.pc = After(main)]
           \/ main' = [[main EXCEPT !.buf = b] EXCEPT !.pending = request]
           \/ main' = [[main EXCEPT !.buf = b] EXCEPT !.pc = "synthesize", !.rest = request, !.pending = <<>>]
    BY <1>11 DEF Split, Go
  <2>2. main'.pc \notin {"over", "dropped"}
    BY <1>0, <1>11, <2>1 DEF After, Mains, Split, At
  <2> QED BY <2>2 DEF Over
<1>12. CASE Listen
  <2>1. main' = Exhausted(main) \/ main' = [main EXCEPT !.pc = "split"]
    BY <1>12 DEF Listen
  <2>2. main'.pc \notin {"over", "dropped"}
    BY <1>0, <2>1 DEF After, Exhausted, Mains
  <2> QED BY <2>2 DEF Over
<1> QED BY <1>3, <1>4, <1>5, <1>6, <1>7, <1>8, <1>9, <1>10, <1>11, <1>12 DEF MainStep

LEMMA WordsStep ==
    ASSUME StreamTypes, fader \in Faders, Reading, Handed, Handed', Words, Next
    PROVE  Words'
<1>1. CASE ReaderStep \/ ReaderCancelled
  <2>1. UNCHANGED <<transport, text, wire, owed, lost, spoken, out, main>>
    BY <1>1 DEF ReaderStep, ReaderAsks, ReaderReads, ReaderEnds, ReaderSends, ReaderCancelled, ttsVars
  <2> QED BY <2>1, WordsStay
<1>2. CASE MainStep \/ Drop
  <2>1. ~Over
    BY <1>2 DEF MainStep, Drop, Receive, ChannelCloses, CleanDelta, SendText, Flush, Collect, Split, Synthesize,
                Listen, ListenFails, SpeakTail, Finish, At, Over
  <2>2. CASE Over'
    BY <1>2, <2>1, <2>2, WordsEnd
  <2>3. CASE ~Over'
    <3>1. MainStep
      <4>1. Drop => Over'
        <5>1. main \in Mains
          BY MainFields
        <5> QED BY <5>1 DEF Drop, Over, Mains
      <4> QED BY <1>2, <2>3, <4>1
    <3>2. ~Completed'
      BY <2>3, NotYet DEF Over
    <3>3. transport' = transport /\ transport \in {"http", "ws"}
      BY <3>1 DEF StreamTypes, MainStep, Receive, ChannelCloses, CleanDelta, SendText, Flush, Collect, Split,
                  Synthesize, Listen, ListenFails, SpeakTail, Finish, Go, Fail
    <3>4. CASE transport = "ws"
      <4>1. WsHas' /\ WsAt' /\ Kept'
        BY <2>1, <2>3, <3>1, <3>4, WsStep DEF Words
      <4>2. Asked'
        BY <4>1 DEF WsHas, WsHolds, Asked
      <4>3. transport' # "http"
        BY <3>3, <3>4
      <4> QED BY <3>2, <4>1, <4>2, <4>3 DEF Words, NothingForgotten, Missing
    <3>5. CASE transport = "http"
      <4>1. HttpHas' /\ HttpAt' /\ Kept'
        BY <2>1, <2>3, <3>1, <3>5, HttpStep DEF Words
      <4>2. Asked'
        BY <4>1 DEF HttpHas, HttpHolds, Asked
      <4>3. transport' # "ws"
        BY <3>3, <3>5
      <4> QED BY <3>2, <4>1, <4>2, <4>3 DEF Words, NothingForgotten, Missing
    <3> QED BY <3>3, <3>4, <3>5
  <2> QED BY <2>2, <2>3
<1> QED BY <1>1, <1>2 DEF Next

-----------------------------------------------------------------------------
(* The stream.                                                              *)

Inv == StreamTypes /\ Reading /\ fader \in Faders /\ Handed /\ Words

LEMMA InitInv ==
    ASSUME Init
    PROVE  Inv
<1>e. <<>> \in Seq(Nat) /\ Len(<<>>) = 0 /\ <<>> \in Seq({})
  OBVIOUS
<1>1. StreamTypes
  <2>1. text \in Seq(Kinds) /\ transport \in {"http", "ws"}
    BY TextsAssumption, TransportsAssumption DEF Init
  <2>2. main \in Mains
    BY <1>e DEF Init, Mains, Pcs
  <2>3. spoken \in Seq(Requests)
    BY DEF Init
  <2> QED BY <1>e, <2>1, <2>2, <2>3 DEF Init, StreamTypes
<1>2. Len(text) \in Nat
  BY <1>1 DEF StreamTypes
<1>3. ReaderTypes
  BY <1>2 DEF Init, ReaderTypes
<1>4. Reaches(out, 0)
  BY <1>e DEF Init, Reaches
<1>5. Given = 0
  <2>1. GivenBy(out) = 0
    BY <1>4, <1>e, GivenByIs DEF Init
  <2> QED BY <2>1 DEF Given, GivenBy
<1>6. Reading
  <2>1. Read = <<>>
    BY DEF Init, Read
  <2> QED BY <1>3, <1>5, <1>e, <2>1 DEF Init, Reading, Joined
<1>7. Handed
  <2>1. Numbers(out, 0) /\ Ends(out, main.pc)
    BY <1>e DEF Init, Numbers, Ends
  <2>2. OrderedBy(out, 0, main.pc)
    BY <1>4, <1>e, <2>1, OrderedByIs DEF Init
  <2>3. ItemsOrdered
    BY <2>2 DEF Init, ItemsOrdered, OrderedBy, At
  <2> QED BY <1>2, <1>4, <1>5, <1>e, <2>3 DEF Init, Handed
<1>8. SpokenText = <<>>
  <2>1. [i \in DOMAIN spoken |-> spoken[i].text] = <<>>
    BY DEF Init
  <2> QED BY <2>1, FlattenEmpty DEF SpokenText
<1>9. Words
  <2>1. <<>> \in Pieces(0) /\ Range(<<>>) = {}
    BY NoPiece
  <2>2. Asks(<<>>, {}, 0)
    BY <2>1 DEF Asks
  <2>3. WsHolds(<<>>, <<>>, <<>>, {}, <<>>, <<>>, 0)
    BY <2>1, <2>2 DEF WsHolds, Below
  <2>4. HttpHolds(<<>>, <<>>, <<>>, <<>>, "receive", 0)
    BY <2>1, <2>2 DEF HttpHolds, Below
  <2>5. main.buf = <<>> /\ main.rest = <<>> /\ main.pending = <<>> /\ main.tail = FALSE /\ main.pc = "receive"
        /\ wire = <<>> /\ owed = <<>> /\ lost = {} /\ out = <<>>
    BY DEF Init
  <2>6. Asked
    BY <1>5, <1>8, <2>2, <2>5 DEF Asked
  <2>7. WsHas /\ WsAt
    BY <1>5, <1>8, <1>e, <2>3, <2>5 DEF WsHas, WsAt
  <2>8. HttpHas /\ HttpAt
    BY <1>5, <1>8, <2>4, <2>5 DEF HttpHas, HttpAt, Behind
  <2>9. Kept /\ NothingForgotten
    BY <1>5, <2>5 DEF Kept, NothingForgotten, Missing, Completed
  <2> QED BY <2>6, <2>7, <2>8, <2>9 DEF Words
<1>10. fader \in Faders
  BY NewFaderIs DEF Init
<1> QED BY <1>1, <1>6, <1>7, <1>9, <1>10 DEF Inv

\* The fader changes where a sentence is heard, and at the end.
LEMMA FaderStep ==
    ASSUME fader \in Faders, StreamTypes, Next
    PROVE  fader' \in Faders
<1>1. Len(spoken) \in Nat
  BY DEF StreamTypes
<1>2. CASE Listen
  <2>1. PICK lengths \in Sounds : fader' = EndSentence(Played(lengths).fader).fader
    BY <1>2 DEF Listen
  <2>2. Played(lengths).fader \in Faders
    BY <1>1, SoundsAre, PlayedType
  <2> QED BY <2>1, <2>2, EndType
<1>3. CASE ListenFails
  <2>1. PICK lengths \in IF transport = "ws" THEN {<<>>} ELSE Sounds : fader' = Played(lengths).fader
    BY <1>3 DEF ListenFails
  <2>2. lengths \in Seq(Nat)
    <3>1. <<>> \in Seq(Nat) /\ (lengths \in Sounds \/ lengths = <<>>)
      BY <2>1
    <3> QED BY <3>1, SoundsAssumption
  <2> QED BY <1>1, <2>1, <2>2, PlayedType
<1>4. CASE Finish
  BY <1>4, AgainType DEF Finish
<1>5. CASE ~(Listen \/ ListenFails \/ Finish)
  <2>1. UNCHANGED fader
    BY <1>5 DEF Next, MainStep, ReaderStep, ReaderAsks, ReaderReads, ReaderEnds, ReaderSends, ReaderCancelled,
                Receive, ChannelCloses, CleanDelta, SendText, Flush, Collect, Split, Synthesize, SpeakTail,
                Drop, Go, Fail
  <2> QED BY <2>1
<1> QED BY <1>2, <1>3, <1>4, <1>5

LEMMA InvStep ==
    ASSUME Inv, [Next]_vars
    PROVE  Inv'
<1>1. CASE Next
  <2>1. ReaderTypes
    BY DEF Inv, Reading
  <2>2. StreamTypes' /\ Reading'
    BY <1>1, <2>1, StreamTypesStep, ReadingStep DEF Inv
  <2>3. Handed'
    BY <1>1, <2>1, HandedElse, Receives DEF Inv
  <2>4. Words'
    BY <1>1, <2>3, WordsStep DEF Inv
  <2>5. fader' \in Faders
    BY <1>1, FaderStep DEF Inv
  <2> QED BY <2>2, <2>3, <2>4, <2>5 DEF Inv
<1>2. CASE UNCHANGED vars
  <2>1. UNCHANGED <<transport, text, said, reader, chan, main, wire, owed, lost, spoken, fader, seq, out>>
    BY <1>2 DEF vars, llmVars, ttsVars
  <2>2. StreamTypes'
    BY <2>1 DEF Inv, StreamTypes
  <2>3. Given' = Given /\ Read' = Read /\ (Over' <=> Over)
    BY <2>1 DEF Given, Read, Over
  <2>4. Reading'
    BY <2>1, <2>3 DEF Inv, Reading, ReaderTypes, Joined
  <2>5. Handed'
    BY <2>1, <2>3 DEF Inv, Handed, ItemsOrdered, At
  <2>6. Words'
    BY <2>1, WordsStay DEF Inv
  <2> QED BY <2>1, <2>2, <2>4, <2>5, <2>6 DEF Inv
<1> QED BY <1>1, <1>2

\* Whatever is asked of either transport, in whatever deltas the answer comes
\* and however often a send moves to another connection: the letters of an
\* answer are spoken in order and once, and only once the consumer has them as
\* text (llm_tts_items, tts_ws.rs send_text and flush).
THEOREM SpokenAlwaysInOrder == Spec => []SpokenInOrder
<1>1. ASSUME Inv PROVE SpokenInOrder
  <2> DEFINE s == SpokenText
             letters == Letters(s)
  <2>1. s \in Pieces(Given) /\ Range(s) \cap lost = {} /\ Given \in Nat
    BY <1>1, HandedIs DEF Inv, Words, Asked, Asks
  <2>2. s \in Seq(1..Given) /\ Rising(s)
    BY <2>1, PieceIs
  <2> HIDE DEF s
  <2>3. \A i \in letters : i \in 1..Len(s)
    BY <2>2 DEF Letters
  <2> HIDE DEF letters
  <2>4. \A i, j \in letters : i < j => s[i] < s[j]
    BY <2>3, <2>2 DEF Rising
  <2>5. \A i \in letters : s[i] \in 1..Given /\ s[i] \in Range(s)
    BY <2>2, <2>3, RangeIs
  <2>6. \A i \in letters : s[i] <= Given /\ s[i] \notin lost
    BY <2>1, <2>5
  <2> QED BY <2>4, <2>6 DEF SpokenInOrder, s, letters
<1> QED BY <1>1, InitInv, InvStep, PTL DEF Spec

\* An answer that llm_tts_items reports as complete was spoken, every letter of
\* what the consumer was given, but for the text that went down with a
\* connection and the request for the tail that failed over HTTP.
THEOREM NothingEverForgotten == Spec => []NothingForgotten
<1>1. ASSUME Inv PROVE NothingForgotten
  BY <1>1 DEF Inv, Words
<1> QED BY <1>1, InitInv, InvStep, PTL DEF Spec

\* What llm_tts_items hands to its consumer keeps the protocol whatever fails
\* and wherever: sound numbered from 1 without a gap (global_seq), the end mark
\* or a failure last and once, and text that never goes back.
THEOREM ItemsAlwaysOrdered == Spec => []ItemsOrdered
<1>1. ASSUME Inv PROVE ItemsOrdered
  BY <1>1 DEF Inv, Handed
<1> QED BY <1>1, InitInv, InvStep, PTL DEF Spec

\* The events of the LLM reach the stream in order and whole: what has been read
\* and not yet received begins where the text given to the consumer ends, up to
\* what the LLM has said (spawn_llm_reader and its bounded channel).
THEOREM EventsInOrder == Spec => [](Over \/ Joined)
<1>1. ASSUME Inv PROVE Over \/ Joined
  BY <1>1 DEF Inv, Reading
<1> QED BY <1>1, InitInv, InvStep, PTL DEF Spec

-----------------------------------------------------------------------------
(* The sound.                                                               *)

\* Heard of any items.
SoundsOf(o) == [i \in DOMAIN o |-> Sound(o[i])]
HeardBy(o) == FlattenSeq(SoundsOf(o))

Audible(o) == (\E D : o \in Seq(D)) /\ \A i \in 1..Len(o) : Sound(o[i]) \in Sent

LEMMA SentIs == <<>> \in Sent /\ \A h \in Sent : h \in Seq(SUBSET AudioByte)
BY NothingSent DEF Sent

LEMMA SoundsType ==
    ASSUME NEW o, Audible(o)
    PROVE  /\ SoundsOf(o) \in Seq(Sent) /\ Len(SoundsOf(o)) = Len(o)
           /\ \A i \in 1..Len(o) : SoundsOf(o)[i] = Sound(o[i])
           /\ HeardBy(o) \in Sent
<1>1. PICK D : o \in Seq(D)
  BY DEF Audible
<1>2. Len(o) \in Nat /\ DOMAIN o = 1..Len(o)
  BY <1>1
<1>3. /\ SoundsOf(o) \in Seq(Sent) /\ Len(SoundsOf(o)) = Len(o)
      /\ \A i \in 1..Len(o) : SoundsOf(o)[i] = Sound(o[i])
  BY <1>2 DEF SoundsOf, Audible
<1>4. HeardBy(o) \in Sent
  BY <1>3, FlattenType DEF HeardBy, Sent
<1> QED BY <1>3, <1>4

\* What is added to the items is added to the sound.
LEMMA HeardConcat ==
    ASSUME NEW o, NEW p, Audible(o), Audible(p)
    PROVE  Audible(o \o p) /\ HeardBy(o \o p) = HeardBy(o) \o HeardBy(p)
<1>1. PICK D : o \in Seq(D)
  BY DEF Audible
<1>2. PICK E : p \in Seq(E)
  BY DEF Audible
<1> DEFINE F == D \cup E
<1>3. o \in Seq(F) /\ p \in Seq(F)
  BY <1>1, <1>2, SeqMonotonic
<1> HIDE DEF F
<1> DEFINE op == o \o p
<1>4. /\ op \in Seq(F) /\ Len(op) = Len(o) + Len(p) /\ Len(o) \in Nat /\ Len(p) \in Nat
      /\ \A i \in 1..Len(o) : op[i] = o[i]
      /\ \A i \in 1..(Len(o) + Len(p)) : i \notin 1..Len(o) =>
            i - Len(o) \in 1..Len(p) /\ op[i] = p[i - Len(o)]
  BY <1>3, ConcatIs
<1> HIDE DEF op
<1>5. /\ \A i \in 1..Len(o) : Sound(o[i]) \in Sent
      /\ \A i \in 1..Len(p) : Sound(p[i]) \in Sent
  BY DEF Audible
<1>6. \A i \in 1..Len(op) : Sound(op[i]) \in Sent
  BY <1>4, <1>5
<1>7. Audible(op)
  BY <1>4, <1>6 DEF Audible
<1>8. /\ SoundsOf(o) \in Seq(Sent) /\ Len(SoundsOf(o)) = Len(o)
      /\ SoundsOf(p) \in Seq(Sent) /\ Len(SoundsOf(p)) = Len(p)
      /\ SoundsOf(op) \in Seq(Sent) /\ Len(SoundsOf(op)) = Len(op)
      /\ \A i \in 1..Len(o) : SoundsOf(o)[i] = Sound(o[i])
      /\ \A i \in 1..Len(p) : SoundsOf(p)[i] = Sound(p[i])
      /\ \A i \in 1..Len(op) : SoundsOf(op)[i] = Sound(op[i])
  BY <1>7, SoundsType
<1>9. SoundsOf(op) = SoundsOf(o) \o SoundsOf(p)
  <2> DEFINE so == SoundsOf(o)
             sp == SoundsOf(p)
             st == so \o sp
             sop == SoundsOf(op)
  <2> HIDE DEF so, sp, sop
  <2>1. so \in Seq(Sent) /\ sp \in Seq(Sent) /\ Len(so) = Len(o) /\ Len(sp) = Len(p)
    BY <1>8 DEF so, sp
  <2>2. /\ st \in Seq(Sent) /\ Len(st) = Len(o) + Len(p)
        /\ \A i \in 1..Len(o) : st[i] = so[i]
        /\ \A i \in 1..(Len(o) + Len(p)) : i \notin 1..Len(o) =>
              i - Len(o) \in 1..Len(p) /\ st[i] = sp[i - Len(o)]
    <3>1. /\ st \in Seq(Sent) /\ Len(st) = Len(so) + Len(sp)
          /\ \A i \in 1..Len(so) : st[i] = so[i]
          /\ \A i \in 1..(Len(so) + Len(sp)) : i \notin 1..Len(so) =>
                i - Len(so) \in 1..Len(sp) /\ st[i] = sp[i - Len(so)]
      BY <2>1, ConcatIs, ZenonT(60)
    <3> QED BY <2>1, <3>1
  <2> HIDE DEF st
  <2>3. \A i \in 1..(Len(o) + Len(p)) : sop[i] = st[i]
    BY <1>4, <1>8, <2>2, ZenonT(60) DEF so, sp, sop
  <2>4. sop \in Seq(Sent) /\ Len(sop) = Len(o) + Len(p)
    BY <1>4, <1>8 DEF sop
  <2>5. sop = st
    BY <2>2, <2>3, <2>4
  <2> QED BY <2>5 DEF so, sp, sop, st
<1>10. HeardBy(op) = HeardBy(o) \o HeardBy(p)
  BY <1>8, <1>9, FlattenConcat DEF HeardBy, Sent
<1> QED BY <1>7, <1>10 DEF op

\* An item that is not audio is silent.
LEMMA SilentItem ==
    ASSUME NEW item, item.kind # "audio"
    PROVE  Audible(<<item>>) /\ HeardBy(<<item>>) = <<>>
<1>1. Sound(item) = <<>>
  BY DEF Sound
<1>2. <<item>> \in Seq({item}) /\ Len(<<item>>) = 1 /\ <<item>>[1] = item /\ DOMAIN <<item>> = 1..1
  OBVIOUS
<1>3. Audible(<<item>>)
  <2> DEFINE one == <<item>>
  <2>1. one \in Seq({item}) /\ \A i \in 1..Len(one) : one[i] = item
    BY <1>2
  <2> HIDE DEF one
  <2>2. \A i \in 1..Len(one) : Sound(one[i]) \in Sent
    BY <1>1, <2>1, NothingSent
  <2>3. \E D : one \in Seq(D)
    BY <2>1
  <2>4. Audible(one)
    BY <2>2, <2>3 DEF Audible
  <2> QED BY <2>4 DEF one
<1>4. SoundsOf(<<item>>) = << <<>> >>
  BY <1>1, <1>2 DEF SoundsOf
<1>5. FlattenSeq(<< <<>> >>) = <<>>
  <2>1. <<>> \in Seq(Seq({})) /\ <<>> \in Seq({})
    OBVIOUS
  <2>2. FlattenSeq(Append(<<>>, <<>>)) = FlattenSeq(<<>>) \o <<>>
    BY <2>1, FlattenAppend
  <2>3. Append(<<>>, <<>>) = << <<>> >> /\ <<>> \o <<>> = <<>>
    OBVIOUS
  <2> QED BY <2>2, <2>3, FlattenEmpty
<1> QED BY <1>3, <1>4, <1>5 DEF HeardBy

\* Empty pieces may be left out.
LEMMA FlattenAudible ==
    ASSUME NEW pieces \in Seq(Sent)
    PROVE  FlattenSeq(Only(pieces, Range(pieces) \ {<<>>})) = FlattenSeq(pieces)
<1> DEFINE S == Range(pieces) \ {<<>>}
           N == Len(pieces)
           first(n) == SubSeq(pieces, 1, n)
<1>1. N \in Nat /\ \A n \in 1..N : pieces[n] \in Sent /\ pieces[n] \in Range(pieces)
  BY RangeIs
<1>2. PICK g : Collects(g, pieces, S, N) /\ Only(pieces, S) = g[N]
  BY OnlyCollects
<1> HIDE DEF S
<1>3. \A n \in 1..N : (pieces[n] \in S <=> pieces[n] # <<>>)
  BY <1>1 DEF S
<1>4. /\ g[0] = <<>>
      /\ \A n \in 1..N : g[n] = IF pieces[n] \in S THEN Append(g[n - 1], pieces[n]) ELSE g[n - 1]
  BY <1>1, <1>2 DEF Collects
<1> HIDE DEF N
<1> DEFINE P == {n \in 0..N : g[n] \in Seq(Sent) /\ FlattenSeq(g[n]) = FlattenSeq(first(n))}
<1>5. 0 \in P
  <2>1. first(0) = <<>> /\ <<>> \in Seq(Sent) /\ 0 \in 0..N
    BY <1>1
  <2> QED BY <1>4, <2>1
<1>6. ASSUME NEW n \in 1..N, n - 1 \in P PROVE n \in P
  <2> DEFINE x == pieces[n]
             f == first(n - 1)
             s == g[n - 1]
  <2>1. n \in 0..N /\ s \in Seq(Sent) /\ FlattenSeq(s) = FlattenSeq(f) /\ x \in Sent
    BY <1>1, <1>6
  <2>2. f \in Seq(Sent) /\ first(n) = Append(f, x)
    BY <1>1 DEF N
  <2>3. g[n] = IF x # <<>> THEN Append(s, x) ELSE s
    BY <1>3, <1>4
  <2> HIDE DEF x, f, s, first, P
  <2>4. /\ FlattenSeq(Append(f, x)) = FlattenSeq(f) \o x
        /\ FlattenSeq(Append(s, x)) = FlattenSeq(s) \o x
    BY <2>1, <2>2, FlattenAppend DEF Sent
  <2>5. FlattenSeq(f) \in Sent
    BY <2>2, FlattenType DEF Sent
  <2>6. FlattenSeq(f) \o <<>> = FlattenSeq(f)
    BY <2>5, SentIs
  <2>7. g[n] \in Seq(Sent) /\ FlattenSeq(g[n]) = FlattenSeq(first(n))
    <3>1. CASE x = <<>>
      BY <2>1, <2>2, <2>3, <2>4, <2>6, <3>1
    <3>2. CASE x # <<>>
      BY <2>1, <2>2, <2>3, <2>4, <3>2
    <3> QED BY <3>1, <3>2
  <2> QED BY <2>1, <2>7 DEF P
<1>7. N \in P
  <2>1. N \in 0..N
    BY <1>1
  <2> HIDE DEF P
  <2> QED BY <1>1, <1>5, <1>6, <2>1, UpTo
<1>8. first(N) = pieces
  BY <1>1 DEF N
<1> QED BY <1>2, <1>7, <1>8 DEF S

\* Of numbered pieces all the sound is heard.
LEMMA HeardNumbered ==
    ASSUME seq \in Nat, NEW pieces \in Seq(Sent)
    PROVE  Audible(Numbered(pieces)) /\ HeardBy(Numbered(pieces)) = FlattenSeq(pieces)
<1> DEFINE audible == Only(pieces, Range(pieces) \ {<<>>})
           items == Numbered(pieces)
<1>1. audible \in Seq(Sent)
  BY OnlyIs
<1>2. items = [i \in DOMAIN audible |-> [kind |-> "audio", seq |-> seq + i, sound |-> audible[i]]]
  BY DEF Numbered
<1>f. FlattenSeq(audible) = FlattenSeq(pieces)
  BY FlattenAudible
<1>3. items \in Seq([kind : {"audio"}, seq : Nat, sound : Sent])
  BY NumberedIs
<1> HIDE DEF audible, items
<1>4. Len(audible) \in Nat /\ DOMAIN audible = 1..Len(audible) /\ \A i \in 1..Len(audible) : audible[i] \in Sent
  BY <1>1
<1>5. Len(items) = Len(audible) /\ \A i \in 1..Len(audible) : Sound(items[i]) = audible[i]
  BY <1>2, <1>4 DEF Sound
<1>6. Audible(items)
  BY <1>3, <1>4, <1>5 DEF Audible
<1>7. SoundsOf(items) = audible
  <2>1. /\ SoundsOf(items) \in Seq(Sent) /\ Len(SoundsOf(items)) = Len(items)
        /\ \A i \in 1..Len(items) : SoundsOf(items)[i] = Sound(items[i])
    BY <1>6, SoundsType
  <2> HIDE DEF SoundsOf
  <2> QED BY <1>1, <1>5, <2>1
<1> QED BY <1>6, <1>7, <1>f DEF HeardBy, items

\* Chunk by chunk: sentence a is heard in order, and all of it when what is
\* held back is full.
LEMMA PlayedHears ==
    ASSUME NEW h, NEW a \in Nat, Rested(h, fader, a), Len(spoken) = a + 1, NEW lengths \in Seq(Nat)
    PROVE  LET played == Played(lengths)
               m == h \o FlattenSeq(played.pieces)
           IN  /\ played.length \in Nat /\ played.pieces \in Seq(Sent)
               /\ Hearing(m, played.fader, a + 1, played.length)
               /\ \A B : RestedAll(h, fader, a, B) => HearingAll(m, played.fader, a + 1, played.length, B)
<1> DEFINE N == Len(lengths)
           ask == a + 1
<1>0. /\ fader \in Faders /\ h \in Sent /\ Len(spoken) \in Nat /\ N \in Nat /\ ask \in Nat
      /\ \A n \in 1..N : lengths[n] \in Nat
  BY DEF Rested
<1>1. PICK g \in [0..N -> PlayStates] :
         /\ Plays(g, lengths)
         /\ Played(lengths) = [fader  |-> g[N].fader,
                               pieces |-> [n \in 1..N |-> g[n].sent],
                               length |-> g[N].upto]
  BY <1>0, PlayedIs
<1>2. \A n \in 0..N : g[n].fader \in Faders /\ g[n].sent \in Sent /\ g[n].upto \in Nat
  BY <1>1 DEF PlayStates
<1>3. /\ g[0].fader = BeginSentence(fader) /\ g[0].upto = 0
      /\ \A n \in 1..N :
            LET r == Feed(g[n - 1].fader, Bytes(g[n - 1].upto, lengths[n]))
            IN  g[n].fader = r.fader /\ g[n].sent = r.sent /\ g[n].upto = g[n - 1].upto + lengths[n]
  <2>1. g[0] = [fader |-> BeginSentence(fader), sent |-> <<>>, upto |-> 0]
    BY <1>1 DEF Plays
  <2>2. ASSUME NEW n \in 1..N
        PROVE  LET r == Feed(g[n - 1].fader, Bytes(g[n - 1].upto, lengths[n]))
               IN  g[n].fader = r.fader /\ g[n].sent = r.sent /\ g[n].upto = g[n - 1].upto + lengths[n]
    <3> DEFINE r == Feed(g[n - 1].fader, Bytes(g[n - 1].upto, lengths[n]))
    <3>1. g[n] = [fader |-> r.fader, sent |-> r.sent, upto |-> g[n - 1].upto + lengths[n]]
      BY <1>1 DEF Plays
    <3> HIDE DEF r
    <3>2. g[n].fader = r.fader /\ g[n].sent = r.sent /\ g[n].upto = g[n - 1].upto + lengths[n]
      BY <3>1
    <3> QED BY <3>2 DEF r
  <2> QED BY <2>1, <2>2
<1> DEFINE pieces == [n \in 1..N |-> g[n].sent]
           first(n) == SubSeq(pieces, 1, n)
           so(n) == h \o FlattenSeq(first(n))
           Good(n) == /\ Hearing(so(n), g[n].fader, ask, g[n].upto)
                      /\ \A B : RestedAll(h, fader, a, B) => HearingAll(so(n), g[n].fader, ask, g[n].upto, B)
           P == {n \in 0..N : Good(n)}
<1>4. pieces \in Seq(Sent) /\ Len(pieces) = N /\ \A n \in 1..N : pieces[n] = g[n].sent
  <2>1. \A n \in 1..N : n \in 0..N
    OBVIOUS
  <2> QED BY <1>0, <1>2, <2>1
<1>p. Played(lengths).pieces = pieces /\ Played(lengths).fader = g[N].fader /\ Played(lengths).length = g[N].upto
  BY <1>1
<1> HIDE DEF pieces, N, ask
<1>5. Good(0)
  <2>1. first(0) = <<>>
    BY <1>4
  <2>2. so(0) = h
    <3>1. h \o <<>> = h
      BY <1>0, SentIs
    <3> QED BY <2>1, <3>1, FlattenEmpty
  <2>3. /\ Hearing(h, BeginSentence(fader), a + 1, 0)
        /\ \A B : RestedAll(h, fader, a, B) => HearingAll(h, BeginSentence(fader), a + 1, 0, B)
    BY BeginHears
  <2> HIDE DEF so
  <2> QED BY <1>3, <2>2, <2>3 DEF ask
<1>6. ASSUME NEW n \in 1..N, Good(n - 1) PROVE Good(n)
  <2> DEFINE f == g[n - 1].fader
             u == g[n - 1].upto
             l == lengths[n]
             bytes == Bytes(u, l)
             r == Feed(f, bytes)
             s == so(n - 1)
  <2>1. n - 1 \in 0..N /\ f \in Faders /\ u \in Nat /\ l \in Nat
    BY <1>0, <1>2
  <2>2. /\ bytes \in Seq(AudioByte) /\ Len(bytes) = l /\ Stretch(bytes, ask)
        /\ Range(bytes) = {[ask |-> ask, byte |-> u + i] : i \in 1..l}
    <3>1. Len(spoken) = ask
      BY DEF ask
    <3> HIDE DEF u, l
    <3>2. /\ Bytes(u, l) \in Seq(AudioByte) /\ Len(Bytes(u, l)) = l
          /\ Stretch(Bytes(u, l), Len(spoken))
          /\ Range(Bytes(u, l)) = {[ask |-> Len(spoken), byte |-> u + i] : i \in 1..l}
      BY <1>0, <2>1, BytesAre
    <3> QED BY <3>1, <3>2
  <2>3. g[n].fader = r.fader /\ g[n].sent = r.sent /\ g[n].upto = u + l
    BY <1>3
  <2>4. so(n) = s \o r.sent
    <3> DEFINE k == first(n - 1)
    <3>1. k \in Seq(Sent) /\ first(n) = Append(k, pieces[n])
      BY <1>0, <1>4
    <3>2. pieces[n] = r.sent /\ r.sent \in Sent
      <4>1. n \in 0..N /\ g[n].sent \in Sent
        BY <1>0, <1>2
      <4> QED BY <1>4, <2>3, <4>1
    <3> HIDE DEF first, r
    <3>3. FlattenSeq(Append(k, r.sent)) = FlattenSeq(k) \o r.sent
      BY <3>1, <3>2, FlattenAppend DEF Sent
    <3>4. FlattenSeq(k) \in Sent
      BY <3>1, FlattenType DEF Sent
    <3>5. \A x, y, z \in Sent : (x \o y) \o z = x \o (y \o z)
      BY Associative, SMTT(40) DEF Sent
    <3> DEFINE flat == FlattenSeq(k)
    <3>6. so(n) = h \o (flat \o r.sent)
      BY <3>1, <3>2, <3>3
    <3> HIDE DEF flat, so
    <3>7. (h \o flat) \o r.sent = h \o (flat \o r.sent)
      BY <1>0, <3>2, <3>4, <3>5 DEF flat
    <3> QED BY <3>6, <3>7 DEF so, flat
  <2>5. /\ Hearing(s, f, ask, u)
        /\ \A B : RestedAll(h, fader, a, B) => HearingAll(s, f, ask, u, B)
    BY <1>6
  <2> HIDE DEF f, u, l, bytes, s, so
  <2>6. /\ Hearing(s \o r.sent, r.fader, ask, u + l)
        /\ \A B : HearingAll(s, f, ask, u, B) => HearingAll(s \o r.sent, r.fader, ask, u + l, B)
    BY <1>0, <2>1, <2>2, <2>5, FeedHears
  <2> QED BY <2>3, <2>4, <2>5, <2>6
<1>7. Good(N)
  <2>1. 0 \in P
    BY <1>0, <1>5
  <2>2. ASSUME NEW n \in 1..N, n - 1 \in P PROVE n \in P
    <3>1. n \in 0..N
      BY <1>0
    <3> HIDE DEF Good
    <3> QED BY <1>6, <2>2, <3>1
  <2>3. N \in 0..N
    BY <1>0
  <2> HIDE DEF P
  <2>4. N \in P
    BY <1>0, <2>1, <2>2, <2>3, UpTo
  <2> QED BY <2>4 DEF P
<1>8. first(N) = pieces
  BY <1>0, <1>4
<1>9. g[N].upto \in Nat
  BY <1>0, <1>2
<1> QED BY <1>4, <1>7, <1>8, <1>9, <1>p DEF ask

\* The sound of the first k of the sentences s, and whether none is too short.
AllSounds(s, k) == {b \in AudioByte : b.ask \in 1..k /\ b.byte \in 1..s[b.ask].sound}
AllLong(s, k) == \A a \in 1..k : s[a].sound >= 2 * Fade

\* With the items o, the first k of the sentences s were heard to their ends.
HeardTo(o, f, s, k) ==
    /\ k \in Nat /\ k <= Len(s)
    /\ Rested(HeardBy(o), f, k)
    /\ AllLong(s, k) => RestedAll(HeardBy(o), f, k, AllSounds(s, k))

HeardAsks == IF At("listen") THEN Len(spoken) - 1 ELSE Len(spoken)

\* SoundKept of any items and sentences.
KeptBy(o, s) ==
    LET heard == HeardBy(o)
        AllOf(ask) == {[ask |-> ask, byte |-> n] : n \in 1..s[ask].sound}
    IN  /\ \A i, j \in DOMAIN heard : \A b \in heard[i], c \in heard[j] : b.ask = c.ask =>
              /\ i < j => b.byte < c.byte
              /\ i = j => b = c
        /\ (o # <<>> /\ Last(o).kind = "last") /\ (\A ask \in DOMAIN s : s[ask].sound \geq 2 * Fade)
              => UNION Range(heard) = UNION {AllOf(ask) : ask \in DOMAIN s}

SoundHas ==
    /\ Audible(out) /\ InOrder(HeardBy(out))
    /\ ~Over => HeardTo(out, fader, spoken, HeardAsks)
    /\ KeptBy(out, spoken)

LEMMA SoundKeptIf ==
    ASSUME NEW o, NEW s \in Seq(Requests), Audible(o), InOrder(HeardBy(o)),
           o # <<>> /\ Last(o).kind = "last" => (AllLong(s, Len(s)) => Content(HeardBy(o)) = AllSounds(s, Len(s)))
    PROVE  KeptBy(o, s)
<1> DEFINE h == HeardBy(o)
           AllOf(ask) == {[ask |-> ask, byte |-> n] : n \in 1..s[ask].sound}
           N == Len(s)
<1>1. h \in Sent /\ DOMAIN h = 1..Len(h) /\ Len(h) \in Nat
  <2>1. h \in Sent
    BY SoundsType
  <2> HIDE DEF h
  <2> QED BY <2>1, RangeIs DEF Sent
<1>2. N \in Nat /\ DOMAIN s = 1..N /\ \A a \in 1..N : s[a].sound \in Nat
  <2>1. \A r \in Requests : r.sound \in Nat
    BY DEF Requests
  <2>2. N \in Nat /\ DOMAIN s = 1..N /\ \A a \in 1..N : s[a] \in Requests
    OBVIOUS
  <2> QED BY <2>1, <2>2
<1>3. InOrder(h)
  OBVIOUS
<1> HIDE DEF h
<1>4. \A i, j \in DOMAIN h : \A b \in h[i], c \in h[j] : b.ask = c.ask =>
         /\ i < j => b.byte < c.byte
         /\ i = j => b = c
  BY <1>1, <1>3 DEF InOrder
<1> HIDE DEF N
<1>5. AllSounds(s, N) = UNION {AllOf(ask) : ask \in 1..N}
  <2>1. ASSUME NEW b \in AllSounds(s, N) PROVE \E ask \in 1..N : b \in AllOf(ask)
    <3>1. b \in AudioByte /\ b.ask \in 1..N /\ b.byte \in 1..s[b.ask].sound
      BY <2>1 DEF AllSounds
    <3>2. b = [ask |-> b.ask, byte |-> b.byte]
      BY <3>1 DEF AudioByte
    <3>3. b \in AllOf(b.ask)
      BY <3>1, <3>2
    <3> QED BY <3>1, <3>3
  <2>2. ASSUME NEW ask \in 1..N, NEW b \in AllOf(ask) PROVE b \in AllSounds(s, N)
    <3>1. PICK n \in 1..s[ask].sound : b = [ask |-> ask, byte |-> n]
      OBVIOUS
    <3>2. ask \in Nat /\ n \in Nat
      BY <1>2
    <3> QED BY <3>1, <3>2 DEF AllSounds, AudioByte
  <2> HIDE DEF AllOf
  <2> QED BY <2>1, <2>2
<1>6. ASSUME o # <<>> /\ Last(o).kind = "last", \A ask \in DOMAIN s : s[ask].sound \geq 2 * Fade
      PROVE  UNION Range(h) = UNION {AllOf(ask) : ask \in DOMAIN s}
  <2>1. AllLong(s, N)
    BY <1>2, <1>6 DEF AllLong
  <2>2. Content(h) = AllSounds(s, N)
    BY <1>6, <2>1 DEF h, N
  <2> QED BY <1>2, <1>5, <2>2 DEF Content
<1> HIDE DEF AllOf
<1>7. KeptBy(o, s)
  BY <1>4, <1>6 DEF KeptBy, h, AllOf
<1> QED BY <1>7

LEMMA SoundKeptIs == KeptBy(out, spoken) <=> SoundKept
BY DEF KeptBy, SoundKept, HeardBy, SoundsOf, Heard, Completed

\* What was asked for earlier keeps its sound.
LEMMA EarlierStays ==
    ASSUME NEW s, NEW t, NEW k, \A a \in 1..k : t[a].sound = s[a].sound
    PROVE  (AllLong(t, k) <=> AllLong(s, k)) /\ AllSounds(t, k) = AllSounds(s, k)
BY DEF AllLong, AllSounds

\* A step that nothing is heard at; no sentence begins or ends.
LEMMA SilentStep ==
    ASSUME SoundHas, StreamTypes', ~Over, ~Completed', NEW item, item.kind # "audio",
           out' = out \/ out' = out \o <<item>>, UNCHANGED <<fader, spoken>>,
           Over' \/ (main.pc # "listen" /\ main'.pc # "listen")
    PROVE  SoundHas'
<1>1. Audible(<<item>>) /\ HeardBy(<<item>>) = <<>>
  BY SilentItem
<1>2. Audible(out) /\ InOrder(HeardBy(out)) /\ HeardTo(out, fader, spoken, HeardAsks)
  BY DEF SoundHas
<1>3. Audible(out') /\ HeardBy(out') = HeardBy(out)
  <2>1. CASE out' = out \o <<item>>
    <3>1. Audible(out \o <<item>>) /\ HeardBy(out \o <<item>>) = HeardBy(out) \o <<>>
      BY <1>1, <1>2, HeardConcat
    <3>2. HeardBy(out) \in Sent
      BY <1>2, SoundsType
    <3>3. HeardBy(out) \o <<>> = HeardBy(out)
      BY <3>2, SentIs
    <3> QED BY <2>1, <3>1, <3>3
  <2>2. CASE out' = out
    BY <1>2, <2>2
  <2> QED BY <2>1, <2>2
<1>4. KeptBy(out', spoken')
  <2>1. ~(out' # <<>> /\ Last(out').kind = "last")
    BY DEF Completed
  <2>2. spoken' \in Seq(Requests) /\ InOrder(HeardBy(out'))
    BY <1>2, <1>3 DEF StreamTypes
  <2> QED BY <1>3, <2>1, <2>2, SoundKeptIf
<1>5. ~Over' => HeardTo(out', fader', spoken', HeardAsks')
  <2>1. ~Over' => HeardAsks' = HeardAsks
    BY DEF HeardAsks, At
  <2> QED BY <1>2, <1>3, <2>1 DEF HeardTo
<1> QED BY <1>2, <1>3, <1>4, <1>5 DEF SoundHas

\* A sentence is asked for.
LEMMA AskStep ==
    ASSUME SoundHas, StreamTypes, StreamTypes', ~Over, ~Completed', NEW s, Ask(s), UNCHANGED <<fader, out>>,
           main.pc # "listen", main'.pc = "listen"
    PROVE  SoundHas'
<1> DEFINE r == [text |-> s, sound |-> 0]
           k == Len(spoken)
<1>1. spoken \in Seq(Requests) /\ spoken' \in Seq(Requests) /\ spoken' = Append(spoken, r)
  BY DEF StreamTypes, Ask
<1> HIDE DEF r
<1>2. k \in Nat /\ Len(spoken') = k + 1 /\ \A a \in 1..k : spoken'[a] = spoken[a]
  BY <1>1
<1>3. HeardAsks = k /\ HeardAsks' = k
  <2>1. HeardAsks = k
    BY DEF HeardAsks, At
  <2>2. HeardAsks' = Len(spoken') - 1
    BY DEF HeardAsks, At
  <2> QED BY <1>2, <2>1, <2>2
<1> HIDE DEF k
<1>4. HeardTo(out, fader, spoken, k) /\ Audible(out) /\ InOrder(HeardBy(out))
  BY <1>3 DEF SoundHas
<1>5. (AllLong(spoken', k) <=> AllLong(spoken, k)) /\ AllSounds(spoken', k) = AllSounds(spoken, k)
  BY <1>2, EarlierStays
<1>6. HeardTo(out', fader', spoken', k)
  BY <1>2, <1>4, <1>5 DEF HeardTo, k
<1>7. KeptBy(out', spoken')
  <2>1. ~(out' # <<>> /\ Last(out').kind = "last") /\ out' = out
    BY DEF Completed
  <2>2. Audible(out') /\ InOrder(HeardBy(out'))
    BY <1>4, <2>1
  <2> QED BY <1>1, <2>1, <2>2, SoundKeptIf
<1> QED BY <1>3, <1>4, <1>6, <1>7 DEF SoundHas

\* The sentence asked for is heard to its end.
LEMMA ListenStep ==
    ASSUME SoundHas, StreamTypes, StreamTypes', Handed, ~Completed', Listen
    PROVE  SoundHas'
<1>1. PICK lengths \in Sounds :
         LET played == Played(lengths)
             ended == EndSentence(played.fader)
         IN  /\ fader' = ended.fader
             /\ Emit(Append(played.pieces, ended.sent), <<>>)
             /\ spoken' = [spoken EXCEPT ![Len(spoken)].sound = played.length]
  BY DEF Listen
<1> DEFINE played == Played(lengths)
           ended == EndSentence(played.fader)
           a == Len(spoken) - 1
           h == HeardBy(out)
           m == h \o FlattenSeq(played.pieces)
           l == played.length
<1>2. lengths \in Seq(Nat) /\ seq \in Nat /\ main.pc = "listen" /\ ~Over
  BY SoundsAre, HandedIs DEF Listen, At, Over
<1>3. Audible(out) /\ HeardTo(out, fader, spoken, a)
  BY <1>2 DEF SoundHas, HeardAsks, At
<1>4. /\ a \in Nat /\ Rested(h, fader, a) /\ h \in Sent
      /\ AllLong(spoken, a) => RestedAll(h, fader, a, AllSounds(spoken, a))
  BY <1>3, SoundsType DEF HeardTo
<1>5. /\ l \in Nat /\ played.pieces \in Seq(Sent)
      /\ Hearing(m, played.fader, a + 1, l)
      /\ \A B : RestedAll(h, fader, a, B) => HearingAll(m, played.fader, a + 1, l, B)
  <2>1. Len(spoken) = a + 1
    BY <1>4 DEF StreamTypes
  <2> HIDE DEF h, a
  <2> QED BY <1>2, <1>4, <2>1, PlayedHears
<1>6. /\ fader' = ended.fader
      /\ out' = out \o Numbered(Append(played.pieces, ended.sent)) \o <<>>
      /\ spoken' = [spoken EXCEPT ![Len(spoken)].sound = l]
  BY <1>1 DEF Emit
<1>7. ended.sent \in Sent /\ Rested(m \o ended.sent, ended.fader, a + 1)
      /\ (l >= 2 * Fade => \A B : HearingAll(m, played.fader, a + 1, l, B) =>
                              RestedAll(m \o ended.sent, ended.fader, a + 1, B \cup Beginning(a + 1, l)))
  <2>1. a + 1 \in Nat /\ a + 1 > 0
    BY <1>4
  <2>2. Playing(played.fader, a + 1, l) /\ played.fader \in Faders
    BY <1>5 DEF Hearing
  <2>3. Passes(played.fader, {}, ended)
    BY <1>5, <2>1, <2>2, EndPasses
  <2>4. ended.sent \in Sent
    BY <2>3 DEF Passes
  <2> HIDE DEF m, l, a
  <2>5. /\ Rested(m \o ended.sent, ended.fader, a + 1)
        /\ l >= 2 * Fade => \A B : HearingAll(m, played.fader, a + 1, l, B) =>
                               RestedAll(m \o ended.sent, ended.fader, a + 1, B \cup Beginning(a + 1, l))
    BY <1>5, <2>1, EndHears
  <2> QED BY <2>4, <2>5
<1>8. Audible(out') /\ HeardBy(out') = m \o ended.sent
  <2> DEFINE pieces == Append(played.pieces, ended.sent)
             N == Numbered(pieces)
             flat == FlattenSeq(played.pieces)
  <2>1. pieces \in Seq(Sent) /\ FlattenSeq(pieces) = flat \o ended.sent
    <3> DEFINE p == played.pieces
               e == ended.sent
    <3>1. p \in Seq(Sent) /\ e \in Sent
      BY <1>5, <1>7
    <3> HIDE DEF p, e
    <3>2. Append(p, e) \in Seq(Sent)
      BY <3>1
    <3>3. FlattenSeq(Append(p, e)) = FlattenSeq(p) \o e
      BY <3>1, FlattenAppend DEF Sent
    <3> QED BY <3>2, <3>3 DEF p, e
  <2>2. Audible(N) /\ HeardBy(N) = FlattenSeq(pieces)
    BY <1>2, <2>1, HeardNumbered
  <2>3. Audible(out \o N) /\ HeardBy(out \o N) = h \o (flat \o ended.sent)
    BY <1>3, <2>1, <2>2, HeardConcat
  <2>4. (out \o N) \o <<>> = out \o N
    <3>1. \E D : out \o N \in Seq(D)
      BY <2>3 DEF Audible
    <3> DEFINE o == out \o N
    <3> HIDE DEF o
    <3>2. o \o <<>> = o
      BY <3>1 DEF o
    <3> QED BY <3>2 DEF o
  <2>5. flat \in Sent
    BY <1>5, FlattenType DEF Sent
  <2>6. \A x, y, z \in Sent : (x \o y) \o z = x \o (y \o z)
    BY Associative DEF Sent
  <2> DEFINE e == ended.sent
  <2>e. e \in Sent
    BY <1>7
  <2> HIDE DEF flat, h, ended, e
  <2>7. (h \o flat) \o e = h \o (flat \o e)
    BY <1>4, <2>5, <2>6, <2>e
  <2>8. out' = out \o N
    BY <1>6, <2>4 DEF ended
  <2> HIDE DEF N
  <2> QED BY <2>3, <2>7, <2>8 DEF flat, e
<1>9. /\ Len(spoken') = a + 1 /\ spoken'[a + 1].sound = l
      /\ \A k \in 1..a : spoken'[k] = spoken[k]
  <2>1. spoken \in Seq(Requests) /\ Len(spoken) = a + 1 /\ a + 1 \in 1..Len(spoken)
    BY <1>4 DEF StreamTypes
  <2>2. \A r \in Requests : [r EXCEPT !.sound = l].sound = l
    BY DEF Requests
  <2> HIDE DEF l, a
  <2>3. spoken' = [spoken EXCEPT ![a + 1] = [spoken[a + 1] EXCEPT !.sound = l]]
    BY <1>6, <2>1
  <2>4. spoken[a + 1] \in Requests
    BY <2>1
  <2> DEFINE r == [spoken[a + 1] EXCEPT !.sound = l]
  <2>5. r.sound = l
    BY <2>2, <2>4
  <2> HIDE DEF r
  <2>6. spoken' = [spoken EXCEPT ![a + 1] = r]
    BY <2>3 DEF r
  <2>7. Len(spoken') = a + 1 /\ spoken'[a + 1] = r /\ \A k \in 1..a : spoken'[k] = spoken[k]
    BY <1>4, <2>1, <2>6 DEF a
  <2> QED BY <2>5, <2>7
<1>10. HeardTo(out', fader', spoken', a + 1)
  <2>1. a + 1 \in Nat /\ a + 1 <= Len(spoken')
    BY <1>4, <1>9
  <2>2. Rested(HeardBy(out'), fader', a + 1)
    BY <1>6, <1>7, <1>8
  <2>3. ASSUME AllLong(spoken', a + 1)
        PROVE  RestedAll(HeardBy(out'), fader', a + 1, AllSounds(spoken', a + 1))
    <3> HIDE DEF l, a, m, h, played, ended
    <3>1. l >= 2 * Fade
      <4>1. a + 1 \in 1..(a + 1)
        BY <1>4 DEF a
      <4> QED BY <1>9, <2>3, <4>1 DEF AllLong
    <3>2. AllLong(spoken', a)
      <4>1. \A k \in 1..a : k \in 1..(a + 1)
        BY <1>4
      <4> QED BY <2>3, <4>1 DEF AllLong
    <3>3. AllLong(spoken, a) /\ AllSounds(spoken', a) = AllSounds(spoken, a)
      BY <1>9, <3>2, EarlierStays
    <3>4. AllSounds(spoken', a + 1) = AllSounds(spoken, a) \cup Beginning(a + 1, l)
      <4>1. AllSounds(spoken', a + 1) \subseteq AllSounds(spoken', a) \cup Beginning(a + 1, l)
        <5> SUFFICES ASSUME NEW b \in AllSounds(spoken', a + 1)
                     PROVE  b \in AllSounds(spoken', a) \cup Beginning(a + 1, l)
          OBVIOUS
        <5>1. b \in AudioByte /\ b.ask \in 1..(a + 1) /\ b.byte \in 1..spoken'[b.ask].sound
          BY DEF AllSounds
        <5>2. CASE b.ask = a + 1
          <6>1. b = [ask |-> b.ask, byte |-> b.byte]
            BY <5>1 DEF AudioByte
          <6>2. b.byte \in 1..l
            BY <1>9, <5>1, <5>2
          <6> QED BY <5>2, <6>1, <6>2 DEF Beginning
        <5>3. CASE b.ask # a + 1
          <6>1. b.ask \in 1..a
            BY <1>4, <5>1, <5>3
          <6> QED BY <5>1, <6>1 DEF AllSounds
        <5> QED BY <5>2, <5>3
      <4>2. AllSounds(spoken', a) \subseteq AllSounds(spoken', a + 1)
        <5>1. \A k \in 1..a : k \in 1..(a + 1)
          BY <1>4
        <5> QED BY <5>1 DEF AllSounds
      <4>3. Beginning(a + 1, l) \subseteq AllSounds(spoken', a + 1)
        <5> SUFFICES ASSUME NEW n \in 1..l
                     PROVE  [ask |-> a + 1, byte |-> n] \in AllSounds(spoken', a + 1)
          BY DEF Beginning
        <5>1. a + 1 \in 1..(a + 1) /\ a + 1 \in Nat /\ n \in Nat
          BY <1>4, <1>5
        <5>2. [ask |-> a + 1, byte |-> n] \in AudioByte
          BY <5>1 DEF AudioByte
        <5> QED BY <1>9, <5>1, <5>2 DEF AllSounds
      <4> QED BY <3>3, <4>1, <4>2, <4>3
    <3>5. RestedAll(h, fader, a, AllSounds(spoken, a))
      BY <1>4, <3>3
    <3>6. HearingAll(m, played.fader, a + 1, l, AllSounds(spoken, a))
      BY <1>5, <3>5
    <3>7. RestedAll(m \o ended.sent, ended.fader, a + 1, AllSounds(spoken, a) \cup Beginning(a + 1, l))
      BY <1>7, <3>1, <3>6
    <3> QED BY <1>6, <1>8, <3>4, <3>7
  <2> QED BY <2>1, <2>2, <2>3 DEF HeardTo
<1>11. HeardAsks' = a + 1
  <2>1. main' = [main EXCEPT !.pc = "split"] \/ main' = Exhausted(main)
    BY DEF Listen
  <2>2. main \in Mains
    BY DEF StreamTypes
  <2>3. main'.pc # "listen"
    BY <2>1, <2>2 DEF Exhausted, After, Mains
  <2> QED BY <1>9, <2>3 DEF HeardAsks, At
<1>12. InOrder(HeardBy(out'))
  BY <1>10 DEF HeardTo, Rested
<1>13. KeptBy(out', spoken')
  <2>1. ~(out' # <<>> /\ Last(out').kind = "last")
    BY DEF Completed
  <2>2. spoken' \in Seq(Requests)
    BY DEF StreamTypes
  <2> QED BY <1>8, <1>12, <2>1, <2>2, SoundKeptIf
<1> QED BY <1>8, <1>10, <1>11, <1>12, <1>13 DEF SoundHas

\* A sentence breaks off, and the answer fails.
LEMMA ListenFailsStep ==
    ASSUME SoundHas, StreamTypes, StreamTypes', Handed, ListenFails
    PROVE  SoundHas'
<1> DEFINE code == IF transport = "ws" /\ ~main.tail THEN 1004 ELSE 1005
           f == Failure(code)
<1>1. PICK lengths \in IF transport = "ws" THEN {<<>>} ELSE Sounds : Emit(Played(lengths).pieces, <<f>>)
  BY DEF ListenFails
<1> DEFINE played == Played(lengths)
           a == Len(spoken) - 1
           h == HeardBy(out)
           m == h \o FlattenSeq(played.pieces)
           N == Numbered(played.pieces)
<1>2. lengths \in Seq(Nat)
  <2>1. <<>> \in Seq(Nat) /\ (lengths \in Sounds \/ lengths = <<>>)
    BY <1>1
  <2> QED BY <2>1, SoundsAre
<1>3. seq \in Nat /\ main.pc = "listen" /\ ~Over /\ Over'
  <2>1. main.pc = "listen" /\ main'.pc = "over"
    BY DEF ListenFails, At, StreamTypes, Mains
  <2> QED BY <2>1, HandedIs DEF Over
<1>4. Audible(out) /\ HeardTo(out, fader, spoken, a)
  BY <1>3 DEF SoundHas, HeardAsks, At
<1>5. a \in Nat /\ Rested(h, fader, a) /\ h \in Sent
  BY <1>4, SoundsType DEF HeardTo
<1>6. played.pieces \in Seq(Sent) /\ Hearing(m, played.fader, a + 1, played.length)
  <2>1. Len(spoken) = a + 1
    BY <1>5 DEF StreamTypes
  <2> HIDE DEF h, a
  <2> QED BY <1>2, <1>5, <2>1, PlayedHears
<1>7. out' = out \o N \o <<f>>
  BY <1>1 DEF Emit
<1>8. f.kind = "failed"
  BY DEF Failure
<1> HIDE DEF f, N
<1>9. Audible(out \o N) /\ HeardBy(out \o N) = m
  <2>1. Audible(N) /\ HeardBy(N) = FlattenSeq(played.pieces)
    BY <1>3, <1>6, HeardNumbered DEF N
  <2> QED BY <1>4, <2>1, HeardConcat
<1>10. Audible(out') /\ HeardBy(out') = m
  <2>1. Audible(<<f>>) /\ HeardBy(<<f>>) = <<>>
    BY <1>8, SilentItem
  <2> DEFINE o == out \o N
  <2> HIDE DEF o, m
  <2>2. Audible(o) /\ HeardBy(o) = m
    BY <1>9 DEF o
  <2>3. Audible(o \o <<f>>) /\ HeardBy(o \o <<f>>) = m \o <<>>
    BY <2>1, <2>2, HeardConcat
  <2>4. m \in Sent
    BY <2>2, SoundsType
  <2>5. m \o <<>> = m
    BY <2>4, SentIs
  <2> QED BY <1>7, <2>3, <2>5 DEF o
<1>11. InOrder(HeardBy(out'))
  BY <1>6, <1>10 DEF Hearing
<1>12. Last(out').kind # "last"
  <2>1. PICK D : out \o N \in Seq(D)
    BY <1>9 DEF Audible
  <2> QED BY <1>7, <1>8, <2>1, FailedLast
<1>13. KeptBy(out', spoken')
  <2>1. spoken' \in Seq(Requests)
    BY DEF StreamTypes
  <2> QED BY <1>10, <1>11, <1>12, <2>1, SoundKeptIf
<1> QED BY <1>3, <1>10, <1>11, <1>13 DEF SoundHas

\* At the end the consumer gets what was held back.
LEMMA FinishStep ==
    ASSUME SoundHas, StreamTypes, StreamTypes', Handed, Finish
    PROVE  SoundHas'
<1> DEFINE a == Len(spoken)
           h == HeardBy(out)
           rest == FinishFader(fader)
           m == h \o rest
           N == Numbered(<<rest>>)
           e == [kind |-> "last", seq |-> seq + Len(N) + 1]
<1>1. main.pc = "finish" /\ main'.pc = "over" /\ spoken' = spoken /\ out' = out \o N \o <<e>>
  BY DEF Finish, At, StreamTypes, Mains, ttsVars
<1>2. seq \in Nat /\ ~Over /\ Over'
  BY <1>1, HandedIs DEF Over
<1>3. Audible(out) /\ HeardTo(out, fader, spoken, a)
  BY <1>1, <1>2 DEF SoundHas, HeardAsks, At
<1>4. /\ a \in Nat /\ Rested(h, fader, a) /\ h \in Sent
      /\ AllLong(spoken, a) => RestedAll(h, fader, a, AllSounds(spoken, a))
  BY <1>3, SoundsType DEF HeardTo
<1>5. m \in Sent /\ InOrder(m) /\ Content(m) = Content(h) \cup Held(fader)
  BY <1>4, FinishHears
<1>6. rest \in Sent
  BY <1>4, FinishIs DEF Rested
<1>7. Audible(N) /\ HeardBy(N) = rest
  <2> HIDE DEF rest
  <2>1. <<rest>> \in Seq(Sent) /\ <<rest>> = Append(<<>>, rest) /\ <<>> \in Seq(Sent)
    BY <1>6
  <2>2. FlattenSeq(Append(<<>>, rest)) = FlattenSeq(<<>>) \o rest
    BY <1>6, <2>1, FlattenAppend DEF Sent
  <2>3. <<>> \o rest = rest
    BY <1>6 DEF Sent
  <2>4. FlattenSeq(<<rest>>) = rest
    BY <2>1, <2>2, <2>3, FlattenEmpty
  <2>5. Audible(N) /\ HeardBy(N) = FlattenSeq(<<rest>>)
    BY <1>2, <2>1, HeardNumbered
  <2> QED BY <2>4, <2>5
<1>8. e.kind = "last"
  OBVIOUS
<1> HIDE DEF N, e
<1>9. Audible(out') /\ HeardBy(out') = m
  <2> DEFINE o == out \o N
  <2>1. Audible(o) /\ HeardBy(o) = m
    BY <1>3, <1>7, HeardConcat
  <2>2. Audible(<<e>>) /\ HeardBy(<<e>>) = <<>>
    BY <1>8, SilentItem
  <2> HIDE DEF o, m
  <2>3. Audible(o \o <<e>>) /\ HeardBy(o \o <<e>>) = m \o <<>>
    BY <2>1, <2>2, HeardConcat
  <2>4. m \o <<>> = m
    BY <1>5, SentIs
  <2> QED BY <1>1, <2>3, <2>4 DEF o
<1> HIDE DEF m, h, a
<1>10. AllLong(spoken, a) => Content(m) = AllSounds(spoken, a)
  BY <1>4, <1>5 DEF RestedAll
<1>11. KeptBy(out', spoken')
  <2>1. spoken \in Seq(Requests)
    BY DEF StreamTypes
  <2>2. AllLong(spoken, Len(spoken)) => Content(HeardBy(out')) = AllSounds(spoken, Len(spoken))
    BY <1>9, <1>10 DEF a
  <2>3. InOrder(HeardBy(out'))
    BY <1>5, <1>9
  <2>4. KeptBy(out', spoken)
    BY <1>9, <2>1, <2>2, <2>3, SoundKeptIf
  <2> QED BY <1>1, <2>4
<1> QED BY <1>2, <1>5, <1>9, <1>11 DEF SoundHas

LEMMA SoundStep ==
    ASSUME Inv, Inv', SoundHas, Next
    PROVE  SoundHas'
<1>0. StreamTypes /\ StreamTypes' /\ Handed /\ Handed' /\ ReaderTypes
  BY DEF Inv, Reading
<1>1. main \in Mains
  BY <1>0 DEF StreamTypes
<1>2. \A m \in Mains : \A pc : [m EXCEPT !.pc = pc].pc = pc
  BY DEF Mains
<1>3. PICK D : out \in Seq(D)
  BY <1>0 DEF Handed
<1>4. CASE UNCHANGED <<out, fader, spoken, main>>
  <2>1. (Over' <=> Over) /\ HeardAsks' = HeardAsks
    BY <1>4 DEF Over, HeardAsks, At
  <2> QED BY <1>4, <2>1 DEF SoundHas
<1>5. ASSUME ~Over, out' = out, UNCHANGED <<fader, spoken>>, main.pc # "listen", main'.pc \notin {"listen", "over"}
      PROVE  SoundHas'
  <2>1. ~Completed'
    BY <1>0, <1>5, NotYet
  <2>2. Failure(0).kind # "audio"
    BY DEF Failure
  <2> QED BY <1>0, <1>5, <2>1, <2>2, SilentStep
<1>6. ASSUME ~Over, NEW code, Fail(code) PROVE SoundHas'
  <2> DEFINE f == Failure(code)
  <2>1. f.kind = "failed" /\ f.kind # "audio"
    BY DEF Failure
  <2>2. out' = Append(out, f) /\ UNCHANGED <<fader, spoken>> /\ main'.pc = "over"
    BY <1>1, <1>2, <1>6 DEF Fail, ttsVars
  <2> HIDE DEF f
  <2>3. Append(out, f) = out \o <<f>> /\ Last(Append(out, f)).kind # "last"
    BY <1>3, <2>1, FailedLast
  <2>4. ~Completed' /\ Over'
    BY <2>2, <2>3 DEF Completed, Over
  <2> QED BY <1>0, <1>6, <2>1, <2>2, <2>3, <2>4, SilentStep
<1>7. CASE ReaderStep \/ ReaderCancelled
  BY <1>4, <1>7 DEF ReaderStep, ReaderCancelled, ReaderAsks, ReaderReads, ReaderEnds, ReaderSends, ttsVars
<1>8. CASE Receive
  <2>1. PICK item : /\ UNCHANGED <<fader, spoken>>
                    /\ \/ main'.pc = "text" /\ out' = Append(out, [kind |-> "text", upto |-> item.upto])
                       \/ item.kind = "failed" /\ main'.pc = "over" /\ out' = Append(out, item)
    BY <1>1, <1>8 DEF Receive, ttsVars, Mains
  <2>2. main.pc = "receive" /\ ~Over
    BY <1>8 DEF Receive, At, Over
  <2>3. CASE main'.pc = "text" /\ out' = Append(out, [kind |-> "text", upto |-> item.upto])
    <3> DEFINE t == [kind |-> "text", upto |-> item.upto]
    <3>1. t.kind # "audio"
      OBVIOUS
    <3> HIDE DEF t
    <3>2. out' = out \o <<t>>
      BY <1>3, <2>3 DEF t
    <3>3. ~Completed'
      BY <1>0, <2>3, NotYet
    <3> QED BY <1>0, <2>1, <2>2, <2>3, <3>1, <3>2, <3>3, SilentStep
  <2>4. CASE item.kind = "failed" /\ main'.pc = "over" /\ out' = Append(out, item)
    <3>1. Append(out, item) = out \o <<item>> /\ Last(Append(out, item)).kind # "last"
      BY <1>3, <2>4, FailedLast
    <3>2. ~Completed' /\ Over' /\ item.kind # "audio"
      BY <2>4, <3>1 DEF Completed, Over
    <3> QED BY <1>0, <2>1, <2>2, <2>4, <3>1, <3>2, SilentStep
  <2> QED BY <2>1, <2>3, <2>4
<1>9. CASE ChannelCloses \/ CleanDelta \/ Collect \/ Split \/ SpeakTail
  <2>1. out' = out /\ UNCHANGED <<fader, spoken>>
    BY <1>9 DEF ChannelCloses, CleanDelta, Collect, Split, SpeakTail, Go, ttsVars
  <2>2. main'.pc \notin {"listen", "over"}
    <3>1. CASE ChannelCloses
      BY <1>1, <3>1 DEF ChannelCloses, Go, Mains
    <3>2. CASE CleanDelta
      BY <1>1, <3>2 DEF CleanDelta, Go, After, Mains
    <3>3. CASE Collect
      BY <1>1, <3>3 DEF Collect, Go, Mains
    <3>4. CASE Split
      BY <1>1, <3>4 DEF Split, Go, At, After, Mains
    <3>5. CASE SpeakTail
      BY <1>1, <3>5 DEF SpeakTail, Go, Mains
    <3> QED BY <1>9, <3>1, <3>2, <3>3, <3>4, <3>5
  <2>3. main.pc # "listen" /\ ~Over
    BY <1>9 DEF ChannelCloses, CleanDelta, Collect, Split, SpeakTail, At, Over
  <2> QED BY <1>5, <2>1, <2>2, <2>3
<1>10. CASE SendText
  <2>1. main.pc = "segment" /\ ~Over
    BY <1>10 DEF SendText, At, Over
  <2>2. \/ Fail(1004)
        \/ main' = Segment(main).next /\ UNCHANGED <<fader, spoken, out>>
    BY <1>10 DEF SendText
  <2>3. ASSUME main' = Segment(main).next PROVE main'.pc \notin {"listen", "over"}
    BY <1>1, <2>3 DEF Segment, After, Mains
  <2> QED BY <1>5, <1>6, <2>1, <2>2, <2>3
<1>11. CASE Flush
  <2>1. main.pc = "flush" /\ ~Over
    BY <1>11 DEF Flush, At, Over
  <2>2. \/ \E code : Fail(code)
        \/ (\E s : Ask(s)) /\ main'.pc = "listen" /\ UNCHANGED <<fader, out>>
    <3>1. \/ Fail(IF main.tail THEN 1005 ELSE 1004)
          \/ (\E s : Ask(s)) /\ main' = [main EXCEPT !.pc = "listen"] /\ UNCHANGED <<fader, out>>
      BY <1>11 DEF Flush
    <3>2. CASE Fail(IF main.tail THEN 1005 ELSE 1004)
      <4> DEFINE code == IF main.tail THEN 1005 ELSE 1004
      <4>1. Fail(code)
        BY <3>2
      <4> HIDE DEF code
      <4> QED BY <4>1
    <3>3. [main EXCEPT !.pc = "listen"].pc = "listen"
      BY <1>1, <1>2
    <3> QED BY <3>1, <3>2, <3>3
  <2>3. CASE (\E s : Ask(s)) /\ main'.pc = "listen" /\ UNCHANGED <<fader, out>>
    <3>1. ~Completed'
      BY <1>0, <2>3, NotYet
    <3> QED BY <1>0, <2>1, <2>3, <3>1, AskStep
  <2> QED BY <1>6, <2>1, <2>2, <2>3
<1>12. CASE Synthesize
  <2>1. main.pc = "synthesize" /\ ~Over
    BY <1>12 DEF Synthesize, At, Over
  <2>2. \/ Fail(1004)
        \/ (\E s : Ask(s)) /\ main'.pc = "listen" /\ UNCHANGED <<fader, out>>
        \/ main'.pc = "finish" /\ UNCHANGED <<fader, out, spoken>>
    <3>1. [main EXCEPT !.pc = "listen", !.rest = <<>>].pc = "listen" /\ [main EXCEPT !.pc = "finish"].pc = "finish"
      BY <1>1 DEF Mains
    <3> QED BY <1>12, <3>1 DEF Synthesize, Go, ttsVars
  <2>3. CASE (\E s : Ask(s)) /\ main'.pc = "listen" /\ UNCHANGED <<fader, out>>
    <3>1. ~Completed'
      BY <1>0, <2>3, NotYet
    <3> QED BY <1>0, <2>1, <2>3, <3>1, AskStep
  <2>4. CASE main'.pc = "finish" /\ UNCHANGED <<fader, out, spoken>>
    BY <1>5, <2>1, <2>4
  <2> QED BY <1>6, <2>1, <2>2, <2>3, <2>4
<1>13. CASE Listen
  <2>1. main' = [main EXCEPT !.pc = "split"] \/ main' = Exhausted(main)
    BY <1>13 DEF Listen
  <2>2. main'.pc # "over"
    BY <1>1, <2>1 DEF Exhausted, After, Mains
  <2>3. ~Completed'
    BY <1>0, <2>2, NotYet
  <2> QED BY <1>0, <1>13, <2>3, ListenStep
<1>14. CASE ListenFails
  BY <1>0, <1>14, ListenFailsStep
<1>15. CASE Finish
  BY <1>0, <1>15, FinishStep
<1>16. CASE Drop
  <2>1. ~Over /\ UNCHANGED <<out, fader, spoken>> /\ main'.pc = "dropped"
    BY <1>1, <1>2, <1>16 DEF Drop, ttsVars
  <2>2. Over' /\ (Completed' <=> Completed)
    BY <2>1 DEF Over, Completed
  <2>3. SoundHas' <=> Audible(out) /\ InOrder(HeardBy(out)) /\ KeptBy(out, spoken)
    BY <2>1, <2>2 DEF SoundHas
  <2> QED BY <2>3 DEF SoundHas
<1> QED BY <1>7, <1>8, <1>9, <1>10, <1>11, <1>12, <1>13, <1>14, <1>15, <1>16 DEF Next, MainStep

LEMMA SoundInit ==
    ASSUME Init
    PROVE  SoundHas
<1>1. out = <<>> /\ spoken = <<>> /\ fader = NewFader /\ main.pc = "receive"
  BY DEF Init
<1>2. <<>> \in Seq({}) /\ Len(<<>>) = 0 /\ <<>> \in Seq(Requests) /\ DOMAIN <<>> = {}
  OBVIOUS
<1>3. Audible(<<>>)
  BY <1>2 DEF Audible
<1>4. HeardBy(<<>>) = <<>>
  <2>1. SoundsOf(<<>>) = <<>>
    BY <1>2 DEF SoundsOf
  <2> QED BY <2>1, FlattenEmpty DEF HeardBy
<1>5. <<>> \in Sent /\ InOrder(<<>>) /\ Content(<<>>) = {}
  BY NothingSent
<1>6. NewFader \in Faders /\ Held(NewFader) = {}
  BY NewFaderIs
<1>7. NewFader.tail = <<>> /\ NewFader.head = <<>> /\ NewFader.hold = <<>>
  BY DEF NewFader
<1>8. Rested(<<>>, NewFader, 0)
  <2>1. Stretch(<<>>, 0) /\ 0 \in Nat /\ 0 <= 0
    BY <1>2 DEF Stretch
  <2>2. Resting(NewFader, 0)
    BY <1>7, <2>1 DEF Resting
  <2>3. Precedes({}, {})
    BY DEF Precedes
  <2> QED BY <1>5, <1>6, <2>2, <2>3 DEF Rested
<1>9. RestedAll(<<>>, NewFader, 0, AllSounds(<<>>, 0))
  <2>1. AllSounds(<<>>, 0) = {}
    BY DEF AllSounds
  <2>2. Content(<<>>) \cup Held(NewFader) = {} /\ Len(NewFader.tail) = 0
    BY <1>2, <1>5, <1>6, <1>7
  <2> QED BY <2>1, <2>2 DEF RestedAll
<1>10. HeardTo(<<>>, NewFader, <<>>, 0)
  BY <1>2, <1>4, <1>8, <1>9 DEF HeardTo
<1>11. HeardAsks = 0
  BY <1>1, <1>2 DEF HeardAsks, At
<1>12. KeptBy(<<>>, <<>>)
  BY <1>2, <1>3, <1>4, <1>5, SoundKeptIf
<1> QED BY <1>1, <1>3, <1>4, <1>5, <1>10, <1>11, <1>12 DEF SoundHas

LEMMA SoundHasStep ==
    ASSUME Inv, SoundHas, [Next]_vars
    PROVE  SoundHas'
<1>1. CASE Next
  BY <1>1, InvStep, SoundStep
<1>2. CASE UNCHANGED vars
  <2>1. UNCHANGED <<main, spoken, fader, out>>
    BY <1>2 DEF vars, ttsVars
  <2>2. (Over' <=> Over) /\ HeardAsks' = HeardAsks
    BY <2>1 DEF Over, HeardAsks, At
  <2> QED BY <2>1, <2>2 DEF SoundHas
<1> QED BY <1>1, <1>2

\* Whatever chunks the TTS sends for however many sentences, and whatever fade
\* there is: the consumer gets the bytes of each sentence in order and none
\* twice, and in an answer of sentences of two fade regions or more every byte
\* of it, alone or mixed (SentenceCrossfader, crossfade.rs; emit_pcm!).
THEOREM SoundAlwaysKept == Spec => []SoundKept
<1>1. ASSUME SoundHas PROVE SoundKept
  BY <1>1, SoundKeptIs DEF SoundHas
<1> QED BY <1>1, InitInv, InvStep, SoundInit, SoundHasStep, PTL DEF Spec

=============================================================================
