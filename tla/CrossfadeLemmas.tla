-------------------------- MODULE CrossfadeLemmas --------------------------
(***************************************************************************)
(* What each operation of the crossfader sends and keeps: no byte twice,   *)
(* none out of order, and none lost when both sides of a mix are full.     *)
(***************************************************************************)
EXTENDS Crossfade, SequenceLemmas

AudioByte == [ask : Nat, byte : Nat]

\* A byte sent is the set of the bytes it was made from.
Sent == Seq(SUBSET AudioByte)
Content(h) == UNION Range(h)

Precedes(A, B) == \A b \in A, c \in B : b.ask = c.ask => b.byte < c.byte

\* The bytes of each sentence are sent in order and none twice.
InOrder(h) ==
    \A i, j \in 1..Len(h) : \A b \in h[i], c \in h[j] : b.ask = c.ask =>
        /\ i < j => b.byte < c.byte
        /\ i = j => b = c

\* Bytes of sentence a, in order.
Stretch(s, a) ==
    /\ \A i \in 1..Len(s) : s[i].ask = a
    /\ \A i, j \in 1..Len(s) : i < j => s[i].byte < s[j].byte

FaderRecords == [tail : Seq(AudioByte), head : Seq(AudioByte), hold : Seq(AudioByte),
                 done : BOOLEAN, asserted : BOOLEAN]
Faders == {f \in FaderRecords : Len(f.tail) <= Fade /\ Len(f.head) < Fade /\ Len(f.hold) <= Fade}

Held(f) == Range(f.tail) \cup Range(f.head) \cup Range(f.hold)

\* r is what an operation makes of the fader f and of some bytes more.
Passes(f, more, r) ==
    /\ r.fader \in Faders /\ r.sent \in Sent
    /\ InOrder(r.sent)
    /\ Precedes(Content(r.sent), Held(r.fader))
    /\ Content(r.sent) \cup Held(r.fader) \subseteq Held(f) \cup more

\* Nothing is lost.
Keeps(f, more, r) == Content(r.sent) \cup Held(r.fader) = Held(f) \cup more

\* Between two sentences, after sentence a: the end of one is held back.
Resting(f, a) == f.head = <<>> /\ f.hold = <<>> /\ \E c \in Nat : c <= a /\ Stretch(f.tail, c)

\* Within sentence a, of which the fader was fed n bytes.
Playing(f, a, n) ==
    /\ \A b \in Held(f) : b.ask = a => b.byte <= n
    /\ IF f.done
       THEN /\ f.tail = <<>> /\ f.head = <<>> /\ Stretch(f.hold, a)
            /\ Len(f.hold) = Fade \/ n <= Len(f.hold) + Fade
       ELSE /\ f.hold = <<>> /\ Stretch(f.head, a) /\ Len(f.head) = n
            /\ \E c \in Nat : c < a /\ Stretch(f.tail, c)

\* What is held back is as long as what it will be mixed with.
Full(f) == f.done \/ Len(f.tail) = Fade

(***************************************************************************)
(* Parts of what is sent.                                                  *)
(***************************************************************************)

LEMMA FadeIs == Fade \in Nat /\ Fade > 0 /\ 2 * (Fade \div 2) = Fade
BY FadeAssumption

LEMMA ContentIs ==
    ASSUME NEW h \in Sent
    PROVE  /\ Content(h) \subseteq AudioByte
           /\ \A i \in 1..Len(h) : h[i] \subseteq Content(h)
           /\ \A b \in Content(h) : \E i \in 1..Len(h) : b \in h[i]
BY RangeIs DEF Content, Sent

LEMMA NothingSent == <<>> \in Sent /\ Content(<<>>) = {} /\ InOrder(<<>>)
<1>1. Len(<<>>) = 0 /\ <<>> \in Sent
  BY DEF Sent
<1> QED BY <1>1, RangeEmpty DEF Content, InOrder

\* What is sent later does not come before what was sent.
LEMMA SentConcat ==
    ASSUME NEW h \in Sent, NEW m \in Sent, InOrder(h), InOrder(m), Precedes(Content(h), Content(m))
    PROVE  /\ h \o m \in Sent /\ InOrder(h \o m)
           /\ Content(h \o m) = Content(h) \cup Content(m)
<1>1. /\ h \o m \in Sent /\ Len(h) \in Nat /\ Len(m) \in Nat
      /\ Len(h \o m) = Len(h) + Len(m)
      /\ \A i \in 1..Len(h) : (h \o m)[i] = h[i]
      /\ \A i \in 1..(Len(h) + Len(m)) : i \notin 1..Len(h) =>
            i - Len(h) \in 1..Len(m) /\ (h \o m)[i] = m[i - Len(h)]
  BY ConcatIs, RangeIs DEF Sent
<1>2. Content(h \o m) = Content(h) \cup Content(m)
  <2>1. Range(h \o m) = Range(h) \cup Range(m)
    BY RangeConcat DEF Sent
  <2> QED BY <2>1 DEF Content
<1>3. /\ \A i \in 1..Len(h) : h[i] \subseteq Content(h)
      /\ \A i \in 1..Len(m) : m[i] \subseteq Content(m)
      /\ \A b \in Content(h) \cup Content(m) : b.byte \in Nat
  BY ContentIs DEF AudioByte
<1>4. ASSUME NEW i \in 1..Len(h \o m), NEW j \in 1..Len(h \o m),
             NEW b \in (h \o m)[i], NEW c \in (h \o m)[j], b.ask = c.ask
      PROVE  (i < j => b.byte < c.byte) /\ (i = j => b = c)
  <2>1. CASE i \in 1..Len(h) /\ j \in 1..Len(h)
    BY <1>1, <1>4, <2>1 DEF InOrder
  <2>2. CASE i \in 1..Len(h) /\ j \notin 1..Len(h)
    <3>1. b \in Content(h) /\ c \in Content(m) /\ i # j
      BY <1>1, <1>3, <2>2
    <3> QED BY <1>4, <3>1 DEF Precedes
  <2>3. CASE i \notin 1..Len(h) /\ j \in 1..Len(h)
    <3>1. ~(i < j) /\ i # j
      BY <1>1, <2>3
    <3> QED BY <3>1
  <2>4. CASE i \notin 1..Len(h) /\ j \notin 1..Len(h)
    <3>1. /\ i - Len(h) \in 1..Len(m) /\ j - Len(h) \in 1..Len(m)
          /\ b \in m[i - Len(h)] /\ c \in m[j - Len(h)]
          /\ (i < j => i - Len(h) < j - Len(h)) /\ (i = j => i - Len(h) = j - Len(h))
      BY <1>1, <2>4
    <3> QED BY <1>4, <3>1 DEF InOrder
  <2> QED BY <2>1, <2>2, <2>3, <2>4
<1> QED BY <1>1, <1>2, <1>4 DEF InOrder

LEMMA PlainIs ==
    ASSUME NEW a, NEW s \in Seq(AudioByte), Stretch(s, a)
    PROVE  Plain(s) \in Sent /\ InOrder(Plain(s)) /\ Content(Plain(s)) = Range(s)
<1>1. /\ Len(s) \in Nat /\ DOMAIN s = 1..Len(s)
      /\ \A i \in 1..Len(s) : s[i] \in AudioByte
  BY RangeIs
<1>2. Plain(s) = [i \in 1..Len(s) |-> {s[i]}]
  BY <1>1 DEF Plain
<1>3. Plain(s) \in Sent /\ Len(Plain(s)) = Len(s) /\ \A i \in 1..Len(s) : Plain(s)[i] = {s[i]}
  BY <1>1, <1>2 DEF Sent
<1>4. Content(Plain(s)) = Range(s)
  <2>1. Range(Plain(s)) = {{s[i]} : i \in 1..Len(s)} /\ Range(s) = {s[i] : i \in 1..Len(s)}
    BY <1>1, <1>2 DEF Range
  <2> QED BY <2>1 DEF Content
<1>5. InOrder(Plain(s))
  BY <1>1, <1>3 DEF InOrder, Stretch
<1> QED BY <1>3, <1>4, <1>5

LEMMA PlainType ==
    ASSUME NEW s \in Seq(AudioByte)
    PROVE  Plain(s) \in Sent
<1>1. Len(s) \in Nat /\ DOMAIN s = 1..Len(s) /\ \A i \in 1..Len(s) : s[i] \in AudioByte
  BY RangeIs
<1> QED BY <1>1 DEF Plain, Sent

\* As long as the first is not longer than the second.
LEMMA MixType ==
    ASSUME NEW s \in Seq(AudioByte), NEW t \in Seq(AudioByte), Len(s) <= Len(t)
    PROVE  /\ Mix(s, t) \in Sent
           /\ Len(Mix(s, t)) \in 0..Len(s)
           /\ \A i \in 1..Len(Mix(s, t)) : i \in 1..Len(s) /\ i \in 1..Len(t) /\ Mix(s, t)[i] = {s[i], t[i]}
           /\ Len(s) = 2 * (Len(s) \div 2) => Len(Mix(s, t)) = Len(s)
<1> DEFINE n == 2 * (Len(s) \div 2)
<1>1. Len(s) \in Nat /\ Len(t) \in Nat
  OBVIOUS
<1>2. n \in 0..Len(s)
  BY <1>1
<1>3. Mix(s, t) = [i \in 1..n |-> {s[i], t[i]}]
  BY DEF Mix
<1> HIDE DEF n
<1>4. \A i \in 1..n : i \in 1..Len(s) /\ i \in 1..Len(t) /\ s[i] \in AudioByte /\ t[i] \in AudioByte
  BY <1>1, <1>2
<1>5. Mix(s, t) \in Sent /\ Len(Mix(s, t)) = n
  BY <1>2, <1>3, <1>4 DEF Sent
<1>6. \A i \in 1..n : Mix(s, t)[i] = {s[i], t[i]}
  BY <1>3
<1> QED BY <1>2, <1>4, <1>5, <1>6 DEF n

LEMMA MixIs ==
    ASSUME NEW a, NEW b, a # b, NEW s \in Seq(AudioByte), NEW t \in Seq(AudioByte),
           Stretch(s, a), Stretch(t, b), Len(s) <= Len(t)
    PROVE  /\ Mix(s, t) \in Sent /\ InOrder(Mix(s, t))
           /\ Content(Mix(s, t)) \subseteq Range(s) \cup Range(t)
           /\ Len(s) = Len(t) /\ Len(s) = 2 * (Len(s) \div 2) =>
                 Content(Mix(s, t)) = Range(s) \cup Range(t)
<1> DEFINE m == Mix(s, t)
<1>1. /\ m \in Sent /\ Len(m) \in Nat
      /\ \A i \in 1..Len(m) : i \in 1..Len(s) /\ i \in 1..Len(t) /\ m[i] = {s[i], t[i]}
      /\ Len(s) = 2 * (Len(s) \div 2) => Len(m) = Len(s)
  BY MixType
<1> HIDE DEF m
<1>2. /\ \A i \in 1..Len(s) : s[i] \in Range(s) /\ s[i] \in AudioByte
      /\ \A i \in 1..Len(t) : t[i] \in Range(t) /\ t[i] \in AudioByte
      /\ \A x \in Range(s) : \E i \in 1..Len(s) : x = s[i]
      /\ \A x \in Range(t) : \E i \in 1..Len(t) : x = t[i]
  BY RangeIs
<1>3. /\ \A i \in 1..Len(m) : m[i] \subseteq Content(m)
      /\ \A x \in Content(m) : \E i \in 1..Len(m) : x \in m[i]
  BY <1>1, ContentIs
<1>4. Content(m) \subseteq Range(s) \cup Range(t)
  <2>1. ASSUME NEW x \in Content(m) PROVE x \in Range(s) \cup Range(t)
    <3>1. PICK i \in 1..Len(m) : x \in m[i]
      BY <1>3
    <3>2. i \in 1..Len(s) /\ i \in 1..Len(t) /\ (x = s[i] \/ x = t[i])
      BY <1>1, <3>1
    <3> QED BY <1>2, <3>2
  <2> QED BY <2>1
<1>5. ASSUME Len(m) = Len(s), Len(s) = Len(t)
      PROVE  Range(s) \cup Range(t) \subseteq Content(m)
  <2>1. \A i \in 1..Len(m) : s[i] \in Content(m) /\ t[i] \in Content(m)
    BY <1>1, <1>3
  <2> QED BY <1>2, <1>5, <2>1
<1>6. InOrder(m)
  <2> SUFFICES ASSUME NEW i \in 1..Len(m), NEW j \in 1..Len(m),
                      NEW x \in m[i], NEW y \in m[j], x.ask = y.ask
               PROVE  (i < j => x.byte < y.byte) /\ (i = j => x = y)
    BY DEF InOrder
  <2>1. /\ i \in 1..Len(s) /\ i \in 1..Len(t) /\ j \in 1..Len(s) /\ j \in 1..Len(t)
        /\ x = s[i] \/ x = t[i]
        /\ y = s[j] \/ y = t[j]
    BY <1>1
  <2>2. s[i].ask = a /\ s[j].ask = a /\ t[i].ask = b /\ t[j].ask = b
    BY <2>1 DEF Stretch
  <2>3. (x = s[i] /\ y = s[j]) \/ (x = t[i] /\ y = t[j])
    BY <2>1, <2>2
  <2> QED BY <2>1, <2>3 DEF Stretch
<1> QED BY <1>1, <1>4, <1>5, <1>6 DEF m

\* The first n bytes and the others.
LEMMA KeepPast ==
    ASSUME NEW a, NEW s \in Seq(AudioByte), NEW n \in 0..Len(s)
    PROVE  /\ Keep(s, n) \in Seq(AudioByte) /\ Len(Keep(s, n)) = n
           /\ Past(s, n) \in Seq(AudioByte) /\ Len(Past(s, n)) = Len(s) - n
           /\ Range(s) = Range(Keep(s, n)) \cup Range(Past(s, n))
           /\ Stretch(s, a) => /\ Stretch(Keep(s, n), a) /\ Stretch(Past(s, n), a)
                              /\ Precedes(Range(Keep(s, n)), Range(Past(s, n)))
<1> DEFINE k == Keep(s, n)
           p == Past(s, n)
<1>1. Len(s) \in Nat /\ n \in Nat /\ n <= Len(s)
  OBVIOUS
<1>2. /\ k \in Seq(AudioByte) /\ Len(k) = n
      /\ \A i \in 1..n : i \in 1..Len(s) /\ k[i] = s[i]
  BY <1>1 DEF Keep
<1>3. /\ p \in Seq(AudioByte) /\ Len(p) = Len(s) - n
      /\ \A i \in 1..(Len(s) - n) : n + i \in 1..Len(s) /\ p[i] = s[n + i]
  BY <1>1 DEF Past
<1> HIDE DEF k, p
<1>4. /\ \A x \in Range(k) : \E i \in 1..n : x = k[i]
      /\ \A x \in Range(p) : \E i \in 1..(Len(s) - n) : x = p[i]
      /\ \A x \in Range(s) : \E i \in 1..Len(s) : x = s[i]
      /\ \A i \in 1..n : k[i] \in Range(k)
      /\ \A i \in 1..(Len(s) - n) : p[i] \in Range(p)
      /\ \A i \in 1..Len(s) : s[i] \in Range(s)
  <2>1. /\ \A x \in Range(k) : \E i \in 1..Len(k) : x = k[i]
        /\ \A i \in 1..Len(k) : k[i] \in Range(k)
    BY <1>2, RangeIs
  <2>2. /\ \A x \in Range(p) : \E i \in 1..Len(p) : x = p[i]
        /\ \A i \in 1..Len(p) : p[i] \in Range(p)
    BY <1>3, RangeIs
  <2>3. /\ \A x \in Range(s) : \E i \in 1..Len(s) : x = s[i]
        /\ \A i \in 1..Len(s) : s[i] \in Range(s)
    BY RangeIs
  <2> QED BY <1>2, <1>3, <2>1, <2>2, <2>3
<1>5. Range(s) \subseteq Range(k) \cup Range(p)
  <2> SUFFICES ASSUME NEW i \in 1..Len(s) PROVE s[i] \in Range(k) \cup Range(p)
    BY <1>4
  <2>1. CASE i <= n
    <3>1. i \in 1..n
      BY <1>1, <2>1
    <3> QED BY <1>2, <1>4, <3>1
  <2>2. CASE ~(i <= n)
    <3>1. i - n \in 1..(Len(s) - n) /\ n + (i - n) = i
      BY <1>1, <2>2
    <3> QED BY <1>3, <1>4, <3>1
  <2> QED BY <2>1, <2>2
<1>6. Range(k) \cup Range(p) \subseteq Range(s)
  <2>1. ASSUME NEW x \in Range(k) PROVE x \in Range(s)
    <3>1. PICK i \in 1..n : x = k[i]
      BY <1>4
    <3> QED BY <1>2, <1>4, <3>1
  <2>2. ASSUME NEW x \in Range(p) PROVE x \in Range(s)
    <3>1. PICK i \in 1..(Len(s) - n) : x = p[i]
      BY <1>4
    <3> QED BY <1>3, <1>4, <3>1
  <2> QED BY <2>1, <2>2
<1>7. ASSUME Stretch(s, a)
      PROVE  Stretch(k, a) /\ Stretch(p, a) /\ Precedes(Range(k), Range(p))
  <2>1. /\ \A i \in 1..Len(s) : s[i].ask = a
        /\ \A i, j \in 1..Len(s) : i < j => s[i].byte < s[j].byte
    BY <1>7 DEF Stretch
  <2>2. Stretch(k, a)
    BY <1>2, <2>1 DEF Stretch
  <2>3. Stretch(p, a)
    <3>1. \A i, j \in 1..(Len(s) - n) : i < j => n + i < n + j
      BY <1>1
    <3> QED BY <1>3, <2>1, <3>1 DEF Stretch
  <2>4. \A i \in 1..n, j \in 1..(Len(s) - n) : k[i].byte < p[j].byte
    <3>1. \A i \in 1..n, j \in 1..(Len(s) - n) : i < n + j
      BY <1>1
    <3> QED BY <1>2, <1>3, <2>1, <3>1
  <2>5. Precedes(Range(k), Range(p))
    BY <1>4, <2>4 DEF Precedes
  <2> QED BY <2>2, <2>3, <2>5
<1>8. Range(s) = Range(k) \cup Range(p)
  BY <1>5, <1>6
<1> QED BY <1>2, <1>3, <1>7, <1>8 DEF k, p

LEMMA StretchConcat ==
    ASSUME NEW a, NEW s \in Seq(AudioByte), NEW t \in Seq(AudioByte),
           Stretch(s, a), Stretch(t, a), Precedes(Range(s), Range(t))
    PROVE  /\ s \o t \in Seq(AudioByte) /\ Stretch(s \o t, a)
           /\ Range(s \o t) = Range(s) \cup Range(t)
           /\ Len(s \o t) = Len(s) + Len(t)
<1>1. /\ s \o t \in Seq(AudioByte) /\ Len(s) \in Nat /\ Len(t) \in Nat
      /\ Len(s \o t) = Len(s) + Len(t)
      /\ \A i \in 1..Len(s) : (s \o t)[i] = s[i]
      /\ \A i \in 1..(Len(s) + Len(t)) : i \notin 1..Len(s) =>
            i - Len(s) \in 1..Len(t) /\ (s \o t)[i] = t[i - Len(s)]
  BY ConcatIs
<1>2. Range(s \o t) = Range(s) \cup Range(t)
  BY RangeConcat
<1>3. /\ \A i \in 1..Len(s) : s[i] \in Range(s)
      /\ \A i \in 1..Len(t) : t[i] \in Range(t)
  BY RangeIs
<1>4. /\ \A i \in 1..Len(s) : s[i].ask = a
      /\ \A i \in 1..Len(t) : t[i].ask = a
      /\ \A i, j \in 1..Len(s) : i < j => s[i].byte < s[j].byte
      /\ \A i, j \in 1..Len(t) : i < j => t[i].byte < t[j].byte
  BY DEF Stretch
<1>5. \A i \in 1..Len(s), j \in 1..Len(t) : s[i].byte < t[j].byte
  BY <1>3, <1>4 DEF Precedes
<1> DEFINE st == s \o t
<1> HIDE DEF st
<1>6. /\ Len(st) = Len(s) + Len(t)
      /\ \A i \in 1..Len(s) : st[i] = s[i]
      /\ \A i \in 1..(Len(s) + Len(t)) : i \notin 1..Len(s) =>
            i - Len(s) \in 1..Len(t) /\ st[i] = t[i - Len(s)]
  BY <1>1 DEF st
<1>7. \A i \in 1..Len(st) : st[i].ask = a
  BY <1>4, <1>6
<1>8. ASSUME NEW i \in 1..Len(st), NEW j \in 1..Len(st), i < j PROVE st[i].byte < st[j].byte
  <2>1. CASE j \in 1..Len(s)
    <3>1. i \in 1..Len(s)
      BY <1>1, <1>8, <2>1
    <3> QED BY <1>4, <1>6, <1>8, <2>1, <3>1
  <2>2. CASE i \in 1..Len(s) /\ j \notin 1..Len(s)
    BY <1>5, <1>6, <2>2
  <2>3. CASE i \notin 1..Len(s) /\ j \notin 1..Len(s)
    <3>1. i - Len(s) < j - Len(s)
      BY <1>1, <1>6, <1>8
    <3> QED BY <1>4, <1>6, <2>3, <3>1
  <2>4. CASE i \notin 1..Len(s) /\ j \in 1..Len(s)
    BY <1>1, <1>6, <1>8, <2>4
  <2> QED BY <2>1, <2>2, <2>3, <2>4
<1>9. Stretch(st, a)
  BY <1>7, <1>8 DEF Stretch
<1> QED BY <1>1, <1>2, <1>9 DEF st

(***************************************************************************)
(* The operations.                                                         *)
(***************************************************************************)

LEMMA FaderIs ==
    ASSUME NEW f \in Faders
    PROVE  /\ f.tail \in Seq(AudioByte) /\ f.head \in Seq(AudioByte) /\ f.hold \in Seq(AudioByte)
           /\ Len(f.tail) \in 0..Fade /\ Len(f.head) \in 0..(Fade - 1) /\ Len(f.hold) \in 0..Fade
           /\ f.done \in BOOLEAN /\ f.asserted \in BOOLEAN
           /\ Held(f) \subseteq AudioByte
           /\ \A i \in 1..Len(f.tail) : f.tail[i] \in AudioByte
<1>1. /\ f.tail \in Seq(AudioByte) /\ f.head \in Seq(AudioByte) /\ f.hold \in Seq(AudioByte)
      /\ f.done \in BOOLEAN /\ f.asserted \in BOOLEAN
      /\ Len(f.tail) <= Fade /\ Len(f.head) < Fade /\ Len(f.hold) <= Fade
  BY DEF Faders, FaderRecords
<1>2. /\ Len(f.tail) \in Nat /\ Len(f.head) \in Nat /\ Len(f.hold) \in Nat
      /\ Range(f.tail) \subseteq AudioByte /\ Range(f.head) \subseteq AudioByte
      /\ Range(f.hold) \subseteq AudioByte
      /\ \A i \in 1..Len(f.tail) : f.tail[i] \in AudioByte
  BY <1>1, RangeIs
<1> QED BY <1>1, <1>2, FadeIs DEF Held

LEMMA LesserIs ==
    ASSUME NEW m \in Nat, NEW n \in Nat
    PROVE  /\ Lesser(m, n) \in Nat /\ Lesser(m, n) <= m /\ Lesser(m, n) <= n
           /\ Lesser(m, n) = m \/ Lesser(m, n) = n
BY DEF Lesser

LEMMA NewFaderIs == NewFader \in Faders /\ Held(NewFader) = {}
<1>1. Len(<<>>) = 0 /\ <<>> \in Seq(AudioByte)
  OBVIOUS
<1>2. NewFader \in Faders
  BY <1>1, FadeIs DEF NewFader, Faders, FaderRecords
<1> QED BY <1>2, RangeEmpty DEF NewFader, Held

LEMMA BeginType ==
    ASSUME NEW f \in Faders
    PROVE  /\ BeginSentence(f) \in Faders
           /\ BeginSentence(f).tail = f.tail /\ BeginSentence(f).head = <<>>
           /\ BeginSentence(f).hold = <<>> /\ (BeginSentence(f).done <=> f.tail = <<>>)
<1>1. Len(<<>>) = 0 /\ <<>> \in Seq(AudioByte)
  OBVIOUS
<1> DEFINE done == (f.tail = <<>>)
<1>2. done \in BOOLEAN /\ BeginSentence(f) = [f EXCEPT !.head = <<>>, !.hold = <<>>, !.done = done]
  BY DEF BeginSentence
<1>3. done <=> f.tail = <<>>
  OBVIOUS
<1> HIDE DEF done
<1> DEFINE b == BeginSentence(f)
<1>4. f \in FaderRecords /\ Len(f.tail) <= Fade
  BY DEF Faders
<1>5. b \in FaderRecords /\ b.tail = f.tail /\ b.head = <<>> /\ b.hold = <<>> /\ b.done = done
  BY <1>1, <1>2, <1>4 DEF FaderRecords
<1> HIDE DEF b
<1>6. b \in Faders
  BY <1>1, <1>4, <1>5, FadeIs DEF Faders
<1> QED BY <1>3, <1>5, <1>6 DEF b

\* The last Fade bytes of what was held and what came stay behind.
LEMMA RollType ==
    ASSUME NEW f \in Faders, NEW bytes \in Seq(AudioByte)
    PROVE  LET held == f.hold \o bytes
               r == Roll(f, bytes)
           IN  \E n \in 0..Len(held) :
                  /\ r.sent = Plain(Keep(held, n))
                  /\ r.fader = [f EXCEPT !.hold = Past(held, n)]
                  /\ r.fader \in Faders /\ r.sent \in Sent
                  /\ Len(held) - n = Lesser(Fade, Len(f.hold) + Len(bytes))
<1> DEFINE held == f.hold \o bytes
           n == IF Len(held) > Fade THEN Len(held) - Fade ELSE 0
           r == Roll(f, bytes)
<1>1. /\ f.hold \in Seq(AudioByte) /\ Len(f.hold) \in Nat /\ Fade \in Nat
      /\ held \in Seq(AudioByte) /\ Len(held) = Len(f.hold) + Len(bytes) /\ Len(held) \in Nat
  BY FaderIs, FadeIs, ConcatIs
<1>2. r.sent = Plain(Keep(held, n)) /\ r.fader = [f EXCEPT !.hold = Past(held, n)]
  BY DEF Roll
<1> HIDE DEF r
<1>3. n \in 0..Len(held) /\ Len(held) - n = Lesser(Fade, Len(held)) /\ Len(held) - n <= Fade
  BY <1>1 DEF Lesser
<1> HIDE DEF n, held
<1>4. Past(held, n) \in Seq(AudioByte) /\ Keep(held, n) \in Seq(AudioByte) /\ Len(Past(held, n)) <= Fade
  BY <1>1, <1>3, KeepPast
<1>5. r.fader \in Faders
  BY <1>2, <1>4 DEF Faders, FaderRecords
<1>6. r.sent \in Sent
  BY <1>2, <1>4, PlainType
<1> QED BY <1>1, <1>2, <1>3, <1>5, <1>6 DEF held, r

\* The part of feed() that fills the head, of which take bytes are missing.
Filled(f, bytes) ==
    LET take == Lesser(Fade - Len(f.head), Len(bytes))
    IN  [head |-> f.head \o Keep(bytes, take), rest |-> Past(bytes, take), take |-> take]

Mixed(f) == [f EXCEPT !.tail = <<>>, !.head = <<>>, !.done = TRUE,
                      !.asserted = @ /\ Len(f.tail) = Fade]

LEMMA MixedIs ==
    ASSUME NEW f \in Faders
    PROVE  /\ Mixed(f) \in Faders
           /\ Mixed(f).tail = <<>> /\ Mixed(f).head = <<>> /\ Mixed(f).hold = f.hold
           /\ Mixed(f).done
<1>1. Len(<<>>) = 0 /\ <<>> \in Seq(AudioByte)
  OBVIOUS
<1> DEFINE asserted == f.asserted /\ Len(f.tail) = Fade
<1>2. asserted \in BOOLEAN
  BY FaderIs
<1>3. Mixed(f) = [f EXCEPT !.tail = <<>>, !.head = <<>>, !.done = TRUE, !.asserted = asserted]
  BY DEF Mixed
<1> HIDE DEF asserted
<1> DEFINE m == Mixed(f)
<1>4. f \in FaderRecords /\ Len(f.hold) <= Fade
  BY DEF Faders
<1>5. m \in FaderRecords /\ m.tail = <<>> /\ m.head = <<>> /\ m.hold = f.hold /\ m.done
  BY <1>1, <1>2, <1>3, <1>4 DEF FaderRecords
<1> HIDE DEF m
<1>6. m \in Faders
  BY <1>1, <1>4, <1>5, FadeIs DEF Faders
<1> QED BY <1>5, <1>6 DEF m

\* What feed() comes to, by how much of the head is there.
Fed(f, head, rest, r) ==
    \/ Len(head) < Fade /\ r = [fader |-> [f EXCEPT !.head = head], sent |-> <<>>]
    \/ /\ Len(head) = Fade
       /\ r.fader = Roll(Mixed(f), rest).fader
       /\ r.sent = Mix(f.tail, head) \o Roll(Mixed(f), rest).sent

LEMMA FeedCases ==
    ASSUME NEW f \in Faders, NEW bytes \in Seq(AudioByte)
    PROVE  LET r == Feed(f, bytes)
               filled == Filled(f, bytes)
           IN  /\ filled.head \in Seq(AudioByte) /\ filled.rest \in Seq(AudioByte)
               /\ filled.take \in 0..Len(bytes)
               /\ Len(filled.head) = Len(f.head) + filled.take
               /\ Len(filled.head) <= Fade
               /\ Len(filled.head) # Fade => filled.take = Len(bytes)
               /\ Mixed(f) \in Faders
               /\ f.done => r = Roll(f, bytes)
               /\ ~f.done => Fed(f, filled.head, filled.rest, r)
<1> DEFINE take == Lesser(Fade - Len(f.head), Len(bytes))
           head == f.head \o Keep(bytes, take)
           rest == Past(bytes, take)
           r == Feed(f, bytes)
<1>1. /\ f.head \in Seq(AudioByte) /\ Len(f.head) \in 0..(Fade - 1) /\ Fade \in Nat /\ Len(bytes) \in Nat
  BY FaderIs, FadeIs
<1>2. take \in 0..Len(bytes) /\ Len(f.head) + take <= Fade /\ (Len(f.head) + take # Fade => take = Len(bytes))
  <2> DEFINE n == Len(f.head)
             l == Len(bytes)
  <2> HIDE DEF n, l
  <2>1. n \in Nat /\ l \in Nat /\ Fade \in Nat /\ Fade - n \in Nat
    BY <1>1 DEF n, l
  <2>2. take = Lesser(Fade - n, l)
    BY DEF n, l
  <2> HIDE DEF take
  <2>3. take \in Nat /\ take <= Fade - n /\ take <= l /\ (take = Fade - n \/ take = l)
    BY <2>1, <2>2, LesserIs
  <2>4. take \in 0..l /\ n + take <= Fade /\ (n + take # Fade => take = l)
    BY <2>1, <2>3
  <2> QED BY <2>4 DEF n, l
<1>3. Filled(f, bytes) = [head |-> head, rest |-> rest, take |-> take]
  BY DEF Filled
<1>r. \/ f.done /\ r = Roll(f, bytes)
      \/ ~f.done /\ Len(head) < Fade /\ r = [fader |-> [f EXCEPT !.head = head], sent |-> <<>>]
      \/ ~f.done /\ ~(Len(head) < Fade)
         /\ r = [Roll(Mixed(f), rest) EXCEPT !.sent = Mix(f.tail, head) \o @]
  BY DEF Feed, Mixed
<1> HIDE DEF take, r
<1>4. Keep(bytes, take) \in Seq(AudioByte) /\ rest \in Seq(AudioByte) /\ Len(Keep(bytes, take)) = take
  BY <1>2, KeepPast
<1>5. head \in Seq(AudioByte) /\ Len(head) = Len(f.head) + take
  <2> DEFINE k == Keep(bytes, take)
  <2>1. k \in Seq(AudioByte) /\ Len(k) = take
    BY <1>4
  <2> HIDE DEF k
  <2>2. f.head \o k \in Seq(AudioByte) /\ Len(f.head \o k) = Len(f.head) + Len(k)
    BY <1>1, <2>1, ConcatIs, ZenonT(60)
  <2> QED BY <2>1, <2>2 DEF k
<1>6. Mixed(f) \in Faders
  BY MixedIs
<1> HIDE DEF head, rest
<1>7. ASSUME ~f.done, ~(Len(head) < Fade)
      PROVE  /\ ~f.done /\ Len(head) = Fade
             /\ r.fader = Roll(Mixed(f), rest).fader
             /\ r.sent = Mix(f.tail, head) \o Roll(Mixed(f), rest).sent
  <2>1. r = [Roll(Mixed(f), rest) EXCEPT !.sent = Mix(f.tail, head) \o @]
    BY <1>7, <1>r
  <2>2. \E a, b : Roll(Mixed(f), rest) = [fader |-> a, sent |-> b]
    BY DEF Roll
  <2>3. /\ r.fader = Roll(Mixed(f), rest).fader
        /\ r.sent = Mix(f.tail, head) \o Roll(Mixed(f), rest).sent
    BY <2>1, <2>2
  <2>4. Len(head) = Fade
    BY <1>1, <1>2, <1>5, <1>7
  <2> QED BY <1>7, <2>3, <2>4
<1>8. f.done => r = Roll(f, bytes)
  BY <1>r
<1>9. ~f.done => Fed(f, head, rest, r)
  BY <1>7, <1>r DEF Fed
<1>10. Len(head) <= Fade /\ (Len(head) # Fade => take = Len(bytes))
  BY <1>2, <1>5
<1> DEFINE filled == Filled(f, bytes)
<1>11. filled.head = head /\ filled.rest = rest /\ filled.take = take
  BY <1>3
<1> HIDE DEF filled
<1>12. ~f.done => Fed(f, filled.head, filled.rest, r)
  BY <1>9, <1>11
<1> QED BY <1>2, <1>4, <1>5, <1>6, <1>8, <1>10, <1>11, <1>12 DEF r, filled

LEMMA FeedType ==
    ASSUME NEW f \in Faders, NEW bytes \in Seq(AudioByte)
    PROVE  Feed(f, bytes).fader \in Faders /\ Feed(f, bytes).sent \in Sent
<1> DEFINE r == Feed(f, bytes)
           filled == Filled(f, bytes)
<1>1. /\ filled.head \in Seq(AudioByte) /\ filled.rest \in Seq(AudioByte)
      /\ Len(filled.head) <= Fade
      /\ Mixed(f) \in Faders
      /\ f.done => r = Roll(f, bytes)
      /\ ~f.done => Fed(f, filled.head, filled.rest, r)
  BY FeedCases
<1> HIDE DEF r, filled
<1>2. CASE r = Roll(f, bytes)
  BY <1>2, RollType DEF r
<1>3. CASE Len(filled.head) < Fade /\ r = [fader |-> [f EXCEPT !.head = filled.head], sent |-> <<>>]
  <2>1. r.fader \in Faders
    BY <1>1, <1>3 DEF Faders, FaderRecords
  <2> QED BY <1>3, <2>1, NothingSent DEF r
<1>4. CASE /\ Len(filled.head) = Fade
           /\ r.fader = Roll(Mixed(f), filled.rest).fader
           /\ r.sent = Mix(f.tail, filled.head) \o Roll(Mixed(f), filled.rest).sent
  <2>1. Roll(Mixed(f), filled.rest).fader \in Faders /\ Roll(Mixed(f), filled.rest).sent \in Sent
    BY <1>1, RollType
  <2>2. f.tail \in Seq(AudioByte) /\ Len(f.tail) <= Len(filled.head)
    BY <1>4, FaderIs
  <2>3. Mix(f.tail, filled.head) \in Sent
    BY <1>1, <2>2, MixType
  <2>4. r.sent \in Sent
    BY <1>4, <2>1, <2>3, ConcatIs DEF Sent
  <2> QED BY <1>4, <2>1, <2>4 DEF r
<1> QED BY <1>1, <1>2, <1>3, <1>4 DEF Fed

LEMMA NoBytes ==
    /\ <<>> \in Seq(AudioByte) /\ Len(<<>>) = 0 /\ Range(<<>>) = {}
    /\ \A a : Stretch(<<>>, a)
    /\ \A A : Precedes({}, A) /\ Precedes(A, {})
    /\ \A s \in Seq(AudioByte) : <<>> \o s = s /\ s \o <<>> = s
BY RangeEmpty DEF Stretch, Precedes

LEMMA RollPasses ==
    ASSUME NEW a, NEW f \in Faders, NEW bytes \in Seq(AudioByte),
           f.tail = <<>>, f.head = <<>>,
           Stretch(f.hold, a), Stretch(bytes, a), Precedes(Range(f.hold), Range(bytes))
    PROVE  LET r == Roll(f, bytes)
           IN  /\ Passes(f, Range(bytes), r) /\ Keeps(f, Range(bytes), r)
               /\ r.fader.tail = <<>> /\ r.fader.head = <<>> /\ (f.done => r.fader.done)
               /\ Stretch(r.fader.hold, a)
               /\ Len(r.fader.hold) = Lesser(Fade, Len(f.hold) + Len(bytes))
<1> DEFINE held == f.hold \o bytes
           r == Roll(f, bytes)
<1>1. PICK n \in 0..Len(held) :
         /\ r.sent = Plain(Keep(held, n))
         /\ r.fader = [f EXCEPT !.hold = Past(held, n)]
         /\ r.fader \in Faders /\ r.sent \in Sent
         /\ Len(held) - n = Lesser(Fade, Len(f.hold) + Len(bytes))
  BY RollType
<1> HIDE DEF r
<1>2. f.hold \in Seq(AudioByte) /\ f \in FaderRecords
  BY FaderIs DEF Faders
<1>3. held \in Seq(AudioByte) /\ Stretch(held, a) /\ Range(held) = Range(f.hold) \cup Range(bytes)
  BY <1>2, StretchConcat
<1> HIDE DEF held
<1>4. /\ Keep(held, n) \in Seq(AudioByte) /\ Past(held, n) \in Seq(AudioByte)
      /\ Len(Past(held, n)) = Len(held) - n
      /\ Range(held) = Range(Keep(held, n)) \cup Range(Past(held, n))
      /\ Stretch(Keep(held, n), a) /\ Stretch(Past(held, n), a)
      /\ Precedes(Range(Keep(held, n)), Range(Past(held, n)))
  BY <1>3, KeepPast
<1>5. r.fader.tail = <<>> /\ r.fader.head = <<>> /\ (f.done => r.fader.done) /\ r.fader.hold = Past(held, n)
  BY <1>1, <1>2 DEF FaderRecords
<1>6. InOrder(r.sent) /\ Content(r.sent) = Range(Keep(held, n))
  BY <1>1, <1>4, PlainIs
<1>7. Held(r.fader) = Range(Past(held, n)) /\ Held(f) = Range(f.hold)
  BY <1>5, RangeEmpty DEF Held
<1>8. Passes(f, Range(bytes), r) /\ Keeps(f, Range(bytes), r)
  BY <1>1, <1>3, <1>4, <1>6, <1>7 DEF Passes, Keeps
<1>9. Stretch(r.fader.hold, a) /\ Len(r.fader.hold) = Lesser(Fade, Len(f.hold) + Len(bytes))
  BY <1>1, <1>4, <1>5
<1> QED BY <1>5, <1>8, <1>9 DEF r

\* feed() in the middle of a sentence.
LEMMA FeedDone ==
    ASSUME NEW a, NEW n \in Nat, NEW f \in Faders, NEW bytes \in Seq(AudioByte),
           Playing(f, a, n), f.done, Stretch(bytes, a),
           \A b \in Range(bytes) : b.byte \in (n + 1)..(n + Len(bytes))
    PROVE  LET r == Feed(f, bytes)
           IN  /\ Passes(f, Range(bytes), r) /\ Keeps(f, Range(bytes), r)
               /\ Playing(r.fader, a, n + Len(bytes)) /\ r.fader.done
<1> DEFINE r == Feed(f, bytes)
<1>1. r = Roll(f, bytes)
  BY FeedCases
<1>2. /\ f.tail = <<>> /\ f.head = <<>> /\ Stretch(f.hold, a)
      /\ Len(f.hold) = Fade \/ n <= Len(f.hold) + Fade
      /\ \A b \in Held(f) : b.ask = a => b.byte <= n
  BY DEF Playing
<1>3. Len(f.hold) \in Nat /\ Len(bytes) \in Nat /\ Fade \in Nat /\ Range(bytes) \subseteq AudioByte
      /\ Held(f) \subseteq AudioByte /\ Range(f.hold) \subseteq Held(f)
  BY FaderIs, FadeIs, RangeIs DEF Held
<1>4. Precedes(Range(f.hold), Range(bytes))
  <2> SUFFICES ASSUME NEW b \in Range(f.hold), NEW c \in Range(bytes), b.ask = c.ask
               PROVE  b.byte < c.byte
    BY DEF Precedes
  <2>1. c.ask = a
    <3>1. \E i \in 1..Len(bytes) : c = bytes[i]
      BY RangeIs
    <3> QED BY <3>1 DEF Stretch
  <2>2. b.byte <= n /\ c.byte >= n + 1 /\ b.byte \in Nat /\ c.byte \in Nat
    BY <1>2, <1>3, <2>1 DEF AudioByte
  <2> QED BY <2>2
<1> HIDE DEF r
<1>5. /\ Passes(f, Range(bytes), r) /\ Keeps(f, Range(bytes), r)
      /\ r.fader.tail = <<>> /\ r.fader.head = <<>> /\ r.fader.done
      /\ Stretch(r.fader.hold, a)
      /\ Len(r.fader.hold) = Lesser(Fade, Len(f.hold) + Len(bytes))
  BY <1>1, <1>2, <1>4, RollPasses
<1>6. Len(r.fader.hold) = Fade \/ n + Len(bytes) <= Len(r.fader.hold) + Fade
  <2>1. Fade \in Nat /\ Len(f.hold) + Len(bytes) \in Nat
    BY <1>3
  <2>2. /\ Lesser(Fade, Len(f.hold) + Len(bytes)) <= Fade
        /\ \/ Lesser(Fade, Len(f.hold) + Len(bytes)) = Fade
           \/ Lesser(Fade, Len(f.hold) + Len(bytes)) = Len(f.hold) + Len(bytes)
    BY <2>1, LesserIs
  <2> DEFINE h == Len(f.hold)
             l == Len(bytes)
             g == Len(r.fader.hold)
  <2>3. /\ h \in Nat /\ l \in Nat /\ Fade \in Nat
        /\ h = Fade \/ n <= h + Fade
        /\ g = Fade \/ g = h + l
        /\ g <= Fade
    BY <1>2, <1>3, <1>5, <2>2
  <2> HIDE DEF h, l, g
  <2>4. g = Fade \/ n + l <= g + Fade
    BY <2>3
  <2> QED BY <2>4 DEF g, l
<1>7. ASSUME NEW b \in Held(r.fader), b.ask = a PROVE b.byte <= n + Len(bytes)
  <2>1. b \in Held(f) \/ b \in Range(bytes)
    BY <1>5 DEF Passes
  <2>2. CASE b \in Held(f)
    <3>1. b.byte <= n /\ b.byte \in Nat
      BY <1>2, <1>3, <1>7, <2>2 DEF AudioByte
    <3> QED BY <1>3, <3>1
  <2> QED BY <1>3, <2>1, <2>2
<1> QED BY <1>5, <1>6, <1>7 DEF Playing, r

\* The head is not full yet.
LEMMA FeedHead ==
    ASSUME NEW a, NEW n \in Nat, NEW f \in Faders, NEW bytes \in Seq(AudioByte),
           Playing(f, a, n), ~f.done, Stretch(bytes, a),
           \A b \in Range(bytes) : b.byte \in (n + 1)..(n + Len(bytes)),
           Len(Filled(f, bytes).head) # Fade
    PROVE  LET r == Feed(f, bytes)
           IN  /\ Passes(f, Range(bytes), r) /\ Keeps(f, Range(bytes), r)
               /\ Playing(r.fader, a, n + Len(bytes)) /\ r.fader.tail = f.tail
<1> DEFINE r == Feed(f, bytes)
           filled == Filled(f, bytes)
           keep == Keep(bytes, filled.take)
<1>1. /\ filled.head \in Seq(AudioByte) /\ filled.take \in 0..Len(bytes)
      /\ Len(filled.head) = Len(f.head) + filled.take
      /\ filled.take = Len(bytes)
      /\ r = [fader |-> [f EXCEPT !.head = filled.head], sent |-> <<>>]
  BY FeedCases DEF Fed
<1>2. filled.head = f.head \o keep /\ filled.take \in 0..Len(bytes)
  BY <1>1 DEF Filled
<1> HIDE DEF r, filled
<1>3. /\ f.hold = <<>> /\ Stretch(f.head, a) /\ Len(f.head) = n
      /\ \E c \in Nat : c < a /\ Stretch(f.tail, c)
      /\ \A b \in Held(f) : b.ask = a => b.byte <= n
  BY DEF Playing
<1>4. /\ f.head \in Seq(AudioByte) /\ f \in FaderRecords
      /\ Len(bytes) \in Nat /\ Fade \in Nat
      /\ Range(bytes) \subseteq AudioByte
      /\ Held(f) \subseteq AudioByte /\ Range(f.head) \subseteq Held(f)
  BY FaderIs, FadeIs, RangeIs DEF Held, Faders
<1>5. /\ keep \in Seq(AudioByte) /\ Stretch(keep, a) /\ Range(keep) = Range(bytes)
  <2>1. /\ keep \in Seq(AudioByte) /\ Stretch(keep, a)
        /\ Range(bytes) = Range(keep) \cup Range(Past(bytes, filled.take))
        /\ Past(bytes, filled.take) \in Seq(AudioByte) /\ Len(Past(bytes, filled.take)) = Len(bytes) - filled.take
    BY <1>2, KeepPast
  <2>2. Past(bytes, filled.take) = <<>>
    BY <1>1, <1>4, <2>1
  <2> QED BY <2>1, <2>2, RangeEmpty
<1> HIDE DEF keep
<1>6. Precedes(Range(f.head), Range(bytes))
  <2> SUFFICES ASSUME NEW b \in Range(f.head), NEW c \in Range(bytes), b.ask = c.ask
               PROVE  b.byte < c.byte
    BY DEF Precedes
  <2>1. c.ask = a
    <3>1. \E i \in 1..Len(bytes) : c = bytes[i]
      BY RangeIs
    <3> QED BY <3>1 DEF Stretch
  <2>2. b.byte <= n /\ c.byte >= n + 1 /\ b.byte \in Nat /\ c.byte \in Nat
    BY <1>3, <1>4, <2>1 DEF AudioByte
  <2> QED BY <2>2
<1>7. /\ Stretch(filled.head, a)
      /\ Range(filled.head) = Range(f.head) \cup Range(bytes)
  BY <1>2, <1>4, <1>5, <1>3, <1>6, StretchConcat
<1>8. Len(filled.head) = n + Len(bytes) /\ Len(filled.head) < Fade
  <2>1. Len(filled.head) <= Fade
    BY FeedCases DEF filled
  <2> QED BY <1>1, <1>3, <1>4, <2>1 DEF filled
<1>9. /\ r.sent = <<>> /\ r.fader.tail = f.tail /\ r.fader.head = filled.head /\ r.fader.hold = f.hold
      /\ ~r.fader.done /\ r.fader \in Faders
  <2>1. /\ r.sent = <<>> /\ r.fader.tail = f.tail /\ r.fader.head = filled.head /\ r.fader.hold = f.hold
        /\ ~r.fader.done
    BY <1>1, <1>4 DEF FaderRecords
  <2>2. r.fader \in Faders
    BY <1>1, <1>8 DEF Faders, FaderRecords
  <2> QED BY <2>1, <2>2
<1>10. Held(r.fader) = Held(f) \cup Range(bytes)
  BY <1>7, <1>9 DEF Held
<1>11. Passes(f, Range(bytes), r) /\ Keeps(f, Range(bytes), r)
  BY <1>9, <1>10, NothingSent, NoBytes DEF Passes, Keeps
<1>12. ASSUME NEW b \in Held(r.fader), b.ask = a PROVE b.byte <= n + Len(bytes)
  <2>1. b \in Held(f) \/ b \in Range(bytes)
    BY <1>10
  <2>2. CASE b \in Held(f)
    <3>1. b.byte <= n /\ b.byte \in Nat
      BY <1>3, <1>4, <1>12, <2>2 DEF AudioByte
    <3> QED BY <1>4, <3>1
  <2> QED BY <1>4, <2>1, <2>2
<1>13. Playing(r.fader, a, n + Len(bytes))
  BY <1>3, <1>7, <1>8, <1>9, <1>12 DEF Playing
<1> QED BY <1>9, <1>11, <1>13 DEF r

\* The head is full: it is mixed, and the rest rolls on.
LEMMA FeedMixes ==
    ASSUME NEW a, NEW n \in Nat, NEW f \in Faders, NEW bytes \in Seq(AudioByte),
           Playing(f, a, n), ~f.done, Stretch(bytes, a),
           \A b \in Range(bytes) : b.byte \in (n + 1)..(n + Len(bytes)),
           Len(Filled(f, bytes).head) = Fade
    PROVE  LET r == Feed(f, bytes)
           IN  /\ Passes(f, Range(bytes), r)
               /\ Len(f.tail) = Fade => Keeps(f, Range(bytes), r)
               /\ Playing(r.fader, a, n + Len(bytes)) /\ r.fader.done
<1> DEFINE r == Feed(f, bytes)
           filled == Filled(f, bytes)
           keep == Keep(bytes, filled.take)
           head == filled.head
           rest == filled.rest
           m == Mixed(f)
           rolled == Roll(m, rest)
           mix == Mix(f.tail, head)
<1>1. /\ head \in Seq(AudioByte) /\ filled.take \in 0..Len(bytes)
      /\ Len(head) = Len(f.head) + filled.take
      /\ r.fader = rolled.fader /\ r.sent = mix \o rolled.sent
  <2>1. ~(Len(filled.head) < Fade)
    BY FadeIs
  <2> QED BY <2>1, FeedCases DEF Fed
<1>2. filled.head = f.head \o keep /\ filled.take \in 0..Len(bytes) /\ rest = Past(bytes, filled.take)
  BY <1>1 DEF Filled
<1>f. Len(head) = Fade
  OBVIOUS
<1> HIDE DEF r, filled
<1>3. /\ f.hold = <<>> /\ Stretch(f.head, a) /\ Len(f.head) = n
      /\ \A b \in Held(f) : b.ask = a => b.byte <= n
  BY DEF Playing
<1>c. PICK c \in Nat : c < a /\ Stretch(f.tail, c)
  BY DEF Playing
<1>4. /\ f.head \in Seq(AudioByte) /\ f.tail \in Seq(AudioByte) /\ Len(f.tail) <= Fade
      /\ Len(bytes) \in Nat /\ Fade \in Nat
      /\ Range(bytes) \subseteq AudioByte
      /\ Held(f) \subseteq AudioByte /\ Held(f) = Range(f.tail) \cup Range(f.head)
  <2>1. f.tail \in Seq(AudioByte) /\ f.head \in Seq(AudioByte) /\ Len(f.tail) <= Fade
        /\ Held(f) \subseteq AudioByte
    BY FaderIs, FadeIs
  <2> QED BY <1>3, <2>1, FadeIs, RangeIs, RangeEmpty DEF Held
<1>5. /\ keep \in Seq(AudioByte) /\ Stretch(keep, a)
      /\ rest \in Seq(AudioByte) /\ Stretch(rest, a) /\ Len(rest) = Len(bytes) - filled.take
      /\ Range(bytes) = Range(keep) \cup Range(rest)
      /\ Precedes(Range(keep), Range(rest))
  <2> DEFINE past == Past(bytes, filled.take)
  <2>1. /\ keep \in Seq(AudioByte) /\ Stretch(keep, a)
        /\ past \in Seq(AudioByte) /\ Stretch(past, a) /\ Len(past) = Len(bytes) - filled.take
        /\ Range(bytes) = Range(keep) \cup Range(past)
        /\ Precedes(Range(keep), Range(past))
    BY <1>2, KeepPast
  <2> HIDE DEF keep
  <2>2. rest = past
    BY <1>2
  <2> HIDE DEF rest, past
  <2> QED BY <2>1, <2>2
<1>6. Precedes(Range(f.head), Range(bytes))
  <2> SUFFICES ASSUME NEW b \in Range(f.head), NEW d \in Range(bytes), b.ask = d.ask
               PROVE  b.byte < d.byte
    BY DEF Precedes
  <2>1. d.ask = a
    <3>1. \E i \in 1..Len(bytes) : d = bytes[i]
      BY RangeIs
    <3> QED BY <3>1 DEF Stretch
  <2>2. b.byte <= n /\ d.byte >= n + 1 /\ b.byte \in Nat /\ d.byte \in Nat
    BY <1>3, <1>4, <2>1 DEF AudioByte
  <2> QED BY <2>2
<1> HIDE DEF keep, rest
<1>7. /\ Stretch(head, a) /\ Range(head) = Range(f.head) \cup Range(keep)
      /\ Precedes(Range(head), Range(rest))
  <2>1. Precedes(Range(f.head), Range(keep)) /\ Precedes(Range(f.head), Range(rest))
    BY <1>5, <1>6 DEF Precedes
  <2>2. Stretch(head, a) /\ Range(head) = Range(f.head) \cup Range(keep)
    BY <1>2, <1>3, <1>4, <1>5, <2>1, StretchConcat
  <2> QED BY <1>5, <2>1, <2>2 DEF Precedes
<1> HIDE DEF head
<1>8. /\ mix \in Sent /\ InOrder(mix)
      /\ Content(mix) \subseteq Range(f.tail) \cup Range(head)
      /\ Len(f.tail) = Fade => Content(mix) = Range(f.tail) \cup Range(head)
  <2>1. c # a
    BY <1>c
  <2>2. Len(f.tail) <= Len(head)
    BY <1>f, <1>4
  <2>3. Len(f.tail) = Fade => Len(f.tail) = Len(head) /\ Len(f.tail) = 2 * (Len(f.tail) \div 2)
    BY <1>f, FadeIs
  <2> QED BY <1>1, <1>4, <1>c, <1>7, <2>1, <2>2, <2>3, MixIs
<1>9. /\ m \in Faders /\ m.tail = <<>> /\ m.head = <<>> /\ m.hold = <<>> /\ m.done
      /\ Held(m) = {}
  BY <1>3, MixedIs, RangeEmpty DEF Held
<1> HIDE DEF m, mix
<1>10. /\ Passes(m, Range(rest), rolled) /\ Keeps(m, Range(rest), rolled)
       /\ rolled.fader.tail = <<>> /\ rolled.fader.head = <<>> /\ rolled.fader.done
       /\ Stretch(rolled.fader.hold, a)
       /\ Len(rolled.fader.hold) = Lesser(Fade, Len(rest))
  <2>1. Stretch(m.hold, a) /\ Precedes(Range(m.hold), Range(rest)) /\ Len(m.hold) = 0
    BY <1>9, NoBytes
  <2>2. Len(rest) \in Nat /\ Len(m.hold) + Len(rest) = Len(rest)
    BY <1>5, <2>1
  <2>3. /\ Passes(m, Range(rest), rolled) /\ Keeps(m, Range(rest), rolled)
        /\ rolled.fader.tail = <<>> /\ rolled.fader.head = <<>> /\ rolled.fader.done
        /\ Stretch(rolled.fader.hold, a)
        /\ Len(rolled.fader.hold) = Lesser(Fade, Len(m.hold) + Len(rest))
    BY <1>5, <1>9, <2>1, RollPasses
  <2> QED BY <2>2, <2>3
<1> HIDE DEF rolled
<1>11. /\ rolled.sent \in Sent /\ InOrder(rolled.sent) /\ rolled.fader \in Faders
       /\ Precedes(Content(rolled.sent), Held(rolled.fader))
       /\ Content(rolled.sent) \cup Held(rolled.fader) = Range(rest)
  BY <1>9, <1>10 DEF Passes, Keeps
<1>12. \A b \in Content(mix), d \in Range(rest) : b.ask = d.ask => b.byte < d.byte
  <2> SUFFICES ASSUME NEW b \in Content(mix), NEW d \in Range(rest), b.ask = d.ask
               PROVE  b.byte < d.byte
    OBVIOUS
  <2>1. d.ask = a
    <3>1. \E i \in 1..Len(rest) : d = rest[i]
      BY <1>5, RangeIs
    <3> QED BY <1>5, <3>1 DEF Stretch
  <2>2. b \notin Range(f.tail)
    <3>1. \A x \in Range(f.tail) : x.ask = c
      <4>1. \A x \in Range(f.tail) : \E i \in 1..Len(f.tail) : x = f.tail[i]
        BY <1>4, RangeIs
      <4> QED BY <1>c, <4>1 DEF Stretch
    <3> QED BY <1>c, <2>1, <3>1
  <2>3. b \in Range(head)
    BY <1>8, <2>2
  <2> QED BY <1>7, <2>3 DEF Precedes
<1>13. /\ r.sent \in Sent /\ InOrder(r.sent)
       /\ Content(r.sent) = Content(mix) \cup Content(rolled.sent)
  <2>1. Precedes(Content(mix), Content(rolled.sent))
    BY <1>11, <1>12 DEF Precedes
  <2> QED BY <1>1, <1>8, <1>11, <2>1, SentConcat
<1>14. Precedes(Content(r.sent), Held(r.fader))
  BY <1>1, <1>11, <1>12, <1>13 DEF Precedes
<1>15. Passes(f, Range(bytes), r)
  <2>1. Content(r.sent) \cup Held(r.fader) \subseteq Held(f) \cup Range(bytes)
    BY <1>1, <1>4, <1>5, <1>7, <1>8, <1>11, <1>13
  <2> QED BY <1>1, <1>11, <1>13, <1>14, <2>1 DEF Passes
<1>16. ASSUME Len(f.tail) = Fade PROVE Keeps(f, Range(bytes), r)
  <2>1. Content(mix) = Range(f.tail) \cup Range(head)
    BY <1>8, <1>16
  <2> QED BY <1>1, <1>4, <1>5, <1>7, <1>11, <1>13, <2>1 DEF Keeps
<1>17. ASSUME NEW b \in Held(r.fader), b.ask = a PROVE b.byte <= n + Len(bytes)
  <2>1. b \in Range(bytes)
    BY <1>1, <1>5, <1>11
  <2> QED BY <1>4, <2>1
<1>18. Len(rolled.fader.hold) = Fade \/ n + Len(bytes) <= Len(rolled.fader.hold) + Fade
  <2> DEFINE l == Len(bytes)
             k == Len(rest)
             g == Len(rolled.fader.hold)
             t == filled.take
  <2>1. /\ l \in Nat /\ t \in 0..l /\ k = l - t /\ Fade \in Nat /\ g = Lesser(Fade, k) /\ Fade = n + t
    BY <1>1, <1>2, <1>3, <1>4, <1>5, <1>f, <1>10 DEF head
  <2> HIDE DEF l, k, g, t
  <2>2. k \in Nat
    BY <2>1
  <2>3. g = Fade \/ g = k
    BY <2>1, <2>2, LesserIs
  <2>4. g = Fade \/ n + l <= g + Fade
    BY <2>1, <2>3
  <2> QED BY <2>4 DEF l, g
<1>19. Playing(r.fader, a, n + Len(bytes)) /\ r.fader.done
  BY <1>1, <1>10, <1>17, <1>18 DEF Playing
<1> QED BY <1>15, <1>16, <1>19 DEF r

LEMMA FeedPasses ==
    ASSUME NEW a, NEW n \in Nat, NEW f \in Faders, NEW bytes \in Seq(AudioByte),
           Playing(f, a, n), Stretch(bytes, a),
           \A b \in Range(bytes) : b.byte \in (n + 1)..(n + Len(bytes))
    PROVE  LET r == Feed(f, bytes)
           IN  /\ Passes(f, Range(bytes), r) /\ Playing(r.fader, a, n + Len(bytes))
               /\ Full(f) => Full(r.fader) /\ Keeps(f, Range(bytes), r)
<1> DEFINE r == Feed(f, bytes)
<1> HIDE DEF r
<1>1. CASE f.done
  <2>1. /\ Passes(f, Range(bytes), r) /\ Keeps(f, Range(bytes), r)
        /\ Playing(r.fader, a, n + Len(bytes)) /\ r.fader.done
    BY <1>1, FeedDone DEF r
  <2> QED BY <2>1 DEF r, Full
<1>2. CASE ~f.done /\ Len(Filled(f, bytes).head) # Fade
  <2>1. /\ Passes(f, Range(bytes), r) /\ Keeps(f, Range(bytes), r)
        /\ Playing(r.fader, a, n + Len(bytes)) /\ r.fader.tail = f.tail
    BY <1>2, FeedHead DEF r
  <2> QED BY <1>2, <2>1 DEF r, Full
<1>3. CASE ~f.done /\ Len(Filled(f, bytes).head) = Fade
  <2>1. /\ Passes(f, Range(bytes), r) /\ (Len(f.tail) = Fade => Keeps(f, Range(bytes), r))
        /\ Playing(r.fader, a, n + Len(bytes)) /\ r.fader.done
    BY <1>3, FeedMixes DEF r
  <2> QED BY <1>3, <2>1 DEF r, Full
<1> QED BY <1>1, <1>2, <1>3

\* A sentence ends.  Was it two fade regions long, the next will find a full one.
LEMMA EndPasses ==
    ASSUME NEW a \in Nat, NEW n \in Nat, NEW f \in Faders, Playing(f, a, n)
    PROVE  LET r == EndSentence(f)
           IN  /\ Passes(f, {}, r) /\ Resting(r.fader, a)
               /\ n >= 2 * Fade => Keeps(f, {}, r) /\ Len(r.fader.tail) = Fade
<1> DEFINE r == EndSentence(f)
<1>0. /\ f \in FaderRecords /\ f.tail \in Seq(AudioByte) /\ f.head \in Seq(AudioByte) /\ f.hold \in Seq(AudioByte)
      /\ Len(f.tail) \in Nat /\ Len(f.head) \in Nat /\ Len(f.head) < Fade
      /\ Len(f.hold) \in Nat /\ Len(f.hold) <= Fade /\ Fade \in Nat
  BY FaderIs, FadeIs DEF Faders
<1>1. CASE f.done
  <2>1. /\ f.tail = <<>> /\ f.head = <<>> /\ Stretch(f.hold, a)
        /\ Len(f.hold) = Fade \/ n <= Len(f.hold) + Fade
    BY <1>1 DEF Playing
  <2>2. r = [fader |-> [f EXCEPT !.tail = f.hold, !.hold = <<>>], sent |-> <<>>]
    BY <1>1 DEF EndSentence
  <2> HIDE DEF r
  <2>3. r.fader.tail = f.hold /\ r.fader.head = <<>> /\ r.fader.hold = <<>> /\ r.sent = <<>>
    BY <1>0, <2>1, <2>2 DEF FaderRecords
  <2>4. r.fader \in FaderRecords
    BY <1>0, <2>2, NoBytes DEF FaderRecords
  <2>5. r.fader \in Faders
    BY <1>0, <2>3, <2>4, FadeIs, NoBytes DEF Faders
  <2>6. Held(r.fader) = Held(f)
    BY <2>1, <2>3, NoBytes DEF Held
  <2>7. Passes(f, {}, r) /\ Keeps(f, {}, r)
    BY <2>3, <2>5, <2>6, NothingSent, NoBytes DEF Passes, Keeps
  <2>8. Resting(r.fader, a)
    BY <2>1, <2>3 DEF Resting
  <2>9. n >= 2 * Fade => Len(r.fader.tail) = Fade
    <3> DEFINE h == Len(f.hold)
    <3>1. h \in Nat /\ h <= Fade /\ Fade \in Nat /\ (h = Fade \/ n <= h + Fade)
      BY <1>0, <2>1
    <3> HIDE DEF h
    <3>2. n >= 2 * Fade => h = Fade
      BY <3>1
    <3> QED BY <2>3, <3>2 DEF h
  <2> QED BY <2>7, <2>8, <2>9 DEF r
<1>2. CASE ~f.done
  <2>1. f.hold = <<>> /\ Stretch(f.head, a) /\ Len(f.head) = n
    BY <1>2 DEF Playing
  <2>2. PICK c \in Nat : c < a /\ Stretch(f.tail, c)
    BY <1>2 DEF Playing
  <2> DEFINE k == 2 * (Lesser(Len(f.tail), Len(f.head)) \div 2)
             kt == Keep(f.tail, k)
             kh == Keep(f.head, k)
             ph == Past(f.head, k)
             fader == [f EXCEPT !.tail = <<>>, !.head = <<>>, !.done = TRUE]
  <2>3. r = [fader |-> fader, sent |-> Mix(kt, kh) \o Plain(ph)]
    BY <1>2 DEF EndSentence, EndShort
  <2>4. k \in 0..Len(f.tail) /\ k \in 0..Len(f.head)
    <3> DEFINE t == Len(f.tail)
               h == Len(f.head)
               l == Lesser(t, h)
    <3>1. l \in Nat /\ l <= t /\ l <= h /\ t \in Nat /\ h \in Nat
      BY <1>0, LesserIs
    <3> HIDE DEF l, t, h
    <3>2. 2 * (l \div 2) \in 0..t /\ 2 * (l \div 2) \in 0..h
      BY <3>1
    <3> QED BY <3>2 DEF l, t, h
  <2> HIDE DEF k, r
  <2>5. /\ kt \in Seq(AudioByte) /\ Len(kt) = k /\ Stretch(kt, c) /\ Range(kt) \subseteq Range(f.tail)
        /\ kh \in Seq(AudioByte) /\ Len(kh) = k /\ Stretch(kh, a)
        /\ ph \in Seq(AudioByte) /\ Stretch(ph, a) /\ Range(f.head) = Range(kh) \cup Range(ph)
        /\ Precedes(Range(kh), Range(ph))
    <3>1. /\ kt \in Seq(AudioByte) /\ Len(kt) = k /\ Stretch(kt, c)
          /\ Range(kt) \subseteq Range(f.tail)
      BY <1>0, <2>2, <2>4, KeepPast
    <3>2. /\ kh \in Seq(AudioByte) /\ Len(kh) = k /\ Stretch(kh, a)
          /\ ph \in Seq(AudioByte) /\ Stretch(ph, a) /\ Range(f.head) = Range(kh) \cup Range(ph)
          /\ Precedes(Range(kh), Range(ph))
      BY <1>0, <2>1, <2>4, KeepPast
    <3> QED BY <3>1, <3>2
  <2> HIDE DEF kt, kh, ph
  <2>6. /\ Mix(kt, kh) \in Sent /\ InOrder(Mix(kt, kh))
        /\ Content(Mix(kt, kh)) \subseteq Range(kt) \cup Range(kh)
    <3>1. c # a /\ Len(kt) <= Len(kh)
      BY <2>2, <2>4, <2>5
    <3> QED BY <2>5, <3>1, MixIs
  <2>7. Plain(ph) \in Sent /\ InOrder(Plain(ph)) /\ Content(Plain(ph)) = Range(ph)
    BY <2>5, PlainIs
  <2>8. Precedes(Content(Mix(kt, kh)), Content(Plain(ph)))
    <3> SUFFICES ASSUME NEW b \in Content(Mix(kt, kh)), NEW d \in Range(ph), b.ask = d.ask
                 PROVE  b.byte < d.byte
      BY <2>7 DEF Precedes
    <3>1. d.ask = a
      <4>1. \E i \in 1..Len(ph) : d = ph[i]
        BY <2>5, RangeIs
      <4> QED BY <2>5, <4>1 DEF Stretch
    <3>2. b \notin Range(kt)
      <4>1. \A x \in Range(kt) : \E i \in 1..Len(kt) : x = kt[i]
        BY <2>5, RangeIs
      <4>2. \A x \in Range(kt) : x.ask = c
        BY <2>5, <4>1 DEF Stretch
      <4> QED BY <2>2, <3>1, <4>2
    <3> QED BY <2>5, <2>6, <3>2 DEF Precedes
  <2>9. /\ r.sent \in Sent /\ InOrder(r.sent)
        /\ Content(r.sent) = Content(Mix(kt, kh)) \cup Range(ph)
    BY <2>3, <2>6, <2>7, <2>8, SentConcat
  <2>10. /\ r.fader.tail = <<>> /\ r.fader.head = <<>> /\ r.fader.hold = <<>>
         /\ r.fader \in FaderRecords
    BY <1>0, <2>1, <2>3, NoBytes DEF FaderRecords
  <2>11. r.fader \in Faders /\ Held(r.fader) = {}
    BY <2>10, FadeIs, NoBytes DEF Faders, Held
  <2>12. Content(r.sent) \subseteq Held(f)
    BY <2>5, <2>6, <2>9 DEF Held
  <2>13. Passes(f, {}, r)
    BY <2>9, <2>11, <2>12, NoBytes DEF Passes
  <2>14. Resting(r.fader, a)
    BY <2>10, NoBytes DEF Resting
  <2>15. ~(n >= 2 * Fade)
    BY <1>0, <2>1
  <2> QED BY <2>13, <2>14, <2>15 DEF r
<1> QED BY <1>1, <1>2

LEMMA BeginPlays ==
    ASSUME NEW a \in Nat, NEW f \in Faders, Resting(f, a)
    PROVE  LET g == BeginSentence(f)
           IN  /\ g \in Faders /\ Held(g) = Held(f)
               /\ Playing(g, a + 1, 0)
               /\ f.tail = <<>> \/ Len(f.tail) = Fade => Full(g)
<1> DEFINE g == BeginSentence(f)
<1>1. /\ g \in Faders /\ g.tail = f.tail /\ g.head = <<>> /\ g.hold = <<>>
      /\ g.done <=> f.tail = <<>>
  BY BeginType
<1> HIDE DEF g
<1>2. f.head = <<>> /\ f.hold = <<>> /\ f.tail \in Seq(AudioByte) /\ Fade \in Nat
  BY FaderIs, FadeIs DEF Resting
<1>3. PICK c \in Nat : c <= a /\ Stretch(f.tail, c)
  BY DEF Resting
<1>4. Held(g) = Held(f) /\ Held(g) = Range(f.tail)
  BY <1>1, <1>2, NoBytes DEF Held
<1>5. \A b \in Held(g) : b.ask # a + 1
  <2>1. \A x \in Range(f.tail) : \E i \in 1..Len(f.tail) : x = f.tail[i]
    BY <1>2, RangeIs
  <2>2. \A x \in Range(f.tail) : x.ask = c
    BY <1>3, <2>1 DEF Stretch
  <2> QED BY <1>3, <1>4, <2>2
<1>6. c < a + 1
  BY <1>3
<1>7. Playing(g, a + 1, 0)
  BY <1>1, <1>2, <1>3, <1>5, <1>6, NoBytes DEF Playing
<1>8. f.tail = <<>> \/ Len(f.tail) = Fade => Full(g)
  BY <1>1 DEF Full
<1> QED BY <1>1, <1>4, <1>7, <1>8 DEF g

\* finish() sends what was held back.
LEMMA FinishIs ==
    ASSUME NEW a, NEW f \in Faders, Resting(f, a)
    PROVE  /\ FinishFader(f) \in Sent /\ InOrder(FinishFader(f))
           /\ Content(FinishFader(f)) = Held(f)
<1>1. f.head = <<>> /\ f.hold = <<>> /\ f.tail \in Seq(AudioByte)
  BY FaderIs DEF Resting
<1>2. PICK c : Stretch(f.tail, c)
  BY DEF Resting
<1>3. FinishFader(f) = Plain(f.tail)
  <2>1. (f.tail \o f.hold) \o f.head = f.tail
    BY <1>1, NoBytes
  <2> QED BY <2>1 DEF FinishFader
<1>4. Held(f) = Range(f.tail)
  BY <1>1, NoBytes DEF Held
<1> QED BY <1>1, <1>2, <1>3, <1>4, PlainIs

LEMMA EndType ==
    ASSUME NEW f \in Faders
    PROVE  EndSentence(f).fader \in Faders
<1>1. f \in FaderRecords /\ f.hold \in Seq(AudioByte) /\ Len(f.hold) <= Fade /\ Len(f.head) < Fade
  BY FaderIs DEF Faders
<1>2. CASE f.done
  <2>1. EndSentence(f).fader = [f EXCEPT !.tail = f.hold, !.hold = <<>>]
    BY <1>2 DEF EndSentence
  <2> DEFINE g == EndSentence(f).fader
  <2>2. g \in FaderRecords /\ g.tail = f.hold /\ g.head = f.head /\ g.hold = <<>>
    BY <1>1, <2>1, NoBytes DEF FaderRecords
  <2> HIDE DEF g
  <2>3. g \in Faders
    BY <1>1, <2>2, FadeIs, NoBytes DEF Faders
  <2> QED BY <2>3 DEF g
<1>3. CASE ~f.done
  <2>1. EndSentence(f).fader = [f EXCEPT !.tail = <<>>, !.head = <<>>, !.done = TRUE]
    BY <1>3 DEF EndSentence, EndShort
  <2> DEFINE g == EndSentence(f).fader
  <2>2. g \in FaderRecords /\ g.tail = <<>> /\ g.head = <<>> /\ g.hold = f.hold
    BY <1>1, <2>1, NoBytes DEF FaderRecords
  <2> HIDE DEF g
  <2>3. g \in Faders
    BY <1>1, <2>2, FadeIs, NoBytes DEF Faders
  <2> QED BY <2>3 DEF g
<1> QED BY <1>2, <1>3

\* What the crossfader is after finish().
LEMMA AgainType ==
    ASSUME NEW f \in Faders
    PROVE  [NewFader EXCEPT !.asserted = f.asserted] \in Faders
<1> DEFINE asserted == f.asserted
           g == [NewFader EXCEPT !.asserted = asserted]
<1>1. asserted \in BOOLEAN
  BY FaderIs
<1> HIDE DEF asserted
<1>2. g \in FaderRecords /\ g.tail = <<>> /\ g.head = <<>> /\ g.hold = <<>>
  BY <1>1, NoBytes DEF NewFader, FaderRecords
<1> HIDE DEF g
<1>3. g \in Faders
  BY <1>2, FadeIs, NoBytes DEF Faders
<1> QED BY <1>3 DEF g, asserted

(***************************************************************************)
(* The history: what was heard so far, h, beside the fader f.              *)
(***************************************************************************)

\* The first n bytes of sentence a.
Beginning(a, n) == {[ask |-> a, byte |-> i] : i \in 1..n}

\* Sentence a is being heard, and the fader was fed n bytes of it.
Hearing(h, f, a, n) ==
    /\ h \in Sent /\ InOrder(h) /\ f \in Faders
    /\ Precedes(Content(h), Held(f)) /\ Playing(f, a, n)
    /\ \A b \in Content(h) : b.ask <= a /\ (b.ask = a => b.byte <= n)

HearingAll(h, f, a, n, B) == Full(f) /\ Content(h) \cup Held(f) = B \cup Beginning(a, n)

\* Sentence a was the last.
Rested(h, f, a) ==
    /\ h \in Sent /\ InOrder(h) /\ f \in Faders
    /\ Precedes(Content(h), Held(f)) /\ Resting(f, a)
    /\ \A b \in Content(h) : b.ask <= a

RestedAll(h, f, a, B) ==
    Content(h) \cup Held(f) = B /\ Len(f.tail) = IF a = 0 THEN 0 ELSE Fade

\* What was heard before stays in order with what an operation sends.
LEMMA HearsMore ==
    ASSUME NEW h \in Sent, NEW f, NEW more, NEW r,
           InOrder(h), Precedes(Content(h), Held(f) \cup more), Passes(f, more, r)
    PROVE  /\ h \o r.sent \in Sent /\ InOrder(h \o r.sent)
           /\ Content(h \o r.sent) = Content(h) \cup Content(r.sent)
           /\ Precedes(Content(h \o r.sent), Held(r.fader))
<1>1. /\ r.sent \in Sent /\ InOrder(r.sent)
      /\ Precedes(Content(r.sent), Held(r.fader))
      /\ Content(r.sent) \cup Held(r.fader) \subseteq Held(f) \cup more
  BY DEF Passes
<1>2. Precedes(Content(h), Content(r.sent)) /\ Precedes(Content(h), Held(r.fader))
  BY <1>1 DEF Precedes
<1>3. /\ h \o r.sent \in Sent /\ InOrder(h \o r.sent)
      /\ Content(h \o r.sent) = Content(h) \cup Content(r.sent)
  BY <1>1, <1>2, SentConcat
<1> QED BY <1>1, <1>2, <1>3 DEF Precedes

\* Nothing is held of a later sentence.
LEMMA HeldAsks ==
    ASSUME NEW a \in Nat, NEW n \in Nat, NEW f \in Faders, Playing(f, a, n)
    PROVE  \A b \in Held(f) : b.ask <= a /\ (b.ask = a => b.byte <= n)
<1>1. \A b \in Held(f) : b.ask = a => b.byte <= n
  BY DEF Playing
<1>2. f.tail \in Seq(AudioByte) /\ f.head \in Seq(AudioByte) /\ f.hold \in Seq(AudioByte)
  BY FaderIs
<1>3. ASSUME NEW s \in Seq(AudioByte), NEW c \in Nat, c <= a, Stretch(s, c)
      PROVE  \A b \in Range(s) : b.ask <= a
  <2>1. \A b \in Range(s) : \E i \in 1..Len(s) : b = s[i]
    BY RangeIs
  <2> QED BY <1>3, <2>1 DEF Stretch
<1>4. CASE f.done
  <2>1. f.tail = <<>> /\ f.head = <<>> /\ Stretch(f.hold, a)
    BY <1>4 DEF Playing
  <2>2. \A b \in Range(f.hold) : b.ask <= a
    BY <1>2, <1>3, <2>1
  <2>3. Held(f) = Range(f.hold)
    BY <2>1, NoBytes DEF Held
  <2> QED BY <1>1, <2>2, <2>3
<1>5. CASE ~f.done
  <2>1. f.hold = <<>> /\ Stretch(f.head, a)
    BY <1>5 DEF Playing
  <2>2. PICK c \in Nat : c < a /\ Stretch(f.tail, c)
    BY <1>5 DEF Playing
  <2>3. \A b \in Range(f.head) : b.ask <= a
    BY <1>2, <1>3, <2>1
  <2>4. c <= a
    BY <2>2
  <2>5. \A b \in Range(f.tail) : b.ask <= a
    BY <1>2, <1>3, <2>2, <2>4
  <2>6. Held(f) = Range(f.tail) \cup Range(f.head)
    BY <2>1, NoBytes DEF Held
  <2> QED BY <1>1, <2>3, <2>5, <2>6
<1> QED BY <1>4, <1>5

LEMMA BeginHears ==
    ASSUME NEW a \in Nat, NEW h, NEW f, Rested(h, f, a)
    PROVE  /\ Hearing(h, BeginSentence(f), a + 1, 0)
           /\ \A B : RestedAll(h, f, a, B) => HearingAll(h, BeginSentence(f), a + 1, 0, B)
<1> DEFINE g == BeginSentence(f)
<1>1. /\ h \in Sent /\ InOrder(h) /\ f \in Faders
      /\ Precedes(Content(h), Held(f)) /\ Resting(f, a)
      /\ \A b \in Content(h) : b.ask <= a
  BY DEF Rested
<1>2. /\ g \in Faders /\ Held(g) = Held(f) /\ Playing(g, a + 1, 0)
      /\ f.tail = <<>> \/ Len(f.tail) = Fade => Full(g)
  BY <1>1, BeginPlays
<1> HIDE DEF g
<1>3. \A b \in Content(h) : b.ask \in Nat
  BY <1>1, ContentIs DEF AudioByte
<1>4. \A b \in Content(h) : b.ask <= a + 1 /\ b.ask # a + 1
  BY <1>1, <1>3
<1>5. Hearing(h, g, a + 1, 0)
  BY <1>1, <1>2, <1>4 DEF Hearing
<1>6. ASSUME NEW B, RestedAll(h, f, a, B) PROVE HearingAll(h, g, a + 1, 0, B)
  <2>1. Len(f.tail) = 0 \/ Len(f.tail) = Fade
    BY <1>6 DEF RestedAll
  <2>2. f.tail = <<>> \/ Len(f.tail) = Fade
    <3>1. f.tail \in Seq(AudioByte)
      BY <1>1, FaderIs
    <3> QED BY <2>1, <3>1
  <2>3. Beginning(a + 1, 0) = {}
    BY DEF Beginning
  <2> QED BY <1>2, <1>6, <2>2, <2>3 DEF RestedAll, HearingAll
<1> QED BY <1>5, <1>6 DEF g

LEMMA FeedHears ==
    ASSUME NEW a \in Nat, NEW n \in Nat, NEW l \in Nat, NEW h, NEW f, Hearing(h, f, a, n),
           NEW bytes \in Seq(AudioByte), Len(bytes) = l, Stretch(bytes, a),
           Range(bytes) = {[ask |-> a, byte |-> n + i] : i \in 1..l}
    PROVE  LET r == Feed(f, bytes)
           IN  /\ Hearing(h \o r.sent, r.fader, a, n + l)
               /\ \A B : HearingAll(h, f, a, n, B) => HearingAll(h \o r.sent, r.fader, a, n + l, B)
<1> DEFINE r == Feed(f, bytes)
           m == h \o r.sent
<1>1. /\ h \in Sent /\ InOrder(h) /\ f \in Faders
      /\ Precedes(Content(h), Held(f)) /\ Playing(f, a, n)
      /\ \A b \in Content(h) : b.ask <= a /\ (b.ask = a => b.byte <= n)
  BY DEF Hearing
<1>2. \A b \in Range(bytes) : b.ask = a /\ b.byte \in (n + 1)..(n + l)
  OBVIOUS
<1>3. /\ Passes(f, Range(bytes), r) /\ Playing(r.fader, a, n + l)
      /\ Full(f) => Full(r.fader) /\ Keeps(f, Range(bytes), r)
  BY <1>1, <1>2, FeedPasses
<1> HIDE DEF r
<1>4. \A b \in Content(h) : b.ask \in Nat /\ b.byte \in Nat
  BY <1>1, ContentIs DEF AudioByte
<1>5. Precedes(Content(h), Held(f) \cup Range(bytes))
  <2>1. \A b \in Content(h), c \in Range(bytes) : b.ask = c.ask => b.byte < c.byte
    BY <1>1, <1>2, <1>4
  <2> QED BY <1>1, <2>1 DEF Precedes
<1>6. /\ m \in Sent /\ InOrder(m) /\ Content(m) = Content(h) \cup Content(r.sent)
      /\ Precedes(Content(m), Held(r.fader))
  BY <1>1, <1>3, <1>5, HearsMore
<1>7. r.fader \in Faders /\ Content(r.sent) \cup Held(r.fader) \subseteq Held(f) \cup Range(bytes)
  BY <1>3 DEF Passes
<1> HIDE DEF m
<1>8. ASSUME NEW b \in Content(m) PROVE b.ask <= a /\ (b.ask = a => b.byte <= n + l)
  <2>1. b \in Content(h) \/ b \in Range(bytes) \/ b \in Held(f)
    BY <1>6, <1>7
  <2>2. CASE b \in Content(h)
    BY <1>1, <1>4, <2>2
  <2>3. CASE b \in Range(bytes)
    BY <1>2, <2>3
  <2>4. CASE b \in Held(f)
    <3>1. b.ask <= a /\ (b.ask = a => b.byte <= n)
      BY <1>1, <2>4, HeldAsks
    <3>2. b.byte \in Nat
      BY <1>1, <2>4, FaderIs DEF AudioByte
    <3> QED BY <3>1, <3>2
  <2> QED BY <2>1, <2>2, <2>3, <2>4
<1>9. Hearing(m, r.fader, a, n + l)
  BY <1>3, <1>6, <1>7, <1>8 DEF Hearing
<1>10. ASSUME NEW B, HearingAll(h, f, a, n, B) PROVE HearingAll(m, r.fader, a, n + l, B)
  <2>1. Full(r.fader) /\ Keeps(f, Range(bytes), r)
    BY <1>3, <1>10 DEF HearingAll
  <2>2. Beginning(a, n + l) = Beginning(a, n) \cup Range(bytes)
    <3>1. ASSUME NEW i \in 1..(n + l)
          PROVE  [ask |-> a, byte |-> i] \in Beginning(a, n) \cup Range(bytes)
      <4>1. CASE i <= n
        <5>1. i \in 1..n
          BY <4>1
        <5> QED BY <5>1 DEF Beginning
      <4>2. CASE ~(i <= n)
        <5>1. i - n \in 1..l /\ i = n + (i - n)
          BY <4>2
        <5> QED BY <5>1
      <4> QED BY <4>1, <4>2
    <3>2. \A i \in 1..n : i \in 1..(n + l)
      OBVIOUS
    <3>3. \A i \in 1..l : n + i \in 1..(n + l)
      OBVIOUS
    <3> QED BY <3>1, <3>2, <3>3 DEF Beginning
  <2> QED BY <1>6, <1>10, <2>1, <2>2 DEF HearingAll, Keeps
<1> QED BY <1>9, <1>10 DEF r, m

LEMMA EndHears ==
    ASSUME NEW a \in Nat, a > 0, NEW n \in Nat, NEW h, NEW f, Hearing(h, f, a, n)
    PROVE  LET r == EndSentence(f)
           IN  /\ Rested(h \o r.sent, r.fader, a)
               /\ n >= 2 * Fade =>
                     \A B : HearingAll(h, f, a, n, B) =>
                               RestedAll(h \o r.sent, r.fader, a, B \cup Beginning(a, n))
<1> DEFINE r == EndSentence(f)
           m == h \o r.sent
<1>1. /\ h \in Sent /\ InOrder(h) /\ f \in Faders
      /\ Precedes(Content(h), Held(f)) /\ Playing(f, a, n)
      /\ \A b \in Content(h) : b.ask <= a
  BY DEF Hearing
<1>2. /\ Passes(f, {}, r) /\ Resting(r.fader, a)
      /\ n >= 2 * Fade => Keeps(f, {}, r) /\ Len(r.fader.tail) = Fade
  BY <1>1, EndPasses
<1> HIDE DEF r
<1>3. Held(f) \cup {} = Held(f)
  OBVIOUS
<1>4. /\ m \in Sent /\ InOrder(m) /\ Content(m) = Content(h) \cup Content(r.sent)
      /\ Precedes(Content(m), Held(r.fader))
  BY <1>1, <1>2, <1>3, HearsMore
<1>5. r.fader \in Faders /\ Content(r.sent) \cup Held(r.fader) \subseteq Held(f)
  BY <1>2 DEF Passes
<1> HIDE DEF m
<1>6. \A b \in Content(m) : b.ask <= a
  BY <1>1, <1>4, <1>5, HeldAsks
<1>7. Rested(m, r.fader, a)
  BY <1>2, <1>4, <1>5, <1>6 DEF Rested
<1>8. ASSUME n >= 2 * Fade, NEW B, HearingAll(h, f, a, n, B)
      PROVE  RestedAll(m, r.fader, a, B \cup Beginning(a, n))
  BY <1>2, <1>4, <1>8 DEF HearingAll, RestedAll, Keeps
<1> QED BY <1>7, <1>8 DEF r, m

LEMMA FinishHears ==
    ASSUME NEW a \in Nat, NEW h, NEW f, Rested(h, f, a)
    PROVE  LET m == h \o FinishFader(f)
           IN  m \in Sent /\ InOrder(m) /\ Content(m) = Content(h) \cup Held(f)
<1>1. /\ h \in Sent /\ InOrder(h) /\ f \in Faders
      /\ Precedes(Content(h), Held(f)) /\ Resting(f, a)
  BY DEF Rested
<1>2. /\ FinishFader(f) \in Sent /\ InOrder(FinishFader(f))
      /\ Content(FinishFader(f)) = Held(f)
  BY <1>1, FinishIs
<1> QED BY <1>1, <1>2, SentConcat

=============================================================================
