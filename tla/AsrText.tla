------------------------------ MODULE AsrText ------------------------------
(***************************************************************************)
(* What the answer of the speech recogniser is made into before the model  *)
(* is asked (utils/postprocess_utils.rs).  The recogniser marks language,  *)
(* mood and sounds with tags; the tags become emoji, the emoji become a    *)
(* hint in words.  A text is a sequence of tokens: a word, a tag (without  *)
(* its brackets) or an emoji (named for its face).                         *)
(***************************************************************************)
EXTENDS Selection, FiniteSets

\* Two tags that share an emoji become indistinguishable: Cough is sneezed.
Faces == [HAPPY |-> "smile", SAD |-> "sorrow", ANGRY |-> "anger",
          FEARFUL |-> "fear", DISGUSTED |-> "disgust", SURPRISED |-> "surprise"]
Noises == [BGM |-> "music", Applause |-> "applause", Laughter |-> "laughter",
           Cry |-> "crying", Sneeze |-> "sneeze", Cough |-> "sneeze"]

EMO_DICT == <<"HAPPY", "SAD", "ANGRY", "NEUTRAL", "FEARFUL", "DISGUSTED", "SURPRISED">>
EVENT_DICT == <<"BGM", "Speech", "Applause", "Laughter", "Cry", "Sneeze", "Breath", "Cough">>
LANG_DICT == {"zh", "en", "yue", "ja", "ko", "nospeech"}
EMOJI_DICT ==
    LANG_DICT \union Range(EMO_DICT) \union Range(EVENT_DICT) \union
    {"EMO_UNKNOWN", "Sing", "Speech_Noise", "withitn", "woitn", "GBG", "Event_UNK"}

EMO_SET == Range(Faces)
EVENT_SET == Range(Noises) \union {"cough"}
NoEmoji == "none"

Times(token, text) == Cardinality({i \in DOMAIN text : text[i] = token})

\* The mood tagged most often, the earlier of the dictionary when two are
\* equally frequent; NEUTRAL, which has no emoji, when there is none.
Mood(text) ==
    LET most == {tag \in Range(EMO_DICT) :
                    \A other \in Range(EMO_DICT) : Times(other, text) <= Times(tag, text)}
    IN  IF "NEUTRAL" \in most THEN "NEUTRAL" ELSE Head(Only(EMO_DICT, most))

\* One segment: its sounds in front, its mood behind, its tags gone.
format_str_v2(text) ==
    LET heard == Only(EVENT_DICT, {t \in DOMAIN Noises : Times(t, text) > 0})
        mood  == Mood(text)
    IN  Reverse([i \in DOMAIN heard |-> Noises[heard[i]]]) \o Without(text, EMOJI_DICT)
        \o (IF mood \in DOMAIN Faces THEN <<Faces[mood]>> ELSE <<>>)

get_event(text) ==
    IF text # <<>> /\ Head(text) \in EVENT_SET THEN Head(text) ELSE NoEmoji

get_emo(text) ==
    IF text # <<>> /\ Last(text) \in EMO_SET THEN Last(text) ELSE NoEmoji

\* Fault: the end of what is there is dropped whenever the next has a mood.
JoinHard(joined, segment) ==
    LET again == get_event(segment) # NoEmoji /\ get_event(segment) = joined.event
        rest  == IF again THEN Tail(segment) ELSE segment
        merge == get_emo(rest) # NoEmoji /\ joined.text # <<>>
    IN  IF segment = <<>> THEN joined
        ELSE [text  |-> (IF merge THEN Front(joined.text) ELSE joined.text) \o rest,
              event |-> get_event(rest)]

\* A sound or a mood repeated from one segment to the next is said once.
Join(joined, segment) ==
    LET again == get_event(segment) # NoEmoji /\ get_event(segment) = joined.event
        rest  == IF again THEN Tail(segment) ELSE segment
        merge == get_emo(rest) # NoEmoji /\ get_emo(rest) = get_emo(joined.text)
    IN  IF segment = <<>> THEN joined
        ELSE [text  |-> (IF merge THEN Front(joined.text) ELSE joined.text) \o rest,
              event |-> get_event(rest)]

\* "nospeech" right before "Event_UNK" is an emoji of its own.
Marked(text) ==
    LET pair(i) == i \in 1..(Len(text) - 1) /\ text[i] = "nospeech" /\ text[i + 1] = "Event_UNK"
    IN  Without([i \in DOMAIN text |-> IF pair(i) THEN "?" ELSE IF pair(i - 1) THEN ""
                                       ELSE text[i]], {""})

\* The text cut at its language tags.
Segments(text) ==
    LET tags == {i \in DOMAIN text : text[i] \in LANG_DICT}
        cuts == <<0>> \o PlacesOf(text, tags) \o <<Len(text) + 1>>
    IN  [n \in 1..(Len(cuts) - 1) |-> SubSeq(text, cuts[n] + 1, cuts[n + 1] - 1)]

\* The event of the first segment is not looked at: a blank is put before it.
rich_transcription_postprocess(text) ==
    LET segments == Segments(Marked(text))
        joined[n \in 0..(Len(segments) - 1)] ==
            IF n = 0 THEN [text |-> format_str_v2(segments[1]), event |-> NoEmoji]
            ELSE Join(joined[n - 1], format_str_v2(segments[n + 1]))
    IN  Without(joined[Len(segments) - 1].text, {"The."})

Labelled == EVENT_SET \union {"?"}

\* The mood seen most often, the latest of those that are.
MainMood(text) ==
    LET moods == Only(text, EMO_SET)
        often == {i \in DOMAIN moods : \A j \in DOMAIN moods :
                      Times(moods[j], moods) <= Times(moods[i], moods)}
    IN  IF moods = <<>> THEN NoEmoji ELSE moods[Max(often)]

\* A label is told where it is met first.
parse_asr_text(text) ==
    LET first == {i \in DOMAIN text : text[i] \in Labelled
                                       /\ \A j \in 1..(i - 1) : text[j] # text[i]}
        at    == PlacesOf(text, first)
    IN  [text    |-> Without(text, EMO_SET \union Labelled),
         emotion |-> MainMood(text),
         event   |-> [k \in DOMAIN at |-> text[at[k]]]]

NoHint == [emotion |-> NoEmoji, events |-> <<>>]

\* "?" is labelled with the empty text and is not told.
format_asr_hint(parsed) ==
    [emotion |-> parsed.emotion, events |-> Without(parsed.event, {"?"})]

=============================================================================
