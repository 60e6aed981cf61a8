--------------------------- MODULE MCVoiceSession ---------------------------
(* VoiceSession on small instances.  The pipelines read nothing of what the  *)
(* session buffers, and an utterance is cut into chunks in the same way      *)
(* whatever they do: a behaviour of this instance has either every input and *)
(* pipelines that wait to be started, or whole utterances and pipelines that *)
(* run.                                                                      *)
EXTENDS VoiceSession, TLC

CONSTANTS m1, m2

MCMsgs == {m1, m2}

VARIABLE focus

MCInit == Init /\ focus \in {"input", "answers"}

Commands == SessionStart \/ Interrupt \/ Retry \/ SessionEnd

\* Frames are written at once.
Input ==
    /\ focus = "input"
    /\ \/ /\ mailbox = <<>>
          /\ \/ Commands
             \/ \E m \in Msgs, isLast, late \in BOOLEAN :
                   AudioChunk(m, <<>>, isLast, late) \/ AudioChunk(m, <<m>>, isLast, late)
             \/ SocketLost
       \/ Disconnect
       \/ Deliver

Utterance == [i \in 1..MinChunks |-> m1]

Answers ==
    /\ focus = "answers"
    /\ \/ Commands
       \/ AudioChunk(m1, <<>>, TRUE, FALSE)
       \/ AudioChunk(m1, Utterance, TRUE, FALSE)
       \/ Socket
       \/ \E r \in Requests : Pipeline(r)

MCSpec == MCInit /\ [][UNCHANGED focus /\ (Input \/ Answers)]_<<vars, focus>> /\ Fairness
=============================================================================
