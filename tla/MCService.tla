----------------------------- MODULE MCService -----------------------------
(* VoiceService and AnswerStream on small instances: what a pipeline is for  *)
(* the service, and the answer inside one.  They share no state; and of      *)
(* VoiceService the reports of clients and the pipelines share nothing but   *)
(* the session.  A behaviour of this instance is one of the answer, of the   *)
(* pipelines or of the reports; the last two have the connections and the    *)
(* janitor with them.                                                        *)
EXTENDS VoiceService, AnswerStream

CONSTANTS
    Parts,      \* those that have behaviours
    s1, t1, t2, m1, m2

----------------------------------------------------------------------------
MCTexts ==
    {<<"letter", "stop", "blank", "letter">>,
     <<"letter", "decoration", "letter", "stop", "letter", "stop">>,
     <<"letter", "letter", "stop", "letter", "letter">>,
     <<"blank", "decoration", "stop">>}
MCBoth == {"http", "ws"}
MCSounds == {<<>>, <<4>>, <<1, 4, 1>>}
MCShort == {<<2>>, <<4>>}

----------------------------------------------------------------------------
VARIABLE focus

\* Other parts than the answer start with one that has no steps to choose.
MCInit ==
    /\ focus \in Parts
    /\ InitService /\ Init
    /\ focus = "answer" \/ (transport = "http" /\ text = <<"blank", "decoration", "stop">>)

MCNext ==
    /\ UNCHANGED focus
    /\ \/ focus = "answer" /\ Next /\ UNCHANGED serviceVars
       \/ focus = "pipelines" /\ Pipelines /\ UNCHANGED vars
       \/ focus = "reports" /\ Reports /\ UNCHANGED vars
       \/ focus # "answer" /\ (Connections \/ Janitorial) /\ UNCHANGED vars

\* AnswerFairness and Fairness, each for the behaviours it speaks of.
MCFairness ==
    /\ WF_vars(focus = "answer" /\ ReaderStep)
    /\ WF_vars(focus = "answer" /\ ReaderCancelled)
    /\ WF_vars(focus = "answer" /\ MainStep)
    /\ \A t \in Turns :
          /\ WF_serviceVars(focus = "pipelines" /\ TurnStep(t))
          /\ WF_serviceVars(focus = "pipelines" /\ (HelperAsks(t) \/ HelperTracks(t) \/ ChildEnds(t)))
    /\ WF_serviceVars(focus # "answer" /\ Janitorial)

MCSpec == MCInit /\ [][MCNext]_<<serviceVars, vars, focus>> /\ MCFairness
=============================================================================
