---------------------------- MODULE VoiceService ----------------------------
(***************************************************************************)
(* VoiceService (service.rs): the sessions behind the WebSocket            *)
(* connections, the tracking of the pipelines they spawn (helper tasks, a  *)
(* JoinSet behind a fair tokio Mutex and the janitor that drains it), the  *)
(* Prometheus books that each pipeline keeps through its                   *)
(* PipelineMetricsGuard (metrics.rs), and the filter that counts a         *)
(* client's report once (session/mod.rs).                                  *)
(*                                                                         *)
(* VoiceSession has the pipelines in detail; here one is what it does to   *)
(* its guard.  Times are ages: Tick makes everything one unit older.       *)
(***************************************************************************)
EXTENDS Integers, Sequences, FiniteSets, Functions

CONSTANTS
    Sessions,     \* session ids, one per connection
    Turns,        \* pipelines that may be spawned (bound)
    Msgs,         \* message ids a client names in its reports
    TTL,          \* CLIENT_METRIC_TTL, in ticks
    MaxReports    \* MAX_CLIENT_METRIC_REPORTS

ASSUME FilterAssumption == TTL \in Nat /\ MaxReports \in Nat \ {0}

Janitor == "janitor"
ASSUME JanitorAssumption == Janitor \notin Turns

Results == {"success", "failed", "timeout", "cancelled", "empty_response"}
Totals == {"success", "failed", "timeout", "cancelled"}
Metrics == {"playback", "final_audio"}

\* The collectors the properties speak of, by the end of their names.
Histograms ==
    {"duration", "llm_first_text",
     "tts_first_frame", "ws_first_audio_sent", "llm_first_text_to_tts_first_frame",
     "tts_first_frame_to_ws_first_audio_sent", "e2e_complete"}

VARIABLES
    sessions,    \* the DashMap: session id -> what the session remembers of reports
    turn,        \* each pipeline and its metrics guard
    track,       \* where the handle of each pipeline is on its way to the JoinSet
    janitor,     \* the janitor task
    queue,       \* tasks waiting for the lock of the JoinSet, in order
    started,     \* voice_requests_total
    finished,    \* voice_requests_finished_total by label
    totals,      \* voice_requests_{success,failed,timeout,cancelled}_total
    count,       \* observations of each histogram
    last         \* history: age of the last counted report of each session and key

serviceVars == <<sessions, turn, track, janitor, queue, started, finished, totals, count, last>>
books == <<started, finished, totals, count>>
tasks == <<track, janitor, queue>>

----------------------------------------------------------------------------
(* Client reports.  A key is a message id and a metric; legacy clients of   *)
(* playback_started name a request number instead.                          *)

NoMsg == "no message"
Legacy == "legacy request"
Keys == (Msgs \cup {Legacy}) \X Metrics

Old == TTL + 1          \* every age past TTL
Never == -1             \* history only
NoReports == <<>>
NoTurn == [session |-> NoMsg, stage |-> "unborn", cancelled |-> FALSE, text |-> FALSE,
           frame |-> FALSE, sent |-> FALSE, panicked |-> FALSE]

Observe(names) == count' = [h \in Histograms |-> count[h] + (IF h \in names THEN 1 ELSE 0)]

Sized(reported, ks) == [k \in ks |-> reported[k]]
Fresh(reported) == {k \in DOMAIN reported : reported[k] <= TTL}

\* Fault: the table makes room by dropping its newest entry.
EvictableNewest(reported, ks) == {k \in ks : \A j \in ks : reported[k] <= reported[j]}

\* min_by_key on the instants: one of the oldest.
Evictable(reported, ks) == {k \in ks : \A j \in ks : reported[k] >= reported[j]}

\* A payload that can be decoded finds the session of its connection or makes it.
\* An id may come back, be it that a client reconnects or that an old connection
\* is closed after a new one has begun.
Entered(s) ==
    [r \in DOMAIN sessions \cup {s} |-> IF r \in DOMAIN sessions THEN sessions[r] ELSE NoReports]

\* remember_client_metric_once returns true: the entries past the TTL are gone,
\* the key is not there, the oldest entry leaves a full table, the key enters.
Remember(s, key) ==
    LET reported == Entered(s)[s]
        fresh == Fresh(reported)
    IN  /\ key \notin fresh
        /\ \E gone \in IF Cardinality(fresh) >= MaxReports
                       THEN {{k} : k \in Evictable(reported, fresh)} ELSE {{}} :
              sessions' = [Entered(s) EXCEPT ![s] =
                  [k \in (fresh \ gone) \cup {key} |-> IF k = key THEN 0 ELSE reported[k]]]
        /\ last' = [last EXCEPT ![s][key] = 0]

\* The duplicate is refused, but the entries past the TTL are gone all the same.
Refuse(s, key) ==
    LET fresh == Fresh(Entered(s)[s])
    IN  /\ key \in fresh
        /\ sessions' = [sessions EXCEPT ![s] = Sized(sessions[s], fresh)]
        /\ UNCHANGED last

\* PlaybackStarted with an id, or else with a request number above 0;
\* ClientMetricReport with an id.  Delays outside 0..30 s and reports that name
\* nothing are ignored before the filter sees them.
ReportKeys == {<<m, k>> : m \in Msgs, k \in Metrics} \cup {<<Legacy, "playback">>}

Report(s) ==
    /\ \E key \in ReportKeys : Remember(s, key) \/ Refuse(s, key)
    /\ UNCHANGED <<turn, tasks, books>>

Older(age) == IF age = Never THEN Never ELSE IF age = Old THEN Old ELSE age + 1

Tick ==
    /\ sessions' = [s \in DOMAIN sessions |-> [k \in DOMAIN sessions[s] |-> Older(sessions[s][k])]]
    /\ last' = [s \in Sessions |-> [k \in Keys |-> Older(last[s][k])]]
    /\ UNCHANGED <<turn, tasks, books>>

----------------------------------------------------------------------------
(* Messages of the connections.                                             *)

InitService ==
    /\ sessions = <<>>
    /\ turn = [t \in Turns |-> NoTurn]
    /\ track = [t \in Turns |-> "none"]
    /\ janitor = "starting"
    /\ queue = <<>>
    /\ started = 0
    /\ finished = [r \in Results |-> 0]
    /\ totals = [r \in Totals |-> 0]
    /\ count = [h \in Histograms |-> 0]
    /\ last = [s \in Sessions |-> [k \in Keys |-> Never]]

Live(t) == turn[t].stage \notin {"unborn", "over"}

\* One that spawns nothing and is no report.
OtherPayload(s) ==
    /\ sessions' = Entered(s)
    /\ UNCHANGED <<turn, tasks, books, last>>

\* A payload that spawns a pipeline: its handle goes to a helper task.
Utterance(s, t) ==
    /\ turn[t] = NoTurn
    /\ turn' = [turn EXCEPT ![t] = [NoTurn EXCEPT !.session = s, !.stage = "asr"]]
    /\ track' = [track EXCEPT ![t] = "spawned"]
    /\ started' = started + 1
    /\ sessions' = Entered(s)
    /\ UNCHANGED <<janitor, queue, finished, totals, count, last>>

CancelSession(s) ==
    turn' = [t \in Turns |-> IF turn[t].session = s /\ Live(t)
                             THEN [turn[t] EXCEPT !.cancelled = TRUE] ELSE turn[t]]

Interrupt(s) ==
    /\ sessions' = Entered(s)
    /\ CancelSession(s)
    /\ UNCHANGED <<tasks, books, last>>

\* WsDisconnect removes the session, whose drop cancels its pipelines; their
\* handles stay with the service.
Disconnect(s) ==
    /\ s \in DOMAIN sessions
    /\ sessions' = [r \in DOMAIN sessions \ {s} |-> sessions[r]]
    /\ CancelSession(s)
    /\ last' = [last EXCEPT ![s] = [k \in Keys |-> Never]]
    /\ UNCHANGED <<tasks, books>>

----------------------------------------------------------------------------
(* A pipeline and its guard.                                                *)

Total(result) == IF result = "empty_response" THEN "failed" ELSE result

\* Fault: an empty response is in no total.
FinishedUntotalled(result) ==
    /\ finished' = [finished EXCEPT ![result] = @ + 1]
    /\ totals' = IF result \in Totals THEN [totals EXCEPT ![result] = @ + 1] ELSE totals

\* pipeline_finished
Finished(result) ==
    /\ finished' = [finished EXCEPT ![result] = @ + 1]
    /\ totals' = [totals EXCEPT ![Total(result)] = @ + 1]

\* The guard is dropped with the result it was given: Failed if none.
DropGuard(t, result, panicked) ==
    /\ turn' = [turn EXCEPT ![t] = [NoTurn EXCEPT !.stage = "over", !.panicked = panicked]]
    /\ Finished(result)
    /\ Observe({"duration"} \cup IF result = "success" THEN {"e2e_complete"} ELSE {})
    /\ UNCHANGED <<sessions, tasks, started, last>>

Ends(t, result) == DropGuard(t, result, FALSE)

\* Every await watches the token, and so does every send that can end the pipeline.
ObserveCancel(t) == Live(t) /\ turn[t].cancelled /\ Ends(t, "cancelled")

\* The recognition fails, times out or hears nothing.
AsrEnds(t) ==
    /\ turn[t].stage = "asr"
    /\ \E result \in {"failed", "timeout", "empty_response"} : Ends(t, result)

Noted(t, guard, names) ==
    /\ turn' = [turn EXCEPT ![t] = guard]
    /\ Observe(names)
    /\ UNCHANGED <<sessions, tasks, started, finished, totals, last>>

\* The recognition has text, which takes the floor from the pipelines before.
AsrHeard(t) ==
    /\ turn[t].stage = "asr"
    /\ ~turn[t].cancelled
    /\ turn' = [q \in Turns |->
          IF q = t THEN [turn[t] EXCEPT !.stage = "answer"]
          ELSE IF turn[q].session = turn[t].session /\ turn[q].stage = "answer"
               THEN [turn[q] EXCEPT !.cancelled = TRUE] ELSE turn[q]]
    /\ UNCHANGED <<sessions, tasks, books, last>>

\* The pipeline is in the middle of an item between its first frame and the
\* sending of it.
MidItem(t) == turn[t].frame /\ ~turn[t].sent

\* record_llm_first_text, once
FirstText(t) ==
    /\ turn[t].stage = "answer"
    /\ ~MidItem(t)
    /\ ~turn[t].text
    /\ Noted(t, [turn[t] EXCEPT !.text = TRUE], {"llm_first_text"})

\* record_tts_first_frame
FrameNames(t) ==
    {"tts_first_frame"} \cup IF turn[t].text THEN {"llm_first_text_to_tts_first_frame"} ELSE {}

\* The first sound is recorded before the token is looked at.
FirstFrame(t) ==
    /\ turn[t].stage = "answer"
    /\ ~turn[t].frame
    /\ Noted(t, [turn[t] EXCEPT !.frame = TRUE], FrameNames(t))

\* record_first_audio_ws_sent, at the end of the same item: the send was accepted.
\* Else the pipeline has ended, by ObserveCancel or AudioRefused.
FirstSent(t) ==
    /\ turn[t].stage = "answer"
    /\ turn[t].frame
    /\ ~turn[t].sent
    /\ ~turn[t].cancelled
    /\ Noted(t, [turn[t] EXCEPT !.sent = TRUE],
             {"ws_first_audio_sent", "tts_first_frame_to_ws_first_audio_sent"})

\* send_tts_audio returns false for a frame, the first or a later one, that cannot
\* be encoded or that a full or closed mailbox refuses.  The token need not be
\* cancelled, and the result is Cancelled all the same.
AudioRefused(t) == turn[t].stage = "answer" /\ Ends(t, "cancelled")

\* The items end, or one of them is a failure.
ItemsEnd(t) == turn[t].stage = "answer" /\ ~MidItem(t) /\ Ends(t, "success")
ItemsFail(t) == turn[t].stage = "answer" /\ ~MidItem(t) /\ Ends(t, "failed")

\* Cancelled between its last audio, which may be empty, and its last status:
\* returns with the result the guard was born with.
LastStatusRefused(t) ==
    /\ turn[t].stage = "answer"
    /\ turn[t].cancelled
    /\ ~MidItem(t)
    /\ Ends(t, "failed")

\* The task unwinds, and drops its guard.
Panic(t) == Live(t) /\ DropGuard(t, "failed", TRUE)

TurnStep(t) ==
    \/ ObserveCancel(t) \/ AsrEnds(t) \/ AsrHeard(t) \/ FirstText(t)
    \/ FirstFrame(t) \/ FirstSent(t) \/ AudioRefused(t)
    \/ ItemsEnd(t) \/ ItemsFail(t) \/ LastStatusRefused(t)

----------------------------------------------------------------------------
(* The JoinSet.                                                             *)

InSet == {t \in Turns : track[t] \in {"tracked", "ended"}}
Locked == janitor = "joining"

HelperAsks(t) ==
    /\ track[t] = "spawned"
    /\ track' = [track EXCEPT ![t] = "asking"]
    /\ queue' = Append(queue, t)
    /\ UNCHANGED <<sessions, turn, janitor, books, last>>

\* The helper has the lock for as long as it takes to spawn the child.
HelperTracks(t) ==
    /\ ~Locked
    /\ queue # <<>> /\ Head(queue) = t
    /\ queue' = Tail(queue)
    /\ track' = [track EXCEPT ![t] = "tracked"]
    /\ UNCHANGED <<sessions, turn, janitor, books, last>>

\* The child awaits the handle and logs a panic.
ChildEnds(t) ==
    /\ track[t] = "tracked"
    /\ turn[t].stage = "over"
    /\ track' = [track EXCEPT ![t] = "ended"]
    /\ UNCHANGED <<sessions, turn, janitor, queue, books, last>>

JanitorAsks ==
    /\ janitor = "starting"
    /\ janitor' = "asking"
    /\ queue' = Append(queue, Janitor)
    /\ UNCHANGED <<sessions, turn, track, books, last>>

JanitorLocks ==
    /\ janitor = "asking"
    /\ Head(queue) = Janitor
    /\ queue' = Tail(queue)
    /\ janitor' = "joining"
    /\ UNCHANGED <<sessions, turn, track, books, last>>

\* join_next returned a child; the guard of the lock goes with the iteration.
JanitorJoins(t) ==
    /\ janitor = "joining"
    /\ track[t] = "ended"
    /\ track' = [track EXCEPT ![t] = "joined"]
    /\ janitor' = "starting"
    /\ UNCHANGED <<sessions, turn, queue, books, last>>

\* Fault: join_next of an empty set waits, under the lock, for a child to come.
JanitorWaits == FALSE

\* join_next of an empty set returns None at once.
JanitorExits ==
    /\ janitor = "joining"
    /\ InSet = {}
    /\ janitor' = "over"
    /\ UNCHANGED <<sessions, turn, track, queue, books, last>>

Janitorial == JanitorAsks \/ JanitorLocks \/ JanitorExits \/ \E t \in Turns : JanitorJoins(t)

Connections ==
    \E s \in Sessions : OtherPayload(s) \/ Interrupt(s) \/ Disconnect(s)

Pipelines ==
    \E t \in Turns :
        \/ TurnStep(t) \/ Panic(t)
        \/ HelperAsks(t) \/ HelperTracks(t) \/ ChildEnds(t)
        \/ \E s \in Sessions : Utterance(s, t)

Reports == Tick \/ \E s \in Sessions : Report(s)

NextService == Connections \/ Pipelines \/ Reports \/ Janitorial

SpecService == InitService /\ [][NextService]_serviceVars

\* The runtime polls every task that can go on; a pipeline comes to its end
\* (its recognition times out, its clients have timeouts of their own).
Fairness ==
    /\ \A t \in Turns :
          /\ WF_serviceVars(TurnStep(t))
          /\ WF_serviceVars(HelperAsks(t) \/ HelperTracks(t) \/ ChildEnds(t))
    /\ WF_serviceVars(Janitorial)

----------------------------------------------------------------------------
(* Properties.                                                              *)

\* The books balance: every pipeline that started is alive or finished with one
\* result, the totals say the same as the labels, and the stages of the way to
\* the client's ear follow from one another (Drop for PipelineMetricsGuard).
BooksBalance ==
    LET done == SumFunction(finished)
        alive == Cardinality({t \in Turns : Live(t)})
    IN  /\ started = done + alive
        /\ SumFunction(totals) = done
        /\ count["duration"] = done
        /\ count["e2e_complete"] = totals["success"]
        /\ count["ws_first_audio_sent"] <= count["tts_first_frame"]
        /\ count["tts_first_frame"] - count["ws_first_audio_sent"]
              <= alive + finished["cancelled"] + finished["failed"]
        /\ count["llm_first_text_to_tts_first_frame"] <= count["llm_first_text"]

\* A report of a message and metric of a session is counted again only when the
\* first is older than the TTL, or MaxReports others came with or after it.
CountedOnce ==
    [][\A s \in Sessions : \A key \in ReportKeys :
          Remember(s, key) =>
              \/ last[s][key] \in {Never, Old}
              \/ Cardinality({k \in Keys \ {key} : last[s][k] \in 0..last[s][key]}) >= MaxReports]_serviceVars

\* The panic of a pipeline is in the log in the end, also when the janitor holds the lock
\* of the JoinSet, or has ended.
PanicsLogged == <>[](\A t \in Turns : turn[t].panicked => track[t] \in {"ended", "joined"})

\* The set does not grow without bound: what has ended leaves it.  The comment
\* on pipeline_tasks promises it; the janitor that has met an empty set is gone.
EndedLeavesSet == \A t \in Turns : track[t] = "ended" ~> track[t] = "joined"
=============================================================================
