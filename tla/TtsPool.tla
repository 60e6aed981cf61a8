------------------------------ MODULE TtsPool ------------------------------
(***************************************************************************)
(* The pool of TTS WebSocket connections (client/tts_ws.rs) and the input  *)
(* sessions that use it as llm_tts_items does (pipeline/llm_tts.rs).       *)
(*                                                                         *)
(* Each client is one TtsWsInputSession, driven by the pipeline of one     *)
(* request. Sessions live on different threads and share the pool, so an   *)
(* action is one locked section or one network exchange. A pipeline that   *)
(* is cancelled drops its session at any await in between (Cancel).        *)
(*                                                                         *)
(* Left out: generation and owner_session_id (the generation changes only  *)
(* when an entry is closed, which no one reopens; the owner changes with   *)
(* lease_id), the voice, the order of entries and of waiters (found in any *)
(* order here), and TtsWsClient::close, which has no caller. An entry that *)
(* no one refers to any more is used anew.                                 *)
(***************************************************************************)
EXTENDS Integers, FiniteSets

CONSTANTS
    Clients,            \* input sessions
    Conns,              \* entries of the pool (bound of the model)
    NoConn,             \* no entry
    MaxConnections,     \* max_connections
    Cancellable,        \* clients whose pipeline may be cancelled
    Blanks,             \* whether answers hold white space between sentences
    MaxCalls            \* bound of the model: messages of one answer but white space

ASSUME NoConnAssumption == NoConn \notin Conns
ASSUME MaxConnectionsAssumption == MaxConnections \in Nat \ {0}
ASSUME CancellableAssumption == Cancellable \subseteq Clients
ASSUME BlanksAssumption == Blanks \in BOOLEAN
ASSUME MaxCallsAssumption == MaxCalls \in Nat

VARIABLES
    pc,         \* per client: the await it is in
    conn,       \* per client: the entry it reserved or leased
    lease,      \* per client: the lease_id it was given
    leased,     \* per client: it owns a TtsWsLease not marked released
    todo,       \* per client: entries of its snapshot not looked at yet
    woken,      \* per client: what its Notified has received
    op,         \* per client: the message being sent
    again,      \* per client: this is the second attempt to send it
    talk,       \* per client: its utterance since the last session.done
    calls,      \* per client: messages sent so far, but white space
    pool,       \* TtsWsPool::entries
    state,      \* per entry: ConnectionState
    leaseId,    \* per entry: ConnectionMeta::lease_id
    socket,     \* per entry: its stream is there
    wire,       \* per entry: what the provider was sent and has not answered
    permit,     \* the permit notify_one leaves when no one waits
    jobs,       \* invalidations and reaps under way
    timers,     \* sleeping reaper tasks: the entry and the lease they are for
    gauge,      \* the metric tts_ws_pool_connections
    \* History, read by no action: what cancellations have left undone.
    abandoned,  \* entries whose client was cancelled without a lease to drop
    cutShort,   \* whether an invalidation was cut short after its first lock
    untold      \* a free slot that no one has told the waiters of

callVars == <<op, again, talk, calls>>
holdVars == <<conn, lease, leased>>
clientVars == <<pc, holdVars, todo, woken, callVars>>
entryVars == <<pool, state, leaseId, socket, wire>>
taskVars == <<jobs, timers>>
lossVars == <<abandoned, cutShort, untold>>
vars == <<clientVars, entryVars, permit, taskVars, gauge, lossVars>>

Awaits == {"ready", "arm", "scan", "poll", "asleep", "dial", "dialed", "undial", "undialed",
           "greet", "send", "retrying", "failing", "release", "released", "gone"}
Talks == {"nothing", "blank", "text", "asked"}
Jobs == [kind : {"inline", "dropped", "reap"}, by : Clients \cup {NoConn},
         conn : Conns, step : {"mark", "hangup", "remove"}, open : BOOLEAN]

TypeOK ==
    /\ pc \in [Clients -> Awaits]
    /\ conn \in [Clients -> Conns \cup {NoConn}]
    /\ lease \in [Clients -> Nat]
    /\ leased \in [Clients -> BOOLEAN]
    /\ todo \in [Clients -> SUBSET Conns]
    /\ woken \in [Clients -> {"no", "one", "all"}]
    /\ op \in [Clients -> {"blank", "text", "asked"}]
    /\ again \in [Clients -> BOOLEAN]
    /\ talk \in [Clients -> Talks]
    /\ calls \in [Clients -> 0..MaxCalls]
    /\ pool \in SUBSET Conns
    /\ state \in [Conns -> {"Connecting", "Idle", "InUse", "Closed"}]
    /\ leaseId \in [Conns -> Nat]
    /\ socket \in [Conns -> BOOLEAN]
    /\ wire \in [Conns -> Talks]
    /\ permit \in BOOLEAN
    /\ jobs \in SUBSET Jobs
    /\ timers \in SUBSET (Conns \X Nat)
    /\ gauge \in Int
    /\ abandoned \in SUBSET Conns
    /\ cutShort \in BOOLEAN
    /\ untold \in BOOLEAN

Init ==
    /\ pc = [c \in Clients |-> "ready"]
    /\ conn = [c \in Clients |-> NoConn]
    /\ lease = [c \in Clients |-> 0]
    /\ leased = [c \in Clients |-> FALSE]
    /\ todo = [c \in Clients |-> {}]
    /\ woken = [c \in Clients |-> "no"]
    /\ op = [c \in Clients |-> "text"]
    /\ again = [c \in Clients |-> FALSE]
    /\ talk = [c \in Clients |-> "nothing"]
    /\ calls = [c \in Clients |-> 0]
    /\ pool = {} /\ permit = FALSE /\ jobs = {} /\ timers = {} /\ gauge = 0
    /\ state = [e \in Conns |-> "Closed"]
    /\ leaseId = [e \in Conns |-> 0]
    /\ socket = [e \in Conns |-> FALSE]
    /\ wire = [e \in Conns |-> "nothing"]
    /\ abandoned = {} /\ cutShort = FALSE /\ untold = FALSE

-----------------------------------------------------------------------------
(* tokio::sync::Notify. A Notified exists from "arm" on and is in the list  *)
(* of waiters once it has been polled.                                      *)

NotifyWaiters ==
    /\ woken' = [c \in Clients |->
                    IF pc[c] \in {"scan", "poll", "asleep"} /\ woken[c] = "no"
                    THEN "all" ELSE woken[c]]
    /\ untold' = FALSE

Waiting == {c \in Clients : pc[c] = "asleep" /\ woken[c] = "no"}

\* Wakes one of those waiters, or leaves the permit.
NotifyOneOf(waiters, kept) ==
    \/ \E w \in waiters : woken' = [kept EXCEPT ![w] = "one"] /\ UNCHANGED permit
    \/ waiters = {} /\ permit' = TRUE /\ woken' = kept

-----------------------------------------------------------------------------
(* Leases and tasks.                                                        *)

To(c, await) == pc' = [pc EXCEPT ![c] = await]

Job(kind, c, e) == [kind |-> kind, by |-> c, conn |-> e, step |-> "mark", open |-> TRUE]

\* Fault: the drop does not ask whether there is a lease.
DroppedAlways(c) == {Job("dropped", c, conn[c])}

\* Drop for TtsWsLease: a lease that was not released is invalidated by a
\* task of its own.
Dropped(c) == IF leased[c] THEN {Job("dropped", c, conn[c])} ELSE {}

\* check_owner.
Owns(c) == state[conn[c]] = "InUse" /\ leaseId[conn[c]] = lease[c]

Forget(c) ==
    /\ conn' = [conn EXCEPT ![c] = NoConn]
    /\ lease' = [lease EXCEPT ![c] = 0]
    /\ leased' = [leased EXCEPT ![c] = FALSE]

\* The input session of c is gone, and its locals with it.
Leave(c) ==
    /\ To(c, "gone")
    /\ Forget(c)
    /\ todo' = [todo EXCEPT ![c] = {}]
    /\ op' = [op EXCEPT ![c] = "text"]
    /\ again' = [again EXCEPT ![c] = FALSE]
    /\ talk' = [talk EXCEPT ![c] = "nothing"]
    /\ calls' = [calls EXCEPT ![c] = 0]

\* A closed entry goes from the pool; its lease_id is of no use any more.
Discard(e) ==
    /\ pool' = pool \ {e}
    /\ leaseId' = [leaseId EXCEPT ![e] = 0]
    /\ abandoned' = abandoned \ {e}

-----------------------------------------------------------------------------
(* acquire.                                                                 *)

\* Arms a Notified and takes the snapshot of the entries.
Arm(c) ==
    /\ pc[c] = "arm"
    /\ To(c, "scan")
    /\ todo' = [todo EXCEPT ![c] = pool]
    /\ UNCHANGED <<holdVars, woken, callVars, entryVars, permit, taskVars, gauge, lossVars>>

\* Looks at the next entry; an idle one is taken under a new lease.
Scan(c) ==
    /\ pc[c] = "scan"
    /\ \E e \in todo[c] :
          IF state[e] = "Idle"
          THEN /\ To(c, "greet")
               /\ todo' = [todo EXCEPT ![c] = {}]
               /\ woken' = [woken EXCEPT ![c] = "no"]
               /\ state' = [state EXCEPT ![e] = "InUse"]
               /\ leaseId' = [leaseId EXCEPT ![e] = @ + 1]
               /\ conn' = [conn EXCEPT ![c] = e]
               /\ lease' = [lease EXCEPT ![c] = leaseId[e] + 1]
               /\ abandoned' = abandoned \ {e}
          ELSE /\ todo' = [todo EXCEPT ![c] = @ \ {e}]
               /\ UNCHANGED <<pc, conn, lease, woken, state, leaseId, abandoned>>
    /\ UNCHANGED <<leased, callVars, pool, socket, wire, permit, taskVars, gauge,
                   cutShort, untold>>

\* No one refers to e: it stands for an entry yet to be made.
Fresh(e) ==
    /\ e \notin pool
    /\ \A c \in Clients : conn[c] # e /\ e \notin todo[c]
    /\ \A j \in jobs : j.conn # e
    /\ \A t \in timers : t[1] # e

\* Fault: off by one.
HasRoomPast == Cardinality(pool) <= MaxConnections

HasRoom == Cardinality(pool) < MaxConnections

\* No entry is idle: room for one more is reserved before the handshake, or
\* the client waits.
Reserve(c) ==
    /\ pc[c] = "scan" /\ todo[c] = {}
    /\ IF HasRoom
       THEN \E e \in Conns :
               /\ Fresh(e)
               /\ To(c, "dial")
               /\ pool' = pool \cup {e}
               /\ gauge' = gauge + 1
               /\ state' = [state EXCEPT ![e] = "Connecting"]
               /\ leaseId' = [leaseId EXCEPT ![e] = 1]
               /\ conn' = [conn EXCEPT ![c] = e]
               /\ lease' = [lease EXCEPT ![c] = 1]
               /\ woken' = [woken EXCEPT ![c] = "no"]
               /\ UNCHANGED <<socket, wire>>
       ELSE To(c, "poll") /\ UNCHANGED <<conn, lease, woken, entryVars, gauge>>
    /\ UNCHANGED <<leased, todo, callVars, permit, taskVars, lossVars>>

\* The first poll of the Notified.
Poll(c) ==
    /\ pc[c] = "poll"
    /\ To(c, IF permit \/ woken[c] # "no" THEN "arm" ELSE "asleep")
    /\ permit' = FALSE
    /\ woken' = [woken EXCEPT ![c] = "no"]
    /\ UNCHANGED <<holdVars, todo, callVars, entryVars, taskVars, gauge, lossVars>>

Wake(c) ==
    /\ pc[c] = "asleep" /\ woken[c] # "no"
    /\ To(c, "arm")
    /\ woken' = [woken EXCEPT ![c] = "no"]
    /\ UNCHANGED <<holdVars, todo, callVars, entryVars, permit, taskVars, gauge, lossVars>>

\* Fault: no limit on the wait.
WaitForever(c) == FALSE

\* "TTS WebSocket pool wait timed out".
WaitTimesOut(c) ==
    /\ pc[c] = "asleep" /\ woken[c] = "no"
    /\ Leave(c)
    /\ UNCHANGED <<woken, entryVars, permit, taskVars, gauge, lossVars>>

\* The handshake and the first session.config.
DialSucceeds(c) ==
    /\ pc[c] = "dial"
    /\ To(c, "dialed")
    /\ socket' = [socket EXCEPT ![conn[c]] = TRUE]
    /\ state' = [state EXCEPT ![conn[c]] = "InUse"]
    /\ UNCHANGED <<holdVars, todo, woken, callVars, pool, leaseId, wire, permit, taskVars,
                   gauge, lossVars>>

DialFails(c) ==
    /\ pc[c] = "dial"
    /\ To(c, "undial")
    /\ state' = [state EXCEPT ![conn[c]] = "Closed"]
    /\ UNCHANGED <<holdVars, todo, woken, callVars, pool, leaseId, socket, wire, permit,
                   taskVars, gauge, lossVars>>

Unreserve(c) ==
    /\ pc[c] = "undial"
    /\ To(c, "undialed")
    /\ Discard(conn[c])
    /\ gauge' = gauge - 1
    /\ UNCHANGED <<holdVars, todo, woken, callVars, state, socket, wire, permit,
                   taskVars, cutShort, untold>>

ReportUnreserved(c) ==
    /\ pc[c] = "undialed"
    /\ NotifyWaiters
    /\ Leave(c)
    /\ UNCHANGED <<entryVars, permit, taskVars, gauge, abandoned, cutShort>>

\* The gauges were refreshed, or session.config was sent on a connection that was
\* used before: the input session has its lease and sends its message.
Grant(c) ==
    /\ pc[c] \in {"dialed", "greet"}
    /\ To(c, "send")
    /\ leased' = [leased EXCEPT ![c] = TRUE]
    /\ UNCHANGED <<conn, lease, todo, woken, callVars, entryVars, permit, taskVars, gauge, lossVars>>

\* A client awaits the invalidation of its own entry.
Invalidate(c, await) ==
    /\ To(c, await)
    /\ jobs' = jobs \cup {Job("inline", c, conn[c])}
    /\ UNCHANGED timers

\* Fault: the error is returned, the entry stays as it is.
GreetFailsForgetting(c) ==
    /\ pc[c] = "greet"
    /\ Leave(c)
    /\ UNCHANGED <<woken, entryVars, permit, taskVars, gauge, lossVars>>

GreetFails(c) ==
    /\ pc[c] = "greet"
    /\ Invalidate(c, "failing")
    /\ UNCHANGED <<holdVars, todo, woken, callVars, entryVars, permit, gauge, lossVars>>

-----------------------------------------------------------------------------
(* The input session, as llm_tts_items drives it.                           *)

Call(c, message) ==
    /\ pc[c] = "ready"
    /\ IF message = "blank" THEN UNCHANGED calls
       ELSE calls[c] < MaxCalls /\ calls' = [calls EXCEPT ![c] = @ + 1]
    /\ op' = [op EXCEPT ![c] = message]
    /\ To(c, IF leased[c] THEN "send" ELSE "arm")
    /\ UNCHANGED <<holdVars, todo, woken, again, talk, entryVars, permit, taskVars, gauge, lossVars>>

\* Text is sent as it comes, up to the end of a sentence; white space alone
\* when it follows that end.
SendText(c) ==
    /\ talk[c] # "asked"
    /\ \/ Call(c, "text")
       \/ Blanks /\ leased[c] /\ talk[c] = "nothing" /\ Call(c, "blank")

\* The sentence is complete: input.done.
Flush(c) ==
    /\ talk[c] = "text"
    /\ Call(c, "asked")

SendSucceeds(c) ==
    /\ pc[c] = "send" /\ Owns(c)
    /\ To(c, "ready")
    /\ talk' = [talk EXCEPT ![c] = op[c]]
    /\ wire' = [wire EXCEPT ![conn[c]] = op[c]]
    /\ op' = [op EXCEPT ![c] = "text"]
    /\ again' = [again EXCEPT ![c] = FALSE]
    /\ UNCHANGED <<holdVars, todo, woken, calls, pool, state, leaseId, socket, permit, taskVars,
                   gauge, lossVars>>

\* The first failure is followed by another attempt on another lease, the
\* second by the end of the request.
SendFails(c) ==
    /\ pc[c] = "send"
    /\ Invalidate(c, IF again[c] THEN "failing" ELSE "retrying")
    /\ UNCHANGED <<holdVars, todo, woken, callVars, entryVars, permit, gauge, lossVars>>

\* session.done.
Answered(c) ==
    /\ pc[c] = "ready" /\ talk[c] = "asked" /\ Owns(c)
    /\ talk' = [talk EXCEPT ![c] = "nothing"]
    /\ wire' = [wire EXCEPT ![conn[c]] = "nothing"]
    /\ UNCHANGED <<pc, holdVars, todo, woken, op, again, calls, pool, state, leaseId, socket,
                   permit, taskVars, gauge, lossVars>>

\* An error of the provider or of the connection, the request timeout; or the
\* LLM failed, and the session is closed.
Breaks(c) ==
    /\ pc[c] = "ready" /\ leased[c]
    /\ Invalidate(c, "failing")
    /\ UNCHANGED <<holdVars, todo, woken, callVars, entryVars, permit, gauge, lossVars>>

\* The invalidation c awaits is over. It drops its lease, if it had one.
Resume(c) ==
    /\ pc[c] \in {"retrying", "failing"}
    /\ \A j \in jobs : ~(j.kind = "inline" /\ j.by = c)
    /\ jobs' = jobs \cup Dropped(c)
    /\ \/ /\ pc[c] = "retrying"
          /\ To(c, "arm")
          /\ Forget(c)
          /\ again' = [again EXCEPT ![c] = TRUE]
          /\ UNCHANGED <<todo, op, talk, calls>>
       \/ pc[c] = "failing" /\ Leave(c)
    /\ UNCHANGED <<woken, entryVars, permit, timers, gauge, lossVars>>

\* Faults: an utterance still unanswered does not matter; the lease is not
\* marked released.
FinishAsked(c) ==
    /\ pc[c] = "ready" /\ leased[c]
    /\ To(c, "release")
    /\ leased' = [leased EXCEPT ![c] = FALSE]
    /\ talk' = [talk EXCEPT ![c] = "nothing"]
    /\ UNCHANGED <<conn, lease, todo, op, again, calls, woken, entryVars, permit, taskVars,
                   gauge, lossVars>>

FinishStillLeased(c) ==
    /\ pc[c] = "ready" /\ leased[c] /\ talk[c] \in {"nothing", "blank"}
    /\ To(c, "release")
    /\ talk' = [talk EXCEPT ![c] = "nothing"]
    /\ UNCHANGED <<holdVars, todo, op, again, calls, woken, entryVars, permit, taskVars, gauge, lossVars>>

\* The answer is over, but for white space that was sent after the last
\* sentence. finish: the lease is marked released.
Finish(c) ==
    /\ pc[c] = "ready" /\ talk[c] \in {"nothing", "blank"}
    /\ IF leased[c]
       THEN /\ To(c, "release")
            /\ leased' = [leased EXCEPT ![c] = FALSE]
            /\ talk' = [talk EXCEPT ![c] = "nothing"]
            /\ UNCHANGED <<conn, lease, todo, op, again, calls>>
       ELSE Leave(c)
    /\ UNCHANGED <<woken, entryVars, permit, taskVars, gauge, lossVars>>

Release(c) ==
    /\ pc[c] = "release"
    /\ IF Owns(c)
       THEN /\ To(c, "released")
            /\ state' = [state EXCEPT ![conn[c]] = "Idle"]
            /\ UNCHANGED <<holdVars, todo, callVars>>
       ELSE Leave(c) /\ UNCHANGED state
    /\ UNCHANGED <<woken, pool, leaseId, socket, wire, permit, taskVars, gauge, lossVars>>

\* Fault: no reaper is scheduled.
ReportReleasedUnwatched(c) ==
    /\ pc[c] = "released"
    /\ NotifyOneOf(Waiting, woken)
    /\ Leave(c)
    /\ UNCHANGED <<entryVars, taskVars, gauge, lossVars>>

\* The gauges were refreshed: the reaper is scheduled, a waiter is woken.
ReportReleased(c) ==
    /\ pc[c] = "released"
    /\ timers' = timers \cup {<<conn[c], lease[c]>>}
    /\ NotifyOneOf(Waiting, woken)
    /\ Leave(c)
    /\ UNCHANGED <<entryVars, jobs, gauge, lossVars>>

\* The entry c is at work on without a TtsWsLease that is still to be released:
\* acquire has not made one yet, or release has marked it already.
LeavesBehind(c) == {e \in pool : conn[c] = e /\ ~leased[c] /\ leaseId[e] = lease[c]}

\* c awaits an invalidation that is past its first lock.
CutsShort(c) == \E j \in jobs : j.kind = "inline" /\ j.by = c /\ j.step # "mark"

\* The pipeline drops its item stream, and the session in whatever await it is.
\* A waiter that had been woken hands the notification on.
Cancel(c) ==
    /\ c \in Cancellable /\ pc[c] # "gone"
    /\ jobs' = {j \in jobs : ~(j.kind = "inline" /\ j.by = c)} \cup Dropped(c)
    /\ IF pc[c] = "asleep" /\ woken[c] = "one"
       THEN NotifyOneOf(Waiting, [woken EXCEPT ![c] = "no"])
       ELSE woken' = [woken EXCEPT ![c] = "no"] /\ UNCHANGED permit
    /\ Leave(c)
    /\ abandoned' = abandoned \cup LeavesBehind(c)
    /\ cutShort' = (cutShort \/ CutsShort(c))
    /\ untold' = (untold \/ pc[c] = "undialed")
    /\ UNCHANGED <<entryVars, timers, gauge>>

-----------------------------------------------------------------------------
(* invalidate and the reaper.                                               *)

Advance(j, next) == jobs' = (jobs \ {j}) \cup {next}

Mark(j) ==
    /\ j.step = "mark"
    /\ Advance(j, [j EXCEPT !.step = "hangup", !.open = (state[j.conn] # "Closed")])
    /\ state' = [state EXCEPT ![j.conn] = "Closed"]
    /\ UNCHANGED <<clientVars, pool, leaseId, socket, wire, permit, timers, gauge, lossVars>>

HangUp(j) ==
    /\ j.step = "hangup"
    /\ Advance(j, [j EXCEPT !.step = "remove"])
    /\ socket' = [socket EXCEPT ![j.conn] = FALSE]
    /\ wire' = [wire EXCEPT ![j.conn] = "nothing"]
    /\ UNCHANGED <<clientVars, pool, state, leaseId, permit, timers, gauge, lossVars>>

\* Faults: an entry already counted out is counted again; the waiters are not told.
RemoveRecounted(j) ==
    /\ j.step = "remove"
    /\ Discard(j.conn)
    /\ gauge' = gauge - 1
    /\ NotifyWaiters
    /\ jobs' = jobs \ {j}
    /\ UNCHANGED <<pc, holdVars, todo, callVars, state, socket, wire, permit, timers, cutShort>>

RemoveQuietly(j) ==
    /\ j.step = "remove"
    /\ Discard(j.conn)
    /\ gauge' = IF j.open /\ j.conn \in pool THEN gauge - 1 ELSE gauge
    /\ jobs' = jobs \ {j}
    /\ UNCHANGED <<clientVars, state, socket, wire, permit, timers, cutShort, untold>>

Remove(j) ==
    /\ j.step = "remove"
    /\ Discard(j.conn)
    /\ gauge' = IF j.open /\ j.conn \in pool THEN gauge - 1 ELSE gauge
    /\ NotifyWaiters
    /\ jobs' = jobs \ {j}
    /\ UNCHANGED <<pc, holdVars, todo, callVars, state, socket, wire, permit, timers, cutShort>>

\* Whether the entry is still idle and was not leased since. Fault: it compares
\* with the lease to come.
UnusedSincePast(e, id) == state[e] = "Idle" /\ leaseId[e] = id + 1

UnusedSince(e, id) == state[e] = "Idle" /\ leaseId[e] = id

\* Twenty seconds after its release an unused entry is closed.
Expire(e, id) ==
    /\ timers' = timers \ {<<e, id>>}
    /\ IF UnusedSince(e, id)
       THEN /\ state' = [state EXCEPT ![e] = "Closed"]
            /\ jobs' = jobs \cup {[Job("reap", NoConn, e) EXCEPT !.step = "hangup"]}
       ELSE UNCHANGED <<state, jobs>>
    /\ UNCHANGED <<clientVars, pool, leaseId, socket, wire, permit, gauge, lossVars>>

-----------------------------------------------------------------------------

Acquire(c) ==
    \/ Arm(c) \/ Scan(c) \/ Reserve(c) \/ Poll(c) \/ Wake(c) \/ WaitTimesOut(c)
    \/ DialSucceeds(c) \/ DialFails(c) \/ Unreserve(c) \/ ReportUnreserved(c)
    \/ Grant(c) \/ GreetFails(c)

Use(c) ==
    \/ SendText(c) \/ Flush(c) \/ SendSucceeds(c) \/ SendFails(c)
    \/ Answered(c) \/ Breaks(c) \/ Resume(c)
    \/ Finish(c) \/ Release(c) \/ ReportReleased(c)

Task ==
    \/ \E j \in jobs : Mark(j) \/ HangUp(j) \/ Remove(j)
    \/ \E t \in timers : Expire(t[1], t[2])

Next == (\E c \in Clients : Acquire(c) \/ Use(c) \/ Cancel(c)) \/ Task

Spec == Init /\ [][Next]_vars

\* Tasks are polled, an answer comes to its end, and each exchange with the
\* provider succeeds, fails or times out. Nothing obliges a pipeline to be
\* cancelled.
Fairness == WF_vars(Task) /\ \A c \in Clients : WF_vars(Acquire(c) \/ Use(c))

FairSpec == Spec /\ Fairness

-----------------------------------------------------------------------------
(* Properties.                                                              *)

\* The provider never sees more connections than max_connections, counting
\* those in their handshake and those being closed, however reservations,
\* invalidations and reaps overlap (acquire, invalidate, schedule_reap).
ConnectionsBounded ==
    Cardinality({e \in Conns : socket[e]})
      + Cardinality({c \in Clients : pc[c] = "dial"}) <= MaxConnections

Holds(c) == leased[c] /\ pc[c] \in {"ready", "send"}

\* A session that holds a lease holds it alone, and no one closes or lends its
\* connection meanwhile: neither an old reaper, nor the invalidation of a lease
\* that ended (TtsWsLease, check_owner).
LeaseHolds ==
    \A c \in Clients : Holds(c) =>
        /\ Owns(c) /\ socket[conn[c]]
        /\ \A d \in Clients \ {c} : ~(Holds(d) /\ conn[d] = conn[c])

\* The reply that a connection owes is owed to the session that holds it: an
\* entry is never passed on before its session.done (finish, release).
ReplyReachesAsker ==
    /\ \A e \in Conns : state[e] = "Idle" => wire[e] \notin {"text", "asked"}
    /\ \A c \in Clients : Holds(c) => (wire[conn[c]] = "asked" <=> talk[c] = "asked")

InCharge(e) ==
    \/ \E c \in Clients : conn[c] = e
    \/ \E j \in jobs : j.conn = e

\* A slot of the pool is idle or someone is at work on it, who will free it.
\* A request that is cancelled while acquire or release is at work breaks it.
NoSlotLost == \A e \in pool : state[e] = "Idle" \/ InCharge(e)

\* That cancellation is the only way to lose a slot: every failure of a handshake,
\* of session.config and of a message, and the cancellation of a session that has
\* a lease to drop, leaves someone in charge of the entry (acquire, invalidate,
\* Drop for TtsWsLease).
SlotsAccounted == \A e \in pool : state[e] = "Idle" \/ InCharge(e) \/ e \in abandoned

\* An idle entry has a reaper that will close it, or its releaser is about to
\* schedule one, or was cancelled inside release, between the two. Nothing else
\* leaves it unwatched: neither the reapers of earlier leases nor a lease that
\* begins and ends before they wake (schedule_reap).
IdleAccounted ==
    \A e \in Conns : state[e] = "Idle" =>
        \/ <<e, leaseId[e]>> \in timers
        \/ \E c \in Clients : pc[c] = "released" /\ conn[c] = e
        \/ e \in abandoned

\* The metric tts_ws_pool_connections counts the entries until an invalidation is
\* cut short: done again by the drop of the lease, it finds the entry closed and does
\* not count it out. It never shows fewer connections than there are: no entry
\* is counted out twice (was_open and removed in invalidate).
GaugeAccounted ==
    /\ gauge >= Cardinality(pool)
    /\ ~cutShort => gauge = Cardinality(pool)

\* Someone will tell the waiters about an idle entry, or is about to find it
\* himself.
Stirring ==
    \/ permit
    \/ \E c \in Clients : pc[c] \in {"arm", "scan", "poll", "undialed", "released"} \/ woken[c] # "no"
    \/ jobs # {}

\* No one sleeps beside an idle entry unless a notification is on its way, as the
\* comment on the arming of the Notified promises. Two releases that find no one
\* polling leave one permit.
NoReleaseLost ==
    (\E e \in pool : state[e] = "Idle") /\ Waiting # {} => Stirring

\* No one sleeps beside a free slot, whatever the limit and however many wait: a
\* failed handshake is about to tell them of it, or was cancelled before it did
\* (acquire, invalidate, schedule_reap).
RoomTold ==
    HasRoom /\ Waiting # {} => untold \/ \E c \in Clients : pc[c] = "undialed"

\* A session that asks for a connection gets one or an error, even if the
\* entries it waits for are lost (the pool wait timeout).
AcquireEnds ==
    \A c \in Clients : pc[c] \in {"arm", "scan", "poll", "asleep"}
        ~> pc[c] \in {"dial", "greet", "gone"}

\* When the answers are over the pool gives all its connections back, but for those
\* that a cancellation has left in no one's charge (schedule_reap).
PoolDrains == <>[](pool \subseteq abandoned)
=============================================================================
