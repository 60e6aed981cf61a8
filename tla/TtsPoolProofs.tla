----------------------------- MODULE TtsPoolProofs -----------------------------
(***************************************************************************)
(* Proofs about TtsPool, for any clients, any limit and any number of      *)
(* messages, whichever pipelines are cancelled: a lease is held alone, its *)
(* reply reaches the session that asked, and the provider never sees more  *)
(* than max_connections. Then, as generally, what a cancellation may leave *)
(* undone and that nothing else does: the slots of the pool, the reapers   *)
(* of its idle entries, its gauge, and the word of a free slot.            *)
(*                                                                         *)
(* The argument is about who may touch an entry. One that is connecting or *)
(* in use is reached by the one client that reserved it; an idle one by    *)
(* whoever takes it; an invalidation begins only where its client stopped  *)
(* using the entry, and closes it before the client lets go.               *)
(***************************************************************************)
EXTENDS TtsPool, FiniteSetTheorems, TLAPS

(* What a client holds.                                                     *)

\* The awaits without an entry.
Seeking == {"arm", "scan", "poll", "asleep", "gone"}
\* The awaits in which a client is about to use an entry or gives it back.
Between == {"dialed", "greet", "release"}

NoDebt(e) == wire[e] \notin {"text", "asked"}

\* A lease is owned while it is used and until its invalidation is over; a
\* client has an entry exactly when it reserved or leased one.
Holding(c) ==
    /\ leased[c] => pc[c] \in {"ready", "send", "retrying", "failing"}
    /\ pc[c] = "send" => leased[c]
    /\ conn[c] = NoConn <=> pc[c] \in Seeking \/ (pc[c] = "ready" /\ ~leased[c])

\* The entry a client uses is in use under its lease; one in its handshake
\* is not connected yet; one whose invalidation is awaited is not idle.
Using(c) ==
    /\ pc[c] \in Between \/ Holds(c) =>
          Owns(c) /\ socket[conn[c]] /\ conn[c] \in pool
    /\ pc[c] = "dial" =>
          /\ state[conn[c]] = "Connecting" /\ leaseId[conn[c]] = lease[c]
          /\ ~socket[conn[c]] /\ wire[conn[c]] = "nothing" /\ conn[c] \in pool
    /\ pc[c] = "undial" => ~socket[conn[c]] /\ wire[conn[c]] = "nothing"
    /\ pc[c] \in {"retrying", "failing"} => state[conn[c]] \in {"InUse", "Closed"}

\* What the client believes it was sent is what its entry was sent.
Talking(c) ==
    /\ talk[c] = "asked" => (pc[c] = "ready" /\ leased[c]) \/ pc[c] = "failing"
    /\ pc[c] \in Between => NoDebt(conn[c])
    /\ Holds(c) => (wire[conn[c]] = "asked" <=> talk[c] = "asked")
    /\ Holds(c) /\ talk[c] \in {"nothing", "blank"} => NoDebt(conn[c])

\* No two clients have the same entry, but for those that released it.
Exclusive ==
    \A c, d \in Clients :
        c # d /\ conn[c] = conn[d] /\ conn[c] # NoConn => "released" \in {pc[c], pc[d]}

(* What an entry is.                                                        *)

\* Only an entry of the pool is connected; an idle one owes nothing, and no
\* one is at work on it.
Entry(e) ==
    /\ e \notin pool => ~socket[e] /\ wire[e] = "nothing"
    /\ state[e] = "Idle" =>
          /\ e \in pool /\ socket[e] /\ NoDebt(e)
          /\ \A j \in jobs : j.conn # e
          /\ \A c \in Clients : conn[c] = e => pc[c] = "released"

\* An invalidation is of an entry no one uses any more, which is closed
\* before it is removed.
Orderly(j) ==
    /\ state[j.conn] \in {"InUse", "Closed"}
    /\ j.step # "mark" => state[j.conn] = "Closed"
    /\ j.step = "remove" => ~socket[j.conn] /\ wire[j.conn] = "nothing"
    /\ \A c \in Clients : conn[c] = j.conn => pc[c] \in {"released", "retrying", "failing"}

Bounded == IsFiniteSet(pool) /\ Cardinality(pool) <= MaxConnections

IInv ==
    /\ TypeOK
    /\ \A c \in Clients : Holding(c) /\ Using(c) /\ Talking(c)
    /\ Exclusive
    /\ \A e \in Conns : Entry(e)
    /\ \A j \in jobs : Orderly(j)
    /\ Bounded

USE NoConnAssumption, MaxConnectionsAssumption, MaxCallsAssumption, CancellableAssumption

\* The steps, one by one.
LEMMA StepIs ==
    ASSUME TypeOK, [Next]_vars
    PROVE  \/ \E c \in Clients :
                 \/ Arm(c) \/ Poll(c) \/ Wake(c)
                 \/ WaitTimesOut(c) \/ ReportUnreserved(c) \/ ReportReleased(c)
                 \/ Scan(c)
                 \/ Reserve(c)
                 \/ DialSucceeds(c)
                 \/ DialFails(c)
                 \/ Unreserve(c)
                 \/ Grant(c)
                 \/ GreetFails(c) \/ SendFails(c) \/ Breaks(c)
                 \/ SendText(c) \/ Flush(c)
                 \/ SendSucceeds(c)
                 \/ Answered(c)
                 \/ Resume(c)
                 \/ Finish(c)
                 \/ Release(c)
                 \/ Cancel(c)
           \/ \E j \in jobs : Mark(j) \/ HangUp(j) \/ Remove(j)
           \/ \E e \in Conns, id \in Nat : Expire(e, id)
           \/ UNCHANGED vars
BY DEF Next, Acquire, Use, Task, TypeOK

\* What a client that is gone leaves behind.
LEMMA LeaveTypes ==
    ASSUME TypeOK, NEW c \in Clients, Leave(c)
    PROVE  /\ pc' \in [Clients -> Awaits]
           /\ conn' \in [Clients -> Conns \cup {NoConn}]
           /\ lease' \in [Clients -> Nat]
           /\ leased' \in [Clients -> BOOLEAN]
           /\ todo' \in [Clients -> SUBSET Conns]
           /\ op' \in [Clients -> {"blank", "text", "asked"}]
           /\ again' \in [Clients -> BOOLEAN]
           /\ talk' \in [Clients -> Talks]
           /\ calls' \in [Clients -> 0..MaxCalls]
BY DEF TypeOK, Leave, Forget, To, Awaits, Talks

\* notify_one.
LEMMA WakeTypes ==
    ASSUME TypeOK, NEW kept \in [Clients -> {"no", "one", "all"}], NEW waiters \in SUBSET Clients,
           NotifyOneOf(waiters, kept)
    PROVE  woken' \in [Clients -> {"no", "one", "all"}] /\ permit' \in BOOLEAN
<1>1. CASE \E w \in waiters : woken' = [kept EXCEPT ![w] = "one"] /\ UNCHANGED permit
  BY <1>1 DEF TypeOK
<1>2. CASE permit' = TRUE /\ woken' = kept
  BY <1>2
<1> QED BY <1>1, <1>2 DEF NotifyOneOf

\* A new task.
LEMMA JobType ==
    ASSUME NEW kind \in {"inline", "dropped", "reap"}, NEW c \in Clients \cup {NoConn},
           NEW e \in Conns
    PROVE  /\ Job(kind, c, e) \in Jobs
           /\ Job(kind, c, e).conn = e /\ Job(kind, c, e).step = "mark"
           /\ Job(kind, c, e).kind = kind /\ Job(kind, c, e).by = c /\ Job(kind, c, e).open
BY DEF Job, Jobs

\* A lease that is dropped is that of an entry.
LEMMA DroppedType ==
    ASSUME IInv, NEW c \in Clients
    PROVE  /\ Dropped(c) \subseteq Jobs
           /\ \A j \in Dropped(c) :
                 leased[c] /\ conn[c] \in Conns /\ j = Job("dropped", c, conn[c])
<1>1. leased[c] => conn[c] \in Conns
  BY DEF IInv, TypeOK, Holding, Seeking
<1> QED BY <1>1, JobType DEF Dropped

\* A task goes on to its next step.
LEMMA MarkAdvances ==
    ASSUME TypeOK, NEW j \in jobs, Mark(j)
    PROVE  \E n \in Jobs :
              /\ jobs' = (jobs \ {j}) \cup {n}
              /\ n.kind = j.kind /\ n.by = j.by /\ n.conn = j.conn
              /\ n.step = "hangup" /\ n.open = (state[j.conn] # "Closed")
<1> DEFINE n == [j EXCEPT !.step = "hangup", !.open = (state[j.conn] # "Closed")]
<1>1. j \in Jobs
  BY DEF TypeOK
<1>2. /\ n \in Jobs /\ n.kind = j.kind /\ n.by = j.by /\ n.conn = j.conn
      /\ n.step = "hangup" /\ n.open = (state[j.conn] # "Closed")
  BY <1>1 DEF Jobs
<1>3. jobs' = (jobs \ {j}) \cup {n}
  BY DEF Mark, Advance
<1> QED BY <1>2, <1>3

LEMMA HangUpAdvances ==
    ASSUME TypeOK, NEW j \in jobs, HangUp(j)
    PROVE  \E n \in Jobs :
              /\ jobs' = (jobs \ {j}) \cup {n}
              /\ n.kind = j.kind /\ n.by = j.by /\ n.conn = j.conn
              /\ n.step = "remove" /\ n.open = j.open
<1> DEFINE n == [j EXCEPT !.step = "remove"]
<1>1. j \in Jobs
  BY DEF TypeOK
<1>2. /\ n \in Jobs /\ n.kind = j.kind /\ n.by = j.by /\ n.conn = j.conn
      /\ n.step = "remove" /\ n.open = j.open
  BY <1>1 DEF Jobs
<1>3. jobs' = (jobs \ {j}) \cup {n}
  BY DEF HangUp, Advance
<1> QED BY <1>2, <1>3

\* A scan takes an idle entry, or nothing.
LEMMA ScanTakes ==
    ASSUME TypeOK, NEW c \in Clients, conn[c] = NoConn, Scan(c)
    PROVE  \/ UNCHANGED <<pc, conn, lease, state, leaseId, abandoned>>
           \/ \E e \in Conns :
                 /\ state[e] = "Idle"
                 /\ pc' = [pc EXCEPT ![c] = "greet"]
                 /\ state' = [state EXCEPT ![e] = "InUse"]
                 /\ leaseId' = [leaseId EXCEPT ![e] = @ + 1]
                 /\ conn' = [conn EXCEPT ![c] = e]
                 /\ lease' = [lease EXCEPT ![c] = leaseId[e] + 1]
                 /\ abandoned' = abandoned \ {e}
<1>1. todo[c] \subseteq Conns
  BY DEF TypeOK
<1> QED BY <1>1 DEF Scan, To

\* The reaper closes an idle entry.
LEMMA ExpireReaps ==
    ASSUME NEW e \in Conns, NEW id \in Nat, Expire(e, id), UnusedSince(e, id)
    PROVE  \E n \in Jobs :
              /\ jobs' = jobs \cup {n}
              /\ n.kind = "reap" /\ n.conn = e /\ n.step = "hangup" /\ n.open
<1> DEFINE n == [Job("reap", NoConn, e) EXCEPT !.step = "hangup"]
<1>1. n \in Jobs /\ n.kind = "reap" /\ n.conn = e /\ n.step = "hangup" /\ n.open
  BY DEF Jobs, Job
<1>2. jobs' = jobs \cup {n}
  BY DEF Expire
<1> QED BY <1>1, <1>2

\* Types.
LEMMA TypesKept ==
    ASSUME IInv, [Next]_vars
    PROVE  TypeOK'
<1> USE DEF IInv, TypeOK, To, holdVars, callVars, clientVars, entryVars, taskVars,
   lossVars
<1>1. ASSUME NEW c \in Clients, Arm(c) \/ Poll(c) \/ Wake(c)
      PROVE  TypeOK'
  <2>1. CASE Arm(c)
    BY <2>1 DEF Arm, Awaits
  <2>2. CASE Poll(c)
    BY <2>2 DEF Poll, Awaits
  <2>3. CASE Wake(c)
    BY <2>3 DEF Wake, Awaits
  <2> QED BY <1>1, <2>1, <2>2, <2>3
<1>2. ASSUME NEW c \in Clients, WaitTimesOut(c) \/ ReportUnreserved(c) \/ ReportReleased(c)
      PROVE  TypeOK'
  <2>1. CASE WaitTimesOut(c)
    BY <2>1, LeaveTypes DEF WaitTimesOut
  <2>2. CASE ReportUnreserved(c)
    <3>1. woken' \in [Clients -> {"no", "one", "all"}] /\ untold' = FALSE
      BY <2>2 DEF ReportUnreserved, NotifyWaiters
    <3> QED BY <2>2, <3>1, LeaveTypes DEF ReportUnreserved
  <2>3. CASE ReportReleased(c)
    <3>1. woken' \in [Clients -> {"no", "one", "all"}] /\ permit' \in BOOLEAN
      BY <2>3, WakeTypes DEF ReportReleased, Waiting
    <3>2. timers' \in SUBSET (Conns \X Nat)
      <4>1. conn[c] \in Conns /\ lease[c] \in Nat
        BY <2>3 DEF ReportReleased, Holding, Seeking
      <4> QED BY <2>3, <4>1 DEF ReportReleased
    <3> QED BY <2>3, <3>1, <3>2, LeaveTypes DEF ReportReleased
  <2> QED BY <1>2, <2>1, <2>2, <2>3
<1>3. ASSUME NEW c \in Clients, Scan(c)
      PROVE  TypeOK'
  <2>1. PICK e \in todo[c] :
          IF state[e] = "Idle"
          THEN /\ To(c, "greet")
               /\ todo' = [todo EXCEPT ![c] = {}]
               /\ woken' = [woken EXCEPT ![c] = "no"]
               /\ state' = [state EXCEPT ![e] = "InUse"]
               /\ leaseId' = [leaseId EXCEPT ![e] = @ + 1]
               /\ conn' = [conn EXCEPT ![c] = e]
               /\ lease' = [lease EXCEPT ![c] = leaseId[e] + 1]
               /\ abandoned' = abandoned \ {e}
          ELSE /\ todo' = [todo EXCEPT ![c] = @ \ {e}]
               /\ UNCHANGED <<pc, conn, lease, woken, state, leaseId, abandoned>>
    BY <1>3 DEF Scan
  <2>2. e \in Conns
    OBVIOUS
  <2>3. CASE state[e] = "Idle"
    <3>1. pc' \in [Clients -> Awaits]
      BY <2>1, <2>3 DEF Awaits
    <3>2. todo' \in [Clients -> SUBSET Conns] /\ woken' \in [Clients -> {"no", "one", "all"}]
      BY <2>1, <2>3
    <3>3. state' \in [Conns -> {"Connecting", "Idle", "InUse", "Closed"}]
      BY <2>1, <2>2, <2>3
    <3>4. leaseId' \in [Conns -> Nat] /\ lease' \in [Clients -> Nat]
      <4>1. leaseId[e] + 1 \in Nat
        BY <2>2
      <4> QED BY <2>1, <2>2, <2>3, <4>1
    <3>5. conn' \in [Clients -> Conns \cup {NoConn}]
      BY <2>1, <2>2, <2>3
    <3>6. abandoned' \in SUBSET Conns
      BY <2>1, <2>3
    <3> QED BY <1>3, <3>1, <3>2, <3>3, <3>4, <3>5, <3>6 DEF Scan
  <2>4. CASE state[e] # "Idle"
    BY <1>3, <2>1, <2>2, <2>4 DEF Scan
  <2> QED BY <2>3, <2>4
<1>4. ASSUME NEW c \in Clients, Reserve(c)
      PROVE  TypeOK'
  <2>1. CASE HasRoom
    <3>1. PICK e \in Conns :
            /\ To(c, "dial")
            /\ pool' = pool \cup {e}
            /\ gauge' = gauge + 1
            /\ state' = [state EXCEPT ![e] = "Connecting"]
            /\ leaseId' = [leaseId EXCEPT ![e] = 1]
            /\ conn' = [conn EXCEPT ![c] = e]
            /\ lease' = [lease EXCEPT ![c] = 1]
            /\ woken' = [woken EXCEPT ![c] = "no"]
            /\ UNCHANGED <<socket, wire>>
      BY <1>4, <2>1 DEF Reserve
    <3> QED BY <1>4, <3>1 DEF Reserve, Awaits
  <2>2. CASE ~HasRoom
    BY <1>4, <2>2 DEF Reserve, Awaits
  <2> QED BY <2>1, <2>2
<1>5. ASSUME NEW c \in Clients, DialSucceeds(c)
      PROVE  TypeOK'
  BY <1>5 DEF DialSucceeds, Awaits, Talks
<1>6. ASSUME NEW c \in Clients, DialFails(c)
      PROVE  TypeOK'
  BY <1>6 DEF DialFails, Awaits, Talks
<1>7. ASSUME NEW c \in Clients, Unreserve(c)
      PROVE  TypeOK'
  <2>1. conn[c] \in Conns
    BY <1>7 DEF Unreserve, Holding, Seeking
  <2>2. /\ pool' \in SUBSET Conns /\ leaseId' \in [Conns -> Nat] /\ gauge' \in Int
        /\ abandoned' \in SUBSET Conns
    BY <1>7, <2>1 DEF Unreserve, Discard
  <2> QED BY <1>7, <2>2 DEF Unreserve, Awaits
<1>8. ASSUME NEW c \in Clients, Grant(c)
      PROVE  TypeOK'
  BY <1>8 DEF Grant, Awaits
<1>9. ASSUME NEW c \in Clients, GreetFails(c) \/ SendFails(c) \/ Breaks(c)
      PROVE  TypeOK'
  <2>1. conn[c] \in Conns
    BY <1>9 DEF GreetFails, SendFails, Breaks, Holding, Seeking
  <2>2. jobs' \in SUBSET Jobs
    BY <1>9, <2>1, JobType DEF GreetFails, SendFails, Breaks, Invalidate
  <2> QED BY <1>9, <2>2 DEF GreetFails, SendFails, Breaks, Invalidate, Awaits
<1>10. ASSUME NEW c \in Clients, SendText(c) \/ Flush(c)
      PROVE  TypeOK'
  BY <1>10 DEF SendText, Flush, Call, Awaits, Talks
<1>11. ASSUME NEW c \in Clients, SendSucceeds(c)
      PROVE  TypeOK'
  BY <1>11 DEF SendSucceeds, Awaits, Talks
<1>12. ASSUME NEW c \in Clients, Answered(c)
      PROVE  TypeOK'
  BY <1>12 DEF Answered, Talks
<1>13. ASSUME NEW c \in Clients, Resume(c)
      PROVE  TypeOK'
  <2>1. jobs' \in SUBSET Jobs
    BY <1>13, DroppedType DEF Resume
  <2>2. CASE pc[c] = "retrying"
    <3>1. /\ pc' = [pc EXCEPT ![c] = "arm"] /\ Forget(c)
          /\ again' = [again EXCEPT ![c] = TRUE] /\ UNCHANGED <<todo, op, talk, calls>>
      BY <1>13, <2>2 DEF Resume
    <3> QED BY <1>13, <2>1, <3>1 DEF Resume, Forget, Awaits
  <2>3. CASE pc[c] = "failing"
    BY <1>13, <2>1, <2>3, LeaveTypes DEF Resume
  <2> QED BY <1>13, <2>2, <2>3 DEF Resume
<1>14. ASSUME NEW c \in Clients, Finish(c)
      PROVE  TypeOK'
  <2>1. CASE leased[c]
    <3>1. /\ pc' = [pc EXCEPT ![c] = "release"] /\ leased' = [leased EXCEPT ![c] = FALSE]
          /\ talk' = [talk EXCEPT ![c] = "nothing"]
          /\ UNCHANGED <<conn, lease, todo, op, again, calls>>
      BY <1>14, <2>1 DEF Finish
    <3> QED BY <1>14, <3>1 DEF Finish, Awaits, Talks
  <2>2. CASE ~leased[c]
    BY <1>14, <2>2, LeaveTypes DEF Finish
  <2> QED BY <2>1, <2>2
<1>15. ASSUME NEW c \in Clients, Release(c)
      PROVE  TypeOK'
  <2>1. CASE Owns(c)
    BY <1>15, <2>1 DEF Release, Awaits
  <2>2. CASE ~Owns(c)
    BY <1>15, <2>2, LeaveTypes DEF Release
  <2> QED BY <2>1, <2>2
<1>16. ASSUME NEW c \in Clients, Cancel(c)
      PROVE  TypeOK'
  <2>1. jobs' \in SUBSET Jobs
    BY <1>16, DroppedType DEF Cancel
  <2>2. woken' \in [Clients -> {"no", "one", "all"}] /\ permit' \in BOOLEAN
    <3>1. [woken EXCEPT ![c] = "no"] \in [Clients -> {"no", "one", "all"}]
      OBVIOUS
    <3>2. CASE pc[c] = "asleep" /\ woken[c] = "one"
      <4>1. NotifyOneOf(Waiting, [woken EXCEPT ![c] = "no"]) /\ Waiting \in SUBSET Clients
        BY <1>16, <3>2 DEF Cancel, Waiting
      <4> QED BY <3>1, <4>1, WakeTypes
    <3>3. CASE ~(pc[c] = "asleep" /\ woken[c] = "one")
      BY <1>16, <3>1, <3>3 DEF Cancel
    <3> QED BY <3>2, <3>3
  <2>3. abandoned' \in SUBSET Conns /\ cutShort' \in BOOLEAN /\ untold' \in BOOLEAN
    BY <1>16 DEF Cancel, LeavesBehind, CutsShort
  <2> QED BY <1>16, <2>1, <2>2, <2>3, LeaveTypes DEF Cancel
<1>17. ASSUME NEW j \in jobs, Mark(j)
      PROVE  TypeOK'
  <2>1. jobs' \in SUBSET Jobs
    BY <1>17, MarkAdvances
  <2>2. state' \in [Conns -> {"Connecting", "Idle", "InUse", "Closed"}]
    BY <1>17 DEF Mark
  <2> QED BY <1>17, <2>1, <2>2 DEF Mark
<1>18. ASSUME NEW j \in jobs, HangUp(j)
      PROVE  TypeOK'
  <2>1. jobs' \in SUBSET Jobs
    BY <1>18, HangUpAdvances
  <2> QED BY <1>18, <2>1 DEF HangUp, Talks
<1>19. ASSUME NEW j \in jobs, Remove(j)
      PROVE  TypeOK'
  <2>1. /\ j \in Jobs /\ pool' = pool \ {j.conn} /\ leaseId' = [leaseId EXCEPT ![j.conn] = 0]
        /\ abandoned' = abandoned \ {j.conn}
    BY <1>19 DEF Remove, Discard
  <2>2. gauge' \in Int /\ woken' \in [Clients -> {"no", "one", "all"}] /\ untold' = FALSE
    BY <1>19 DEF Remove, NotifyWaiters
  <2> QED BY <1>19, <2>1, <2>2 DEF Remove
<1>20. ASSUME NEW e \in Conns, NEW id \in Nat, Expire(e, id)
      PROVE  TypeOK'
  <2>1. jobs' \in SUBSET Jobs
    <3>1. CASE UnusedSince(e, id)
      BY <1>20, <3>1, ExpireReaps
    <3>2. CASE ~UnusedSince(e, id)
      BY <1>20, <3>2 DEF Expire
    <3> QED BY <3>1, <3>2
  <2> QED BY <1>20, <2>1 DEF Expire
<1>21. CASE UNCHANGED vars
  BY <1>21 DEF vars
<1> QED BY <1>1, <1>2, <1>3, <1>4, <1>5, <1>6, <1>7, <1>8, <1>9, <1>10, <1>11, <1>12, <1>13,
   <1>14, <1>15, <1>16, <1>17, <1>18, <1>19, <1>20, <1>21, StepIs

\* Who has an entry.
LEMMA HoldingKept ==
    ASSUME IInv, [Next]_vars
    PROVE  \A x \in Clients : Holding(x)'
<1> USE DEF IInv, TypeOK, To, holdVars, callVars, clientVars, entryVars, taskVars, Holding,
   Seeking
<1>1. CASE \E c \in Clients : Arm(c) \/ Poll(c) \/ Wake(c)
  BY <1>1 DEF Arm, Poll, Wake
<1>2. CASE \E c \in Clients : WaitTimesOut(c) \/ ReportUnreserved(c) \/ ReportReleased(c)
  BY <1>2 DEF WaitTimesOut, ReportUnreserved, ReportReleased, Leave, Forget, NotifyWaiters,
     NotifyOneOf, Waiting
<1>3. CASE \E c \in Clients : Scan(c)
  BY <1>3 DEF Scan
<1>4. CASE \E c \in Clients : Reserve(c)
  BY <1>4 DEF Reserve, Fresh
<1>5. CASE \E c \in Clients : DialSucceeds(c)
  BY <1>5 DEF DialSucceeds
<1>6. CASE \E c \in Clients : DialFails(c)
  BY <1>6 DEF DialFails
<1>7. CASE \E c \in Clients : Unreserve(c)
  BY <1>7 DEF Unreserve, Discard
<1>8. CASE \E c \in Clients : Grant(c)
  BY <1>8 DEF Grant
<1>9. CASE \E c \in Clients : GreetFails(c) \/ SendFails(c) \/ Breaks(c)
  BY <1>9 DEF GreetFails, SendFails, Breaks, Invalidate, Job
<1>10. CASE \E c \in Clients : SendText(c) \/ Flush(c)
  BY <1>10 DEF SendText, Flush, Call
<1>11. CASE \E c \in Clients : SendSucceeds(c)
  BY <1>11 DEF SendSucceeds
<1>12. CASE \E c \in Clients : Answered(c)
  BY <1>12 DEF Answered
<1>13. CASE \E c \in Clients : Resume(c)
  BY <1>13 DEF Resume, Dropped, Job, Forget, Leave
<1>14. CASE \E c \in Clients : Finish(c)
  BY <1>14 DEF Finish, Forget, Leave
<1>15. CASE \E c \in Clients : Release(c)
  BY <1>15 DEF Release, Forget, Leave
<1>16. CASE \E c \in Clients : Cancel(c)
  BY <1>16 DEF Cancel, Dropped, Job, NotifyOneOf, Waiting, Leave, Forget
<1>17. CASE \E j \in jobs : Mark(j)
  BY <1>17 DEF Mark, Advance
<1>18. CASE \E j \in jobs : HangUp(j)
  BY <1>18 DEF HangUp, Advance
<1>19. CASE \E j \in jobs : Remove(j)
  BY <1>19 DEF Remove, Discard, NotifyWaiters
<1>20. CASE \E e \in Conns, id \in Nat : Expire(e, id)
  BY <1>20 DEF Expire, UnusedSince, Job
<1>21. CASE UNCHANGED vars
  BY <1>21 DEF vars
<1> QED BY <1>1, <1>2, <1>3, <1>4, <1>5, <1>6, <1>7, <1>8, <1>9, <1>10, <1>11, <1>12, <1>13,
   <1>14, <1>15, <1>16, <1>17, <1>18, <1>19, <1>20, <1>21, StepIs

\* An entry someone uses is not touched by anyone else.
LEMMA UsingKept ==
    ASSUME IInv, [Next]_vars
    PROVE  \A x \in Clients : Using(x)'
<1> USE DEF IInv, TypeOK, To, holdVars, callVars, clientVars, entryVars, taskVars, Holding,
   Seeking, Using, Between, Holds, Owns, Exclusive, Entry, Orderly, NoDebt
<1>1. CASE \E c \in Clients : Arm(c) \/ Poll(c) \/ Wake(c)
  BY <1>1 DEF Arm, Poll, Wake
<1>2. CASE \E c \in Clients : WaitTimesOut(c) \/ ReportUnreserved(c) \/ ReportReleased(c)
  BY <1>2 DEF WaitTimesOut, ReportUnreserved, ReportReleased, Leave, Forget, NotifyWaiters,
     NotifyOneOf, Waiting
<1>3. ASSUME NEW c \in Clients, Scan(c)
      PROVE  \A x \in Clients : Using(x)'
  <2>1. pc[c] = "scan" /\ UNCHANGED <<leased, pool, socket, wire>>
    BY <1>3 DEF Scan
  <2>2. \A d \in Clients : d # c => conn'[d] = conn[d] /\ pc'[d] = pc[d] /\ lease'[d] = lease[d]
    BY <1>3 DEF Scan
  <2>3. \A x \in Conns : state[x] # "Idle" => state'[x] = state[x] /\ leaseId'[x] = leaseId[x]
    BY <1>3 DEF Scan
  <2>4. ASSUME NEW d \in Clients, d # c
        PROVE  Using(d)'
    BY <2>1, <2>2, <2>3, <2>4
  <2>5. Using(c)'
    BY <1>3 DEF Scan
  <2> QED BY <2>4, <2>5
<1>4. CASE \E c \in Clients : Reserve(c)
  BY <1>4 DEF Reserve, Fresh
<1>5. CASE \E c \in Clients : DialSucceeds(c)
  BY <1>5 DEF DialSucceeds
<1>6. CASE \E c \in Clients : DialFails(c)
  BY <1>6 DEF DialFails
<1>7. CASE \E c \in Clients : Unreserve(c)
  BY <1>7 DEF Unreserve, Discard
<1>8. CASE \E c \in Clients : Grant(c)
  BY <1>8 DEF Grant
<1>9. CASE \E c \in Clients : GreetFails(c) \/ SendFails(c) \/ Breaks(c)
  BY <1>9 DEF GreetFails, SendFails, Breaks, Invalidate, Job
<1>10. CASE \E c \in Clients : SendText(c) \/ Flush(c)
  BY <1>10 DEF SendText, Flush, Call
<1>11. CASE \E c \in Clients : SendSucceeds(c)
  BY <1>11 DEF SendSucceeds
<1>12. CASE \E c \in Clients : Answered(c)
  BY <1>12 DEF Answered
<1>13. CASE \E c \in Clients : Resume(c)
  BY <1>13 DEF Resume, Dropped, Job, Forget, Leave
<1>14. CASE \E c \in Clients : Finish(c)
  BY <1>14 DEF Finish, Forget, Leave
<1>15. ASSUME NEW c \in Clients, Release(c)
      PROVE  \A x \in Clients : Using(x)'
  <2>1. Owns(c) /\ conn[c] \in Conns
    BY <1>15 DEF Release
  <2>2. /\ pc' = [pc EXCEPT ![c] = "released"] /\ state' = [state EXCEPT ![conn[c]] = "Idle"]
        /\ UNCHANGED <<conn, lease, leased, pool, leaseId, socket, wire>>
    BY <1>15, <2>1 DEF Release
  <2>3. Using(c)'
    BY <2>2
  <2>4. ASSUME NEW x \in Clients, x # c
        PROVE  Using(x)'
    <3>1. conn[x] = conn[c] => pc[x] = "released"
      BY <1>15, <2>1, <2>4 DEF Release
    <3> QED BY <2>1, <2>2, <2>4, <3>1
  <2> QED BY <2>3, <2>4
<1>16. CASE \E c \in Clients : Cancel(c)
  BY <1>16 DEF Cancel, Dropped, Job, NotifyOneOf, Waiting, Leave, Forget
<1>17. CASE \E j \in jobs : Mark(j)
  BY <1>17 DEF Mark, Advance
<1>18. CASE \E j \in jobs : HangUp(j)
  BY <1>18 DEF HangUp, Advance
<1>19. CASE \E j \in jobs : Remove(j)
  BY <1>19 DEF Remove, Discard, NotifyWaiters
<1>20. ASSUME NEW e \in Conns, NEW id \in Nat, Expire(e, id)
      PROVE  \A x \in Clients : Using(x)'
  <2>1. UNCHANGED <<pc, conn, lease, leased, pool, leaseId, socket, wire>>
    BY <1>20 DEF Expire
  <2>2. \A x \in Conns : state[x] # "Idle" => state'[x] = state[x]
    BY <1>20 DEF Expire, UnusedSince
  <2> QED BY <2>1, <2>2
<1>21. CASE UNCHANGED vars
  BY <1>21 DEF vars
<1> QED BY <1>1, <1>2, <1>3, <1>4, <1>5, <1>6, <1>7, <1>8, <1>9, <1>10, <1>11, <1>12, <1>13,
   <1>14, <1>15, <1>16, <1>17, <1>18, <1>19, <1>20, <1>21, StepIs

\* What was sent and not answered.
LEMMA TalkingKept ==
    ASSUME IInv, [Next]_vars
    PROVE  \A x \in Clients : Talking(x)'
<1> USE DEF IInv, TypeOK, To, holdVars, callVars, clientVars, entryVars, taskVars, Holding,
   Seeking, Using, Talking, Between, Holds, Owns, Exclusive, Entry, Orderly, NoDebt
<1>1. CASE \E c \in Clients : Arm(c) \/ Poll(c) \/ Wake(c)
  BY <1>1 DEF Arm, Poll, Wake
<1>2. CASE \E c \in Clients : WaitTimesOut(c) \/ ReportUnreserved(c) \/ ReportReleased(c)
  BY <1>2 DEF WaitTimesOut, ReportUnreserved, ReportReleased, Leave, Forget, NotifyWaiters,
     NotifyOneOf, Waiting
<1>3. CASE \E c \in Clients : Scan(c)
  BY <1>3 DEF Scan
<1>4. CASE \E c \in Clients : Reserve(c)
  BY <1>4 DEF Reserve, Fresh
<1>5. CASE \E c \in Clients : DialSucceeds(c)
  BY <1>5 DEF DialSucceeds
<1>6. CASE \E c \in Clients : DialFails(c)
  BY <1>6 DEF DialFails
<1>7. CASE \E c \in Clients : Unreserve(c)
  BY <1>7 DEF Unreserve, Discard
<1>8. CASE \E c \in Clients : Grant(c)
  BY <1>8 DEF Grant
<1>9. CASE \E c \in Clients : GreetFails(c) \/ SendFails(c) \/ Breaks(c)
  BY <1>9 DEF GreetFails, SendFails, Breaks, Invalidate, Job
<1>10. CASE \E c \in Clients : SendText(c) \/ Flush(c)
  BY <1>10 DEF SendText, Flush, Call
<1>11. CASE \E c \in Clients : SendSucceeds(c)
  BY <1>11 DEF SendSucceeds
<1>12. CASE \E c \in Clients : Answered(c)
  BY <1>12 DEF Answered
<1>13. CASE \E c \in Clients : Resume(c)
  BY <1>13 DEF Resume, Dropped, Job, Forget, Leave
<1>14. CASE \E c \in Clients : Finish(c)
  BY <1>14 DEF Finish, Forget, Leave
<1>15. CASE \E c \in Clients : Release(c)
  BY <1>15 DEF Release, Forget, Leave
<1>16. CASE \E c \in Clients : Cancel(c)
  BY <1>16 DEF Cancel, Dropped, Job, NotifyOneOf, Waiting, Leave, Forget
<1>17. CASE \E j \in jobs : Mark(j)
  BY <1>17 DEF Mark, Advance
<1>18. CASE \E j \in jobs : HangUp(j)
  BY <1>18 DEF HangUp, Advance
<1>19. CASE \E j \in jobs : Remove(j)
  BY <1>19 DEF Remove, Discard, NotifyWaiters
<1>20. CASE \E e \in Conns, id \in Nat : Expire(e, id)
  BY <1>20 DEF Expire, UnusedSince, Job
<1>21. CASE UNCHANGED vars
  BY <1>21 DEF vars
<1> QED BY <1>1, <1>2, <1>3, <1>4, <1>5, <1>6, <1>7, <1>8, <1>9, <1>10, <1>11, <1>12, <1>13,
   <1>14, <1>15, <1>16, <1>17, <1>18, <1>19, <1>20, <1>21, StepIs

\* An entry is reserved anew only when no one has it, and leased only when idle.
LEMMA ExclusiveKept ==
    ASSUME IInv, [Next]_vars
    PROVE  Exclusive'
<1> USE DEF IInv, TypeOK, To, holdVars, callVars, clientVars, entryVars, taskVars, Holding,
   Seeking, Using, Exclusive, Entry
<1>1. CASE \E c \in Clients : Arm(c) \/ Poll(c) \/ Wake(c)
  BY <1>1 DEF Arm, Poll, Wake
<1>2. ASSUME NEW c \in Clients, WaitTimesOut(c) \/ ReportUnreserved(c) \/ ReportReleased(c)
      PROVE  Exclusive'
  <2>1. \A d \in Clients : conn'[d] # NoConn => conn'[d] = conn[d] /\ pc'[d] = pc[d]
    BY <1>2 DEF WaitTimesOut, ReportUnreserved, ReportReleased, Leave, Forget
  <2> QED BY <2>1
<1>3. CASE \E c \in Clients : Scan(c)
  BY <1>3 DEF Scan
<1>4. CASE \E c \in Clients : Reserve(c)
  BY <1>4 DEF Reserve, Fresh
<1>5. CASE \E c \in Clients : DialSucceeds(c)
  BY <1>5 DEF DialSucceeds
<1>6. CASE \E c \in Clients : DialFails(c)
  BY <1>6 DEF DialFails
<1>7. CASE \E c \in Clients : Unreserve(c)
  BY <1>7 DEF Unreserve, Discard
<1>8. CASE \E c \in Clients : Grant(c)
  BY <1>8 DEF Grant
<1>9. CASE \E c \in Clients : GreetFails(c) \/ SendFails(c) \/ Breaks(c)
  BY <1>9 DEF GreetFails, SendFails, Breaks, Invalidate, Job
<1>10. CASE \E c \in Clients : SendText(c) \/ Flush(c)
  BY <1>10 DEF SendText, Flush, Call
<1>11. CASE \E c \in Clients : SendSucceeds(c)
  BY <1>11 DEF SendSucceeds
<1>12. CASE \E c \in Clients : Answered(c)
  BY <1>12 DEF Answered
<1>13. CASE \E c \in Clients : Resume(c)
  BY <1>13, SMTT(40) DEF Resume, Dropped, Job, Forget, Leave
<1>14. CASE \E c \in Clients : Finish(c)
  BY <1>14 DEF Finish, Forget, Leave
<1>15. CASE \E c \in Clients : Release(c)
  BY <1>15 DEF Release, Forget, Leave
<1>16. CASE \E c \in Clients : Cancel(c)
  BY <1>16 DEF Cancel, Dropped, Job, NotifyOneOf, Waiting, Leave, Forget
<1>17. CASE \E j \in jobs : Mark(j)
  BY <1>17 DEF Mark, Advance
<1>18. CASE \E j \in jobs : HangUp(j)
  BY <1>18 DEF HangUp, Advance
<1>19. CASE \E j \in jobs : Remove(j)
  BY <1>19 DEF Remove, Discard, NotifyWaiters
<1>20. CASE \E e \in Conns, id \in Nat : Expire(e, id)
  BY <1>20 DEF Expire, UnusedSince, Job
<1>21. CASE UNCHANGED vars
  BY <1>21 DEF vars
<1> QED BY <1>1, <1>2, <1>3, <1>4, <1>5, <1>6, <1>7, <1>8, <1>9, <1>10, <1>11, <1>12, <1>13,
   <1>14, <1>15, <1>16, <1>17, <1>18, <1>19, <1>20, <1>21, StepIs

\* Idle and disconnected entries.
LEMMA EntryKept ==
    ASSUME IInv, [Next]_vars
    PROVE  \A x \in Conns : Entry(x)'
<1> USE DEF IInv, TypeOK, To, holdVars, callVars, clientVars, entryVars, taskVars, Holding,
   Seeking, Using, Talking, Between, Holds, Owns, Exclusive, Entry, Orderly, NoDebt
<1>1. CASE \E c \in Clients : Arm(c) \/ Poll(c) \/ Wake(c)
  BY <1>1 DEF Arm, Poll, Wake
<1>2. CASE \E c \in Clients : WaitTimesOut(c) \/ ReportUnreserved(c) \/ ReportReleased(c)
  BY <1>2 DEF WaitTimesOut, ReportUnreserved, ReportReleased, Leave, Forget, NotifyWaiters,
     NotifyOneOf, Waiting
<1>3. CASE \E c \in Clients : Scan(c)
  BY <1>3 DEF Scan
<1>4. CASE \E c \in Clients : Reserve(c)
  BY <1>4 DEF Reserve, Fresh
<1>5. CASE \E c \in Clients : DialSucceeds(c)
  BY <1>5 DEF DialSucceeds
<1>6. CASE \E c \in Clients : DialFails(c)
  BY <1>6 DEF DialFails
<1>7. CASE \E c \in Clients : Unreserve(c)
  BY <1>7 DEF Unreserve, Discard
<1>8. CASE \E c \in Clients : Grant(c)
  BY <1>8 DEF Grant
<1>9. CASE \E c \in Clients : GreetFails(c) \/ SendFails(c) \/ Breaks(c)
  BY <1>9 DEF GreetFails, SendFails, Breaks, Invalidate, Job
<1>10. CASE \E c \in Clients : SendText(c) \/ Flush(c)
  BY <1>10 DEF SendText, Flush, Call
<1>11. CASE \E c \in Clients : SendSucceeds(c)
  BY <1>11 DEF SendSucceeds
<1>12. CASE \E c \in Clients : Answered(c)
  BY <1>12 DEF Answered
<1>13. ASSUME NEW c \in Clients, Resume(c)
      PROVE  \A x \in Conns : Entry(x)'
  <2>1. /\ UNCHANGED entryVars
        /\ \A d \in Clients : conn'[d] # NoConn => conn'[d] = conn[d] /\ pc'[d] = pc[d]
    BY <1>13 DEF Resume, Forget, Leave
  <2>2. \A x \in jobs' \ jobs : leased[c] /\ conn[c] \in Conns /\ x.conn = conn[c]
    BY <1>13, DroppedType, JobType DEF Resume
  <2>3. leased[c] /\ conn[c] \in Conns => state[conn[c]] # "Idle"
    BY <1>13 DEF Resume
  <2> QED BY <2>1, <2>2, <2>3
<1>14. CASE \E c \in Clients : Finish(c)
  BY <1>14 DEF Finish, Forget, Leave
<1>15. CASE \E c \in Clients : Release(c)
  BY <1>15 DEF Release, Forget, Leave
<1>16. CASE \E c \in Clients : Cancel(c)
  BY <1>16, SMTT(40) DEF Cancel, Dropped, Job, NotifyOneOf, Waiting, Leave, Forget
<1>17. ASSUME NEW j \in jobs, Mark(j)
      PROVE  \A x \in Conns : Entry(x)'
  <2>1. j \in Jobs /\ state' = [state EXCEPT ![j.conn] = "Closed"]
    BY <1>17 DEF Mark
  <2>2. \A x \in jobs' : \E y \in jobs : x.conn = y.conn
    BY <1>17, <2>1, MarkAdvances
  <2> QED BY <1>17, <2>1, <2>2 DEF Mark, Jobs
<1>18. ASSUME NEW j \in jobs, HangUp(j)
      PROVE  \A x \in Conns : Entry(x)'
  <2>1. j \in Jobs /\ state[j.conn] # "Idle"
    BY <1>18 DEF HangUp, Jobs
  <2>2. \A x \in jobs' : \E y \in jobs : x.conn = y.conn
    BY <1>18, <2>1, HangUpAdvances
  <2> QED BY <1>18, <2>1, <2>2 DEF HangUp, Jobs
<1>19. CASE \E j \in jobs : Remove(j)
  BY <1>19 DEF Remove, Discard, NotifyWaiters
<1>20. CASE \E e \in Conns, id \in Nat : Expire(e, id)
  BY <1>20 DEF Expire, UnusedSince, Job
<1>21. CASE UNCHANGED vars
  BY <1>21 DEF vars
<1> QED BY <1>1, <1>2, <1>3, <1>4, <1>5, <1>6, <1>7, <1>8, <1>9, <1>10, <1>11, <1>12, <1>13,
   <1>14, <1>15, <1>16, <1>17, <1>18, <1>19, <1>20, <1>21, StepIs

\* A task begins on an entry its client stopped using, or on an idle one.
LEMMA OrderlyKept ==
    ASSUME IInv, [Next]_vars
    PROVE  \A x \in jobs' : Orderly(x)'
<1> USE DEF IInv, TypeOK, To, holdVars, callVars, clientVars, entryVars, taskVars, Jobs, Holding,
   Seeking, Using, Between, Holds, Owns, Exclusive, Entry, Orderly, NoDebt
<1>1. CASE \E c \in Clients : Arm(c) \/ Poll(c) \/ Wake(c)
  BY <1>1, SMTT(40) DEF Arm, Poll, Wake
<1>2. ASSUME NEW c \in Clients, WaitTimesOut(c) \/ ReportUnreserved(c) \/ ReportReleased(c)
      PROVE  \A x \in jobs' : Orderly(x)'
  <2>1. /\ UNCHANGED <<jobs, entryVars>>
        /\ \A d \in Clients : conn'[d] # NoConn => conn'[d] = conn[d] /\ pc'[d] = pc[d]
    BY <1>2 DEF WaitTimesOut, ReportUnreserved, ReportReleased, Leave, Forget
  <2> QED BY <2>1
<1>3. ASSUME NEW c \in Clients, Scan(c)
      PROVE  \A x \in jobs' : Orderly(x)'
  <2>1. /\ UNCHANGED <<jobs, socket, wire>>
        /\ \A d \in Clients : d # c => conn'[d] = conn[d] /\ pc'[d] = pc[d]
    BY <1>3 DEF Scan
  <2>2. /\ \A x \in Conns : state[x] # "Idle" => state'[x] = state[x]
        /\ conn'[c] # NoConn => conn'[c] \in Conns /\ state[conn'[c]] = "Idle"
    BY <1>3, ScanTakes DEF Scan
  <2>3. \A x \in jobs : x \in Jobs /\ x.conn \in Conns /\ x.conn # NoConn
    BY DEF Jobs
  <2> QED BY <2>1, <2>2, <2>3
<1>4. CASE \E c \in Clients : Reserve(c)
  BY <1>4 DEF Reserve, Fresh
<1>5. CASE \E c \in Clients : DialSucceeds(c)
  BY <1>5 DEF DialSucceeds
<1>6. CASE \E c \in Clients : DialFails(c)
  BY <1>6 DEF DialFails
<1>7. CASE \E c \in Clients : Unreserve(c)
  BY <1>7 DEF Unreserve, Discard
<1>8. CASE \E c \in Clients : Grant(c)
  BY <1>8 DEF Grant
<1>9. CASE \E c \in Clients : GreetFails(c) \/ SendFails(c) \/ Breaks(c)
  BY <1>9, SMTT(40) DEF GreetFails, SendFails, Breaks, Invalidate, Job
<1>10. CASE \E c \in Clients : SendText(c) \/ Flush(c)
  BY <1>10 DEF SendText, Flush, Call
<1>11. CASE \E c \in Clients : SendSucceeds(c)
  BY <1>11 DEF SendSucceeds
<1>12. CASE \E c \in Clients : Answered(c)
  BY <1>12 DEF Answered
<1>13. ASSUME NEW c \in Clients, Resume(c)
      PROVE  \A x \in jobs' : Orderly(x)'
  <2>1. /\ UNCHANGED entryVars
        /\ \A d \in Clients : conn'[d] # NoConn => conn'[d] = conn[d] /\ pc'[d] = pc[d]
    BY <1>13 DEF Resume, Forget, Leave
  <2>2. \A x \in jobs' \ jobs : conn[c] \in Conns /\ x.conn = conn[c] /\ x.step = "mark"
    BY <1>13, DroppedType, JobType DEF Resume
  <2>3. \A x \in jobs' \ jobs : state[x.conn] \in {"InUse", "Closed"}
    BY <1>13, <2>2 DEF Resume
  <2>4. \A x \in jobs' \ jobs, d \in Clients : conn'[d] = x.conn => pc'[d] = "released"
    <3>1. pc[c] \in {"retrying", "failing"} /\ conn'[c] = NoConn
      BY <1>13 DEF Resume, Leave, Forget
    <3>2. \A d \in Clients : d # c /\ conn[d] = conn[c] /\ conn[c] # NoConn => pc[d] = "released"
      BY <3>1
    <3> QED BY <2>1, <2>2, <3>1, <3>2
  <2> QED BY <2>1, <2>2, <2>3, <2>4
<1>14. CASE \E c \in Clients : Finish(c)
  BY <1>14 DEF Finish, Forget, Leave
<1>15. CASE \E c \in Clients : Release(c)
  BY <1>15 DEF Release, Forget, Leave
<1>16. ASSUME NEW c \in Clients, Cancel(c)
      PROVE  \A x \in jobs' : Orderly(x)'
  <2>1. /\ UNCHANGED entryVars
        /\ \A d \in Clients : conn'[d] # NoConn => conn'[d] = conn[d] /\ pc'[d] = pc[d]
    BY <1>16 DEF Cancel, Forget, Leave
  <2>2. \A x \in jobs' \ jobs :
           leased[c] /\ conn[c] \in Conns /\ x.conn = conn[c] /\ x.step = "mark"
    BY <1>16, DroppedType, JobType DEF Cancel
  <2>3. \A x \in jobs' \ jobs : state[x.conn] \in {"InUse", "Closed"}
    BY <1>16, <2>2
  <2>4. \A x \in jobs' \ jobs, d \in Clients : conn'[d] = x.conn => pc'[d] = "released"
    BY <1>16, <2>2, SMTT(40) DEF Cancel, Leave, Forget
  <2> QED BY <2>1, <2>2, <2>3, <2>4
<1>17. ASSUME NEW j \in jobs, Mark(j)
      PROVE  \A x \in jobs' : Orderly(x)'
  <2>1. j \in Jobs /\ state' = [state EXCEPT ![j.conn] = "Closed"]
    BY <1>17 DEF Mark
  <2>2. PICK n \in Jobs :
           jobs' = (jobs \ {j}) \cup {n} /\ n.conn = j.conn /\ n.step = "hangup"
    BY <1>17, MarkAdvances
  <2>3. ASSUME NEW x \in jobs
        PROVE  Orderly(x)'
    BY <1>17, <2>1, <2>3 DEF Mark, Jobs
  <2>4. Orderly(n)'
    BY <1>17, <2>1, <2>2 DEF Mark, Jobs
  <2> QED BY <2>2, <2>3, <2>4
<1>18. CASE \E j \in jobs : HangUp(j)
  BY <1>18 DEF HangUp, Advance
<1>19. CASE \E j \in jobs : Remove(j)
  BY <1>19 DEF Remove, Discard, NotifyWaiters
<1>20. CASE \E e \in Conns, id \in Nat : Expire(e, id)
  BY <1>20 DEF Expire, UnusedSince, Job
<1>21. CASE UNCHANGED vars
  BY <1>21 DEF vars
<1> QED BY <1>1, <1>2, <1>3, <1>4, <1>5, <1>6, <1>7, <1>8, <1>9, <1>10, <1>11, <1>12, <1>13,
   <1>14, <1>15, <1>16, <1>17, <1>18, <1>19, <1>20, <1>21, StepIs


(* The number of entries.                                                   *)

\* Entries are counted in and out with the pool, by three kinds of step.
LEMMA PoolChanges ==
    ASSUME [Next]_vars
    PROVE  \/ UNCHANGED <<pool, gauge>>
           \/ \E c \in Clients : Reserve(c) \/ Unreserve(c)
           \/ \E j \in jobs : Remove(j)
<1> USE DEF entryVars, taskVars, clientVars
<1>1. ASSUME NEW c \in Clients, Acquire(c)
      PROVE  UNCHANGED <<pool, gauge>> \/ Reserve(c) \/ Unreserve(c)
  BY <1>1 DEF Acquire, Arm, Scan, Poll, Wake, WaitTimesOut, DialSucceeds, DialFails,
     ReportUnreserved, Grant, GreetFails
<1>2. ASSUME NEW c \in Clients, Use(c)
      PROVE  UNCHANGED <<pool, gauge>>
  BY <1>2 DEF Use, SendText, Flush, Call, SendSucceeds, SendFails, Answered, Breaks, Resume,
     Finish, Release, ReportReleased
<1>3. ASSUME NEW c \in Clients, Cancel(c)
      PROVE  UNCHANGED <<pool, gauge>>
  BY <1>3 DEF Cancel
<1>4. ASSUME Task
      PROVE  UNCHANGED <<pool, gauge>> \/ \E j \in jobs : Remove(j)
  BY <1>4 DEF Task, Mark, HangUp, Expire
<1> QED BY <1>1, <1>2, <1>3, <1>4 DEF Next, vars

\* Only a reservation adds an entry, and only where there is room.
LEMMA BoundedKept ==
    ASSUME IInv, [Next]_vars
    PROVE  Bounded'
<1>1. ASSUME NEW c \in Clients, Reserve(c), ~UNCHANGED pool
      PROVE  Bounded'
  <2>1. PICK e \in Conns : e \notin pool /\ pool' = pool \cup {e} /\ HasRoom
    BY <1>1 DEF Reserve, Fresh, entryVars
  <2>2. IsFiniteSet(pool) /\ Cardinality(pool) \in Nat
    BY FS_CardinalityType DEF IInv, Bounded
  <2>3. IsFiniteSet(pool') /\ Cardinality(pool') = Cardinality(pool) + 1
    BY <2>1, <2>2, FS_AddElement
  <2> QED BY <2>1, <2>2, <2>3 DEF Bounded, HasRoom
<1>2. ASSUME NEW e, pool' = pool \ {e}
      PROVE  Bounded'
  <2>1. IsFiniteSet(pool) /\ Cardinality(pool) <= MaxConnections /\ Cardinality(pool) \in Nat
    BY FS_CardinalityType DEF IInv, Bounded
  <2>2. IsFiniteSet(pool') /\ (Cardinality(pool') = Cardinality(pool) \/ Cardinality(pool') = Cardinality(pool) - 1)
    BY <1>2, <2>1, FS_RemoveElement
  <2> QED BY <2>1, <2>2 DEF Bounded
<1>3. ASSUME NEW c \in Clients, Unreserve(c)
      PROVE  Bounded'
  BY <1>2, <1>3 DEF Unreserve, Discard
<1>4. ASSUME NEW j \in jobs, Remove(j)
      PROVE  Bounded'
  BY <1>2, <1>4 DEF Remove, Discard
<1>5. CASE UNCHANGED pool
  BY <1>5 DEF IInv, Bounded
<1> QED BY <1>1, <1>3, <1>4, <1>5, PoolChanges

\* All of it together is inductive.
LEMMA InductiveInvariant == Spec => []IInv
<1>1. Init => IInv
  <2> SUFFICES ASSUME Init PROVE IInv
    OBVIOUS
  <2>1. TypeOK
    <3>1. /\ pc \in [Clients -> Awaits] /\ talk \in [Clients -> Talks]
          /\ wire \in [Conns -> Talks] /\ calls \in [Clients -> 0..MaxCalls]
      BY DEF Init, Awaits, Talks
    <3>2. /\ conn \in [Clients -> Conns \cup {NoConn}] /\ lease \in [Clients -> Nat]
          /\ leased \in [Clients -> BOOLEAN] /\ todo \in [Clients -> SUBSET Conns]
          /\ woken \in [Clients -> {"no", "one", "all"}] /\ again \in [Clients -> BOOLEAN]
          /\ op \in [Clients -> {"blank", "text", "asked"}]
      BY DEF Init
    <3>3. /\ state \in [Conns -> {"Connecting", "Idle", "InUse", "Closed"}]
          /\ leaseId \in [Conns -> Nat] /\ socket \in [Conns -> BOOLEAN]
      BY DEF Init
    <3>4. pool \in SUBSET Conns /\ jobs \in SUBSET Jobs /\ timers \in SUBSET (Conns \X Nat)
      BY DEF Init
    <3>5. permit \in BOOLEAN
      BY DEF Init
    <3>6. gauge \in Int /\ abandoned \in SUBSET Conns
      BY DEF Init
    <3>7. cutShort \in BOOLEAN
      BY DEF Init
    <3>8. untold \in BOOLEAN
      BY DEF Init
    <3> QED BY <3>1, <3>2, <3>3, <3>4, <3>5, <3>6, <3>7, <3>8 DEF TypeOK
  <2>2. ASSUME NEW c \in Clients
        PROVE  Holding(c) /\ Using(c) /\ Talking(c)
    BY DEF Init, Holding, Using, Talking, Seeking, Between, Holds
  <2>3. Exclusive /\ \A e \in Conns : Entry(e)
    BY DEF Init, Exclusive, Entry
  <2>4. Bounded
    BY FS_EmptySet DEF Init, Bounded
  <2> QED BY <2>1, <2>2, <2>3, <2>4 DEF IInv, Init
<1>2. IInv /\ [Next]_vars => IInv'
  BY TypesKept, HoldingKept, UsingKept, TalkingKept, ExclusiveKept, EntryKept, OrderlyKept, BoundedKept
     DEF IInv
<1> QED BY <1>1, <1>2, PTL DEF Spec

\* Every variable has its type, whatever is cancelled and when: in particular
\* an entry is written only by a client that has one.
THEOREM PoolTypesAlways == Spec => []TypeOK
<1>1. IInv => TypeOK
  BY DEF IInv
<1> QED BY <1>1, InductiveInvariant, PTL

\* A TtsWsLease is exclusive: while a session uses it no other session has the
\* entry, and neither a reaper nor a late invalidation closes it (check_owner,
\* schedule_reap, invalidate).
THEOREM LeaseAlwaysHolds == Spec => []LeaseHolds
<1>1. IInv => LeaseHolds
  BY DEF IInv, TypeOK, LeaseHolds, Holding, Seeking, Using, Holds, Owns, Exclusive
<1> QED BY <1>1, InductiveInvariant, PTL

\* finish and release never pass on a connection that owes a reply, and a
\* session waits for the reply exactly when its connection owes it.
THEOREM ReplyAlwaysReachesAsker == Spec => []ReplyReachesAsker
<1>1. IInv => ReplyReachesAsker
  BY DEF IInv, ReplyReachesAsker, Talking, Entry, NoDebt
<1> QED BY <1>1, InductiveInvariant, PTL

\* Connected entries and entries in their handshake are different entries of
\* the pool.
LEMMA ConnectedOrDialing ==
    ASSUME IInv
    PROVE  ConnectionsBounded
<1> DEFINE S == {e \in Conns : socket[e]}
           D == {c \in Clients : pc[c] = "dial"}
           f == [c \in D |-> conn[c]]
<1>1. S \subseteq pool /\ pool \subseteq Conns
  BY DEF IInv, TypeOK, Entry
<1>2. f \in Injection(D, pool \ S)
  <2>1. f \in [D -> pool \ S]
    BY DEF IInv, Using
  <2>2. \A c, d \in D : c # d => f[c] # f[d]
    BY DEF IInv, TypeOK, Holding, Seeking, Exclusive
  <2> QED BY <2>1, <2>2 DEF Injection, IsInjective
<1>3. IsFiniteSet(pool) /\ Cardinality(pool) <= MaxConnections
  BY DEF IInv, Bounded
<1> HIDE DEF S, D, f
<1>4. /\ IsFiniteSet(S) /\ IsFiniteSet(pool \ S)
      /\ Cardinality(pool \ S) = Cardinality(pool) - Cardinality(S)
  <2>1. pool \cap S = S
    BY <1>1
  <2> QED BY <1>1, <1>3, <2>1, FS_Subset, FS_Difference
<1>5. IsFiniteSet(D) /\ Cardinality(D) <= Cardinality(pool \ S)
  BY <1>2, <1>4, FS_Injection
<1>6. Cardinality(S) \in Nat /\ Cardinality(D) \in Nat /\ Cardinality(pool) \in Nat
  BY <1>3, <1>4, <1>5, FS_CardinalityType
<1>7. Cardinality(S) + Cardinality(D) <= MaxConnections
  BY <1>3, <1>4, <1>5, <1>6
<1> QED BY <1>7 DEF ConnectionsBounded, S, D

\* The provider never sees more than max_connections, however reservations,
\* invalidations and reaps overlap (acquire).
THEOREM ConnectionsAlwaysBounded == Spec => []ConnectionsBounded
BY ConnectedOrDialing, InductiveInvariant, PTL

-----------------------------------------------------------------------------
(***************************************************************************)
(* What a cancellation leaves undone, and that nothing else does.          *)
(*                                                                         *)
(* The argument is about who is to take an entry from the pool: the client *)
(* that reserved or leased it, or the tasks it begins. A client that is    *)
(* cancelled hands its entry to the task of its dropped lease, or, if it   *)
(* has no lease to drop, leaves it behind as abandoned. A task that is     *)
(* alone at its entry finds it open and counts it out; only one that       *)
(* repeats what was cut short does not.                                    *)
(***************************************************************************)

\* The invalidation that a client awaits is under way, or its entry is gone; one
\* that gives a reservation back still has it.
Tended(c) ==
    /\ pc[c] = "undial" => conn[c] \in pool /\ leaseId[conn[c]] = lease[c]
    /\ pc[c] \in {"retrying", "failing"} =>
          \/ conn[c] \notin pool
          \/ /\ leaseId[conn[c]] = lease[c]
             /\ \E j \in jobs : j.kind = "inline" /\ j.by = c /\ j.conn = conn[c]

\* An awaited invalidation is that of the entry of its client.
Awaited(j) ==
    j.kind = "inline" =>
        j.by \in Clients /\ conn[j.by] = j.conn /\ pc[j.by] \in {"retrying", "failing"}

\* A task at an entry of the pool is alone there and finds it open.
Single(j) ==
    j.conn \in pool =>
        /\ j.open
        /\ j.step = "mark" => state[j.conn] = "InUse"
        /\ \A k \in jobs : k.conn = j.conn => k = j

\* An entry of the pool is idle, or someone will free it, or was cancelled
\* without a lease to drop.
Charged(e) ==
    \/ e \notin pool \/ state[e] = "Idle" \/ e \in abandoned
    \/ \E c \in Clients : conn[c] = e /\ pc[c] \notin {"released", "undialed"}
    \/ \E j \in jobs : j.conn = e

\* An idle entry has a reaper for its last lease, or will have one, or its
\* releaser was cancelled.
Watched(e) ==
    state[e] = "Idle" =>
        \/ <<e, leaseId[e]>> \in timers
        \/ \E c \in Clients : pc[c] = "released" /\ conn[c] = e /\ lease[c] = leaseId[e]
        \/ e \in abandoned

\* Who has seen no free slot, and was not told of one since.
Unaware == {c \in Clients : pc[c] \in {"poll", "asleep"} /\ woken[c] = "no"}

RoomKnown == HasRoom /\ Unaware # {} => untold \/ \E c \in Clients : pc[c] = "undialed"

LossInv ==
    /\ \A j \in jobs : Awaited(j)
    /\ \A c \in Clients : Tended(c)
    /\ \A e \in Conns : Charged(e) /\ Watched(e)
    /\ ~cutShort => \A j \in jobs : Single(j)
    /\ GaugeAccounted
    /\ RoomKnown

\* What a cancelled client leaves: its awaited invalidations end, and the drop of
\* its lease begins one.
LEMMA CancelLeaves ==
    ASSUME IInv, LossInv, NEW c \in Clients, Cancel(c)
    PROVE  /\ \A j \in jobs' :
                 \/ j \in jobs /\ ~(j.kind = "inline" /\ j.by = c)
                 \/ /\ leased[c] /\ conn[c] \in Conns /\ j = Job("dropped", c, conn[c])
                    /\ j \in Jobs /\ j.conn = conn[c] /\ j.kind = "dropped" /\ j.step = "mark" /\ j.open
           /\ \A j \in jobs : j \in jobs' \/ (j.kind = "inline" /\ j.by = c)
           /\ leased[c] => \E j \in jobs' : j.conn = conn[c]
           /\ conn' = [conn EXCEPT ![c] = NoConn] /\ pc' = [pc EXCEPT ![c] = "gone"]
           /\ lease' = [lease EXCEPT ![c] = 0]
           /\ abandoned' = abandoned \cup LeavesBehind(c)
           /\ UNCHANGED <<entryVars, timers, gauge>>
<1>1. jobs' = {j \in jobs : ~(j.kind = "inline" /\ j.by = c)} \cup Dropped(c)
  BY DEF Cancel
<1>2. /\ \A j \in Dropped(c) :
            /\ leased[c] /\ conn[c] \in Conns /\ j = Job("dropped", c, conn[c])
            /\ j \in Jobs /\ j.conn = conn[c] /\ j.kind = "dropped" /\ j.step = "mark" /\ j.open
      /\ leased[c] => \E j \in Dropped(c) : j.conn = conn[c]
  <2>1. leased[c] => conn[c] \in Conns
    BY DEF IInv, TypeOK, Holding, Seeking
  <2> QED BY <2>1, JobType DEF Dropped
<1> HIDE DEF Dropped
<1>3. /\ conn' = [conn EXCEPT ![c] = NoConn] /\ pc' = [pc EXCEPT ![c] = "gone"]
      /\ lease' = [lease EXCEPT ![c] = 0]
      /\ abandoned' = abandoned \cup LeavesBehind(c)
      /\ UNCHANGED <<entryVars, timers, gauge>>
  BY DEF Cancel, Leave, Forget, To
<1> QED BY <1>1, <1>2, <1>3

\* A client that is cancelled on its own leaves nothing it was to free.
LEMMA CancelFrees ==
    ASSUME IInv, LossInv, NEW c \in Clients, Cancel(c), conn[c] \in pool,
           pc[c] \notin {"released", "undialed"}
    PROVE  \/ conn[c] \in abandoned'
           \/ \E j \in jobs' : j.conn = conn[c]
<1>1. CASE leased[c]
  BY <1>1, CancelLeaves
<1>2. CASE ~leased[c]
  <2>1. conn[c] \in Conns /\ conn[c] # NoConn
    BY NoConnAssumption DEF IInv, TypeOK
  <2>2. leaseId[conn[c]] = lease[c]
    BY <1>2, <2>1 DEF IInv, LossInv, TypeOK, Awaits, Holding, Seeking, Using, Between, Holds, Owns, Tended
  <2>3. conn[c] \in LeavesBehind(c)
    BY <1>2, <2>2 DEF LeavesBehind
  <2> QED BY <2>3, CancelLeaves
<1> QED BY <1>1, <1>2

LEMMA CancelCharges ==
    ASSUME IInv, LossInv, NEW c \in Clients, Cancel(c), NEW x, x = conn[c], x \in pool,
           pc[c] \notin {"released", "undialed"}
    PROVE  Charged(x)'
<1>1. x \in abandoned' \/ \E j \in jobs' : j.conn = x
  BY CancelFrees
<1> QED BY <1>1 DEF Charged

\* An invalidation is awaited as long as its client waits.
LEMMA AwaitedKept ==
    ASSUME IInv, LossInv, [Next]_vars
    PROVE  \A x \in jobs' : Awaited(x)'
<1> USE DEF IInv, LossInv, TypeOK, To, holdVars, callVars, clientVars, entryVars, taskVars,
   Holding, Seeking, Awaited
<1>1. ASSUME NEW c \in Clients,
             /\ UNCHANGED jobs /\ pc[c] \notin {"retrying", "failing"}
             /\ \A d \in Clients : d # c => conn'[d] = conn[d] /\ pc'[d] = pc[d]
      PROVE  \A x \in jobs' : Awaited(x)'
  BY <1>1
<1>2. CASE \E c \in Clients : Arm(c) \/ Poll(c) \/ Wake(c)
  BY <1>1, <1>2 DEF Arm, Poll, Wake
<1>3. CASE \E c \in Clients : WaitTimesOut(c) \/ ReportUnreserved(c) \/ ReportReleased(c)
  BY <1>1, <1>3 DEF WaitTimesOut, ReportUnreserved, ReportReleased, Leave, Forget
<1>4. CASE \E c \in Clients : Scan(c)
  BY <1>1, <1>4 DEF Scan
<1>5. CASE \E c \in Clients : Reserve(c)
  BY <1>1, <1>5 DEF Reserve
<1>6. CASE \E c \in Clients : DialSucceeds(c) \/ DialFails(c) \/ Unreserve(c) \/ Grant(c)
  BY <1>1, <1>6 DEF DialSucceeds, DialFails, Unreserve, Grant
<1>7. ASSUME NEW c \in Clients, GreetFails(c) \/ SendFails(c) \/ Breaks(c)
      PROVE  \A x \in jobs' : Awaited(x)'
  <2>1. conn[c] \in Conns
    BY <1>7 DEF GreetFails, SendFails, Breaks
  <2>2. PICK n \in Jobs :
           jobs' = jobs \cup {n} /\ n.conn = conn[c] /\ n.kind = "inline" /\ n.by = c
    BY <1>7, <2>1, JobType DEF GreetFails, SendFails, Breaks, Invalidate
  <2>3. /\ pc'[c] \in {"retrying", "failing"}
        /\ \A d \in Clients : d # c => pc'[d] = pc[d]
        /\ UNCHANGED conn
    BY <1>7 DEF GreetFails, SendFails, Breaks, Invalidate
  <2> QED BY <2>2, <2>3
<1>8. CASE \E c \in Clients : SendText(c) \/ Flush(c) \/ SendSucceeds(c) \/ Answered(c)
  BY <1>1, <1>8 DEF SendText, Flush, Call, SendSucceeds, Answered
<1>9. ASSUME NEW c \in Clients, Resume(c)
      PROVE  \A x \in jobs' : Awaited(x)'
  <2>1. \A d \in Clients : d # c => conn'[d] = conn[d] /\ pc'[d] = pc[d]
    BY <1>9 DEF Resume, Forget, Leave
  <2>2. \A x \in jobs : x.kind = "inline" => x.by # c
    BY <1>9 DEF Resume
  <2>3. \A x \in jobs' \ jobs : x.kind = "dropped"
    BY <1>9, DroppedType, JobType DEF Resume
  <2> QED BY <2>1, <2>2, <2>3
<1>10. CASE \E c \in Clients : Finish(c)
  BY <1>1, <1>10 DEF Finish, Forget, Leave
<1>11. CASE \E c \in Clients : Release(c)
  BY <1>1, <1>11 DEF Release, Forget, Leave
<1>12. ASSUME NEW c \in Clients, Cancel(c)
      PROVE  \A x \in jobs' : Awaited(x)'
  <2>1. \A d \in Clients : d # c => conn'[d] = conn[d] /\ pc'[d] = pc[d]
    BY <1>12, CancelLeaves
  <2>2. \A x \in jobs' : x.kind = "inline" => x \in jobs /\ x.by # c
    BY <1>12, CancelLeaves
  <2> QED BY <2>1, <2>2
<1>13. ASSUME NEW j \in jobs, Mark(j)
      PROVE  \A x \in jobs' : Awaited(x)'
  <2>1. \A x \in jobs' : \E y \in jobs : x.kind = y.kind /\ x.by = y.by /\ x.conn = y.conn
    BY <1>13, MarkAdvances
  <2> QED BY <1>13, <2>1 DEF Mark
<1>14. ASSUME NEW j \in jobs, HangUp(j)
      PROVE  \A x \in jobs' : Awaited(x)'
  <2>1. \A x \in jobs' : \E y \in jobs : x.kind = y.kind /\ x.by = y.by /\ x.conn = y.conn
    BY <1>14, HangUpAdvances
  <2> QED BY <1>14, <2>1 DEF HangUp
<1>15. CASE \E j \in jobs : Remove(j)
  BY <1>15 DEF Remove
<1>16. ASSUME NEW e \in Conns, NEW id \in Nat, Expire(e, id)
      PROVE  \A x \in jobs' : Awaited(x)'
  <2>1. \A x \in jobs' \ jobs : x.kind = "reap"
    BY <1>16, ExpireReaps, SMTT(40) DEF Expire
  <2> QED BY <1>16, <2>1 DEF Expire
<1>17. CASE UNCHANGED vars
  BY <1>17 DEF vars
<1> QED BY <1>2, <1>3, <1>4, <1>5, <1>6, <1>7, <1>8, <1>9, <1>10, <1>11, <1>12, <1>13, <1>14,
   <1>15, <1>16, <1>17, StepIs

\* The entry goes before the client that awaits it.
LEMMA TendedKept ==
    ASSUME IInv, LossInv, [Next]_vars
    PROVE  \A x \in Clients : Tended(x)'
<1> USE DEF IInv, LossInv, TypeOK, To, holdVars, callVars, clientVars, entryVars, taskVars,
   Holding, Seeking, Using, Between, Holds, Owns, Exclusive, Entry, Orderly, Awaited, Tended
<1>1. CASE \E c \in Clients : Arm(c) \/ Poll(c) \/ Wake(c)
  BY <1>1 DEF Arm, Poll, Wake
<1>2. CASE \E c \in Clients : WaitTimesOut(c) \/ ReportUnreserved(c) \/ ReportReleased(c)
  BY <1>2 DEF WaitTimesOut, ReportUnreserved, ReportReleased, Leave, Forget, NotifyWaiters,
     NotifyOneOf, Waiting
<1>3. CASE \E c \in Clients : Scan(c)
  BY <1>3 DEF Scan
<1>4. CASE \E c \in Clients : Reserve(c)
  BY <1>4 DEF Reserve, Fresh
<1>5. CASE \E c \in Clients : DialSucceeds(c)
  BY <1>5 DEF DialSucceeds
<1>6. CASE \E c \in Clients : DialFails(c)
  BY <1>6 DEF DialFails
<1>7. CASE \E c \in Clients : Unreserve(c)
  BY <1>7 DEF Unreserve, Discard
<1>8. CASE \E c \in Clients : Grant(c)
  BY <1>8 DEF Grant
<1>9. ASSUME NEW c \in Clients, GreetFails(c) \/ SendFails(c) \/ Breaks(c)
      PROVE  \A x \in Clients : Tended(x)'
  <2>1. conn[c] \in Conns /\ leaseId[conn[c]] = lease[c]
    BY <1>9 DEF GreetFails, SendFails, Breaks
  <2>2. PICK n \in Jobs :
           jobs' = jobs \cup {n} /\ n.conn = conn[c] /\ n.kind = "inline" /\ n.by = c
    BY <1>9, <2>1, JobType DEF GreetFails, SendFails, Breaks, Invalidate
  <2>3. /\ pc'[c] \in {"retrying", "failing"}
        /\ \A d \in Clients : d # c => pc'[d] = pc[d]
        /\ UNCHANGED <<conn, lease, entryVars>>
    BY <1>9 DEF GreetFails, SendFails, Breaks, Invalidate
  <2> QED BY <2>1, <2>2, <2>3
<1>10. CASE \E c \in Clients : SendText(c) \/ Flush(c)
  BY <1>10 DEF SendText, Flush, Call
<1>11. CASE \E c \in Clients : SendSucceeds(c)
  BY <1>11 DEF SendSucceeds
<1>12. CASE \E c \in Clients : Answered(c)
  BY <1>12 DEF Answered
<1>13. ASSUME NEW c \in Clients, Resume(c)
      PROVE  \A x \in Clients : Tended(x)'
  <2>1. UNCHANGED entryVars /\ pc[c] \in {"retrying", "failing"} /\ pc'[c] \in {"arm", "gone"}
    BY <1>13 DEF Resume, Leave
  <2>2. \A d \in Clients : d # c => conn'[d] = conn[d] /\ pc'[d] = pc[d] /\ lease'[d] = lease[d]
    BY <1>13 DEF Resume, Forget, Leave
  <2>3. jobs \subseteq jobs'
    BY <1>13 DEF Resume
  <2> QED BY <2>1, <2>2, <2>3
<1>14. CASE \E c \in Clients : Finish(c)
  BY <1>14 DEF Finish, Forget, Leave
<1>15. CASE \E c \in Clients : Release(c)
  BY <1>15 DEF Release, Forget, Leave
<1>16. ASSUME NEW c \in Clients, Cancel(c)
      PROVE  \A x \in Clients : Tended(x)'
  <2>1. UNCHANGED entryVars /\ pc'[c] = "gone"
    BY <1>16, CancelLeaves
  <2>2. \A d \in Clients : d # c => conn'[d] = conn[d] /\ pc'[d] = pc[d] /\ lease'[d] = lease[d]
    BY <1>16, CancelLeaves
  <2>3. \A j \in jobs : j.by # c => j \in jobs'
    BY <1>16, CancelLeaves
  <2> QED BY <2>1, <2>2, <2>3
<1>17. ASSUME NEW j \in jobs, Mark(j)
      PROVE  \A x \in Clients : Tended(x)'
  <2>1. UNCHANGED <<pc, conn, lease, leaseId, pool>>
    BY <1>17 DEF Mark
  <2>2. PICK n \in Jobs :
           jobs' = (jobs \ {j}) \cup {n} /\ n.kind = j.kind /\ n.by = j.by /\ n.conn = j.conn
    BY <1>17, MarkAdvances
  <2> QED BY <2>1, <2>2
<1>18. ASSUME NEW j \in jobs, HangUp(j)
      PROVE  \A x \in Clients : Tended(x)'
  <2>1. UNCHANGED <<pc, conn, lease, leaseId, pool>>
    BY <1>18 DEF HangUp
  <2>2. PICK n \in Jobs :
           jobs' = (jobs \ {j}) \cup {n} /\ n.kind = j.kind /\ n.by = j.by /\ n.conn = j.conn
    BY <1>18, HangUpAdvances
  <2> QED BY <2>1, <2>2
<1>19. CASE \E j \in jobs : Remove(j)
  BY <1>19 DEF Remove, Discard, NotifyWaiters
<1>20. CASE \E e \in Conns, id \in Nat : Expire(e, id)
  BY <1>20 DEF Expire, UnusedSince, Job
<1>21. CASE UNCHANGED vars
  BY <1>21 DEF vars
<1> QED BY <1>1, <1>2, <1>3, <1>4, <1>5, <1>6, <1>7, <1>8, <1>9, <1>10, <1>11, <1>12, <1>13,
   <1>14, <1>15, <1>16, <1>17, <1>18, <1>19, <1>20, <1>21, StepIs

\* Each lease that ends in a release has its own reaper.
LEMMA WatchedKept ==
    ASSUME IInv, LossInv, [Next]_vars
    PROVE  \A x \in Conns : Watched(x)'
<1> USE DEF IInv, LossInv, TypeOK, To, holdVars, callVars, clientVars, entryVars, taskVars,
   lossVars, Holding, Seeking, Using, Between, Holds, Owns, Entry, Orderly, Watched
<1>1. CASE \E c \in Clients : Arm(c) \/ Poll(c) \/ Wake(c)
  BY <1>1 DEF Arm, Poll, Wake
<1>2. CASE \E c \in Clients : WaitTimesOut(c) \/ ReportUnreserved(c) \/ ReportReleased(c)
  BY <1>2 DEF WaitTimesOut, ReportUnreserved, ReportReleased, Leave, Forget, NotifyWaiters,
     NotifyOneOf, Waiting
<1>3. ASSUME NEW c \in Clients, Scan(c)
      PROVE  \A x \in Conns : Watched(x)'
  <2>1. conn[c] = NoConn /\ pc[c] = "scan" /\ UNCHANGED timers
    BY <1>3 DEF Scan
  <2>2. \A d \in Clients : d # c => conn'[d] = conn[d] /\ pc'[d] = pc[d] /\ lease'[d] = lease[d]
    BY <1>3 DEF Scan
  <2>3. \A x \in Conns :
           /\ state'[x] = "Idle" => state[x] = "Idle" /\ leaseId'[x] = leaseId[x]
           /\ x \in abandoned => x \in abandoned' \/ state'[x] # "Idle"
    BY <1>3, <2>1, ScanTakes
  <2>4. ASSUME NEW x \in Conns
        PROVE  Watched(x)'
    BY <2>1, <2>2, <2>3, SMTT(40)
  <2> QED BY <2>4
<1>4. CASE \E c \in Clients : Reserve(c)
  BY <1>4, SMTT(40) DEF Reserve, Fresh
<1>5. CASE \E c \in Clients : DialSucceeds(c)
  BY <1>5 DEF DialSucceeds
<1>6. CASE \E c \in Clients : DialFails(c)
  BY <1>6 DEF DialFails
<1>7. CASE \E c \in Clients : Unreserve(c)
  BY <1>7 DEF Unreserve, Discard
<1>8. CASE \E c \in Clients : Grant(c)
  BY <1>8 DEF Grant
<1>9. CASE \E c \in Clients : GreetFails(c) \/ SendFails(c) \/ Breaks(c)
  BY <1>9 DEF GreetFails, SendFails, Breaks, Invalidate, Job
<1>10. CASE \E c \in Clients : SendText(c) \/ Flush(c)
  BY <1>10 DEF SendText, Flush, Call
<1>11. CASE \E c \in Clients : SendSucceeds(c)
  BY <1>11 DEF SendSucceeds
<1>12. CASE \E c \in Clients : Answered(c)
  BY <1>12 DEF Answered
<1>13. CASE \E c \in Clients : Resume(c)
  BY <1>13 DEF Resume, Dropped, Job, Forget, Leave
<1>14. CASE \E c \in Clients : Finish(c)
  BY <1>14 DEF Finish, Forget, Leave
<1>15. CASE \E c \in Clients : Release(c)
  BY <1>15 DEF Release, Forget, Leave
<1>16. ASSUME NEW c \in Clients, Cancel(c)
      PROVE  \A x \in Conns : Watched(x)'
  <2>1. UNCHANGED <<entryVars, timers>> /\ abandoned' = abandoned \cup LeavesBehind(c)
    BY <1>16, CancelLeaves
  <2>2. \A d \in Clients : d # c => conn'[d] = conn[d] /\ pc'[d] = pc[d] /\ lease'[d] = lease[d]
    BY <1>16, CancelLeaves
  <2>3. ASSUME NEW x \in Conns, state[x] = "Idle", pc[c] = "released", conn[c] = x, lease[c] = leaseId[x]
        PROVE  x \in LeavesBehind(c)
    BY <2>3 DEF LeavesBehind
  <2> QED BY <2>1, <2>2, <2>3
<1>17. CASE \E j \in jobs : Mark(j)
  BY <1>17 DEF Mark, Advance
<1>18. CASE \E j \in jobs : HangUp(j)
  BY <1>18 DEF HangUp, Advance
<1>19. CASE \E j \in jobs : Remove(j)
  BY <1>19 DEF Remove, Discard, NotifyWaiters
<1>20. CASE \E e \in Conns, id \in Nat : Expire(e, id)
  BY <1>20 DEF Expire, UnusedSince, Job
<1>21. CASE UNCHANGED vars
  BY <1>21 DEF vars
<1> QED BY <1>1, <1>2, <1>3, <1>4, <1>5, <1>6, <1>7, <1>8, <1>9, <1>10, <1>11, <1>12, <1>13,
   <1>14, <1>15, <1>16, <1>17, <1>18, <1>19, <1>20, <1>21, StepIs

\* Whoever leaves an entry has freed it, or is cancelled.
LEMMA ChargedKept ==
    ASSUME IInv, LossInv, [Next]_vars
    PROVE  \A x \in Conns : Charged(x)'
<1> USE DEF IInv, LossInv, TypeOK, To, holdVars, callVars, clientVars, entryVars, taskVars,
   lossVars, Holding, Seeking, Using, Between, Holds, Owns, Exclusive, Entry, Orderly, Awaited, Tended,
   Charged
<1>1. ASSUME NEW c \in Clients, Arm(c) \/ Poll(c) \/ Wake(c)
      PROVE  \A x \in Conns : Charged(x)'
  <2>1. UNCHANGED <<jobs, entryVars, conn, abandoned>>
    BY <1>1 DEF Arm, Poll, Wake
  <2>2. pc'[c] \in {"scan", "arm", "asleep"} /\ \A d \in Clients : d # c => pc'[d] = pc[d]
    BY <1>1 DEF Arm, Poll, Wake
  <2> QED BY <2>1, <2>2
<1>2. ASSUME NEW c \in Clients, WaitTimesOut(c) \/ ReportUnreserved(c) \/ ReportReleased(c)
      PROVE  \A x \in Conns : Charged(x)'
  <2>1. UNCHANGED <<jobs, entryVars, abandoned>>
    BY <1>2 DEF WaitTimesOut, ReportUnreserved, ReportReleased
  <2>2. \A d \in Clients :
           conn[d] # NoConn /\ pc[d] \notin {"released", "undialed"}
              => conn'[d] = conn[d] /\ pc'[d] = pc[d]
    BY <1>2 DEF WaitTimesOut, ReportUnreserved, ReportReleased, Leave, Forget
  <2>3. ASSUME NEW x \in Conns
        PROVE  Charged(x)'
    <3>1. CASE x \notin pool
      BY <2>1, <2>2, <3>1
    <3>2. CASE state[x] = "Idle" \/ x \in abandoned
      BY <2>1, <2>2, <3>2
    <3>3. ASSUME NEW d \in Clients, conn[d] = x, pc[d] \notin {"released", "undialed"}
          PROVE  Charged(x)'
      <4>1. conn'[d] = x /\ pc'[d] \notin {"released", "undialed"}
        BY NoConnAssumption, <2>1, <2>2, <3>3
      <4> QED BY <4>1
    <3>4. ASSUME NEW j \in jobs, j.conn = x
          PROVE  Charged(x)'
      BY <2>1, <2>2, <3>4
    <3> QED BY <3>1, <3>2, <3>3, <3>4
  <2> QED BY <2>3
<1>3. ASSUME NEW c \in Clients, Scan(c)
      PROVE  \A x \in Conns : Charged(x)'
  <2>1. conn[c] = NoConn /\ UNCHANGED <<jobs, pool>>
    BY <1>3 DEF Scan
  <2>2. \A d \in Clients : d # c => conn'[d] = conn[d] /\ pc'[d] = pc[d]
    BY <1>3 DEF Scan
  <2>3. ASSUME NEW x \in Conns
        PROVE  \/ state'[x] = state[x] /\ (x \in abandoned => x \in abandoned')
               \/ conn'[c] = x /\ pc'[c] = "greet"
    BY <1>3, <2>1, ScanTakes
  <2>4. ASSUME NEW x \in Conns
        PROVE  Charged(x)'
    <3>1. CASE x \notin pool
      BY <2>1, <2>2, <2>3, <3>1
    <3>2. CASE state[x] = "Idle" \/ x \in abandoned
      BY <2>1, <2>2, <2>3, <3>2
    <3>3. ASSUME NEW d \in Clients, conn[d] = x, pc[d] \notin {"released", "undialed"}
          PROVE  Charged(x)'
      <4>1. conn'[d] = x /\ pc'[d] \notin {"released", "undialed"}
        BY NoConnAssumption, <2>1, <2>2, <2>3, <3>3
      <4> QED BY <4>1
    <3>4. ASSUME NEW j \in jobs, j.conn = x
          PROVE  Charged(x)'
      BY <2>1, <2>2, <2>3, <3>4
    <3> QED BY <3>1, <3>2, <3>3, <3>4
  <2> QED BY <2>4
<1>4. ASSUME NEW c \in Clients, Reserve(c)
      PROVE  \A x \in Conns : Charged(x)'
  <2>1. conn[c] = NoConn /\ UNCHANGED <<jobs, abandoned>>
    BY <1>4 DEF Reserve
  <2>2. \A d \in Clients : d # c => conn'[d] = conn[d] /\ pc'[d] = pc[d]
    BY <1>4 DEF Reserve
  <2>3. ASSUME NEW x \in Conns
        PROVE  \/ state'[x] = state[x] /\ (x \in pool' => x \in pool)
               \/ conn'[c] = x /\ pc'[c] = "dial"
    BY <1>4 DEF Reserve
  <2>4. ASSUME NEW x \in Conns
        PROVE  Charged(x)'
    <3>1. CASE x \notin pool
      BY <2>1, <2>2, <2>3, <3>1
    <3>2. CASE state[x] = "Idle" \/ x \in abandoned
      BY <2>1, <2>2, <2>3, <3>2
    <3>3. ASSUME NEW d \in Clients, conn[d] = x, pc[d] \notin {"released", "undialed"}
          PROVE  Charged(x)'
      <4>1. conn'[d] = x /\ pc'[d] \notin {"released", "undialed"}
        BY NoConnAssumption, <2>1, <2>2, <2>3, <3>3
      <4> QED BY <4>1
    <3>4. ASSUME NEW j \in jobs, j.conn = x
          PROVE  Charged(x)'
      BY <2>1, <2>2, <2>3, <3>4
    <3> QED BY <3>1, <3>2, <3>3, <3>4
  <2> QED BY <2>4
<1>5. CASE \E c \in Clients : DialSucceeds(c)
  BY <1>5 DEF DialSucceeds
<1>6. CASE \E c \in Clients : DialFails(c)
  BY <1>6 DEF DialFails
<1>7. CASE \E c \in Clients : Unreserve(c)
  BY <1>7 DEF Unreserve, Discard
<1>8. CASE \E c \in Clients : Grant(c)
  BY <1>8 DEF Grant
<1>9. ASSUME NEW c \in Clients, GreetFails(c) \/ SendFails(c) \/ Breaks(c)
      PROVE  \A x \in Conns : Charged(x)'
  <2>1. /\ pc'[c] \in {"retrying", "failing"} /\ jobs \subseteq jobs'
        /\ \A d \in Clients : d # c => pc'[d] = pc[d]
        /\ UNCHANGED <<conn, entryVars, abandoned>>
    BY <1>9 DEF GreetFails, SendFails, Breaks, Invalidate
  <2>2. ASSUME NEW x \in Conns
        PROVE  Charged(x)'
    <3>1. CASE x \notin pool
      BY <2>1, <3>1
    <3>2. CASE state[x] = "Idle" \/ x \in abandoned
      BY <2>1, <3>2
    <3>3. ASSUME NEW d \in Clients, conn[d] = x, pc[d] \notin {"released", "undialed"}
          PROVE  Charged(x)'
      BY <2>1, <3>3
    <3>4. ASSUME NEW j \in jobs, j.conn = x
          PROVE  Charged(x)'
      BY <2>1, <3>4
    <3> QED BY <3>1, <3>2, <3>3, <3>4
  <2> QED BY <2>2
<1>10. ASSUME NEW c \in Clients, SendText(c) \/ Flush(c)
      PROVE  \A x \in Conns : Charged(x)'
  <2>1. UNCHANGED <<jobs, entryVars, conn, abandoned>>
    BY <1>10 DEF SendText, Flush, Call
  <2>2. pc'[c] \in {"send", "arm"} /\ \A d \in Clients : d # c => pc'[d] = pc[d]
    BY <1>10 DEF SendText, Flush, Call
  <2> QED BY <2>1, <2>2
<1>11. CASE \E c \in Clients : SendSucceeds(c)
  BY <1>11 DEF SendSucceeds
<1>12. CASE \E c \in Clients : Answered(c)
  BY <1>12 DEF Answered
<1>13. ASSUME NEW c \in Clients, Resume(c)
      PROVE  \A x \in Conns : Charged(x)'
  <2>1. UNCHANGED <<entryVars, abandoned>> /\ jobs \subseteq jobs' /\ pc[c] \in {"retrying", "failing"}
    BY <1>13 DEF Resume
  <2>2. \A d \in Clients : d # c => conn'[d] = conn[d] /\ pc'[d] = pc[d]
    BY <1>13 DEF Resume, Forget, Leave
  <2>3. conn[c] \notin pool
    BY <1>13, <2>1 DEF Resume
  <2>4. ASSUME NEW x \in Conns
        PROVE  Charged(x)'
    <3>1. CASE x \notin pool
      BY <2>1, <2>2, <2>3, <3>1
    <3>2. CASE state[x] = "Idle" \/ x \in abandoned
      BY <2>1, <2>2, <2>3, <3>2
    <3>3. ASSUME NEW d \in Clients, conn[d] = x, pc[d] \notin {"released", "undialed"}
          PROVE  Charged(x)'
      BY <2>1, <2>2, <2>3, <3>3
    <3>4. ASSUME NEW j \in jobs, j.conn = x
          PROVE  Charged(x)'
      BY <2>1, <2>2, <2>3, <3>4
    <3> QED BY <3>1, <3>2, <3>3, <3>4
  <2> QED BY <2>4
<1>14. ASSUME NEW c \in Clients, Finish(c)
      PROVE  \A x \in Conns : Charged(x)'
  <2>1. UNCHANGED <<jobs, entryVars, abandoned>> /\ pc[c] = "ready"
    BY <1>14 DEF Finish
  <2>2. \A d \in Clients : d # c => conn'[d] = conn[d] /\ pc'[d] = pc[d]
    BY <1>14 DEF Finish, Forget, Leave
  <2>3. conn[c] # NoConn => conn'[c] = conn[c] /\ pc'[c] = "release"
    BY <1>14 DEF Finish
  <2>4. ASSUME NEW x \in Conns
        PROVE  Charged(x)'
    <3>1. CASE x \notin pool
      BY NoConnAssumption, <2>1, <2>2, <2>3, <3>1
    <3>2. CASE state[x] = "Idle" \/ x \in abandoned
      BY NoConnAssumption, <2>1, <2>2, <2>3, <3>2
    <3>3. ASSUME NEW d \in Clients, conn[d] = x, pc[d] \notin {"released", "undialed"}
          PROVE  Charged(x)'
      BY NoConnAssumption, <2>1, <2>2, <2>3, <3>3
    <3>4. ASSUME NEW j \in jobs, j.conn = x
          PROVE  Charged(x)'
      BY NoConnAssumption, <2>1, <2>2, <2>3, <3>4
    <3> QED BY <3>1, <3>2, <3>3, <3>4
  <2> QED BY <2>4
<1>15. ASSUME NEW c \in Clients, Release(c)
      PROVE  \A x \in Conns : Charged(x)'
  <2>1. /\ UNCHANGED <<jobs, pool, conn, abandoned>> /\ conn[c] \in Conns
        /\ state' = [state EXCEPT ![conn[c]] = "Idle"]
        /\ \A d \in Clients : d # c => pc'[d] = pc[d]
    BY <1>15 DEF Release
  <2>2. ASSUME NEW x \in Conns
        PROVE  Charged(x)'
    <3>1. CASE x \notin pool
      BY <2>1, <3>1
    <3>2. CASE state[x] = "Idle" \/ x \in abandoned
      BY <2>1, <3>2
    <3>3. ASSUME NEW d \in Clients, conn[d] = x, pc[d] \notin {"released", "undialed"}
          PROVE  Charged(x)'
      BY <2>1, <3>3
    <3>4. ASSUME NEW j \in jobs, j.conn = x
          PROVE  Charged(x)'
      BY <2>1, <3>4
    <3> QED BY <3>1, <3>2, <3>3, <3>4
  <2> QED BY <2>2
<1>16. ASSUME NEW c \in Clients, Cancel(c)
      PROVE  \A x \in Conns : Charged(x)'
  <2>1. UNCHANGED entryVars /\ abandoned \subseteq abandoned'
    BY <1>16, CancelLeaves
  <2>2. \A d \in Clients : d # c => conn'[d] = conn[d] /\ pc'[d] = pc[d]
    BY <1>16, CancelLeaves
  <2>3. \A j \in jobs : j \in jobs' \/ (j.kind = "inline" /\ j.by = c /\ j.conn = conn[c])
    BY <1>16, CancelLeaves
  <2>4. ASSUME NEW x \in Conns, x \in pool, conn[c] = x, pc[c] \notin {"released", "undialed"}
        PROVE  Charged(x)'
    <3> HIDE DEF IInv, LossInv, Charged
    <3> QED BY <1>16, <2>4, CancelCharges
  <2>5. ASSUME NEW x \in Conns
        PROVE  Charged(x)'
    <3>1. CASE x \notin pool
      BY <2>1, <3>1
    <3>2. CASE state[x] = "Idle" \/ x \in abandoned
      BY <2>1, <3>2
    <3>3. ASSUME NEW d \in Clients, conn[d] = x, pc[d] \notin {"released", "undialed"}
          PROVE  Charged(x)'
      <4>1. CASE d = c
        BY <2>1, <2>4, <3>1, <3>3, <4>1
      <4>2. CASE d # c
        BY <2>2, <3>3, <4>2
      <4> QED BY <4>1, <4>2
    <3>4. ASSUME NEW j \in jobs, j.conn = x
          PROVE  Charged(x)'
      <4>1. CASE j \in jobs'
        BY <3>4, <4>1
      <4>2. CASE j \notin jobs'
        <5>1. j.kind = "inline" /\ j.by = c /\ conn[c] = x /\ pc[c] \in {"retrying", "failing"}
          BY <2>3, <3>4, <4>2
        <5> QED BY <2>1, <2>4, <3>1, <5>1
      <4> QED BY <4>1, <4>2
    <3> QED BY <3>1, <3>2, <3>3, <3>4
  <2> QED BY <2>5
<1>17. ASSUME NEW j \in jobs, Mark(j)
      PROVE  \A x \in Conns : Charged(x)'
  <2>1. UNCHANGED <<pc, conn, pool, abandoned>> /\ j \in Jobs /\ state' = [state EXCEPT ![j.conn] = "Closed"]
    BY <1>17 DEF Mark
  <2>2. PICK n \in Jobs :
           jobs' = (jobs \ {j}) \cup {n} /\ n.conn = j.conn
    BY <1>17, MarkAdvances
  <2>3. \A x \in Conns : state[x] = "Idle" => state'[x] = "Idle"
    BY <2>1
  <2> QED BY <2>1, <2>2, <2>3
<1>18. ASSUME NEW j \in jobs, HangUp(j)
      PROVE  \A x \in Conns : Charged(x)'
  <2>1. UNCHANGED <<pc, conn, pool, state, abandoned>>
    BY <1>18 DEF HangUp
  <2>2. PICK n \in Jobs :
           jobs' = (jobs \ {j}) \cup {n} /\ n.conn = j.conn
    BY <1>18, HangUpAdvances
  <2> QED BY <2>1, <2>2
<1>19. CASE \E j \in jobs : Remove(j)
  BY <1>19 DEF Remove, Discard, NotifyWaiters
<1>20. ASSUME NEW e \in Conns, NEW id \in Nat, Expire(e, id)
      PROVE  \A x \in Conns : Charged(x)'
  <2>1. UNCHANGED <<pc, conn, pool, abandoned>>
    BY <1>20 DEF Expire
  <2>2. CASE UnusedSince(e, id)
    <3>1. PICK n \in Jobs : jobs' = jobs \cup {n} /\ n.conn = e
      BY <1>20, <2>2, ExpireReaps
    <3>2. state' = [state EXCEPT ![e] = "Closed"]
      BY <1>20, <2>2 DEF Expire
    <3> QED BY <2>1, <3>1, <3>2
  <2>3. CASE ~UnusedSince(e, id)
    BY <1>20, <2>1, <2>3 DEF Expire
  <2> QED BY <2>2, <2>3
<1>21. CASE UNCHANGED vars
  BY <1>21 DEF vars
<1> QED BY <1>1, <1>2, <1>3, <1>4, <1>5, <1>6, <1>7, <1>8, <1>9, <1>10, <1>11, <1>12, <1>13,
   <1>14, <1>15, <1>16, <1>17, <1>18, <1>19, <1>20, <1>21, StepIs


\* What was cut short stays so.
LEMMA CutStays ==
    ASSUME IInv, [Next]_vars, ~cutShort'
    PROVE  ~cutShort /\ \A c \in Clients : Cancel(c) => ~CutsShort(c)
<1> USE DEF lossVars, NotifyWaiters
<1>1. ASSUME NEW c \in Clients, Acquire(c)
      PROVE  cutShort' = cutShort
  BY <1>1 DEF Acquire, Arm, Scan, Reserve, Poll, Wake, WaitTimesOut, DialSucceeds, DialFails,
     Unreserve, ReportUnreserved, Grant, GreetFails
<1>2. ASSUME NEW c \in Clients, Use(c)
      PROVE  cutShort' = cutShort
  BY <1>2 DEF Use, SendText, Flush, Call, SendSucceeds, SendFails, Answered, Breaks, Resume,
     Finish, Release, ReportReleased
<1>3. ASSUME NEW c \in Clients, Cancel(c)
      PROVE  cutShort' = (cutShort \/ CutsShort(c))
  BY <1>3 DEF Cancel
<1>4. ASSUME Task
      PROVE  cutShort' = cutShort
  BY <1>4 DEF Task, Mark, HangUp, Remove, Expire
<1>5. cutShort \in BOOLEAN /\ cutShort' \in BOOLEAN
  BY TypesKept DEF IInv, TypeOK
<1>6. ~cutShort
  BY <1>1, <1>2, <1>3, <1>4, <1>5 DEF Next, vars
<1> QED BY <1>3, <1>6

\* A client whose awaited invalidation is over has no entry in the pool.
LEMMA ResumeLeavesNone ==
    ASSUME IInv, LossInv, NEW c \in Clients, Resume(c)
    PROVE  /\ UNCHANGED entryVars /\ conn[c] \notin pool
           /\ \A j \in jobs' : j \in jobs \/ j.conn = conn[c]
           /\ jobs \subseteq jobs'
<1>1. UNCHANGED entryVars /\ pc[c] \in {"retrying", "failing"} /\ jobs' = jobs \cup Dropped(c)
  BY DEF Resume
<1>2. \A j \in jobs : ~(j.kind = "inline" /\ j.by = c)
  BY DEF Resume
<1>3. Tended(c)
  BY DEF LossInv
<1>4. conn[c] \notin pool
  BY <1>1, <1>2, <1>3 DEF Tended
<1>5. \A j \in Dropped(c) : j.conn = conn[c]
  BY DroppedType, JobType
<1> QED BY <1>1, <1>4, <1>5

\* As long as no invalidation is cut short, no entry has two.
LEMMA SingleKept ==
    ASSUME IInv, LossInv, [Next]_vars, ~cutShort'
    PROVE  \A x \in jobs' : Single(x)'
<1>0. \A j \in jobs : Single(j)
  BY CutStays DEF LossInv
<1>jobs. \A j \in jobs : j \in Jobs /\ j.conn \in Conns /\ j.conn # NoConn
  BY DEF IInv, TypeOK, Jobs
<1> USE DEF To, holdVars, callVars, clientVars, entryVars, taskVars, Single
<1>1. CASE UNCHANGED <<jobs, pool, state>>
  BY <1>0, <1>1
<1>2. CASE \E c \in Clients : Arm(c) \/ Poll(c) \/ Wake(c)
  BY <1>1, <1>2 DEF Arm, Poll, Wake
<1>3. CASE \E c \in Clients : WaitTimesOut(c) \/ ReportUnreserved(c) \/ ReportReleased(c)
  BY <1>1, <1>3 DEF WaitTimesOut, ReportUnreserved, ReportReleased
<1>4. ASSUME NEW c \in Clients, Scan(c)
      PROVE  \A x \in jobs' : Single(x)'
  <2>1. UNCHANGED <<jobs, pool>> /\ conn[c] = NoConn
    BY <1>4 DEF Scan, IInv, Holding, Seeking
  <2>2. \A x \in Conns : state[x] # "Idle" => state'[x] = state[x]
    <3>1. state \in [Conns -> {"Connecting", "Idle", "InUse", "Closed"}]
      BY DEF IInv, TypeOK
    <3> QED BY <1>4, <2>1, <3>1, ScanTakes DEF IInv
  <2>3. \A x \in jobs : state[x.conn] # "Idle"
    BY DEF IInv, Orderly
  <2> QED BY <1>0, <1>jobs, <2>1, <2>2, <2>3
<1>5. ASSUME NEW c \in Clients, Reserve(c)
      PROVE  \A x \in jobs' : Single(x)'
  <2>1. /\ UNCHANGED jobs
        /\ \A x \in jobs : state'[x.conn] = state[x.conn] /\ (x.conn \in pool' => x.conn \in pool)
    BY <1>5, <1>jobs DEF Reserve, Fresh, IInv, TypeOK
  <2> QED BY <1>0, <2>1
<1>6. ASSUME NEW c \in Clients, DialSucceeds(c) \/ DialFails(c)
      PROVE  \A x \in jobs' : Single(x)'
  <2>1. UNCHANGED <<jobs, pool>>
    BY <1>6 DEF DialSucceeds, DialFails
  <2>2. \A x \in jobs : x.conn # conn[c]
    BY <1>6 DEF DialSucceeds, DialFails, IInv, Orderly
  <2>3. \A x \in jobs : state'[x.conn] = state[x.conn]
    BY <1>6, <1>jobs, <2>2 DEF DialSucceeds, DialFails, IInv, TypeOK
  <2> QED BY <1>0, <2>1, <2>3
<1>7. CASE \E c \in Clients : Unreserve(c)
  BY <1>0, <1>7 DEF Unreserve, Discard
<1>8. CASE \E c \in Clients : Grant(c)
  BY <1>1, <1>8 DEF Grant
<1>9. ASSUME NEW c \in Clients, GreetFails(c) \/ SendFails(c) \/ Breaks(c)
      PROVE  \A x \in jobs' : Single(x)'
  <2>1. /\ conn[c] \in Conns /\ state[conn[c]] = "InUse"
        /\ \A x \in jobs : x.conn # conn[c]
    BY <1>9 DEF GreetFails, SendFails, Breaks, IInv, TypeOK, Holding, Seeking, Using, Between,
       Holds, Owns, Orderly
  <2>2. PICK n \in Jobs :
           /\ jobs' = jobs \cup {n} /\ n.conn = conn[c]
           /\ n.step = "mark" /\ n.open
    BY <1>9, <2>1, JobType DEF GreetFails, SendFails, Breaks, Invalidate
  <2>3. UNCHANGED entryVars
    BY <1>9 DEF GreetFails, SendFails, Breaks, Invalidate
  <2> QED BY <1>0, <2>1, <2>2, <2>3
<1>10. CASE \E c \in Clients : SendText(c) \/ Flush(c) \/ SendSucceeds(c) \/ Answered(c) \/ Finish(c)
  BY <1>1, <1>10 DEF SendText, Flush, Call, SendSucceeds, Answered, Finish
<1>11. CASE \E c \in Clients : Resume(c)
  BY <1>0, <1>11, ResumeLeavesNone
<1>12. ASSUME NEW c \in Clients, Release(c)
      PROVE  \A x \in jobs' : Single(x)'
  <2>1. UNCHANGED <<jobs, pool>> /\ \A x \in jobs : x.conn # conn[c]
    BY <1>12 DEF Release, IInv, Orderly
  <2>2. \A x \in jobs : state'[x.conn] = state[x.conn]
    BY <1>12, <1>jobs, <2>1 DEF Release, IInv, TypeOK
  <2> QED BY <1>0, <2>1, <2>2
<1>13. ASSUME NEW c \in Clients, Cancel(c)
      PROVE  \A x \in jobs' : Single(x)'
  <2>1. UNCHANGED entryVars
    BY <1>13, CancelLeaves
  <2>2. CASE jobs' \subseteq jobs
    BY <1>0, <2>1, <2>2
  <2>3. ASSUME NEW n \in jobs', n \notin jobs
        PROVE  \A x \in jobs' : Single(x)'
    <3>1. leased[c] /\ conn[c] \in Conns /\ n.conn = conn[c] /\ n.step = "mark" /\ n.open
      BY <1>13, <2>3, CancelLeaves
    <3>2. /\ \A x \in jobs' : x = n \/ (x \in jobs /\ ~(x.kind = "inline" /\ x.by = c))
      BY <1>13, <2>3, CancelLeaves
    <3>3. \A x \in jobs : x.conn = conn[c] /\ conn[c] \in pool =>
             x.kind = "inline" /\ x.by = c
      <4>1. CASE pc[c] \in {"retrying", "failing"}
        <5>1. conn[c] \in pool => \E j \in jobs : j.kind = "inline" /\ j.by = c /\ j.conn = conn[c]
          BY <4>1 DEF LossInv, Tended
        <5> QED BY <1>0, <5>1
      <4>2. CASE pc[c] \notin {"retrying", "failing"}
        BY <3>1, <4>2 DEF IInv, Holding, Orderly
      <4> QED BY <4>1, <4>2
    <3>4. conn[c] \in pool => state[conn[c]] = "InUse"
      <4>1. CASE pc[c] \in {"retrying", "failing"}
        <5>1. ASSUME conn[c] \in pool
              PROVE  state[conn[c]] = "InUse"
          <6>1. PICK j \in jobs : j.kind = "inline" /\ j.by = c /\ j.conn = conn[c]
            BY <4>1, <5>1 DEF LossInv, Tended
          <6>2. j.step = "mark"
            BY <1>13, <6>1, CutStays DEF CutsShort
          <6> QED BY <1>0, <5>1, <6>1, <6>2
        <5> QED BY <5>1
      <4>2. CASE pc[c] \in {"ready", "send"}
        BY <3>1, <4>2 DEF IInv, Using, Holds, Owns
      <4> QED BY <3>1, <4>1, <4>2 DEF IInv, Holding
    <3> QED BY <1>0, <2>1, <3>1, <3>2, <3>3, <3>4
  <2> QED BY <2>2, <2>3
<1>14. ASSUME NEW j \in jobs, Mark(j)
      PROVE  \A x \in jobs' : Single(x)'
  <2>1. j.step = "mark" /\ state' = [state EXCEPT ![j.conn] = "Closed"] /\ UNCHANGED pool
    BY <1>14 DEF Mark
  <2>2. PICK n \in Jobs :
           /\ jobs' = (jobs \ {j}) \cup {n} /\ n.conn = j.conn
           /\ n.step = "hangup" /\ n.open = (state[j.conn] # "Closed")
    BY <1>14, MarkAdvances DEF IInv
  <2>3. ASSUME NEW x \in jobs, x # j
        PROVE  Single(x)'
    <3>1. x.conn \in pool => x.conn # j.conn
      BY <1>0, <2>3
    <3>2. x.conn # j.conn => state'[x.conn] = state[x.conn]
      BY <1>jobs, <2>1, <2>3 DEF IInv, TypeOK
    <3> QED BY <1>0, <2>1, <2>2, <2>3, <3>1, <3>2
  <2>4. Single(n)'
    BY <1>0, <2>1, <2>2
  <2> QED BY <2>2, <2>3, <2>4
<1>15. ASSUME NEW j \in jobs, HangUp(j)
      PROVE  \A x \in jobs' : Single(x)'
  <2>1. UNCHANGED <<pool, state>>
    BY <1>15 DEF HangUp
  <2>2. PICK n \in Jobs :
           /\ jobs' = (jobs \ {j}) \cup {n} /\ n.conn = j.conn
           /\ n.step = "remove" /\ n.open = j.open
    BY <1>15, HangUpAdvances DEF IInv
  <2> QED BY <1>0, <2>1, <2>2
<1>16. CASE \E j \in jobs : Remove(j)
  BY <1>0, <1>16 DEF Remove, Discard
<1>17. ASSUME NEW e \in Conns, NEW id \in Nat, Expire(e, id)
      PROVE  \A x \in jobs' : Single(x)'
  <2>1. UNCHANGED pool
    BY <1>17 DEF Expire
  <2>2. CASE UnusedSince(e, id)
    <3>1. PICK n \in Jobs : jobs' = jobs \cup {n} /\ n.conn = e /\ n.step = "hangup" /\ n.open
      BY <1>17, <2>2, ExpireReaps
    <3>2. /\ state' = [state EXCEPT ![e] = "Closed"]
          /\ \A x \in jobs : x.conn # e
      BY <1>17, <2>2 DEF Expire, UnusedSince, IInv, Entry
    <3>3. \A x \in jobs : state'[x.conn] = state[x.conn]
      BY <1>jobs, <3>2 DEF IInv, TypeOK
    <3> QED BY <1>0, <2>1, <3>1, <3>2, <3>3
  <2>3. CASE ~UnusedSince(e, id)
    BY <1>1, <1>17, <2>1, <2>3 DEF Expire
  <2> QED BY <2>2, <2>3
<1>18. CASE UNCHANGED vars
  BY <1>1, <1>18 DEF vars
<1> QED BY <1>2, <1>3, <1>4, <1>5, <1>6, <1>7, <1>8, <1>9, <1>10, <1>11, <1>12, <1>13,
   <1>14, <1>15, <1>16, <1>17, <1>18, StepIs DEF IInv

\* An entry is counted out once at most, and once unless its invalidation was cut
\* short.
LEMMA GaugeKept ==
    ASSUME IInv, LossInv, [Next]_vars
    PROVE  GaugeAccounted'
<1> DEFINE n == Cardinality(pool)
<1>1. IsFiniteSet(pool) /\ n \in Nat /\ gauge \in Int /\ gauge >= n /\ (~cutShort => gauge = n)
  BY FS_CardinalityType DEF IInv, TypeOK, LossInv, Bounded, GaugeAccounted
<1>2. ~cutShort' => ~cutShort
  BY CutStays
<1>3. ASSUME NEW e \in pool, pool' = pool \ {e}
      PROVE  Cardinality(pool') = n - 1
  BY <1>1, <1>3, FS_RemoveElement
<1>4. ASSUME NEW c \in Clients, Reserve(c), ~UNCHANGED <<pool, gauge>>
      PROVE  GaugeAccounted'
  <2>1. PICK e \in Conns : e \notin pool /\ pool' = pool \cup {e} /\ gauge' = gauge + 1
    BY <1>4 DEF Reserve, Fresh, entryVars
  <2>2. Cardinality(pool') = n + 1
    BY <1>1, <2>1, FS_AddElement
  <2> HIDE DEF n
  <2> QED BY <1>1, <1>2, <2>1, <2>2 DEF GaugeAccounted
<1>5. ASSUME NEW c \in Clients, Unreserve(c)
      PROVE  GaugeAccounted'
  <2>1. conn[c] \in pool
    BY <1>5 DEF Unreserve, LossInv, Tended
  <2>2. Cardinality(pool') = n - 1 /\ gauge' = gauge - 1
    BY <1>3, <1>5, <2>1 DEF Unreserve, Discard
  <2> HIDE DEF n
  <2> QED BY <1>1, <1>2, <2>2 DEF GaugeAccounted
<1>6. ASSUME NEW j \in jobs, Remove(j)
      PROVE  GaugeAccounted'
  <2>1. CASE j.conn \in pool
    <3>1. Cardinality(pool') = n - 1
      BY <1>3, <1>6, <2>1 DEF Remove, Discard
    <3>2. gauge' = (IF j.open THEN gauge - 1 ELSE gauge)
      BY <1>6, <2>1 DEF Remove
    <3>3. ~cutShort => j.open
      BY <2>1 DEF LossInv, Single
    <3> HIDE DEF n
    <3> QED BY <1>1, <1>2, <3>1, <3>2, <3>3 DEF GaugeAccounted
  <2>2. CASE j.conn \notin pool
    <3>1. pool' = pool /\ gauge' = gauge
      BY <1>6, <2>2 DEF Remove, Discard
    <3> QED BY <1>1, <1>2, <3>1 DEF GaugeAccounted
  <2> QED BY <2>1, <2>2
<1>7. CASE UNCHANGED <<pool, gauge>>
  BY <1>1, <1>2, <1>7 DEF GaugeAccounted
<1> QED BY <1>4, <1>5, <1>6, <1>7, PoolChanges

\* notify_one only wakes.
LEMMA WakesOnly ==
    ASSUME NEW kept \in [Clients -> {"no", "one", "all"}], NEW waiters \in SUBSET Clients,
           NotifyOneOf(waiters, kept)
    PROVE  \A d \in Clients : woken'[d] = "no" => kept[d] = "no"
<1>1. ASSUME NEW w \in waiters, woken' = [kept EXCEPT ![w] = "one"]
      PROVE  \A d \in Clients : woken'[d] = "no" => kept[d] = "no"
  BY <1>1
<1>2. CASE woken' = kept
  BY <1>2
<1> QED BY <1>1, <1>2 DEF NotifyOneOf

\* A slot comes free by a failed handshake, whose client is about to tell of it, or
\* by the end of an invalidation, which tells at once.
LEMMA RoomKept ==
    ASSUME IInv, LossInv, [Next]_vars
    PROVE  RoomKnown'
<1>types. /\ pc \in [Clients -> Awaits] /\ woken \in [Clients -> {"no", "one", "all"}]
          /\ untold \in BOOLEAN
  BY DEF IInv, TypeOK
<1> USE DEF To, lossVars, holdVars, callVars, clientVars, entryVars, taskVars, Unaware
<1>1. ASSUME Unaware' = {}
      PROVE  RoomKnown'
  BY <1>1 DEF RoomKnown
<1>2. ASSUME NEW c \in Clients, UNCHANGED <<pool, untold>>, pc[c] # "undialed",
             \A d \in Clients : d # c => pc'[d] = pc[d] /\ (woken'[d] = "no" => woken[d] = "no"),
             c \in Unaware' => c \in Unaware
      PROVE  RoomKnown'
  BY <1>2 DEF LossInv, RoomKnown, HasRoom
<1>3. ASSUME NEW c \in Clients, UNCHANGED woken, \A d \in Clients : d # c => pc'[d] = pc[d],
             pc'[c] \notin {"poll", "asleep"}, UNCHANGED <<pool, untold>>, pc[c] # "undialed"
      PROVE  RoomKnown'
  BY <1>2, <1>3
<1>4. ASSUME NEW c \in Clients, Arm(c) \/ Wake(c) \/ WaitTimesOut(c)
      PROVE  RoomKnown'
  BY <1>types, <1>2, <1>4 DEF Arm, Wake, WaitTimesOut, Leave
<1>5. ASSUME NEW c \in Clients, Poll(c)
      PROVE  RoomKnown'
  BY <1>types, <1>2, <1>5 DEF Poll
<1>6. ASSUME NEW c \in Clients, ReportUnreserved(c)
      PROVE  RoomKnown'
  <2>1. Unaware' = {}
    BY <1>types, <1>6 DEF ReportUnreserved, NotifyWaiters, Leave
  <2> QED BY <1>1, <2>1
<1>7. ASSUME NEW c \in Clients, ReportReleased(c)
      PROVE  RoomKnown'
  <2>1. \A d \in Clients : woken'[d] = "no" => woken[d] = "no"
    BY <1>types, <1>7, WakesOnly DEF ReportReleased, Waiting
  <2> QED BY <1>types, <1>2, <1>7, <2>1 DEF ReportReleased, Leave
<1>8. ASSUME NEW c \in Clients, Scan(c)
      PROVE  RoomKnown'
  <2>1. /\ UNCHANGED <<pool, untold>> /\ pc[c] = "scan" /\ pc'[c] \in {"greet", "scan"}
        /\ \A d \in Clients : d # c => pc'[d] = pc[d] /\ woken'[d] = woken[d]
    BY <1>types, <1>8 DEF Scan
  <2> QED BY <1>2, <2>1
<1>9. ASSUME NEW c \in Clients, Reserve(c)
      PROVE  RoomKnown'
  <2>1. CASE HasRoom
    <3>1. PICK e \in Conns : pool' = pool \cup {e} /\ e \notin pool
      BY <1>9, <2>1 DEF Reserve, Fresh
    <3>2. HasRoom' => HasRoom
      BY <2>1
    <3>3. /\ pc' = [pc EXCEPT ![c] = "dial"] /\ woken' = [woken EXCEPT ![c] = "no"]
          /\ pc[c] = "scan" /\ UNCHANGED untold
      BY <1>9, <2>1 DEF Reserve
    <3> QED BY <1>types, <3>2, <3>3 DEF LossInv, RoomKnown
  <2>2. CASE ~HasRoom
    BY <1>9, <2>2 DEF Reserve, RoomKnown, HasRoom
  <2> QED BY <2>1, <2>2
<1>10. ASSUME NEW c \in Clients, DialSucceeds(c) \/ DialFails(c) \/ Grant(c)
      PROVE  RoomKnown'
  BY <1>types, <1>3, <1>10 DEF DialSucceeds, DialFails, Grant
<1>11. ASSUME NEW c \in Clients, Unreserve(c)
      PROVE  RoomKnown'
  <2>1. pc'[c] = "undialed"
    BY <1>types, <1>11 DEF Unreserve
  <2> QED BY <2>1 DEF RoomKnown
<1>12. ASSUME NEW c \in Clients, GreetFails(c) \/ SendFails(c) \/ Breaks(c)
      PROVE  RoomKnown'
  BY <1>types, <1>3, <1>12 DEF GreetFails, SendFails, Breaks, Invalidate
<1>13. ASSUME NEW c \in Clients, SendText(c) \/ Flush(c)
      PROVE  RoomKnown'
  BY <1>types, <1>3, <1>13 DEF SendText, Flush, Call
<1>14. ASSUME NEW c \in Clients, SendSucceeds(c)
      PROVE  RoomKnown'
  BY <1>types, <1>3, <1>14 DEF SendSucceeds
<1>15. ASSUME NEW c \in Clients, Answered(c)
      PROVE  RoomKnown'
  BY <1>types, <1>3, <1>15 DEF Answered
<1>16. ASSUME NEW c \in Clients, Resume(c)
      PROVE  RoomKnown'
  BY <1>types, <1>3, <1>16 DEF Resume, Leave
<1>17. ASSUME NEW c \in Clients, Finish(c)
      PROVE  RoomKnown'
  BY <1>types, <1>3, <1>17 DEF Finish, Leave
<1>18. ASSUME NEW c \in Clients, Release(c)
      PROVE  RoomKnown'
  BY <1>types, <1>3, <1>18 DEF Release, Leave
<1>19. ASSUME NEW c \in Clients, Cancel(c)
      PROVE  RoomKnown'
  <2>1. /\ UNCHANGED pool /\ pc' = [pc EXCEPT ![c] = "gone"]
        /\ untold' = (untold \/ pc[c] = "undialed")
    BY <1>19 DEF Cancel, Leave
  <2>2. \A d \in Clients : d # c => (woken'[d] = "no" => woken[d] = "no")
    <3> DEFINE kept == [woken EXCEPT ![c] = "no"]
    <3>1. kept \in [Clients -> {"no", "one", "all"}] /\ \A d \in Clients : d # c => kept[d] = woken[d]
      BY <1>types
    <3>2. \/ NotifyOneOf(Waiting, kept)
          \/ woken' = kept
      BY <1>19 DEF Cancel
    <3> HIDE DEF kept
    <3> QED BY <3>1, <3>2, WakesOnly DEF Waiting
  <2>3. Unaware' \subseteq Unaware
    BY <1>types, <2>1, <2>2
  <2>4. HasRoom' = HasRoom
    BY <2>1 DEF HasRoom
  <2>5. (\E d \in Clients : pc[d] = "undialed") => untold' \/ \E d \in Clients : pc'[d] = "undialed"
    BY <1>types, <2>1
  <2> HIDE DEF Unaware
  <2> QED BY <2>1, <2>3, <2>4, <2>5 DEF LossInv, RoomKnown
<1>20. ASSUME NEW j \in jobs, Mark(j) \/ HangUp(j)
      PROVE  RoomKnown'
  BY <1>20 DEF Mark, HangUp, LossInv, RoomKnown, HasRoom
<1>21. ASSUME NEW j \in jobs, Remove(j)
      PROVE  RoomKnown'
  <2>1. Unaware' = {}
    BY <1>types, <1>21 DEF Remove, NotifyWaiters
  <2> QED BY <1>1, <2>1
<1>22. ASSUME NEW e \in Conns, NEW id \in Nat, Expire(e, id)
      PROVE  RoomKnown'
  BY <1>22 DEF Expire, LossInv, RoomKnown, HasRoom
<1>23. CASE UNCHANGED vars
  BY <1>23 DEF vars, LossInv, RoomKnown, HasRoom
<1> QED BY <1>4, <1>5, <1>6, <1>7, <1>8, <1>9, <1>10, <1>11, <1>12, <1>13, <1>14, <1>15, <1>16,
   <1>17, <1>18, <1>19, <1>20, <1>21, <1>22, <1>23, StepIs DEF IInv

\* All of it together, on top of the first invariant.
LEMMA LossInvariant == Spec => [](IInv /\ LossInv)
<1>1. Init => LossInv
  <2> SUFFICES ASSUME Init PROVE LossInv
    OBVIOUS
  <2>1. /\ pool = {} /\ gauge = 0 /\ jobs = {} /\ cutShort = FALSE
        /\ pc = [c \in Clients |-> "ready"] /\ state = [e \in Conns |-> "Closed"]
    BY DEF Init
  <2>2. GaugeAccounted
    BY <2>1, FS_EmptySet DEF GaugeAccounted
  <2>3. \A c \in Clients : Tended(c)
    BY <2>1 DEF Tended
  <2>4. \A e \in Conns : Charged(e) /\ Watched(e)
    BY <2>1 DEF Charged, Watched
  <2>5. RoomKnown
    BY <2>1 DEF RoomKnown, Unaware
  <2> QED BY <2>1, <2>2, <2>3, <2>4, <2>5 DEF LossInv
<1>2. IInv /\ LossInv /\ [Next]_vars => LossInv'
  BY AwaitedKept, TendedKept, ChargedKept, WatchedKept, SingleKept, GaugeKept, RoomKept DEF LossInv
<1> QED BY <1>1, <1>2, InductiveInvariant, PTL DEF Spec

\* Whatever is cancelled and whatever fails, an entry of the pool is idle, or
\* someone is at work on it who will free it, or its client was cancelled while it
\* had no lease to drop: no failure of the provider loses a slot (acquire,
\* invalidate, release, Drop for TtsWsLease).
THEOREM SlotsAlwaysAccounted == Spec => []SlotsAccounted
<1>1. IInv /\ LossInv => SlotsAccounted
  BY DEF IInv, TypeOK, LossInv, Charged, SlotsAccounted, InCharge
<1> QED BY <1>1, LossInvariant, PTL

\* An idle entry has a reaper for the lease that ended last, or its releaser is
\* about to schedule one, or was cancelled before it did: no reaper of an earlier
\* lease takes its place (release, schedule_reap).
THEOREM IdleAlwaysAccounted == Spec => []IdleAccounted
<1>1. LossInv => IdleAccounted
  BY DEF LossInv, Watched, IdleAccounted
<1> QED BY <1>1, LossInvariant, PTL

\* tts_ws_pool_connections never shows fewer connections than there are, and shows
\* their number until an invalidation is cut short (acquire, invalidate).
THEOREM GaugeAlwaysAccounted == Spec => []GaugeAccounted
<1>1. LossInv => GaugeAccounted
  BY DEF LossInv
<1> QED BY <1>1, LossInvariant, PTL

\* For any number of sessions and connections, no one sleeps beside a free slot: a
\* failed handshake is about to tell the waiters, or was cancelled before it did
\* (acquire, invalidate).
THEOREM RoomAlwaysTold == Spec => []RoomTold
<1>1. LossInv => RoomTold
  BY DEF LossInv, RoomKnown, Unaware, Waiting, RoomTold
<1> QED BY <1>1, LossInvariant, PTL

=============================================================================
