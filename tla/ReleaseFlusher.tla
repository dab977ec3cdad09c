--------------------------- MODULE ReleaseFlusher ---------------------------
(***************************************************************************)
(* The release flusher (internal/home/concurrency_release.go): MarkDirty   *)
(* collects cumulative counts, one Run goroutine sends the dirty groups to *)
(* Home, and Flush waits until nothing is dirty.                           *)
(*                                                                         *)
(* One action is one section of releaseFlusher.mu or one channel           *)
(* operation. MarkDirty and SetSender are merged with the non-blocking     *)
(* signal that ends them: a signal that comes later only adds a wake-up,   *)
(* which SetConfigProvider produces anyway. Delays are kept as far as they *)
(* matter without a clock: a timer set to 0, or to the interval or the     *)
(* backoff. Home and the connection to it are external.                    *)
(***************************************************************************)
EXTENDS ReleaseQueue

CONSTANTS
    MaxRuns,    \* bound on the Run calls, one per Home lifetime
    NoGroup     \* no group is being sent

ASSUME FlusherAssumption == MaxRuns \in Nat /\ NoGroup \notin Groups

VARIABLES
    waiting,    \* sequences with unfinished tickets (releaseState.waiters)
    done,       \* sequences whose tickets are finished
    sender,     \* whether releaseFlusher.send is set
    wake,       \* the wake channel holds a token
    force,      \* the force channel holds a context
    runner,     \* where Run is
    runs,       \* Run calls so far
    timer,      \* Run's timer: "now" or "later"
    backingOff, \* Run's backingOff
    batch,      \* flush: the counts still to send, 0 for none
    current,    \* flush: the group being sent
    failed,     \* flush: whether a send failed
    wire,       \* external: frames on their way to Home
    flusher,    \* where the Flush call is
    target      \* history: latest when Flush was called

runVars  == <<runner, runs, timer, backingOff, batch, current, failed>>
callVars == <<flusher, target>>
vars     == <<queueVars, waiting, done, sender, wake, force, runVars, wire,
              callVars>>

NoBatch == [g \in Groups |-> 0]

Init ==
    /\ QueueInit
    /\ waiting = [g \in Groups |-> {}]
    /\ done = [g \in Groups |-> {}]
    /\ sender = FALSE /\ wake = FALSE /\ force = FALSE
    /\ runner = "stopped" /\ runs = 0
    /\ timer = "later" /\ backingOff = FALSE
    /\ batch = NoBatch /\ current = NoGroup /\ failed = FALSE
    /\ wire = {}
    /\ flusher = "idle" /\ target = NoBatch

-----------------------------------------------------------------------------
(* Calls from the registry and the subscriber.                             *)

\* fault: nobody is told
signalNobody == UNCHANGED wake

\* The token of the wake channel, which holds one.
signal == wake' = TRUE

\* A ticket for a count Home already has is finished at once.
MarkDirty(g, n) ==
    /\ IF n <= acked[g]
       THEN /\ done' = [done EXCEPT ![g] = @ \cup {n}]
            /\ UNCHANGED <<queueVars, waiting>>
       ELSE /\ waiting' = [waiting EXCEPT ![g] = @ \cup {n}]
            /\ Mark(g, n)
            /\ UNCHANGED done
    /\ signal
    /\ UNCHANGED <<sender, force, runVars, wire, callVars>>

SetSender ==
    /\ sender' = TRUE
    /\ signal
    /\ UNCHANGED <<queueVars, waiting, done, force, runVars, wire, callVars>>

SetConfigProvider ==
    /\ signal
    /\ UNCHANGED <<queueVars, waiting, done, sender, force, runVars, wire,
                   callVars>>

-----------------------------------------------------------------------------
(* Run.                                                                    *)

\* time.NewTimer(0): the first flush of a Run call is due at once.
RunStart ==
    /\ runner = "stopped" /\ runs < MaxRuns
    /\ runner' = "select" /\ runs' = runs + 1
    /\ timer' = "now" /\ backingOff' = FALSE
    /\ UNCHANGED <<queueVars, waiting, done, sender, wake, force, batch,
                   current, failed, wire, callVars>>

\* ctx.Done wins the select. A flush under way sees its sends fail first.
RunStop ==
    /\ runner = "select"
    /\ runner' = "stopped"
    /\ UNCHANGED <<queueVars, waiting, done, sender, wake, force, runs, timer,
                   backingOff, batch, current, failed, wire, callVars>>

RunWake ==
    /\ runner = "select" /\ wake
    /\ wake' = FALSE
    /\ timer' = IF backingOff THEN timer ELSE "now"
    /\ UNCHANGED <<queueVars, waiting, done, sender, force, runner, runs,
                   backingOff, batch, current, failed, wire, callVars>>

Dirty(g) == latest[g] > acked[g]

\* fault: the snapshot copies what Home already has
AckedSnapshot == [g \in Groups |-> acked[g]]

Snapshot == [g \in Groups |-> IF Dirty(g) THEN latest[g] ELSE 0]

\* flush, first section: the timer fires or a forced flush was asked for.
\* Without a sender flush returns at once and counts as a success.
FlushStart ==
    /\ runner = "select"
    /\ IF sender
       THEN /\ runner' = "flushing"
            /\ batch' = Snapshot
            /\ failed' = FALSE
            /\ UNCHANGED <<timer, backingOff>>
       ELSE /\ timer' = "later" /\ backingOff' = FALSE
            /\ UNCHANGED <<runner, batch, failed>>
    /\ UNCHANGED <<queueVars, waiting, done, sender, wake, runs, current,
                   wire, callVars>>

RunTimer == FlushStart /\ UNCHANGED force

RunForce == force /\ force' = FALSE /\ FlushStart

Send(g) ==
    /\ runner = "flushing" /\ current = NoGroup
    /\ batch[g] > 0
    /\ current' = g
    /\ wire' = wire \cup {[group |-> g, seq |-> batch[g]]}
    /\ UNCHANGED <<queueVars, waiting, done, sender, wake, force, runner, runs,
                   timer, backingOff, batch, failed, callVars>>

\* fault: every ticket of the group is finished
AllTickets(g, n) == waiting[g]

\* fault: off by one
TicketsBelow(g, n) == {m \in waiting[g] : m < n}

TicketsUpTo(g, n) == {m \in waiting[g] : m <= n}

\* fault: the count marked meanwhile is taken for acknowledged
AckLatest(g, n) == latest[g]

AckedUpTo(g, n) == IF n > acked[g] THEN n ELSE acked[g]

\* send returned nil, so Home has the frame: acknowledge, finish tickets.
SendOK(g) ==
    LET n == batch[g]
    IN  /\ current = g
        /\ applied[g] >= n
        /\ current' = NoGroup
        /\ batch' = [batch EXCEPT ![g] = 0]
        /\ acked' = [acked EXCEPT ![g] = AckedUpTo(g, n)]
        /\ IF n > acked[g]
           THEN /\ done' = [done EXCEPT ![g] = @ \cup TicketsUpTo(g, n)]
                /\ waiting' = [waiting EXCEPT ![g] = @ \ TicketsUpTo(g, n)]
           ELSE UNCHANGED <<done, waiting>>
        /\ UNCHANGED <<latest, applied, sender, wake, force, runner, runs,
                       timer, backingOff, failed, wire, callVars>>

\* send returned an error: the frame may be lost, or only its answer.
SendFails(g) ==
    /\ current = g
    /\ current' = NoGroup
    /\ batch' = [batch EXCEPT ![g] = 0]
    /\ failed' = TRUE
    /\ UNCHANGED <<queueVars, waiting, done, sender, wake, force, runner, runs,
                   timer, backingOff, wire, callVars>>

\* The loop of flush is over: nextDelay sets the interval or the backoff.
FlushEnd ==
    /\ runner = "flushing" /\ current = NoGroup
    /\ batch = NoBatch
    /\ runner' = "select"
    /\ timer' = "later" /\ backingOff' = failed
    /\ UNCHANGED <<queueVars, waiting, done, sender, wake, force, runs, batch,
                   current, failed, wire, callVars>>

-----------------------------------------------------------------------------
(* External: the connection and Home, which keeps the highest count of a   *)
(* group. A frame may arrive long after its send failed, or be lost.       *)

HomeReceive(f) ==
    /\ f \in wire
    /\ wire' = wire \ {f}
    /\ applied' = [applied EXCEPT ![f.group] = IF f.seq > @ THEN f.seq ELSE @]
    /\ UNCHANGED <<latest, acked, waiting, done, sender, wake, force, runVars,
                   callVars>>

Lose(f) ==
    /\ f \in wire
    /\ wire' = wire \ {f}
    /\ UNCHANGED <<queueVars, waiting, done, sender, wake, force, runVars,
                   callVars>>

-----------------------------------------------------------------------------
(* Flush.                                                                  *)

FlushCall ==
    /\ flusher = "idle"
    /\ flusher' = "polling"
    /\ target' = latest
    /\ force' = TRUE
    /\ UNCHANGED <<queueVars, waiting, done, sender, wake, runVars, wire>>

\* fault: idle asks whether everything has been sent, not acknowledged
NothingToSend == batch = NoBatch

idle == \A g \in Groups : ~ Dirty(g)

FlushReturns ==
    /\ flusher = "polling" /\ idle
    /\ flusher' = "done"
    /\ UNCHANGED <<queueVars, waiting, done, sender, wake, force, runVars,
                   wire, target>>

FlushTimeout ==
    /\ flusher = "polling"
    /\ flusher' = "timeout"
    /\ UNCHANGED <<queueVars, waiting, done, sender, wake, force, runVars,
                   wire, target>>

-----------------------------------------------------------------------------
Next ==
    \/ \E g \in Groups, n \in 1..MaxSeq : MarkDirty(g, n)
    \/ SetSender \/ SetConfigProvider
    \/ RunStart \/ RunStop \/ RunWake \/ RunTimer \/ RunForce
    \/ \E g \in Groups : Send(g) \/ SendOK(g) \/ SendFails(g)
    \/ FlushEnd
    \/ \E f \in wire : HomeReceive(f) \/ Lose(f)
    \/ FlushCall \/ FlushReturns \/ FlushTimeout

Spec == Init /\ [][Next]_vars

(* Fairness: Run is restarted by the subscriber with a sender set, its     *)
(* goroutine is scheduled and its timer fires; a frame sent again and      *)
(* again is received and confirmed at last.                                *)
Fairness ==
    /\ WF_vars(RunStart) /\ WF_vars(SetSender)
    /\ WF_vars(RunTimer) /\ WF_vars(FlushEnd)
    /\ \A g \in Groups :
        /\ WF_vars(Send(g)) /\ WF_vars(SendFails(g)) /\ SF_vars(SendOK(g))
        /\ \A n \in 1..MaxSeq : SF_vars(HomeReceive([group |-> g, seq |-> n]))

FairSpec == Spec /\ Fairness

-----------------------------------------------------------------------------
(* Properties.                                                             *)

Frames == [group : Groups, seq : 1..MaxSeq]

\* Every variable has the type of the field, channel or local it models.
TypeOK ==
    /\ latest \in [Groups -> 0..MaxSeq]
    /\ applied \in [Groups -> 0..MaxSeq]
    /\ acked \in [Groups -> 0..MaxSeq]
    /\ waiting \in [Groups -> SUBSET (1..MaxSeq)]
    /\ done \in [Groups -> SUBSET (1..MaxSeq)]
    /\ sender \in BOOLEAN /\ wake \in BOOLEAN /\ force \in BOOLEAN
    /\ runner \in {"stopped", "select", "flushing"}
    /\ runs \in 0..MaxRuns
    /\ timer \in {"now", "later"} /\ backingOff \in BOOLEAN
    /\ batch \in [Groups -> 0..MaxSeq]
    /\ current \in Groups \cup {NoGroup}
    /\ failed \in BOOLEAN
    /\ wire \subseteq Frames
    /\ flusher \in {"idle", "polling", "done", "timeout"}
    /\ target \in [Groups -> 0..MaxSeq]

\* A ticket that MarkDirty returned is finished only when Home has a count
\* that includes its release, although sends fail after Home took the frame
\* and old frames arrive late.
TicketsHonest == \A g \in Groups : \A n \in done[g] : n <= applied[g]

\* No ticket is forgotten: one that is not finished asks for a count that is
\* still to be sent, so the flush that sends it will finish it.
NoStrandedTicket ==
    \A g \in Groups : \A n \in waiting[g] : acked[g] < n /\ n <= latest[g]

\* A group marked dirty while Run waits and is not backing off does not sit
\* out the flush interval: the wake-up is still in the channel, or the timer
\* is due. This is what keeps a freed slot from being reported late.
NoLateFlush ==
    runner = "select" /\ ~ backingOff /\ sender /\ ~ idle =>
        wake \/ timer = "now"

\* Flush returns nil only when Home has every release that was dirty when it
\* was called.
FlushMeansReported ==
    flusher = "done" => \A g \in Groups : target[g] <= applied[g]

\* The flusher carries the counts as ReleaseQueue promises.
ImplementsReleaseQueue == QueueSpec

\* Every ticket is finished in the end, if Home can be reached often enough,
\* unless the last Run call is told to stop before that.
TicketsFinish ==
    \A g \in Groups, n \in 1..MaxSeq :
        n \in waiting[g] ~>
            n \in done[g] \/ (runner = "stopped" /\ runs = MaxRuns)
=============================================================================
