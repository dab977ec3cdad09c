------------------------ MODULE ReleaseFlusherProofs ------------------------
(* Proofs about ReleaseFlusher, for every set of groups and every bound:    *)
(* typing, the tickets, Flush, and the refinement of ReleaseQueue.          *)
EXTENDS ReleaseFlusher, TLAPS

USE MaxSeqAssumption, FlusherAssumption

-----------------------------------------------------------------------------
(* Typing.                                                                  *)

LEMMA TypeInit == Init => TypeOK
<1> SUFFICES ASSUME Init PROVE TypeOK
    OBVIOUS
<1>1. /\ sender \in BOOLEAN /\ wake \in BOOLEAN /\ force \in BOOLEAN
      /\ backingOff \in BOOLEAN /\ failed \in BOOLEAN
    BY Zenon DEF Init
<1>2. /\ latest \in [Groups -> 0..MaxSeq] /\ applied \in [Groups -> 0..MaxSeq]
      /\ acked \in [Groups -> 0..MaxSeq] /\ batch \in [Groups -> 0..MaxSeq]
      /\ target \in [Groups -> 0..MaxSeq] /\ runs \in 0..MaxRuns
    BY DEF Init, QueueInit, NoBatch
<1>3. /\ waiting \in [Groups -> SUBSET (1..MaxSeq)]
      /\ done \in [Groups -> SUBSET (1..MaxSeq)]
      /\ wire \subseteq Frames
    BY DEF Init
<1> QED BY <1>1, <1>2, <1>3 DEF Init, TypeOK

LEMMA TypeNext == TypeOK /\ [Next]_vars => TypeOK'
<1> SUFFICES ASSUME TypeOK, [Next]_vars PROVE TypeOK'
    OBVIOUS
<1> USE DEF TypeOK, queueVars, runVars, callVars, signal
<1>1. ASSUME NEW g \in Groups, NEW n \in 1..MaxSeq, MarkDirty(g, n)
      PROVE TypeOK'
    BY <1>1 DEF MarkDirty, Mark
<1>2. CASE SetSender \/ SetConfigProvider
    BY <1>2 DEF SetSender, SetConfigProvider
<1>3. CASE RunStart \/ RunStop \/ RunWake
    <2>1. CASE RunStart
        <3>1. runs' \in 0..MaxRuns
            BY <2>1 DEF RunStart
        <3>2. backingOff' \in BOOLEAN
            BY <2>1, Zenon DEF RunStart
        <3>3. /\ UNCHANGED <<queueVars, waiting, done, sender, wake, force,
                             batch, current, failed, wire, callVars>>
              /\ runner' = "select" /\ timer' = "now"
            BY <2>1 DEF RunStart
        <3> QED BY <3>1, <3>2, <3>3
    <2>2. CASE RunStop
        BY <2>2 DEF RunStop
    <2>3. CASE RunWake
        <3>1. timer' \in {"now", "later"} /\ wake' \in BOOLEAN
            BY <2>3, Zenon DEF RunWake
        <3>2. UNCHANGED <<queueVars, waiting, done, sender, force, runner,
                          runs, backingOff, batch, current, failed, wire,
                          callVars>>
            BY <2>3 DEF RunWake
        <3> QED BY <3>1, <3>2
    <2> QED BY <1>3, <2>1, <2>2, <2>3
<1>4. CASE RunTimer \/ RunForce
    <2>1. Snapshot \in [Groups -> 0..MaxSeq]
        BY DEF Snapshot
    <2> QED BY <1>4, <2>1 DEF RunTimer, RunForce, FlushStart
<1>5. ASSUME NEW g \in Groups, Send(g) PROVE TypeOK'
    BY <1>5 DEF Send, Frames
<1>6. ASSUME NEW g \in Groups, SendOK(g) PROVE TypeOK'
    BY <1>6 DEF SendOK, AckedUpTo, TicketsUpTo
<1>7. ASSUME NEW g \in Groups, SendFails(g) PROVE TypeOK'
    BY <1>7 DEF SendFails
<1>8. CASE FlushEnd
    BY <1>8 DEF FlushEnd
<1>9. ASSUME NEW f \in wire, HomeReceive(f) \/ Lose(f) PROVE TypeOK'
    <2>1. f.group \in Groups /\ f.seq \in 1..MaxSeq
        BY DEF Frames
    <2> QED BY <1>9, <2>1 DEF HomeReceive, Lose
<1>10. CASE FlushCall \/ FlushReturns \/ FlushTimeout
    BY <1>10 DEF FlushCall, FlushReturns, FlushTimeout
<1>11. CASE UNCHANGED vars
    BY <1>11 DEF vars
<1> QED BY <1>1, <1>2, <1>3, <1>4, <1>5, <1>6, <1>7, <1>8, <1>9, <1>10, <1>11
        DEF Next

\* Every state the flusher reaches is well typed.
THEOREM TypeCorrect == Spec => []TypeOK
BY TypeInit, TypeNext, PTL DEF Spec

-----------------------------------------------------------------------------
(* The counts. What is on its way to Home was marked, however late it       *)
(* arrives, and what is acknowledged arrived.                               *)

Marked ==
    /\ \A g \in Groups : batch[g] <= latest[g]
    /\ \A f \in wire : f.seq <= latest[f.group]

Ordered == \A g \in Groups : acked[g] <= applied[g] /\ applied[g] <= latest[g]

TargetMarked == \A g \in Groups : target[g] <= latest[g]

FlushInv == Marked /\ Ordered /\ TargetMarked /\ TicketsHonest
            /\ NoStrandedTicket /\ FlushMeansReported

\* A step of anything but MarkDirty, SendOK, HomeReceive and Flush.
LEMMA CountsKept ==
    ASSUME TypeOK, FlushInv, UNCHANGED <<queueVars, waiting, done, callVars>>,
           \A g \in Groups : batch'[g] \in {0, batch[g], latest[g]},
           \A f \in wire' : f.seq <= latest[f.group]
    PROVE  FlushInv'
BY DEF TypeOK, FlushInv, Marked, Ordered, TargetMarked, TicketsHonest,
       NoStrandedTicket, FlushMeansReported, queueVars, callVars

LEMMA FlushInvNext == TypeOK /\ FlushInv /\ [Next]_vars => FlushInv'
<1> SUFFICES ASSUME TypeOK, FlushInv, [Next]_vars PROVE FlushInv'
    OBVIOUS
<1> USE DEF TypeOK
<1>1. ASSUME NEW g \in Groups, NEW n \in 1..MaxSeq, MarkDirty(g, n)
      PROVE FlushInv'
    <2>1. CASE n <= acked[g]
        <3>1. done' = [done EXCEPT ![g] = @ \cup {n}]
              /\ UNCHANGED <<queueVars, waiting, batch, wire, callVars>>
            BY <1>1, <2>1 DEF MarkDirty, runVars
        <3>2. n <= applied[g]
            BY <2>1 DEF FlushInv, Ordered
        <3>3. TicketsHonest'
            BY <3>1, <3>2 DEF FlushInv, TicketsHonest, queueVars
        <3> QED BY <3>1, <3>3 DEF FlushInv, Marked, Ordered, TargetMarked,
                    NoStrandedTicket, FlushMeansReported, queueVars, callVars
    <2>2. CASE ~ (n <= acked[g])
        <3>1. /\ waiting' = [waiting EXCEPT ![g] = @ \cup {n}]
              /\ latest' = [latest EXCEPT ![g] = IF n > @ THEN n ELSE @]
              /\ UNCHANGED <<applied, acked, done, batch, wire, flusher, target>>
            BY <1>1, <2>2 DEF MarkDirty, Mark, runVars, callVars
        <3>2. \A h \in Groups : latest[h] <= latest'[h] /\ latest'[h] \in Nat
            BY <3>1
        <3>3. Marked'
            <4>1. \A f \in wire : f.group \in Groups /\ f.seq \in Nat
                BY DEF Frames
            <4> QED BY <3>1, <3>2, <4>1 DEF FlushInv, Marked
        <3>4. Ordered' /\ TargetMarked'
            BY <3>1, <3>2 DEF FlushInv, Ordered, TargetMarked
        <3>5. NoStrandedTicket'
            BY <2>2, <3>1 DEF FlushInv, NoStrandedTicket
        <3> QED BY <3>1, <3>3, <3>4, <3>5
                DEF FlushInv, TicketsHonest, FlushMeansReported
    <2> QED BY <2>1, <2>2
<1>2. CASE SetSender \/ SetConfigProvider \/ RunStart \/ RunStop \/ RunWake
           \/ FlushEnd
    BY <1>2, CountsKept DEF SetSender, SetConfigProvider, RunStart, RunStop,
       RunWake, FlushEnd, runVars, FlushInv, Marked
<1>3. CASE RunTimer \/ RunForce
    <2>1. \A g \in Groups : batch'[g] \in {0, batch[g], latest[g]}
        BY <1>3 DEF RunTimer, RunForce, FlushStart, Snapshot
    <2> QED BY <1>3, <2>1, CountsKept
            DEF RunTimer, RunForce, FlushStart, FlushInv, Marked
<1>4. ASSUME NEW g \in Groups, Send(g) PROVE FlushInv'
    <2>1. \A f \in wire' : f.seq <= latest[f.group]
        BY <1>4 DEF Send, FlushInv, Marked
    <2> QED BY <1>4, <2>1, CountsKept DEF Send
<1>5. ASSUME NEW g \in Groups, SendOK(g) PROVE FlushInv'
    <2> DEFINE n == batch[g]
    <2>1. /\ acked' = [acked EXCEPT ![g] = IF n > @ THEN n ELSE @]
          /\ batch' = [batch EXCEPT ![g] = 0]
          /\ n <= applied[g] /\ n \in 0..MaxSeq
          /\ UNCHANGED <<latest, applied, wire, flusher, target>>
        BY <1>5 DEF SendOK, AckedUpTo, callVars
    <2>2. Marked' /\ Ordered' /\ TargetMarked' /\ FlushMeansReported'
        BY <2>1 DEF FlushInv, Marked, Ordered, TargetMarked, FlushMeansReported
    <2>3. TicketsHonest' /\ NoStrandedTicket'
        <3>1. CASE n > acked[g]
            <4>1. /\ done' = [done EXCEPT ![g] = @ \cup {m \in waiting[g] : m <= n}]
                  /\ waiting' = [waiting EXCEPT ![g] = @ \ {m \in waiting[g] : m <= n}]
                BY <1>5, <3>1 DEF SendOK, TicketsUpTo
            <4>2. TicketsHonest'
                BY <2>1, <4>1 DEF FlushInv, TicketsHonest
            <4>3. NoStrandedTicket'
                BY <2>1, <3>1, <4>1 DEF FlushInv, NoStrandedTicket
            <4> QED BY <4>2, <4>3
        <3>2. CASE ~ (n > acked[g])
            <4>1. UNCHANGED <<done, waiting, acked>>
                BY <1>5, <2>1, <3>2 DEF SendOK
            <4> QED BY <2>1, <4>1 DEF FlushInv, TicketsHonest, NoStrandedTicket
        <3> QED BY <3>1, <3>2
    <2> QED BY <2>2, <2>3 DEF FlushInv
<1>6. ASSUME NEW g \in Groups, SendFails(g) PROVE FlushInv'
    BY <1>6, CountsKept DEF SendFails, FlushInv, Marked
<1>7. ASSUME NEW f \in wire, HomeReceive(f) PROVE FlushInv'
    <2>1. f.group \in Groups /\ f.seq \in Nat /\ f.seq <= latest[f.group]
        BY DEF Frames, FlushInv, Marked
    <2>2. /\ applied' = [applied EXCEPT ![f.group] =
                            IF f.seq > @ THEN f.seq ELSE @]
          /\ wire' \subseteq wire
          /\ UNCHANGED <<latest, acked, waiting, done, batch, flusher, target>>
        BY <1>7 DEF HomeReceive, runVars, callVars
    <2>3. \A h \in Groups : /\ applied[h] <= applied'[h] /\ applied'[h] \in Nat
                            /\ applied'[h] <= latest[h]
        BY <2>1, <2>2 DEF FlushInv, Ordered
    <2>4. Marked' /\ TargetMarked' /\ NoStrandedTicket'
        BY <2>2 DEF FlushInv, Marked, TargetMarked, NoStrandedTicket
    <2>5. Ordered' /\ TicketsHonest' /\ FlushMeansReported'
        BY <2>2, <2>3 DEF FlushInv, Ordered, TicketsHonest, FlushMeansReported
    <2> QED BY <2>4, <2>5 DEF FlushInv
<1>8. ASSUME NEW f \in wire, Lose(f) PROVE FlushInv'
    BY <1>8, CountsKept DEF Lose, runVars, FlushInv, Marked
<1>9. CASE FlushCall
    BY <1>9 DEF FlushCall, FlushInv, Marked, Ordered, TargetMarked,
       TicketsHonest, NoStrandedTicket, FlushMeansReported, queueVars, runVars
<1>10. CASE FlushReturns
    <2>1. \A g \in Groups : target[g] <= applied[g]
        BY <1>10 DEF FlushReturns, idle, Dirty, FlushInv, Ordered, TargetMarked
    <2> QED BY <1>10, <2>1 DEF FlushReturns, FlushInv, Marked, Ordered,
            TargetMarked, TicketsHonest, NoStrandedTicket, FlushMeansReported,
            queueVars, runVars
<1>11. CASE FlushTimeout
    BY <1>11 DEF FlushTimeout, FlushInv, Marked, Ordered, TargetMarked,
       TicketsHonest, NoStrandedTicket, FlushMeansReported, queueVars, runVars
<1>12. CASE UNCHANGED vars
    BY <1>12, CountsKept DEF vars, runVars, FlushInv, Marked
<1> QED BY <1>1, <1>2, <1>3, <1>4, <1>5, <1>6, <1>7, <1>8, <1>9, <1>10, <1>11,
           <1>12 DEF Next

LEMMA CountsCorrect == Spec => []FlushInv
<1>1. Init => FlushInv
    BY DEF Init, QueueInit, NoBatch, FlushInv, Marked, Ordered, TargetMarked,
       TicketsHonest, NoStrandedTicket, FlushMeansReported
<1> QED BY <1>1, TypeCorrect, FlushInvNext, PTL DEF Spec

\* A ticket is finished only when Home has a count that includes its release.
THEOREM TicketsAreHonest == Spec => []TicketsHonest
<1>1. FlushInv => TicketsHonest
    BY DEF FlushInv
<1> QED BY <1>1, CountsCorrect, PTL

\* An unfinished ticket waits for a count that is still to be acknowledged.
THEOREM NoTicketStranded == Spec => []NoStrandedTicket
<1>1. FlushInv => NoStrandedTicket
    BY DEF FlushInv
<1> QED BY <1>1, CountsCorrect, PTL

\* Flush returns nil only after Home has all that was dirty at the call.
THEOREM FlushReports == Spec => []FlushMeansReported
<1>1. FlushInv => FlushMeansReported
    BY DEF FlushInv
<1> QED BY <1>1, CountsCorrect, PTL

-----------------------------------------------------------------------------
(* No late flush. What a flush does not cover was marked after its snapshot *)
(* and left a token in the wake channel, which only the select of Run takes *)
(* out; so a flush that ends without a failure leaves nothing dirty behind, *)
(* or the token.                                                            *)

Covered ==
    runner = "flushing" => wake \/ failed \/
        \A g \in Groups : Dirty(g) => batch[g] = latest[g]

\* A step that marks nothing and keeps where Run is.
LEMMA LateKept ==
    ASSUME TypeOK, NoLateFlush, Covered,
           \A g \in Groups : Dirty(g)' => Dirty(g),
           UNCHANGED <<runner, backingOff, sender, wake, timer, batch, failed,
                       latest>>
    PROVE  NoLateFlush' /\ Covered'
<1>1. NoLateFlush'
    BY DEF NoLateFlush, idle
<1>2. Covered'
    BY DEF Covered
<1> QED BY <1>1, <1>2

LEMMA WokenIsCovered == wake' => NoLateFlush' /\ Covered'
BY DEF NoLateFlush, Covered

LEMMA LateNext ==
    TypeOK /\ NoLateFlush /\ Covered /\ [Next]_vars => NoLateFlush' /\ Covered'
<1> SUFFICES ASSUME TypeOK, NoLateFlush, Covered, [Next]_vars
             PROVE NoLateFlush' /\ Covered'
    OBVIOUS
<1>1. ASSUME NEW g \in Groups, NEW n \in 1..MaxSeq, MarkDirty(g, n)
      PROVE NoLateFlush' /\ Covered'
    BY <1>1, WokenIsCovered DEF MarkDirty, signal
<1>2. CASE SetSender \/ SetConfigProvider
    BY <1>2, WokenIsCovered DEF SetSender, SetConfigProvider, signal
<1>3. CASE RunStart
    BY <1>3 DEF RunStart, NoLateFlush, Covered
<1>4. CASE RunStop
    BY <1>4 DEF RunStop, NoLateFlush, Covered
<1>5. CASE RunWake
    BY <1>5 DEF RunWake, NoLateFlush, Covered
<1>6. CASE RunTimer \/ RunForce
    <2>1. FlushStart
        BY <1>6 DEF RunTimer, RunForce
    <2>2. CASE sender
        <3>1. runner' = "flushing" /\ batch' = Snapshot /\ UNCHANGED queueVars
            BY <2>1, <2>2 DEF FlushStart
        <3>2. \A g \in Groups : Dirty(g)' => batch'[g] = latest'[g]
            BY <3>1 DEF Snapshot, Dirty, queueVars
        <3> QED BY <3>1, <3>2 DEF NoLateFlush, Covered
    <2>3. CASE ~ sender
        <3>1. runner' = "select" /\ sender' = sender
            BY <2>1, <2>3 DEF FlushStart
        <3> QED BY <2>3, <3>1 DEF NoLateFlush, Covered
    <2> QED BY <2>2, <2>3
<1>7. ASSUME NEW g \in Groups, Send(g) PROVE NoLateFlush' /\ Covered'
    BY <1>7, LateKept DEF Send, queueVars, Dirty
<1>8. ASSUME NEW g \in Groups, SendOK(g) PROVE NoLateFlush' /\ Covered'
    <2>1. /\ acked' = [acked EXCEPT ![g] = AckedUpTo(g, batch[g])]
          /\ batch' = [batch EXCEPT ![g] = 0]
          /\ UNCHANGED <<latest, runner, backingOff, sender, wake, timer,
                         failed>>
        BY <1>8 DEF SendOK
    <2>2. \A h \in Groups : Dirty(h)' => Dirty(h)
        BY <2>1 DEF Dirty, AckedUpTo, TypeOK
    <2>3. \A h \in Groups : Dirty(h)' /\ batch[h] = latest[h]
                                => batch'[h] = latest'[h]
        BY <2>1 DEF Dirty, AckedUpTo, TypeOK
    <2>4. NoLateFlush'
        BY <2>1, <2>2 DEF NoLateFlush, idle
    <2>5. Covered'
        BY <2>1, <2>2, <2>3 DEF Covered
    <2> QED BY <2>4, <2>5
<1>9. ASSUME NEW g \in Groups, SendFails(g) PROVE NoLateFlush' /\ Covered'
    <2>1. NoLateFlush'
        BY <1>9 DEF SendFails, NoLateFlush, idle, Dirty, queueVars
    <2>2. Covered'
        BY <1>9 DEF SendFails, Covered
    <2> QED BY <2>1, <2>2
<1>10. CASE FlushEnd
    <2>1. /\ runner = "flushing" /\ runner' = "select" /\ batch = NoBatch
          /\ backingOff' = failed
          /\ UNCHANGED <<latest, acked, wake, sender>>
        BY <1>10 DEF FlushEnd, queueVars
    <2>2. wake \/ failed \/ idle
        <3>1. ASSUME NEW g \in Groups, Dirty(g) PROVE batch[g] # latest[g]
            BY <2>1, <3>1 DEF Dirty, NoBatch, TypeOK
        <3> QED BY <2>1, <3>1 DEF Covered, idle
    <2>3. idle' <=> idle
        BY <2>1 DEF idle, Dirty
    <2> QED BY <2>1, <2>2, <2>3 DEF NoLateFlush, Covered
<1>11. ASSUME NEW f \in wire, HomeReceive(f) \/ Lose(f)
       PROVE NoLateFlush' /\ Covered'
    BY <1>11, LateKept DEF HomeReceive, Lose, queueVars, runVars, Dirty
<1>12. CASE FlushCall \/ FlushReturns \/ FlushTimeout
    BY <1>12, LateKept DEF FlushCall, FlushReturns, FlushTimeout, queueVars,
       runVars, Dirty
<1>13. CASE UNCHANGED vars
    BY <1>13, LateKept DEF vars, queueVars, runVars, Dirty
<1> QED BY <1>1, <1>2, <1>3, <1>4, <1>5, <1>6, <1>7, <1>8, <1>9, <1>10, <1>11,
           <1>12, <1>13 DEF Next

\* A group marked dirty while Run waits and is not backing off is flushed
\* without sitting out the interval.
THEOREM NeverLate == Spec => []NoLateFlush
<1>1. Init => NoLateFlush /\ Covered
    BY DEF Init, NoLateFlush, Covered
<1> QED BY <1>1, TypeCorrect, LateNext, PTL DEF Spec

-----------------------------------------------------------------------------
(* Refinement.                                                              *)

LEMMA QueueStep ==
    TypeOK /\ FlushInv /\ [Next]_vars => [QueueNext]_queueVars
<1> SUFFICES ASSUME TypeOK, FlushInv, [Next]_vars PROVE [QueueNext]_queueVars
    OBVIOUS
<1>1. ASSUME NEW g \in Groups, NEW n \in 1..MaxSeq, MarkDirty(g, n)
      PROVE [QueueNext]_queueVars
    BY <1>1 DEF MarkDirty, QueueNext
<1>2. ASSUME NEW g \in Groups, SendOK(g) PROVE [QueueNext]_queueVars
    <2>1. CASE batch[g] > acked[g]
        <3>1. batch[g] \in 1..MaxSeq
            BY <2>1 DEF TypeOK
        <3>2. Ack(g, batch[g])
            BY <1>2, <2>1, <3>1 DEF SendOK, AckedUpTo, Ack, TypeOK
        <3> QED BY <3>1, <3>2 DEF QueueNext
    <2>2. CASE ~ (batch[g] > acked[g])
        BY <1>2, <2>2 DEF SendOK, AckedUpTo, TypeOK, queueVars
    <2> QED BY <2>1, <2>2
<1>3. ASSUME NEW f \in wire, HomeReceive(f) PROVE [QueueNext]_queueVars
    <2>1. /\ f.group \in Groups /\ f.seq \in 1..MaxSeq
          /\ f.seq <= latest[f.group]
        BY DEF TypeOK, Frames, FlushInv, Marked
    <2>2. CASE f.seq > applied[f.group]
        <3>1. Apply(f.group, f.seq)
            BY <1>3, <2>1, <2>2 DEF HomeReceive, Apply, TypeOK
        <3> QED BY <2>1, <3>1 DEF QueueNext
    <2>3. CASE ~ (f.seq > applied[f.group])
        BY <1>3, <2>1, <2>3 DEF HomeReceive, TypeOK, queueVars
    <2> QED BY <2>2, <2>3
<1>4. CASE UNCHANGED queueVars
    BY <1>4
<1> QED
    BY <1>1, <1>2, <1>3, <1>4
    DEF Next, vars, SetSender, SetConfigProvider, RunStart, RunStop, RunWake,
        RunTimer, RunForce, FlushStart, Send, SendFails, FlushEnd, Lose,
        FlushCall, FlushReturns, FlushTimeout

\* The flusher implements the promise of ReleaseQueue: counts are carried in
\* order from the registry to Home and back, and none is invented.
THEOREM Refinement == Spec => ImplementsReleaseQueue
<1>1. Init => QueueInit
    BY DEF Init
<1> QED BY <1>1, TypeCorrect, CountsCorrect, QueueStep, PTL
        DEF Spec, ImplementsReleaseQueue, QueueSpec
=============================================================================
