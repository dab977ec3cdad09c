-------------------------- MODULE FlowTimerProofs --------------------------
(***************************************************************************)
(* The timer of FlowControl comes in time, except after one step: nobody   *)
(* waits for capacity that is there as long as no cancelled waiter leaves  *)
(* the queue with expired events in the history. The argument is about     *)
(* scheduleLocked: until the timer is due no event of the history expires  *)
(* and every waiter is refused, whatever time it is.                       *)
(***************************************************************************)
EXTENDS FlowControlProofs

Refused(w, t) == checkWorkLocked(w, t).verdict # "grant"

\* Nothing can change by itself up to time t: no event expires and no waiter
\* finds room.
Quiet(t) ==
    /\ \A e \in hist : e.at > t - ret[e.bucket]
    /\ \A w \in queue : Refused(w, t)

\* The history has been cleaned up.
Fresh == \A e \in hist : e.at > now - ret[e.bucket]

\* A waiter that was tried is refused until its next check, and for good if it
\* has none: only a step of somebody else can make room for it.
RefusedUntilCheck(w) ==
    \A t \in Nat :
        now <= t /\ (waiter[w].nextCheck <= now \/ t < waiter[w].nextCheck)
            => Refused(w, t)

\* The request of a waiter has not ended.
QueueOpen == \A w \in queue : OpOf[w] \in Ops => ~ opClosed[OpOf[w]]

\* A request's event outlives its record only when the request has ended.
RequestEvents ==
    \A e \in hist : e.rec \in Ops => e.rec \in active \/ opClosed[e.rec]

\* While the mutex is held: what dispatchLocked has left behind, and the timer
\* that a refused Acquire does not set again.
HeldInv ==
    /\ lk.kind # "unlocked" =>
        Fresh /\ \A w \in queue \ lk.todo : RefusedUntilCheck(w)
    /\ lk.kind = "acquire" /\ queue # {} =>
        timer # 0 /\ (timer <= now + 1 \/ Quiet(timer - 1))

\* While it is free: the timer runs, and is due in time.
FreeInv ==
    lk = Unlocked /\ ~ closed /\ cfg.enabled /\ queue # {} =>
        /\ timer # 0 /\ (dispatchPending => timer <= now + 1)
        /\ timer <= now \/ dispatchPending \/ Quiet(timer - 1)

\* The inductive invariant, with FlowInv.
TimerInv == QueueOpen /\ RequestEvents /\ HeldInv /\ FreeInv

\* A waiter that gives up finds the history clean. (CancelWait does not clean it
\* up, as every other way into dispatchLocked does.)
LeavesClean == [][\A c \in Calls : CancelWait(c) => Fresh]_vars
-----------------------------------------------------------------------------
(* What checkLocked and scheduleLocked compute.                            *)

\* A window that is exhausted stays so until the time checkLocked computes, which
\* is still to come.
LEMMA FreeAtMeans ==
    ASSUME RecInv, NEW b, NEW w, NEW t \in Nat,
           w.requests \in Nat \ {0}, w.period \in Nat,
           Cardinality(Recent(b, t, w.period)) >= w.requests
    PROVE  /\ FreeAt(b, w, t) \in Nat /\ t < FreeAt(b, w, t)
           /\ \A u \in Nat : u < FreeAt(b, w, t) =>
                Cardinality(Recent(b, u, w.period)) >= w.requests
<1> DEFINE R == Recent(b, t, w.period)
<1>1. FreeAt(b, w, t) \in Nat
    BY FreeAtType
<1>2. PICK d \in R : /\ FreeAt(b, w, t) = w.period + d.at
                     /\ Cardinality({x \in R : x.at >= d.at}) >= w.requests
    BY FreeAtType
<1>3. \A e \in R : e \in hist /\ e.bucket = b /\ e.at > t - w.period
    BY DEF Recent
<1>4. \A e \in hist : e.at \in Nat
    BY DEF RecInv, HistoryEvents
<1>5. t < FreeAt(b, w, t)
    BY <1>2, <1>3, <1>4
<1>6. ASSUME NEW u \in Nat, u < FreeAt(b, w, t)
      PROVE  Cardinality(Recent(b, u, w.period)) >= w.requests
  <2> DEFINE L == {x \in R : x.at >= d.at}
             U == Recent(b, u, w.period)
  <2>1. L \subseteq U
    <3>1. ASSUME NEW x \in L PROVE x \in U
      <4>1. x \in hist /\ x.bucket = b /\ x.at >= d.at /\ x.at \in Nat /\ d.at \in Nat
        BY <1>2, <1>3, <1>4
      <4>2. x.at > u - w.period
        BY <1>2, <1>6, <4>1
      <4> QED BY <4>1, <4>2 DEF Recent
    <3> QED BY <3>1
  <2>2. U \subseteq hist
    BY DEF Recent
  <2>3. Cardinality(L) >= w.requests
    BY <1>2
  <2> HIDE DEF L, U
  <2>4. IsFiniteSet(U) /\ IsFiniteSet(L) /\ Cardinality(L) <= Cardinality(U)
    BY <2>1, <2>2, FS_Subset DEF RecInv
  <2>5. Cardinality(L) \in Nat /\ Cardinality(U) \in Nat
    BY <2>4, FS_CardinalityType
  <2>6. Cardinality(U) >= w.requests
    BY <2>3, <2>4, <2>5
  <2> QED BY <2>6 DEF U
<1> QED BY <1>1, <1>5, <1>6

\* An exhausted window and a record it refuses.
LEMMA ExhaustedMeans ==
    ASSUME RecInv, NEW r \in Recs, NEW t, NEW x \in Exhausted(r, t)
    PROVE  /\ x[1] \in Members(cfg, r) /\ x[2] \in cfg.windows[x[1]]
           /\ x[2].requests \in Nat \ {0} /\ x[2].period \in Nat
           /\ Cardinality(Recent(x[1], t, x[2].period)) >= x[2].requests
           /\ \A u : Cardinality(Recent(x[1], u, x[2].period)) >= x[2].requests
                        => x \in Exhausted(r, u)
<1>1. PICK b \in Members(cfg, r) : x \in {b} \X cfg.windows[b]
    BY DEF Exhausted
<1>2. x[1] = b /\ x[2] \in cfg.windows[b] /\ b \in Buckets
    BY <1>1, PolicyFacts DEF RecInv
<1>3. x[2].requests \in Nat \ {0} /\ x[2].period \in Nat
    BY <1>2, PolicyFacts DEF RecInv
<1>4. Cardinality(Recent(x[1], t, x[2].period)) >= x[2].requests
    BY DEF Exhausted
<1>5. \A u : Cardinality(Recent(x[1], u, x[2].period)) >= x[2].requests
                => x \in Exhausted(r, u)
    BY <1>1 DEF Exhausted
<1> QED BY <1>1, <1>2, <1>3, <1>4, <1>5

\* A record that a window refuses is refused until its next check.
LEMMA NextCheckMeans ==
    ASSUME RecInv, NEW r \in Recs, NEW t \in Nat, Exhausted(r, t) # {}
    PROVE  /\ t < NextCheck(r, t)
           /\ \A u \in Nat : u < NextCheck(r, t) => Exhausted(r, u) # {}
<1>1. ASSUME NEW x \in Exhausted(r, t)
      PROVE  /\ FreeAt(x[1], x[2], t) \in Nat /\ t < FreeAt(x[1], x[2], t)
             /\ \A u \in Nat : u < FreeAt(x[1], x[2], t) => x \in Exhausted(r, u)
    BY ExhaustedMeans, FreeAtMeans
<1>2. PICK x \in Exhausted(r, t) : TRUE
    OBVIOUS
<1>3. NextCheck(r, t) \in Nat /\ FreeAt(x[1], x[2], t) <= NextCheck(r, t)
    BY NextCheckType
<1>4. t < NextCheck(r, t)
    BY <1>1, <1>3
<1>5. PICK y \in Exhausted(r, t) : NextCheck(r, t) = FreeAt(y[1], y[2], t)
  <2>1. NextCheck(r, t) \in {0} \cup {FreeAt(z[1], z[2], t) : z \in Exhausted(r, t)}
    BY NextCheckType
  <2>2. NextCheck(r, t) # 0
    BY <1>3, <1>4
  <2> QED BY <2>1, <2>2
<1>6. \A u \in Nat : u < NextCheck(r, t) => y \in Exhausted(r, u)
    BY <1>1, <1>5
<1> QED BY <1>4, <1>6

\* As time passes the windows only get room.
LEMMA BlockedBefore ==
    ASSUME RecInv, NEW r \in Recs, NEW t \in Nat, NEW u \in Nat, t <= u, Blocked(r, u)
    PROVE  Blocked(r, t)
<1>1. CASE Exhausted(r, u) # {}
  <2>1. PICK x : x \in Exhausted(r, u)
    BY <1>1
  <2> DEFINE U == Recent(x[1], u, x[2].period)
             T == Recent(x[1], t, x[2].period)
  <2>2. /\ x[2].requests \in Nat /\ x[2].period \in Nat
        /\ Cardinality(U) >= x[2].requests
        /\ Cardinality(T) >= x[2].requests => x \in Exhausted(r, t)
    BY <2>1, ExhaustedMeans
  <2>3. U \subseteq T
    <3>1. ASSUME NEW e \in U PROVE e \in T
      <4>1. e \in hist /\ e.at \in Nat /\ e.bucket = x[1] /\ e.at > u - x[2].period
        BY DEF Recent, RecInv, HistoryEvents
      <4>2. e.at > t - x[2].period
        BY <2>2, <4>1
      <4> QED BY <4>1, <4>2 DEF Recent
    <3> QED BY <3>1
  <2>4. T \subseteq hist
    BY DEF Recent
  <2> HIDE DEF U, T
  <2>5. IsFiniteSet(T) /\ IsFiniteSet(U) /\ Cardinality(U) <= Cardinality(T)
    BY <2>3, <2>4, FS_Subset DEF RecInv
  <2>6. Cardinality(T) \in Nat /\ Cardinality(U) \in Nat
    BY <2>5, FS_CardinalityType
  <2> QED BY <2>2, <2>5, <2>6 DEF Blocked
<1>2. CASE AtLimit(r)
  BY <1>2 DEF Blocked
<1> QED BY <1>1, <1>2 DEF Blocked

LEMMA RefusedBefore ==
    ASSUME RecInv, NEW w \in Calls, NEW t \in Nat, NEW u \in Nat, t <= u, Refused(w, u)
    PROVE  Refused(w, t)
<1>1. \A r \in Recs : Blocked(r, u) => Blocked(r, t)
    BY BlockedBefore
<1>2. Needed(w) \subseteq Recs
    BY NeededFacts
<1>3. \/ OpOf[w] \in Ops /\ opClosed[OpOf[w]]
      \/ \E r \in Needed(w) : Blocked(r, u)
      \/ NoRoom(Needed(w))
    BY GrantMeans DEF Refused
<1> QED BY <1>1, <1>2, <1>3, GrantMeans DEF Refused

\* A refused call is refused until the next check it is given, and for good if
\* it is given none.
LEMMA CheckMeans ==
    ASSUME RecInv, NEW w \in Calls, NEW t \in Nat, NEW u \in Nat, t <= u, Refused(w, t),
           \/ checkWorkLocked(w, t).next <= t
           \/ u < checkWorkLocked(w, t).next
    PROVE  Refused(w, u)
<1> DEFINE o == OpOf[w]
           r == IF RequestRefuses(w, t) THEN o ELSE w
<1>1. CASE o \in Ops /\ opClosed[o]
    BY <1>1, GrantMeans DEF Refused
<1>2. CASE ~ (o \in Ops /\ opClosed[o]) /\ Blocked(r, t)
  <2>1. checkWorkLocked(w, t).next = NextCheck(r, t)
    <3>1. checkWorkLocked(w, t) = [verdict |-> "blocked", next |-> NextCheck(r, t)]
      BY <1>2 DEF checkWorkLocked
    <3> QED BY <3>1
  <2>2. r \in Needed(w) /\ r \in Recs
    BY NeededFacts DEF RequestRefuses
  <2> HIDE DEF r
  <2>3. Blocked(r, u)
    <3>1. CASE AtLimit(r)
      BY <3>1 DEF Blocked
    <3>2. CASE ~ AtLimit(r)
      <4>1. Exhausted(r, t) # {}
        BY <1>2, <3>2 DEF Blocked
      <4>2. t < NextCheck(r, t) /\ NextCheck(r, t) \in Nat
            /\ (u < NextCheck(r, t) => Exhausted(r, u) # {})
        BY <2>2, <4>1, NextCheckMeans, NextCheckType
      <4>3. u < NextCheck(r, t)
        BY <2>1, <4>2
      <4> QED BY <4>2, <4>3 DEF Blocked
    <3> QED BY <3>1, <3>2
  <2> QED BY <2>2, <2>3, GrantMeans DEF Refused
<1>3. CASE NoRoom(Needed(w))
    BY <1>3, GrantMeans DEF Refused
<1>4. \/ o \in Ops /\ opClosed[o]
      \/ Blocked(r, t)
      \/ NoRoom(Needed(w))
    BY DEF Refused, checkWorkLocked
<1> QED BY <1>1, <1>2, <1>3, <1>4

\* The timer that scheduleLocked sets is due before an event of a clean history
\* expires, and before a waiter is to be checked again.
LEMMA DueBounds ==
    ASSUME RecInv, NEW q \in SUBSET Calls, NEW wt \in [Calls -> Waiters],
           NEW h \in SUBSET HistoryEvents, NEW rt \in [Buckets -> Nat],
           NEW pending \in BOOLEAN, NEW t \in Nat,
           cfg.enabled, ~ closed, q # {}, \A e \in h : e.at > t - rt[e.bucket]
    PROVE  LET T == DueAt(q, wt, h, rt, pending, t)
           IN  /\ T \in Nat /\ t < T
               /\ \A e \in h : e.at > (T - 1) - rt[e.bucket]
               /\ \A w \in q : wt[w].nextCheck <= t \/ T - 1 < wt[w].nextCheck
<1> DEFINE T == DueAt(q, wt, h, rt, pending, t)
<1>1. /\ T \in Nat /\ t < T
      /\ \A x \in Expiries(h, rt, t) : T <= x
      /\ \A w \in q : t < wt[w].nextCheck => T <= wt[w].nextCheck
    BY DueType
<1> HIDE DEF T
<1>2. ASSUME NEW e \in h PROVE e.at > (T - 1) - rt[e.bucket]
  <2> DEFINE b == e.bucket
             A == {d.at : d \in {x \in h : x.bucket = b}}
  <2>1. b \in Buckets /\ e.at \in Nat /\ rt[b] \in Nat
    BY DEF HistoryEvents
  <2>2. A \subseteq Nat /\ e.at \in A
    BY DEF HistoryEvents
  <2>3. Min(A) \in A /\ Min(A) <= e.at
    <3> HIDE DEF A
    <3> QED BY <2>2, NatMin
  <2>4. Min(A) \in Nat /\ Min(A) > t - rt[b]
    BY <2>2, <2>3
  <2>5. Min(A) + rt[b] \notin 0..t
    <3> HIDE DEF A
    <3> QED BY <2>1, <2>4
  <2>6. HasEvent(h, b)
    BY DEF HasEvent
  <2>7. Min(A) + rt[b] \in Expiries(h, rt, t)
    BY <2>1, <2>5, <2>6 DEF Expiries
  <2> HIDE DEF A
  <2>8. T <= Min(A) + rt[b]
    BY <1>1, <2>7
  <2> QED BY <1>1, <2>1, <2>3, <2>4, <2>8
<1>3. ASSUME NEW w \in q PROVE wt[w].nextCheck <= t \/ T - 1 < wt[w].nextCheck
  <2>1. wt[w].nextCheck \in Nat
    BY DEF Waiters
  <2> QED BY <1>1, <2>1
<1> QED BY <1>1, <1>2, <1>3 DEF T
-----------------------------------------------------------------------------
(* What steps leave as it was.                                             *)

\* A refusal depends on the policy, the records and the history only.
LEMMA RefusedSame ==
    ASSUME RecInv, RecInv', NEW v \in Calls, NEW t \in Nat, Refused(v, t),
           UNCHANGED <<cfg, opClosed, active, conc, hist>>
    PROVE  Refused(v, t)'
<1>1. Needed(v)' = Needed(v)
    BY DEF Needed
<1>2. \A b \in Buckets : conc[b] <= conc'[b]
    BY DEF RecInv
<1>3. checkWorkLocked(v, t)'.verdict # "grant"
    BY <1>1, <1>2, CapacityOnlyTaken DEF Refused
<1> QED BY <1>3 DEF Refused

LEMMA UntilSame ==
    ASSUME RecInv, RecInv', NEW v \in Calls, RefusedUntilCheck(v), now' = now,
           waiter'[v].nextCheck = waiter[v].nextCheck,
           UNCHANGED <<cfg, opClosed, active, conc, hist>>
    PROVE  RefusedUntilCheck(v)'
<1>1. ASSUME NEW t \in Nat, now' <= t,
             waiter'[v].nextCheck <= now' \/ t < waiter'[v].nextCheck
      PROVE  Refused(v, t)'
  <2>1. Refused(v, t)
    BY <1>1 DEF RefusedUntilCheck
  <2> QED BY <2>1, RefusedSame
<1> QED BY <1>1 DEF RefusedUntilCheck

\* A quiet time stays quiet while nothing is admitted or given back: retentions
\* may grow and waiters may leave.
LEMMA QuietSame ==
    ASSUME FlowInv, FlowInv', NEW t \in Nat, Quiet(t), queue' \subseteq queue,
           UNCHANGED <<cfg, opClosed, active, conc, hist>>,
           \A e \in hist : ret[e.bucket] <= ret'[e.bucket]
    PROVE  Quiet(t)'
<1>1. ASSUME NEW e \in hist' PROVE e.at > t - ret'[e.bucket]
  <2>1. e \in hist /\ e.bucket \in Buckets /\ e.at \in Nat
    BY DEF FlowInv, RecInv, HistoryEvents
  <2>2. ret[e.bucket] \in Nat /\ ret'[e.bucket] \in Nat /\ e.at > t - ret[e.bucket]
        /\ ret[e.bucket] <= ret'[e.bucket]
    BY <2>1 DEF FlowInv, RetType, Quiet
  <2> QED BY <2>1, <2>2
<1>2. ASSUME NEW w \in queue' PROVE Refused(w, t)'
  <2>1. w \in Calls /\ Refused(w, t)
    BY DEF FlowInv, WaitType, Quiet
  <2> QED BY <2>1, RefusedSame DEF FlowInv
<1> QED BY <1>1, <1>2 DEF Quiet

\* A clean history stays clean while retentions only grow.
LEMMA FreshSame ==
    ASSUME FlowInv, FlowInv', now' = now, hist' \subseteq hist,
           \A e \in hist' : e.at > now - ret[e.bucket] /\ ret[e.bucket] <= ret'[e.bucket]
    PROVE  Fresh'
<1>1. ASSUME NEW e \in hist' PROVE e.at > now' - ret'[e.bucket]
  <2>1. e.bucket \in Buckets /\ e.at \in Nat /\ now \in Nat
    BY DEF FlowInv, RecInv, HistoryEvents
  <2>2. ret[e.bucket] \in Nat /\ ret'[e.bucket] \in Nat
    BY <2>1 DEF FlowInv, RetType
  <2> QED BY <2>1, <2>2
<1> QED BY <1>1 DEF Fresh
-----------------------------------------------------------------------------
(* What an admission leaves behind.                                        *)

\* Where the request of a waiter is admitted with another attempt, the waiter no
\* longer needs room for the request, and the history has lost as much.
LEMMA NoRoomStays ==
    ASSUME RecInv, RecInv', RequestEvents, cfg' = cfg,
           NEW v \in Calls, NEW c \in Calls, NEW t \in 0..MaxTime,
           NEW o \in Ops \ active, ~ opClosed[o], OpOf[v] = o, OpOf[c] = o,
           hist' = hist \cup Events(Needed(c), t), NoRoom(Needed(v))
    PROVE  NoRoom({v})'
<1> DEFINE O == Events({o}, t)
           V == Events({v}, 0)
           N == Events(Needed(v), 0)
<1>1. Needed(v) = {o, v} /\ Needed(c) = {o, c} /\ {o} \in SUBSET Recs /\ {v} \in SUBSET Recs
    BY DEF Needed, Recs
<1>2. IsFiniteSet({o}) /\ IsFiniteSet({v}) /\ 0 \in 0..MaxTime
  <2>1. IsFiniteSet({o}) /\ IsFiniteSet({v})
    BY FS_Singleton
  <2> QED BY <2>1, FlowAssumption
<1>3. /\ IsFiniteSet(O) /\ IsFiniteSet(Events({o}, 0))
      /\ Cardinality(O) = Cardinality(Events({o}, 0))
      /\ IsFiniteSet(V)
    BY <1>1, <1>2, EventsFacts
<1>4. N = Events({o}, 0) \cup V
    BY <1>1 DEF Events
<1>5. hist \cap O = {}
  <2>1. ASSUME NEW e \in hist, e \in O PROVE FALSE
    <3>1. e.rec = o
      BY <2>1 DEF Events
    <3> QED BY <2>1, <3>1 DEF RequestEvents
  <2> QED BY <2>1
<1>6. hist \cup O \subseteq hist'
    BY <1>1 DEF Events
<1>7. V' = V
    BY DEF Events, Recorded, Members
<1> DEFINE E == Events({o}, 0)
<1> HIDE DEF O, V, N, E
<1>8. Cardinality(N) <= Cardinality(E) + Cardinality(V)
  <2>1. Cardinality(E \cup V) = Cardinality(E) + Cardinality(V) - Cardinality(E \cap V)
        /\ IsFiniteSet(E \cap V)
    BY <1>3, FS_Union, FS_Intersection DEF E
  <2>2. Cardinality(E) \in Nat /\ Cardinality(V) \in Nat /\ Cardinality(E \cap V) \in Nat
    BY <1>3, <2>1, FS_CardinalityType DEF E
  <2>3. N = E \cup V
    BY <1>4 DEF E
  <2> QED BY <2>1, <2>2, <2>3
<1>9. Cardinality(hist \cup O) = Cardinality(hist) + Cardinality(O)
  <2>1. Cardinality(hist \cup O)
            = Cardinality(hist) + Cardinality(O) - Cardinality(hist \cap O)
    BY <1>3, FS_Union DEF RecInv
  <2>2. Cardinality(hist \cap O) = 0
    BY <1>5, FS_EmptySet
  <2>3. Cardinality(hist) \in Nat /\ Cardinality(O) \in Nat
    BY <1>3, FS_CardinalityType DEF RecInv
  <2> QED BY <2>1, <2>2, <2>3
<1>10. Cardinality(hist \cup O) <= Cardinality(hist')
    BY <1>6, FS_Subset DEF RecInv
<1>11. /\ Cardinality(hist) \in Nat /\ Cardinality(hist') \in Nat
       /\ Cardinality(O) \in Nat /\ Cardinality(V) \in Nat /\ Cardinality(E) \in Nat
       /\ cfg.maxHistory \in Nat
    BY <1>3, PolicyFacts, FS_CardinalityType DEF RecInv, E
<1>12. IsFiniteSet(N)
    BY <1>3, <1>4, FS_Union
<1>13. Cardinality(N) \in Nat
    BY <1>12, FS_CardinalityType
<1>14. Cardinality(hist) + Cardinality(N) > cfg.maxHistory
    BY DEF NoRoom, N
<1>15. Cardinality(O) = Cardinality(E)
    BY <1>3 DEF E
<1>16. Cardinality(hist') + Cardinality(V) > cfg.maxHistory
    BY <1>8, <1>9, <1>10, <1>11, <1>13, <1>14, <1>15
<1>17. NoRoom({v})' <=> Cardinality(hist') + Cardinality(Events({v}, 0)') > cfg'.maxHistory
    BY DEF NoRoom
<1> QED BY <1>7, <1>16, <1>17 DEF V

\* An admission leaves every other waiter refused that was: it only takes, except
\* that a waiter of the same request needs that request no more; but that one was
\* not what it was waiting for.
LEMMA GrantRefused ==
    ASSUME FlowInv, RecInv', RequestEvents, NEW c \in Calls, c \notin active,
           checkWorkLocked(c, now).verdict = "grant", Grant(c, now),
           UNCHANGED <<cfg, opClosed>>,
           NEW v \in Calls, NEW u \in Nat, now <= u, Refused(v, u)
    PROVE  Refused(v, u)'
<1> USE DEF FlowInv
<1>1. hist' = hist \cup Events(Needed(c), now) /\ active' = active \cup Needed(c)
    BY DEF Grant
<1>2. ASSUME NEW b \in Buckets PROVE conc[b] <= conc'[b]
  <2>1. IsFiniteSet({r \in Needed(c) : b \in Members(cfg, r)})
    BY NeededFacts, FS_Subset
  <2>2. Cardinality({r \in Needed(c) : b \in Members(cfg, r)}) \in Nat
    BY <2>1, FS_CardinalityType
  <2>3. conc'[b] = conc[b] + Cardinality({r \in Needed(c) : b \in Members(cfg, r)})
    BY DEF Grant
  <2>4. conc[b] \in Nat
    BY DEF RecInv
  <2> QED BY <2>2, <2>3, <2>4
<1>3. CASE ~ (OpOf[v] \in Ops /\ OpOf[v] \in Needed(c))
  <2>1. Needed(v)' = Needed(v)
    BY <1>1, <1>3 DEF Needed
  <2>2. checkWorkLocked(v, u)'.verdict # "grant"
    BY <1>1, <1>2, <2>1, CapacityOnlyTaken DEF Refused
  <2> QED BY <2>2 DEF Refused
<1>4. CASE OpOf[v] \in Ops /\ OpOf[v] \in Needed(c)
  <2> DEFINE o == OpOf[v]
  <2>1. o = OpOf[c] /\ o \notin active /\ o \in Ops
    BY <1>4, NeededFacts, FlowAssumption
  <2>2. Needed(v) = {o, v} /\ Needed(v)' = {v} /\ o \in Recs /\ v \in Recs
    BY <1>1, <1>4, <2>1 DEF Needed, Recs
  <2>3. GrantRule /\ GrantRule'
    BY GrantRuleHolds, GrantRuleNext
  <2>4. now \in Nat /\ now \in 0..MaxTime
    BY DEF RecInv
  <2>5. ~ opClosed[o] /\ ~ Blocked(o, now)
    BY <1>4, <2>1, <2>3, <2>4 DEF GrantRule
  <2>6. ~ Blocked(o, u)
    BY <2>2, <2>4, <2>5, BlockedBefore
  <2>7. Blocked(v, u) \/ NoRoom(Needed(v))
    BY <2>2, <2>3, <2>5, <2>6 DEF GrantRule, Refused
  <2>8. Blocked(v, u) => Blocked(v, u)'
    BY <1>1, <1>2, <2>2, BlockedStays
  <2>9. NoRoom(Needed(v)) => NoRoom({v})'
    <3>1. PICK t \in 0..MaxTime : t = now
      BY <2>4
    <3>2. hist' = hist \cup Events(Needed(c), t)
      BY <1>1, <3>1
    <3> QED BY <2>1, <2>5, <3>2, NoRoomStays
  <2>10. NoRoom(Needed(v))' <=> NoRoom({v})'
    BY <2>2 DEF NoRoom
  <2>11. (\E r \in Needed(v)' : Blocked(r, u)') \/ NoRoom(Needed(v))'
    BY <2>2, <2>7, <2>8, <2>9, <2>10
  <2> QED BY <2>3, <2>11 DEF GrantRule, Refused
<1> QED BY <1>3, <1>4

LEMMA GrantUntil ==
    ASSUME FlowInv, RecInv', RequestEvents, NEW c \in Calls, c \notin active,
           checkWorkLocked(c, now).verdict = "grant", Grant(c, now),
           UNCHANGED <<cfg, opClosed, now>>, NEW v \in Calls, RefusedUntilCheck(v),
           waiter'[v].nextCheck = waiter[v].nextCheck
    PROVE  RefusedUntilCheck(v)'
<1>1. ASSUME NEW t \in Nat, now' <= t,
             waiter'[v].nextCheck <= now' \/ t < waiter'[v].nextCheck
      PROVE  Refused(v, t)'
  <2>1. Refused(v, t) /\ now <= t
    BY <1>1 DEF RefusedUntilCheck
  <2> QED BY <2>1, GrantRefused
<1> QED BY <1>1 DEF RefusedUntilCheck

\* The events of an admission are new, in buckets that keep them.
LEMMA GrantFresh ==
    ASSUME FlowInv, FlowInv', Fresh, NEW c \in Calls,
           checkWorkLocked(c, now).verdict = "grant", Grant(c, now),
           ret' = Touched(c, now), UNCHANGED <<cfg, now>>
    PROVE  Fresh'
<1> USE DEF FlowInv
<1>0. now \in Nat
    BY DEF RecInv
<1>1. \A b \in Buckets : ret[b] \in Nat /\ ret'[b] \in Nat /\ ret[b] <= ret'[b]
    BY <1>0, TouchedType DEF RetType
<1>2. ASSUME NEW e \in hist' PROVE e.at > now - ret'[e.bucket]
  <2>1. CASE e \in hist
    <3>1. e.bucket \in Buckets /\ e.at \in Nat /\ e.at > now - ret[e.bucket]
      BY <2>1 DEF RecInv, HistoryEvents, Fresh
    <3> QED BY <1>0, <1>1, <3>1
  <2>2. CASE e \in Events(Needed(c), now)
    <3>1. PICK r \in Needed(c) :
            \E b \in Recorded(r) : e = [bucket |-> b, rec |-> r, at |-> now]
      BY <2>2 DEF Events
    <3>2. PICK b \in Recorded(r) : e = [bucket |-> b, rec |-> r, at |-> now]
      BY <3>1
    <3>3. b \in Members(cfg, r) /\ e.bucket = b /\ e.at = now
      BY <3>2 DEF Recorded
    <3>4. PICK w : w \in cfg.windows[b]
      BY <3>2 DEF Recorded
    <3>5. b \in Buckets /\ retention(cfg, b) <= ret'[b]
      BY <3>3, AdmittedTouches
    <3>6. w.period \in Nat \ {0} /\ w.period <= retention(cfg, b) /\ retention(cfg, b) \in Nat
      BY <3>4, <3>5, PolicyFacts, RetentionType DEF RecInv
    <3>7. ret'[b] > 0 /\ ret'[b] \in Nat
      BY <1>1, <3>5, <3>6
    <3> QED BY <1>0, <3>3, <3>7
  <2> QED BY <2>1, <2>2 DEF Grant
<1> QED BY <1>2 DEF Fresh
-----------------------------------------------------------------------------
(* The parts of the invariant that are not about the timer.                *)

\* A call is not queued for a request that has ended, and the end of a request
\* takes its waiter out.
LEMMA OpenStep ==
    ASSUME FlowInv, QueueOpen, [Next]_vars
    PROVE  QueueOpen'
<1>1. ASSUME queue' \subseteq queue, opClosed' = opClosed PROVE QueueOpen'
    BY <1>1 DEF QueueOpen
<1>2. ASSUME NEW kind, NEW c, NEW ws, NEW cl, Dispatch(kind, c, ws, cl)
      PROVE  queue' \subseteq queue \ ws
    BY <1>2 DEF Dispatch, Leave
<1>3. ASSUME NEW w \in Calls, NEW k \in Keys,
             \/ TryCancelled(w, k) \/ TryUncontrolled(w, k)
             \/ TryAdmitted(w, k) \/ TryBlocked(w, k)
      PROVE  QueueOpen'
    BY <1>1, <1>3 DEF TryCancelled, TryUncontrolled, TryAdmitted, TryBlocked, Leave, opVars
<1>4. ASSUME NEW c \in Calls,
             \/ AcquireAdmitted(c) \/ AcquireRefused(c) \/ AcquireUncontrolled(c)
             \/ Resume(c) \/ CommitDispatch(c) \/ Available(c) \/ Cancel(c)
      PROVE  QueueOpen'
    BY <1>1, <1>4 DEF AcquireAdmitted, AcquireRefused, AcquireUncontrolled, Resume,
                      CommitDispatch, Available, Cancel, opVars, queueVars
<1>5. ASSUME NEW c \in Calls, AcquireQueued(c) PROVE QueueOpen'
  <2>1. queue' = queue \cup {c} /\ opClosed' = opClosed
    BY <1>5 DEF AcquireQueued, opVars
  <2>2. checkWorkLocked(c, lk.at).verdict # "error"
    BY <1>5 DEF AcquireQueued
  <2>3. OpOf[c] \in Ops => ~ opClosed[OpOf[c]]
    BY <2>2 DEF checkWorkLocked
  <2> QED BY <2>1, <2>3 DEF QueueOpen
<1>6. ASSUME NEW c \in Calls,
             Acquire(c) \/ Release(c) \/ CancelBeforeDispatch(c) \/ CancelWait(c)
      PROVE  QueueOpen'
    BY <1>1, <1>2, <1>6 DEF Acquire, Release, CancelBeforeDispatch, release, CancelWait,
                            opVars
<1>7. ASSUME NEW o \in Ops, endOperation(o) PROVE QueueOpen'
  <2>1. /\ opClosed' = [opClosed EXCEPT ![o] = TRUE]
        /\ queue' \subseteq queue \ {w \in queue : OpOf[w] = o}
    BY <1>2, <1>7 DEF endOperation
  <2> QED BY <2>1 DEF QueueOpen
<1>8. CASE TimerFire \/ \E p \in Policies : Update(p)
    BY <1>1, <1>2, <1>8 DEF TimerFire, Update, opVars
<1>9. CASE DispatchEnd \/ Close \/ Tick \/ UNCHANGED vars
    BY <1>1, <1>9 DEF DispatchEnd, Close, Tick, vars, Leave, opVars, queueVars
<1> QED BY <1>3, <1>4, <1>5, <1>6, <1>7, <1>8, <1>9 DEF Next, Engine

\* A request's record leaves with its event, or because the request has ended.
LEMMA EventsStep ==
    ASSUME FlowInv, RequestEvents, [Next]_vars
    PROVE  RequestEvents'
<1>1. ASSUME hist' \subseteq hist, active' = active, opClosed' = opClosed
      PROVE  RequestEvents'
    BY <1>1 DEF RequestEvents
<1>2. ASSUME NEW c \in Calls, NEW t, Grant(c, t), opClosed' = opClosed
      PROVE  RequestEvents'
  <2>1. hist' = hist \cup Events(Needed(c), t) /\ active' = active \cup Needed(c)
    BY <1>2 DEF Grant
  <2>2. \A e \in Events(Needed(c), t) : e.rec \in Needed(c)
    BY DEF Events
  <2> QED BY <1>2, <2>1, <2>2 DEF RequestEvents
<1>3. ASSUME NEW gone, NEW refunded, NEW q, ReleaseAndCleanup(gone, refunded, q),
             \A o \in Ops : opClosed[o] => opClosed'[o],
             \A o \in Ops : o \in gone \ refunded => opClosed'[o]
      PROVE  RequestEvents'
  <2>1. active' = active \ gone /\ hist' \subseteq {e \in hist : e.rec \notin refunded}
    BY <1>3 DEF ReleaseAndCleanup, Live
  <2> QED BY <1>3, <2>1 DEF RequestEvents
<1>4. ASSUME NEW q, Cleanup(q), opClosed' = opClosed PROVE RequestEvents'
    BY <1>3, <1>4 DEF Cleanup
<1>5. ASSUME NEW w \in Calls, NEW k \in Keys, TryAdmitted(w, k) PROVE RequestEvents'
    BY <1>2, <1>5 DEF TryAdmitted, opVars
<1>6. ASSUME NEW c \in Calls, AcquireAdmitted(c) PROVE RequestEvents'
    BY <1>2, <1>6 DEF AcquireAdmitted, opVars
<1>7. ASSUME NEW c \in Calls, NEW refund \in BOOLEAN, NEW status, release(c, refund, status)
      PROVE  RequestEvents'
  <2>1. ASSUME NEW o \in Ops, o \in ({c} \cup Over(c, refund)) \ RefundedWith(c, refund)
        PROVE  opClosed[o]
    <3>1. o # c
      BY FlowAssumption
    <3>2. o \in Over(c, refund)
      BY <2>1, <3>1
    <3>3. o = OpOf[c] /\ (opClosed[o] \/ ~ StartedAfter(c, refund))
      BY <3>2 DEF Over
    <3>4. refund => started[o]
      BY <2>1, <3>2 DEF RefundedWith
    <3> QED BY <3>3, <3>4 DEF StartedAfter
  <2>2. /\ ReleaseAndCleanup({c} \cup Over(c, refund), RefundedWith(c, refund), queue)
        /\ opClosed' = opClosed
    BY <1>7 DEF release
  <2> QED BY <1>3, <2>1, <2>2
<1>8. ASSUME NEW c \in Calls, Release(c) \/ CancelBeforeDispatch(c) PROVE RequestEvents'
    BY <1>7, <1>8 DEF Release, CancelBeforeDispatch
<1>9. ASSUME NEW o \in Ops, endOperation(o) PROVE RequestEvents'
  <2>1. opClosed' = [opClosed EXCEPT ![o] = TRUE] /\ opClosed \in [Ops -> BOOLEAN]
    BY <1>9 DEF endOperation, FlowInv, RestType
  <2>2. PICK q, refunded : ReleaseAndCleanup(Ended(o), refunded, q)
    BY <1>9 DEF endOperation
  <2>3. \A x \in Ops : (opClosed[x] => opClosed'[x]) /\ (x \in Ended(o) => opClosed'[x])
    BY <2>1 DEF Ended
  <2> QED BY <1>3, <2>2, <2>3
<1>10. ASSUME NEW c \in Calls, Acquire(c) \/ AcquireUncontrolled(c) PROVE RequestEvents'
    BY <1>1, <1>4, <1>10 DEF Acquire, AcquireUncontrolled, opVars, recVars, bucketVars
<1>11. CASE TimerFire
    BY <1>4, <1>11 DEF TimerFire, opVars
<1>12. ASSUME NEW p \in Policies, Update(p) PROVE RequestEvents'
    BY <1>1, <1>12 DEF Update, Live, opVars
<1>13. ASSUME NEW c \in Calls, Available(c) PROVE RequestEvents'
    BY <1>1, <1>13 DEF Available, Live, opVars, recVars
<1>14. ASSUME NEW w \in Calls, NEW k \in Keys,
              TryCancelled(w, k) \/ TryUncontrolled(w, k) \/ TryBlocked(w, k)
       PROVE  RequestEvents'
    BY <1>1, <1>14 DEF TryCancelled, TryUncontrolled, TryBlocked, opVars, recVars, bucketVars
<1>15. ASSUME NEW c \in Calls,
              \/ AcquireRefused(c) \/ AcquireQueued(c) \/ Resume(c)
              \/ CommitDispatch(c) \/ CancelWait(c) \/ Cancel(c)
       PROVE  RequestEvents'
    BY <1>1, <1>15 DEF AcquireRefused, AcquireQueued, Resume, CommitDispatch, CancelWait,
                       Cancel, opVars, recVars, bucketVars
<1>16. CASE DispatchEnd \/ Close \/ Tick \/ UNCHANGED vars
    BY <1>1, <1>16 DEF DispatchEnd, Close, Tick, vars, opVars, recVars, bucketVars
<1> QED BY <1>5, <1>6, <1>8, <1>9, <1>10, <1>11, <1>12, <1>13, <1>14, <1>15, <1>16
        DEF Next, Engine
-----------------------------------------------------------------------------
(* The timer, step by step.                                                *)

\* A waiter that was tried is refused now.
LEMMA RefusedNow ==
    ASSUME FlowInv, NEW w \in queue, RefusedUntilCheck(w)
    PROVE  Refused(w, now)
<1>1. now \in Nat /\ waiter[w].nextCheck \in Nat
    BY DEF FlowInv, RecInv, WaitType, Waiters
<1> QED BY <1>1 DEF RefusedUntilCheck

\* The check of a refused call says until when it is refused.
LEMMA CheckUntil ==
    ASSUME FlowInv, RecInv', NEW c \in Calls, Refused(c, now),
           waiter'[c].nextCheck = checkWorkLocked(c, now).next,
           UNCHANGED <<now, cfg, opClosed, active, conc, hist>>
    PROVE  RefusedUntilCheck(c)'
<1>1. PICK t \in Nat : t = now
    BY DEF FlowInv, RecInv
<1>2. ASSUME NEW u \in Nat, now' <= u,
             waiter'[c].nextCheck <= now' \/ u < waiter'[c].nextCheck
      PROVE  Refused(c, u)'
  <2>1. Refused(c, t) /\ t <= u
        /\ (checkWorkLocked(c, t).next <= t \/ u < checkWorkLocked(c, t).next)
    BY <1>1, <1>2
  <2>2. Refused(c, u)
    BY <2>1, CheckMeans DEF FlowInv
  <2> QED BY <2>2, RefusedSame DEF FlowInv
<1> QED BY <1>2 DEF RefusedUntilCheck

\* dispatchLocked begins with a clean history and has tried nobody.
LEMMA DispatchTimer ==
    ASSUME FlowInv', Fresh', NEW c, NEW ws, NEW cl, Dispatch("dispatch", c, ws, cl)
    PROVE  HeldInv' /\ FreeInv'
<1>1. lk'.kind = "dispatch" /\ lk'.todo = queue'
    BY DEF Dispatch, Leave, Unlocked
<1>2. lk' # Unlocked
    BY <1>1 DEF Unlocked
<1> QED BY <1>1, <1>2 DEF HeldInv, FreeInv

\* What cleanupLocked leaves has not expired.
LEMMA CleanupFresh ==
    ASSUME FlowInv, FlowInv', now' = now, NEW gone, NEW refunded, NEW q,
           ReleaseAndCleanup(gone, refunded, q)
    PROVE  /\ Fresh'
           /\ \A e \in hist' : ret'[e.bucket] = ret[e.bucket]
<1>1. hist' = Live({e \in hist : e.rec \notin refunded}, now)
      /\ ret' = [b \in Buckets |->
            IF conc'[b] = 0 /\ ~ HasEvent(hist', b) THEN 0 ELSE ret[b]]
    BY DEF ReleaseAndCleanup
<1>2. ASSUME NEW e \in hist' PROVE ret'[e.bucket] = ret[e.bucket] /\ e.bucket \in Buckets
  <2>1. e.bucket \in Buckets
    BY DEF FlowInv, RecInv, HistoryEvents
  <2>2. HasEvent(hist', e.bucket)
    BY DEF HasEvent
  <2> QED BY <1>1, <2>1, <2>2
<1>3. \A e \in hist' : e.at > now - ret[e.bucket] /\ e \in hist
    BY <1>1 DEF Live
<1>4. \A e \in hist' : ret[e.bucket] <= ret'[e.bucket]
    BY <1>2 DEF FlowInv, RetType
<1>5. Fresh'
    BY <1>3, <1>4, FreshSame
<1> QED BY <1>2, <1>5

\* The mutex is released after the timer has been set for what is left of the
\* batch.
LEMMA PendingTimer ==
    ASSUME FlowInv, lk' = Unlocked, now' = now, timer' = now + 1
    PROVE  dispatchPending' => HeldInv' /\ FreeInv'
<1>1. now \in Nat
    BY DEF FlowInv, RecInv
<1>2. timer' # 0 /\ timer' <= now' + 1
    BY <1>1
<1> QED BY <1>2 DEF HeldInv, FreeInv, Unlocked

\* The mutex is released after everybody has been tried: the timer is due before
\* anything changes by itself.
LEMMA ScheduledTimer ==
    ASSUME FlowInv, FlowInv', lk' = Unlocked, UNCHANGED <<now, cfg, closed>>,
           NEW pending \in BOOLEAN,
           timer' = DueAt(queue', waiter', hist', ret', pending, now),
           Fresh', \A w \in queue' : RefusedUntilCheck(w)'
    PROVE  ~ dispatchPending' => HeldInv' /\ FreeInv'
<1>1. HeldInv'
    BY DEF HeldInv, Unlocked
<1>2. SUFFICES ASSUME ~ dispatchPending', ~ closed, cfg.enabled, queue' # {}
               PROVE  timer' # 0 /\ Quiet(timer - 1)'
    BY <1>1 DEF FreeInv
<1>3. PICK q \in SUBSET Calls, wt \in [Calls -> Waiters], h \in SUBSET HistoryEvents,
           rt \in [Buckets -> Nat], t \in Nat :
                q = queue' /\ wt = waiter' /\ h = hist' /\ rt = ret' /\ t = now
    BY DEF FlowInv, RecInv, RetType, WaitType
<1>4. \A e \in h : e.at > t - rt[e.bucket]
    BY <1>3 DEF Fresh
<1>5. LET T == DueAt(q, wt, h, rt, pending, t)
      IN  /\ T \in Nat /\ t < T
          /\ \A e \in h : e.at > (T - 1) - rt[e.bucket]
          /\ \A w \in q : wt[w].nextCheck <= t \/ T - 1 < wt[w].nextCheck
    BY <1>2, <1>3, <1>4, DueBounds DEF FlowInv
<1>6. PICK T \in Nat :
        /\ T = timer' /\ t < T
        /\ \A e \in h : e.at > (T - 1) - rt[e.bucket]
        /\ \A w \in q : wt[w].nextCheck <= t \/ T - 1 < wt[w].nextCheck
    BY <1>3, <1>5
<1>7. PICK u \in Nat : u = T - 1
    BY <1>6
<1>8. t <= u /\ u = timer' - 1 /\ timer' # 0
    BY <1>6, <1>7
<1>9. ASSUME NEW w \in queue' PROVE Refused(w, u)'
  <2>1. waiter'[w].nextCheck <= now' \/ u < waiter'[w].nextCheck
    BY <1>3, <1>6, <1>7
  <2>2. now' <= u
    BY <1>3, <1>8
  <2> QED BY <2>1, <2>2 DEF RefusedUntilCheck
<1>10. \A e \in hist' : e.at > u - ret'[e.bucket]
    BY <1>3, <1>6, <1>7
<1>11. Quiet(u)'
    BY <1>9, <1>10 DEF Quiet
<1>12. Quiet(timer - 1)'
    BY <1>8, <1>11
<1> QED BY <1>8, <1>12

\* A waiter is tried.
LEMMA TryTimer ==
    ASSUME FlowInv, FlowInv', RequestEvents, HeldInv, NEW w \in Calls, NEW k \in Keys,
           \/ TryCancelled(w, k) \/ TryUncontrolled(w, k)
           \/ TryAdmitted(w, k) \/ TryBlocked(w, k)
    PROVE  HeldInv' /\ FreeInv'
<1>1. Try(w, k) /\ \E admitted \in BOOLEAN : Tried(w, k, admitted)
    BY DEF TryCancelled, TryUncontrolled, TryAdmitted, TryBlocked
<1>2. /\ lk'.kind = lk.kind /\ lk.kind # "unlocked" /\ lk'.todo = lk.todo \ {w}
      /\ w \in lk.todo /\ w \in queue /\ lk.at = now /\ w \notin active
    BY <1>1, TryFacts DEF Try, Tried, FlowInv, LockInv, Lks
<1>3. UNCHANGED <<now, cfg, opClosed, timer, closed>>
    BY DEF TryCancelled, TryUncontrolled, TryAdmitted, TryBlocked, opVars, timerVars
<1>4. FreeInv'
    BY <1>2 DEF FreeInv, Unlocked
<1>5. Fresh /\ \A v \in queue \ lk.todo : RefusedUntilCheck(v)
    BY <1>2 DEF HeldInv
<1>6. queue \subseteq Calls /\ now \in Nat /\ timer \in Nat /\ waiter \in [Calls -> Waiters]
      /\ RecInv /\ RecInv'
    BY DEF FlowInv, WaitType, RecInv, RestType
<1>7. ASSUME UNCHANGED <<active, conc, hist>>, queue' \subseteq queue,
             \A e \in hist : ret[e.bucket] <= ret'[e.bucket],
             lk'.kind = "acquire", queue' # {}
      PROVE  timer' # 0 /\ (timer' <= now' + 1 \/ Quiet(timer - 1)')
  <2>1. timer # 0 /\ (timer <= now + 1 \/ Quiet(timer - 1))
    BY <1>2, <1>7 DEF HeldInv
  <2>2. PICK t \in Nat : t = timer - 1
    BY <1>6, <2>1
  <2>3. Quiet(t) => Quiet(t)'
    BY <1>3, <1>7, QuietSame
  <2>4. t = timer' - 1 /\ timer' = timer /\ now' = now
    BY <1>3, <2>2
  <2>5. Quiet(timer - 1) => Quiet(timer - 1)'
    BY <2>2, <2>3, <2>4
  <2> QED BY <2>1, <2>4, <2>5
<1>8. CASE TryCancelled(w, k) \/ TryUncontrolled(w, k)
  <2>1. /\ UNCHANGED <<active, conc, hist, ret>> /\ queue' = queue \ {w}
        /\ \A v \in Calls \ {w} : waiter'[v] = waiter[v]
    BY <1>8 DEF TryCancelled, TryUncontrolled, Leave, recVars, bucketVars
  <2>2. Fresh'
    BY <1>3, <1>5, <2>1 DEF Fresh
  <2>3. ASSUME NEW v \in queue' \ lk'.todo PROVE RefusedUntilCheck(v)'
    <3>1. v \in Calls \ {w} /\ RefusedUntilCheck(v)
      BY <1>2, <1>5, <1>6, <2>1
    <3> QED BY <1>3, <1>6, <2>1, <3>1, UntilSame
  <2>4. \A e \in hist : ret[e.bucket] <= ret'[e.bucket]
    BY <2>1 DEF FlowInv, RecInv, RetType, HistoryEvents
  <2> QED BY <1>4, <1>7, <2>1, <2>2, <2>3, <2>4 DEF HeldInv
<1>9. CASE TryBlocked(w, k)
  <2>1. /\ UNCHANGED <<active, conc, hist, queue>> /\ ret' = Touched(w, lk.at)
        /\ waiter' = [waiter EXCEPT ![w].nextCheck = checkWorkLocked(w, lk.at).next]
        /\ checkWorkLocked(w, lk.at).verdict # "grant"
    BY <1>9 DEF TryBlocked, recVars
  <2>2. \A b \in Buckets : ret[b] <= ret'[b]
    BY <1>2, <1>6, <2>1, TouchedType DEF FlowInv
  <2>3. \A e \in hist : e.bucket \in Buckets
    BY <1>6 DEF RecInv, HistoryEvents
  <2>4. Fresh'
    BY <1>3, <1>5, <2>1, <2>2, <2>3, FreshSame DEF Fresh
  <2>5. waiter'[w].nextCheck = checkWorkLocked(w, now).next
        /\ \A v \in Calls \ {w} : waiter'[v] = waiter[v]
    BY <1>2, <1>6, <2>1 DEF Waiters
  <2>6. ASSUME NEW v \in queue' \ lk'.todo PROVE RefusedUntilCheck(v)'
    <3>1. CASE v = w
      <4>1. Refused(w, now)
        BY <1>2, <2>1 DEF Refused
      <4> QED BY <1>3, <1>6, <2>1, <2>5, <3>1, <4>1, CheckUntil
    <3>2. CASE v # w
      <4>1. v \in Calls \ {w} /\ RefusedUntilCheck(v)
        BY <1>2, <1>5, <1>6, <2>1, <3>2
      <4> QED BY <1>3, <1>6, <2>1, <2>5, <4>1, UntilSame
    <3> QED BY <3>1, <3>2
  <2> QED BY <1>4, <1>7, <2>1, <2>2, <2>3, <2>4, <2>6 DEF HeldInv
<1>10. CASE TryAdmitted(w, k)
  <2>1. /\ checkWorkLocked(w, now).verdict = "grant" /\ Grant(w, now)
        /\ ret' = Touched(w, now) /\ queue' = queue \ {w}
        /\ \A v \in Calls \ {w} : waiter'[v] = waiter[v]
    BY <1>2, <1>10 DEF TryAdmitted, Leave
  <2>2. Fresh'
    BY <1>3, <1>5, <2>1, GrantFresh
  <2>3. ASSUME NEW v \in queue' \ lk'.todo PROVE RefusedUntilCheck(v)'
    <3>1. v \in Calls \ {w} /\ RefusedUntilCheck(v)
      BY <1>2, <1>5, <1>6, <2>1
    <3> QED BY <1>2, <1>3, <1>6, <2>1, <3>1, GrantUntil
  <2>4. ASSUME lk'.kind = "acquire", queue' # {}
        PROVE  timer' # 0 /\ timer' <= now' + 1
    <3>1. timer # 0 /\ (timer <= now + 1 \/ Quiet(timer - 1))
      BY <1>2, <2>1, <2>4 DEF HeldInv
    <3>2. SUFFICES ASSUME ~ (timer <= now + 1) PROVE FALSE
      BY <1>3, <3>1
    <3>3. PICK t \in Nat : t = timer - 1
      BY <1>6, <3>1
    <3>4. now <= t
      BY <1>6, <3>2, <3>3
    <3>5. Refused(w, t)
      BY <1>2, <3>1, <3>2, <3>3 DEF Quiet
    <3>6. Refused(w, now)
      BY <1>6, <3>4, <3>5, RefusedBefore
    <3> QED BY <2>1, <3>6 DEF Refused
  <2> QED BY <1>4, <2>2, <2>3, <2>4 DEF HeldInv
<1> QED BY <1>8, <1>9, <1>10

\* The timer that is set for what a batch has left behind is due next.
LEMMA DueNext ==
    ASSUME FlowInv, NEW q \in SUBSET Calls, NEW wt \in [Calls -> Waiters],
           NEW rt \in [Buckets -> Nat], NEW pending \in BOOLEAN, pending,
           ~ closed, q # {}
    PROVE  DueAt(q, wt, hist, rt, pending, now) = now + 1
<1>1. hist \in SUBSET HistoryEvents /\ now \in Nat /\ RecInv
    BY DEF FlowInv, RecInv
<1> DEFINE due == DueAt(q, wt, hist, rt, pending, now)
<1>2. ~ closed /\ q # {} =>
        /\ now < due /\ (pending => due = now + 1)
        /\ \A x \in Expiries(hist, rt, now) : due <= x
        /\ cfg.enabled => \A w \in q : now < wt[w].nextCheck => due <= wt[w].nextCheck
    BY <1>1, DueType
<1> HIDE DEF due
<1>3. due = now + 1
    BY <1>2
<1> QED BY <1>3 DEF due

\* The end of a method that dispatches.
LEMMA EndTimer ==
    ASSUME FlowInv, FlowInv', HeldInv, DispatchEnd
    PROVE  HeldInv' /\ FreeInv'
<1>1. /\ lk.kind = "dispatch" /\ dispatchPending' = Remaining /\ lk' = Unlocked
      /\ timer' = DueAt(queue, waiter, hist, ret, Remaining, lk.at)
      /\ UNCHANGED <<now, cfg, closed, active, conc, hist, ret, opClosed, queue, waiter>>
    BY DEF DispatchEnd, recVars, bucketVars, opVars, queueVars
<1>2. lk.at = now /\ lk.todo \subseteq queue /\ queue \subseteq Calls /\ RecInv /\ RecInv'
    BY <1>1 DEF FlowInv, LockInv, WaitType
<1>3. Fresh /\ \A w \in queue \ lk.todo : RefusedUntilCheck(w)
    BY <1>1 DEF HeldInv
<1>4. PICK p \in BOOLEAN : p = Remaining
    BY DEF Remaining
<1>5. timer' = DueAt(queue, waiter, hist, ret, p, now)
    BY <1>1, <1>2, <1>4
<1>6. CASE closed
    BY <1>1, <1>6 DEF HeldInv, FreeInv, Unlocked
<1>7. CASE ~ closed /\ Remaining
  <2>1. queue # {} /\ p
    BY <1>2, <1>4, <1>7 DEF Remaining
  <2>2. PICK q \in SUBSET Calls, wt \in [Calls -> Waiters], rt \in [Buckets -> Nat] :
            q = queue /\ wt = waiter /\ rt = ret
    BY DEF FlowInv, WaitType, RetType
  <2>3. timer' = now + 1
    BY <1>5, <1>7, <2>1, <2>2, DueNext
  <2> QED BY <1>1, <1>7, <2>3, PendingTimer
<1>8. CASE ~ Remaining
  <2>1. Fresh'
    BY <1>1, <1>3 DEF Fresh
  <2>2. ASSUME NEW w \in queue' PROVE RefusedUntilCheck(w)'
    <3>1. w \in Calls /\ RefusedUntilCheck(w)
      BY <1>1, <1>2, <1>3, <1>8 DEF Remaining
    <3> QED BY <1>1, <1>2, <3>1, UntilSame
  <2>3. timer' = DueAt(queue', waiter', hist', ret', p, now)
    BY <1>1, <1>5
  <2> QED BY <1>1, <1>8, <2>1, <2>2, <2>3, ScheduledTimer
<1> QED BY <1>6, <1>7, <1>8

\* An arrival is decided upon: the timer is set when the queue or the history
\* changes, and left alone when the arrival is refused.
LEMMA AcquireTimer ==
    ASSUME FlowInv, FlowInv', RequestEvents, HeldInv, NEW c \in Calls,
           AcquireAdmitted(c) \/ AcquireRefused(c) \/ AcquireQueued(c)
    PROVE  HeldInv' /\ FreeInv'
<1>1. Deciding(c)
    BY DEF AcquireAdmitted, AcquireRefused, AcquireQueued
<1>2. /\ lk.at = now /\ c \notin active /\ c \notin queue /\ cfg.enabled /\ lk' = Unlocked
      /\ dispatchPending' = Remaining /\ lk.kind = "acquire"
    BY <1>1, DecidingFacts
<1>3. UNCHANGED <<now, cfg, closed, opClosed>>
    BY DEF AcquireAdmitted, AcquireRefused, AcquireQueued, opVars
<1>4. /\ lk.todo \subseteq queue /\ queue \subseteq Calls /\ RecInv /\ RecInv' /\ now \in Nat
      /\ timer \in Nat /\ waiter \in [Calls -> Waiters] /\ ret \in [Buckets -> Nat]
    BY DEF FlowInv, LockInv, WaitType, RecInv, RestType, RetType
<1>5. Fresh /\ \A w \in queue \ lk.todo : RefusedUntilCheck(w)
    BY <1>2 DEF HeldInv
<1>6. PICK p \in BOOLEAN : p = Remaining
    BY DEF Remaining
<1>7. \A e \in hist : e.bucket \in Buckets
    BY <1>4 DEF RecInv, HistoryEvents
<1>8. ASSUME ret' = Touched(c, lk.at) PROVE \A b \in Buckets : ret[b] <= ret'[b]
    BY <1>2, <1>4, <1>8, TouchedType DEF FlowInv
<1>9. CASE AcquireAdmitted(c)
  <2>1. /\ checkWorkLocked(c, now).verdict = "grant" /\ ~ Remaining /\ Grant(c, now)
        /\ ret' = Touched(c, now) /\ UNCHANGED <<queue, waiter>>
        /\ timer' = DueAt(queue, waiter, hist', ret', Remaining, now)
    BY <1>2, <1>9 DEF AcquireAdmitted, AdmitNow
  <2>2. Fresh'
    BY <1>3, <1>5, <2>1, GrantFresh
  <2>3. ASSUME NEW w \in queue' PROVE RefusedUntilCheck(w)'
    <3>1. w \in Calls /\ RefusedUntilCheck(w)
      BY <1>4, <1>5, <2>1 DEF Remaining
    <3> QED BY <1>2, <1>3, <1>4, <2>1, <3>1, GrantUntil
  <2>4. timer' = DueAt(queue', waiter', hist', ret', p, now)
    BY <1>6, <2>1
  <2>5. ~ dispatchPending'
    BY <1>2, <2>1
  <2> QED BY <1>2, <1>3, <2>2, <2>3, <2>4, <2>5, ScheduledTimer
<1>10. CASE AcquireQueued(c)
  <2>1. /\ UNCHANGED <<active, conc, hist>> /\ ret' = Touched(c, lk.at)
        /\ queue' = queue \cup {c} /\ ~ AdmitNow(c)
        /\ waiter' = [waiter EXCEPT ![c] =
                [id |-> activity', enqueued |-> lk.at, deadline |-> lk.at + Budget(c),
                 nextCheck |-> checkWorkLocked(c, lk.at).next]]
        /\ timer' = DueAt(queue', waiter', hist, ret', Remaining, lk.at)
    BY <1>10 DEF AcquireQueued, recVars
  <2>2. timer' = DueAt(queue', waiter', hist', ret', p, now)
    BY <1>2, <1>6, <2>1
  <2>3. CASE closed
    BY <1>2, <1>3, <2>3 DEF HeldInv, FreeInv, Unlocked
  <2>4. CASE ~ closed /\ Remaining
    <3>1. PICK q \in SUBSET Calls, wt \in [Calls -> Waiters], rt \in [Buckets -> Nat] :
            q = queue' /\ wt = waiter' /\ rt = ret'
      BY DEF FlowInv, WaitType, RetType
    <3>2. p /\ q # {} /\ timer' = DueAt(q, wt, hist, rt, p, now)
      BY <1>6, <2>1, <2>2, <2>4, <3>1
    <3>3. timer' = now + 1
      BY <2>4, <3>2, DueNext
    <3> QED BY <1>2, <1>3, <2>4, <3>3, PendingTimer
  <2>5. CASE ~ Remaining
    <3>1. Fresh'
      BY <1>3, <1>5, <1>7, <1>8, <2>1, FreshSame DEF Fresh
    <3>2. waiter'[c].nextCheck = checkWorkLocked(c, now).next
          /\ \A v \in Calls \ {c} : waiter'[v] = waiter[v]
      BY <1>2, <1>4, <2>1
    <3>3. ASSUME NEW w \in queue' PROVE RefusedUntilCheck(w)'
      <4>1. CASE w = c
        <5>1. Refused(c, now)
          BY <1>2, <2>1, <2>5 DEF AdmitNow, Refused
        <5> QED BY <1>3, <1>4, <2>1, <3>2, <4>1, <5>1, CheckUntil
      <4>2. CASE w # c
        <5>1. w \in Calls \ {c} /\ RefusedUntilCheck(w)
          BY <1>4, <1>5, <2>1, <2>5, <4>2 DEF Remaining
        <5> QED BY <1>3, <1>4, <2>1, <3>2, <5>1, UntilSame
      <4> QED BY <4>1, <4>2
    <3> QED BY <1>2, <1>3, <2>2, <2>5, <3>1, <3>3, ScheduledTimer
  <2> QED BY <2>3, <2>4, <2>5
<1>11. CASE AcquireRefused(c)
  <2>1. /\ UNCHANGED <<active, conc, hist, queue, waiter>> /\ ret' = Touched(c, lk.at)
        /\ timer' = IF Remaining THEN DueAt(queue, waiter, hist, ret, TRUE, lk.at) ELSE timer
    BY <1>11 DEF AcquireRefused, recVars
  <2>2. CASE closed \/ queue = {}
    BY <1>2, <1>3, <2>1, <2>2 DEF HeldInv, FreeInv, Unlocked
  <2>3. CASE ~ closed /\ Remaining
    <3>1. PICK q \in SUBSET Calls, wt \in [Calls -> Waiters], rt \in [Buckets -> Nat] :
            q = queue /\ wt = waiter /\ rt = ret
      BY <1>4
    <3>2. p = TRUE /\ q # {}
      BY <1>4, <1>6, <2>3, <3>1 DEF Remaining
    <3>3. timer' = DueAt(q, wt, hist, rt, p, now)
      BY <1>2, <2>1, <2>3, <3>1, <3>2
    <3>4. timer' = now + 1
      BY <2>3, <3>2, <3>3, DueNext
    <3> QED BY <1>2, <1>3, <2>3, <3>4, PendingTimer
  <2>4. CASE ~ closed /\ ~ Remaining /\ queue # {}
    <3>1. timer' = timer /\ ~ dispatchPending'
      BY <1>2, <2>1, <2>4
    <3>2. timer # 0 /\ (timer <= now + 1 \/ Quiet(timer - 1))
      BY <1>2, <2>4 DEF HeldInv
    <3>3. PICK t \in Nat : t = timer - 1
      BY <1>4, <3>2
    <3>4. \A w \in queue : Refused(w, now)
      BY <1>5, <2>4, RefusedNow DEF Remaining
    <3>5. timer <= now \/ Quiet(t)
      <4>1. CASE timer = now + 1
        <5>1. t = now
          BY <1>4, <3>3, <4>1
        <5> QED BY <1>5, <3>4, <5>1 DEF Quiet, Fresh
      <4>2. CASE timer # now + 1 /\ timer <= now + 1
        BY <1>4, <4>2
      <4>3. CASE Quiet(timer - 1)
        BY <3>3, <4>3
      <4> QED BY <3>2, <4>1, <4>2, <4>3
    <3>6. Quiet(t) => Quiet(t)'
      BY <1>3, <1>7, <1>8, <2>1, QuietSame
    <3>7. t = timer' - 1
      BY <3>1, <3>3
    <3>8. timer' <= now' \/ Quiet(timer - 1)'
      BY <1>3, <3>1, <3>5, <3>6, <3>7
    <3> QED BY <1>2, <3>1, <3>2, <3>8 DEF HeldInv, FreeInv, Unlocked
  <2> QED BY <2>2, <2>3, <2>4
<1> QED BY <1>9, <1>10, <1>11

\* An arrival cleans up and lets the waiters go first. Where the timer is due
\* later, nothing has expired and the queue is as it was.
LEMMA ArrivalTimer ==
    ASSUME FlowInv, FlowInv', FreeInv, NEW c \in Calls, Acquire(c)
    PROVE  HeldInv' /\ FreeInv'
<1>1. /\ lk = Unlocked /\ ~ closed /\ cfg.enabled /\ Cleanup(queue)
      /\ Dispatch("acquire", c, {}, call)
      /\ UNCHANGED <<now, cfg, closed, opClosed, timer>>
    BY DEF Acquire, opVars
<1>2. lk'.kind = "acquire" /\ lk'.todo = queue' /\ queue' \subseteq queue
    BY <1>1 DEF Dispatch, Leave, Unlocked
<1>3. FreeInv'
    BY <1>2 DEF FreeInv, Unlocked
<1>4. Fresh' /\ \A e \in hist' : ret'[e.bucket] = ret[e.bucket]
    BY <1>1, CleanupFresh DEF Cleanup
<1>5. now \in Nat /\ timer \in Nat /\ conc \in [Buckets -> Nat] /\ ret \in [Buckets -> Nat]
    BY DEF FlowInv, RecInv, RestType, RetType
<1>6. active' = active /\ conc' = conc
  <2>1. active' = active \ {} /\ conc' = [b \in Buckets |->
            conc[b] - Cardinality({r \in {} : b \in mem[r]})]
    BY <1>1 DEF Cleanup, ReleaseAndCleanup
  <2>2. \A b \in Buckets : Cardinality({r \in {} : b \in mem[r]}) = 0
    <3>1. \A b \in Buckets : {r \in {} : b \in mem[r]} = {}
      OBVIOUS
    <3> QED BY <3>1, FS_EmptySet
  <2>3. \A b \in Buckets : conc'[b] = conc[b]
    BY <1>5, <2>1, <2>2
  <2>4. conc' \in [Buckets -> Nat]
    BY DEF FlowInv, RecInv
  <2> QED BY <1>5, <2>1, <2>3, <2>4
<1>7. ASSUME queue' # {}
      PROVE  timer' # 0 /\ (timer' <= now' + 1 \/ Quiet(timer - 1)')
  <2>1. /\ timer # 0 /\ (dispatchPending => timer <= now + 1)
        /\ timer <= now \/ dispatchPending \/ Quiet(timer - 1)
    BY <1>1, <1>2, <1>7 DEF FreeInv
  <2>2. CASE timer <= now + 1
    BY <1>1, <2>1, <2>2
  <2>3. CASE ~ (timer <= now + 1)
    <3>1. PICK t \in Nat : t = timer - 1
      BY <1>5, <2>1
    <3>2. Quiet(t) /\ now < t
      BY <1>5, <2>1, <2>3, <3>1
    <3>3. hist' = hist
      <4>1. ASSUME NEW e \in hist PROVE e.at > now - ret[e.bucket]
        <5>1. e.at \in Nat /\ e.bucket \in Buckets
          BY DEF FlowInv, RecInv, HistoryEvents
        <5>2. e.at > t - ret[e.bucket]
          BY <3>2 DEF Quiet
        <5> QED BY <1>5, <3>2, <5>1, <5>2
      <4>2. hist' = Live({e \in hist : e.rec \notin {}}, now)
        BY <1>1 DEF Cleanup, ReleaseAndCleanup
      <4> QED BY <4>1, <4>2 DEF Live
    <3>4. \A e \in hist : ret[e.bucket] <= ret'[e.bucket]
      <4>1. \A e \in hist : e.bucket \in Buckets
        BY DEF FlowInv, RecInv, HistoryEvents
      <4> QED BY <1>4, <1>5, <3>3, <4>1
    <3>5. Quiet(t)'
      BY <1>1, <1>2, <1>6, <3>2, <3>3, <3>4, QuietSame
    <3>6. t = timer' - 1
      BY <1>1, <3>1
    <3>7. Quiet(timer - 1)'
      BY <3>5, <3>6
    <3> QED BY <1>1, <2>1, <3>7
  <2> QED BY <2>2, <2>3
<1> QED BY <1>2, <1>3, <1>4, <1>7 DEF HeldInv

\* Available cleans up without setting the timer: where the timer is due later,
\* there is nothing to clean up.
LEMMA AvailableTimer ==
    ASSUME FlowInv, FlowInv', FreeInv, NEW c \in Calls, Available(c)
    PROVE  HeldInv' /\ FreeInv'
<1>1. /\ lk = Unlocked /\ hist' = Live(hist, now)
      /\ UNCHANGED <<now, cfg, closed, opClosed, active, conc, queue, timer,
                     dispatchPending, lk>>
    BY DEF Available, recVars, opVars, queueVars, timerVars
<1>2. HeldInv'
    BY <1>1 DEF HeldInv, Unlocked
<1>3. SUFFICES ASSUME ~ closed, cfg.enabled, queue # {}
               PROVE  /\ timer' # 0 /\ (dispatchPending' => timer' <= now' + 1)
                      /\ timer' <= now' \/ dispatchPending' \/ Quiet(timer - 1)'
    BY <1>1, <1>2 DEF FreeInv
<1>4. /\ timer # 0 /\ (dispatchPending => timer <= now + 1)
      /\ timer <= now \/ dispatchPending \/ Quiet(timer - 1)
    BY <1>1, <1>3 DEF FreeInv
<1>5. now \in Nat /\ timer \in Nat /\ ret \in [Buckets -> Nat]
    BY DEF FlowInv, RecInv, RestType, RetType
<1>6. PICK t \in Nat : t = timer - 1
    BY <1>4, <1>5
<1>7. ASSUME ~ (timer <= now), Quiet(t) PROVE Quiet(t)'
  <2>1. now <= t
    BY <1>5, <1>6, <1>7
  <2>2. ASSUME NEW e \in hist
        PROVE  e.at > now - ret[e.bucket] /\ e.bucket \in Buckets
    <3>1. e.at \in Nat /\ e.bucket \in Buckets
      BY DEF FlowInv, RecInv, HistoryEvents
    <3>2. e.at > t - ret[e.bucket]
      BY <1>7 DEF Quiet
    <3> QED BY <1>5, <2>1, <3>1, <3>2
  <2>3. hist' = hist
    BY <1>1, <2>2 DEF Live
  <2>4. ASSUME NEW e \in hist PROVE ret[e.bucket] <= ret'[e.bucket]
    <3> DEFINE b == e.bucket
    <3>1. b \in Buckets /\ HasEvent(hist', b)
      BY <2>2, <2>3 DEF HasEvent
    <3>2. ret'[b] = IF b \in Members(cfg, c) THEN Max({ret[b], retention(cfg, b)})
                    ELSE ret[b]
      BY <3>1 DEF Available
    <3>3. ret[b] <= Max({ret[b], retention(cfg, b)})
      BY <1>5, <3>1, RetentionType, PairMax DEF FlowInv, RecInv
    <3> QED BY <1>5, <3>1, <3>2, <3>3
  <2> QED BY <1>1, <1>7, <2>3, <2>4, QuietSame
<1>8. t = timer' - 1
    BY <1>1, <1>6
<1>9. Quiet(timer - 1) /\ ~ (timer <= now) => Quiet(timer - 1)'
    BY <1>6, <1>7, <1>8
<1> QED BY <1>1, <1>4, <1>9

\* Reloading cleans up with the old retentions and shortens none that is in use.
LEMMA UpdateTimer ==
    ASSUME FlowInv, FlowInv', NEW p \in Policies, Update(p)
    PROVE  HeldInv' /\ FreeInv'
<1>1. hist' = Live(hist, now) /\ now' = now /\ Dispatch("dispatch", NoOp, {}, call)
    BY DEF Update
<1>2. ASSUME NEW e \in hist'
      PROVE  e.at > now - ret[e.bucket] /\ ret[e.bucket] <= ret'[e.bucket]
  <2> DEFINE b == e.bucket
  <2>1. e \in hist /\ e.at > now - ret[b]
    BY <1>1 DEF Live
  <2>2. b \in Buckets /\ HasEvent(hist', b) /\ ret[b] \in Nat
    BY <2>1 DEF FlowInv, RecInv, RetType, HistoryEvents, HasEvent
  <2>3. ret'[b] = IF conc'[b] = 0 THEN ret[b] ELSE Max({ret[b], retention(p, b)})
    BY <2>2 DEF Update
  <2>4. ret[b] <= Max({ret[b], retention(p, b)})
    BY <2>2, RetentionType, PairMax
  <2> QED BY <2>1, <2>2, <2>3, <2>4
<1>3. hist' \subseteq hist
    BY <1>1 DEF Live
<1>4. Fresh'
    BY <1>1, <1>2, <1>3, FreshSame
<1> QED BY <1>1, <1>4, DispatchTimer

\* Nothing the timer depends on changes.
LEMMA SameTimer ==
    ASSUME FlowInv, FlowInv', HeldInv, FreeInv,
           UNCHANGED <<now, cfg, closed, active, conc, hist, ret, opClosed, queue, waiter,
                       timer, dispatchPending, lk>>
    PROVE  HeldInv' /\ FreeInv'
<1>1. RecInv /\ RecInv' /\ queue \subseteq Calls /\ timer \in Nat /\ ret \in [Buckets -> Nat]
    BY DEF FlowInv, WaitType, RestType, RetType
<1>2. Fresh => Fresh'
    BY DEF Fresh
<1>3. ASSUME NEW w \in queue, RefusedUntilCheck(w) PROVE RefusedUntilCheck(w)'
    BY <1>1, <1>3, UntilSame
<1>4. ASSUME timer # 0, Quiet(timer - 1) PROVE Quiet(timer - 1)'
  <2>1. PICK t \in Nat : t = timer - 1
    BY <1>1, <1>4
  <2>2. \A e \in hist : ret[e.bucket] <= ret'[e.bucket]
    BY <1>1 DEF RecInv, HistoryEvents
  <2>3. Quiet(t)'
    BY <1>4, <2>1, <2>2, QuietSame
  <2>4. t = timer' - 1
    BY <2>1
  <2> QED BY <2>3, <2>4
<1>5. HeldInv'
    BY <1>2, <1>3, <1>4 DEF HeldInv
<1>6. FreeInv'
    BY <1>4 DEF FreeInv
<1> QED BY <1>5, <1>6

\* Time passes: what is quiet until the timer is due stays so.
LEMMA TickTimer ==
    ASSUME FlowInv, FlowInv', FreeInv, Tick
    PROVE  HeldInv' /\ FreeInv'
<1>1. /\ lk' = Unlocked /\ lk = Unlocked /\ now' = now + 1
      /\ UNCHANGED <<cfg, closed, opClosed, active, conc, hist, ret, queue, timer,
                     dispatchPending>>
    BY DEF Tick, recVars, bucketVars, opVars, queueVars, timerVars
<1>2. HeldInv'
    BY <1>1 DEF HeldInv, Unlocked
<1>3. now \in Nat /\ timer \in Nat /\ ret \in [Buckets -> Nat]
      /\ \A e \in hist : e.bucket \in Buckets
    BY DEF FlowInv, RecInv, RestType, RetType, HistoryEvents
<1>4. ASSUME timer # 0, Quiet(timer - 1) PROVE Quiet(timer - 1)'
  <2>1. PICK t \in Nat : t = timer - 1
    BY <1>3, <1>4
  <2>2. \A e \in hist : ret[e.bucket] <= ret'[e.bucket]
    BY <1>1, <1>3
  <2>3. Quiet(t)'
    BY <1>1, <1>4, <2>1, <2>2, QuietSame
  <2>4. t = timer' - 1
    BY <1>1, <2>1
  <2> QED BY <2>3, <2>4
<1>5. timer <= now => timer' <= now'
    BY <1>1, <1>3
<1>6. timer <= now + 1 => timer' <= now' + 1
    BY <1>1, <1>3
<1>7. FreeInv'
    BY <1>1, <1>4, <1>5, <1>6 DEF FreeInv
<1> QED BY <1>2, <1>7

LEMMA TimerStep ==
    ASSUME FlowInv, TimerInv, [Next]_vars, [\A c \in Calls : CancelWait(c) => Fresh]_vars
    PROVE  TimerInv'
<1> USE DEF TimerInv
<1>1. FlowInv'
    BY FlowStep
<1>2. QueueOpen' /\ RequestEvents'
    BY OpenStep, EventsStep
<1> SUFFICES HeldInv' /\ FreeInv'
    BY <1>2
<1>3. ASSUME NEW w \in Calls, NEW k \in Keys,
             \/ TryCancelled(w, k) \/ TryUncontrolled(w, k)
             \/ TryAdmitted(w, k) \/ TryBlocked(w, k)
      PROVE  HeldInv' /\ FreeInv'
    BY <1>1, <1>3, TryTimer
<1>4. CASE DispatchEnd
    BY <1>1, <1>4, EndTimer
<1>5. ASSUME NEW c \in Calls, AcquireAdmitted(c) \/ AcquireRefused(c) \/ AcquireQueued(c)
      PROVE  HeldInv' /\ FreeInv'
    BY <1>1, <1>5, AcquireTimer
<1>6. ASSUME NEW c \in Calls, Acquire(c) PROVE HeldInv' /\ FreeInv'
    BY <1>1, <1>6, ArrivalTimer
<1>7. ASSUME NEW c \in Calls, AcquireUncontrolled(c) PROVE HeldInv' /\ FreeInv'
  <2>1. lk' = Unlocked /\ (closed' \/ ~ cfg'.enabled)
    BY <1>7 DEF AcquireUncontrolled
  <2> QED BY <2>1 DEF HeldInv, FreeInv, Unlocked
<1>8. ASSUME NEW c \in Calls, Resume(c) \/ CommitDispatch(c) \/ Cancel(c)
      PROVE  HeldInv' /\ FreeInv'
    BY <1>1, <1>8, SameTimer
    DEF Resume, CommitDispatch, Cancel, recVars, bucketVars, opVars, queueVars, timerVars
<1>9. ASSUME NEW gone, NEW refunded, NEW q, NEW c, NEW ws, NEW cl, now' = now,
             ReleaseAndCleanup(gone, refunded, q), Dispatch("dispatch", c, ws, cl)
      PROVE  HeldInv' /\ FreeInv'
    BY <1>1, <1>9, CleanupFresh, DispatchTimer
<1>10. ASSUME NEW c \in Calls, Release(c) \/ CancelBeforeDispatch(c)
       PROVE  HeldInv' /\ FreeInv'
    BY <1>9, <1>10 DEF Release, CancelBeforeDispatch, release
<1>11. ASSUME NEW o \in Ops, endOperation(o) PROVE HeldInv' /\ FreeInv'
    BY <1>9, <1>11 DEF endOperation
<1>12. CASE TimerFire
    BY <1>9, <1>12 DEF TimerFire, Cleanup
<1>13. ASSUME NEW p \in Policies, Update(p) PROVE HeldInv' /\ FreeInv'
    BY <1>1, <1>13, UpdateTimer
<1>14. ASSUME NEW c \in Calls, Available(c) PROVE HeldInv' /\ FreeInv'
    BY <1>1, <1>14, AvailableTimer
<1>15. ASSUME NEW c \in Calls, CancelWait(c) PROVE HeldInv' /\ FreeInv'
  <2>1. /\ Dispatch("dispatch", c, {c}, call) /\ lk = Unlocked
        /\ UNCHANGED <<now, hist, ret>>
    BY <1>15 DEF CancelWait, recVars, bucketVars
  <2>2. lk' # lk
    BY <2>1 DEF Dispatch, Unlocked
  <2>3. Fresh
    BY <1>15, <2>2 DEF vars
  <2>4. Fresh'
    BY <2>1, <2>3 DEF Fresh
  <2> QED BY <1>1, <2>1, <2>4, DispatchTimer
<1>16. CASE Close
  <2>1. lk' = Unlocked /\ closed'
    BY <1>16 DEF Close
  <2> QED BY <2>1 DEF HeldInv, FreeInv, Unlocked
<1>17. CASE Tick
    BY <1>1, <1>17, TickTimer
<1>18. CASE UNCHANGED vars
    BY <1>1, <1>18, SameTimer DEF vars, recVars, bucketVars, opVars, queueVars, timerVars
<1> QED BY <1>3, <1>4, <1>5, <1>6, <1>7, <1>8, <1>10, <1>11, <1>12, <1>13, <1>14,
           <1>15, <1>16, <1>17, <1>18 DEF Next, Engine
-----------------------------------------------------------------------------
\* Nobody is left waiting for what is there, whatever has been admitted, given
\* back, expired, cancelled or reloaded: whenever a queued call could be admitted
\* the timer is due or the rest of a batch is. The one thing that can break it is
\* a cancelled waiter that leaves the queue while an expired event is still in the
\* history (scheduleLocked, dispatchLocked, acquireWork).
THEOREM NobodyIsStranded == Spec /\ LeavesClean => []NoStrandedWaiter
<1>1. Init => TimerInv
    BY DEF Init, TimerInv, QueueOpen, RequestEvents, HeldInv, FreeInv, Unlocked
<1>2. FlowInv /\ TimerInv /\ [Next]_vars /\ [\A c \in Calls : CancelWait(c) => Fresh]_vars
        => TimerInv'
    BY TimerStep
<1>3. ASSUME FlowInv, TimerInv PROVE NoStrandedWaiter
  <2>1. SUFFICES ASSUME lk = Unlocked, ~ closed, cfg.enabled, NEW w \in Admissible,
                        ~ dispatchPending, ~ (timer # 0 /\ timer <= now)
                 PROVE  FALSE
    BY DEF NoStrandedWaiter
  <2>2. w \in queue /\ w \in Calls /\ queue # {}
    BY <1>3, <2>1 DEF Admissible, FlowInv, WaitType
  <2>3. timer # 0 /\ Quiet(timer - 1)
    BY <1>3, <2>1, <2>2 DEF TimerInv, FreeInv
  <2>4. now \in Nat /\ timer \in Nat /\ RecInv /\ ret \in [Buckets -> Nat]
    BY <1>3 DEF FlowInv, RecInv, RestType, RetType
  <2>5. PICK t \in Nat : t = timer - 1 /\ now <= t
    BY <2>1, <2>3, <2>4
  <2>6. Refused(w, now)
    BY <2>2, <2>3, <2>4, <2>5, RefusedBefore DEF Quiet
  <2>7. Live(hist, now) = hist
    <3>1. ASSUME NEW e \in hist PROVE e.at > now - ret[e.bucket]
      <4>1. e.at \in Nat /\ e.bucket \in Buckets
        BY <2>4 DEF RecInv, HistoryEvents
      <4>2. e.at > t - ret[e.bucket]
        BY <2>3, <2>5 DEF Quiet
      <4> QED BY <2>4, <2>5, <4>1, <4>2
    <3> QED BY <3>1 DEF Live
  <2>8. /\ \A r \in Needed(w) : ~ AtLimit(r)
        /\ \A r \in Needed(w) : \A b \in Members(cfg, r) : \A v \in cfg.windows[b] :
                Cardinality(Recent(b, now, v.period)) < v.requests
        /\ Cardinality(hist) + Cardinality(Events(Needed(w), 0)) <= cfg.maxHistory
    BY <2>1, <2>7 DEF Admissible
  <2>9. ASSUME NEW r \in Needed(w) PROVE ~ Blocked(r, now)
    <3>1. r \in Recs
      BY <2>2, <2>4, NeededFacts
    <3>2. ASSUME NEW x \in Exhausted(r, now) PROVE FALSE
      <4>1. /\ x[1] \in Members(cfg, r) /\ x[2] \in cfg.windows[x[1]]
            /\ x[2].requests \in Nat
            /\ Cardinality(Recent(x[1], now, x[2].period)) >= x[2].requests
        BY <2>4, <3>1, ExhaustedMeans
      <4>2. Cardinality(Recent(x[1], now, x[2].period)) < x[2].requests
        BY <2>8, <4>1
      <4>3. IsFiniteSet(Recent(x[1], now, x[2].period))
        BY <2>4, FS_Subset DEF Recent, RecInv
      <4>4. Cardinality(Recent(x[1], now, x[2].period)) \in Nat
        BY <4>3, FS_CardinalityType
      <4> QED BY <4>1, <4>2, <4>4
    <3> QED BY <2>8, <3>2 DEF Blocked
  <2>10. ~ NoRoom(Needed(w))
    <3>1. 0 \in 0..MaxTime /\ Needed(w) \in SUBSET Recs /\ IsFiniteSet(Needed(w))
      BY <2>2, <2>4, NeededFacts, FlowAssumption
    <3>2. IsFiniteSet(Events(Needed(w), 0)) /\ IsFiniteSet(hist)
      BY <2>4, <3>1, EventsFacts DEF RecInv
    <3>3. /\ Cardinality(Events(Needed(w), 0)) \in Nat /\ Cardinality(hist) \in Nat
          /\ cfg.maxHistory \in Nat
      BY <2>4, <3>2, FS_CardinalityType, PolicyFacts DEF RecInv
    <3> QED BY <2>8, <3>3 DEF NoRoom
  <2>11. ~ (OpOf[w] \in Ops /\ opClosed[OpOf[w]])
    BY <1>3, <2>2 DEF TimerInv, QueueOpen
  <2> QED BY <2>2, <2>4, <2>6, <2>9, <2>10, <2>11, GrantMeans DEF Refused
<1>4. FlowInv /\ TimerInv => NoStrandedWaiter
    BY <1>3
<1> QED BY <1>1, <1>2, <1>4, FlowInvAlways, PTL DEF Spec, LeavesClean

\* In particular nobody is stranded where no context ends: a waiter that is not
\* cancelled has no other way to give up (acquireWork).
THEOREM UncancelledAreServed ==
    ASSUME Cancelled = {}
    PROVE  Spec => []NoStrandedWaiter
<1> DEFINE None == ctxDone = {}
<1>1. Init => None
    BY DEF Init
<1>2. ASSUME None, [Next]_vars PROVE None'
  <2>1. ASSUME NEW w \in Calls, NEW k \in Keys,
               \/ TryCancelled(w, k) \/ TryUncontrolled(w, k)
               \/ TryAdmitted(w, k) \/ TryBlocked(w, k)
        PROVE  ctxDone' = ctxDone
    BY <2>1 DEF TryCancelled, TryUncontrolled, TryAdmitted, TryBlocked
  <2>2. ASSUME NEW c \in Calls,
               \/ AcquireAdmitted(c) \/ AcquireRefused(c) \/ AcquireQueued(c)
               \/ Acquire(c) \/ AcquireUncontrolled(c)
        PROVE  ctxDone' = ctxDone
    BY <2>2 DEF AcquireAdmitted, AcquireRefused, AcquireQueued, Acquire,
                AcquireUncontrolled
  <2>3. ASSUME NEW c \in Calls,
               \/ Resume(c) \/ CommitDispatch(c) \/ Release(c)
               \/ CancelBeforeDispatch(c) \/ CancelWait(c) \/ Available(c)
        PROVE  ctxDone' = ctxDone
    BY <2>3 DEF Resume, CommitDispatch, Release, CancelBeforeDispatch, release,
                CancelWait, Available
  <2>4. ASSUME NEW c \in Calls, Cancel(c) PROVE FALSE
    BY <2>4 DEF Cancel
  <2>5. ASSUME DispatchEnd \/ TimerFire \/ Close \/ Tick \/ UNCHANGED vars
        PROVE  ctxDone' = ctxDone
    BY <2>5 DEF DispatchEnd, TimerFire, Close, Tick, vars
  <2>6. ASSUME (\E o \in Ops : endOperation(o)) \/ (\E p \in Policies : Update(p))
        PROVE  ctxDone' = ctxDone
    BY <2>6 DEF endOperation, Update
  <2>7. ctxDone' = ctxDone
    BY <1>2, <2>1, <2>2, <2>3, <2>4, <2>5, <2>6 DEF Next, Engine
  <2> QED BY <1>2, <2>7
<1>3. None => [\A c \in Calls : CancelWait(c) => Fresh]_vars
    BY DEF CancelWait
<1>4. None /\ [Next]_vars => None'
    BY <1>2
<1> HIDE DEF None
<1> QED BY <1>1, <1>3, <1>4, NobodyIsStranded, PTL DEF Spec, LeavesClean
=============================================================================
