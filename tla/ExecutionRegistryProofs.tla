---------------------- MODULE ExecutionRegistryProofs ----------------------
(* Proofs about ExecutionRegistry, for every number of dispatches, groups,  *)
(* sinks and callers.                                                       *)
EXTENDS ExecutionRegistry, FiniteSetTheorems, TLAPS

USE BoundsAssumption, NilAssumption

LEMMA TypeInit == Init => TypeOK
<1> SUFFICES ASSUME Init PROVE TypeOK
    OBVIOUS
<1>1. TypeLife
    BY DEF Init, TypeLife, Ids, States, Owners, Resources
<1>2. TypeRelease
    BY DEF Init, TypeRelease, NoCapture, Capture, Delivery
<1>3. TypeCalls
    BY DEF Init, TypeCalls
<1>4. TypeBarrier
    BY DEF Init, TypeBarrier
<1> QED BY <1>1, <1>2, <1>3, <1>4 DEF TypeOK

LEMMA TypeLifeNext == TypeOK /\ [Next]_vars => TypeLife'
<1> SUFFICES ASSUME TypeOK, [Next]_vars PROVE TypeLife'
    OBVIOUS
<1>0. TypeLife
    BY DEF TypeOK
<1> USE <1>0 DEF TypeLife, Ids, States, Owners, Resources
<1>1. ASSUME NEW i \in Ids, OwnerNext(i) PROVE TypeLife'
    <2>1. CASE EndPending(i) \/ InstallRefused(i)
        BY <2>1 DEF EndPending, InstallRefused
    <2>2. ASSUME NEW g \in Groups \cup {Unaccounted}, Install(i, g)
          PROVE TypeLife'
        BY <2>2 DEF Install
    <2>3. CASE Bind(i)
        BY <2>3 DEF Bind
    <2>4. CASE EndDeactivate(i) \/ EndStartClose(i)
        BY <2>4 DEF EndDeactivate, EndStartClose, StartClose
    <2>5. CASE EndMarkReleased(i)
        BY <2>5 DEF EndMarkReleased, AfterMark
    <2>6. CASE EndDeliver(i) \/ EndRemove(i)
        BY <2>6 DEF EndDeliver, EndRemove
    <2> QED BY <1>1, <2>1, <2>2, <2>3, <2>4, <2>5, <2>6 DEF OwnerNext
<1>2. ASSUME NEW d \in Drainers, DrainNext(d) PROVE TypeLife'
    BY <1>2 DEF DrainNext, DrainBegin, DrainSnapshot, DrainStartClose,
       StartClose, DrainCheck, DrainTimeout, lifeVars
<1>3. ASSUME NEW c \in Closers, CloseNext(c) PROVE TypeLife'
    BY <1>3 DEF CloseNext, CloseBegin, CloseSeal, CloseSnapshot, StartClose,
       CloseStartOne, CloseAwaitOne, CloseFinish, CloseJoin, lifeVars
<1>4. CASE BeginDispatch
    BY <1>4 DEF BeginDispatch
<1>5. ASSUME NEW i \in Ids, CloseResource(i) PROVE TypeLife'
    BY <1>5 DEF CloseResource
<1>6. CASE UNCHANGED lifeVars
    BY <1>6 DEF lifeVars
<1> QED
    BY <1>1, <1>2, <1>3, <1>4, <1>5, <1>6
    DEF Next, vars, callVars, SetReleaseSink, Replay, WaitPendingCheck,
        WaitPendingTimeout, ObserveBarrier, FreezeInFlight

LEMMA TypeReleaseNext == TypeOK /\ [Next]_vars => TypeRelease'
<1> SUFFICES ASSUME TypeOK, [Next]_vars PROVE TypeRelease'
    OBVIOUS
<1>0. TypeRelease /\ group \in [Ids -> Groups \cup {Unaccounted}]
    BY DEF TypeOK, TypeLife
<1> USE <1>0 DEF TypeRelease
<1>1. ASSUME NEW i \in Ids, EndMarkReleased(i) PROVE TypeRelease'
    <2>1. relSeq' \in [Groups -> Nat]
        BY <1>1 DEF EndMarkReleased
    <2>2. captured' \in [Ids -> Capture]
        BY <1>1, <2>1 DEF EndMarkReleased, Capture
    <2> QED BY <1>1, <2>1, <2>2 DEF EndMarkReleased
<1>2. ASSUME NEW i \in Ids, EndDeliver(i) PROVE TypeRelease'
    <2>1. captured[i].sink \in Sinks \cup {NoSink} /\ captured[i].seq \in Nat
        BY DEF Capture
    <2>2. delivered' \in [Sinks -> [Groups -> Nat]]
        BY <1>2, <2>1 DEF EndDeliver, Receive
    <2> QED BY <1>2, <2>2 DEF EndDeliver
<1>3. ASSUME NEW s \in Sinks \cup {NoSink}, SetReleaseSink(s) PROVE TypeRelease'
    <2>1. s # NoSink => Sequences(s) \subseteq Delivery
        BY DEF Sequences, Delivery
    <2> QED BY <1>3, <2>1 DEF SetReleaseSink
<1>4. ASSUME NEW m \in replay, Replay(m) PROVE TypeRelease'
    <2>1. m.sink \in Sinks /\ m.group \in Groups /\ m.seq \in Nat
        BY DEF Delivery
    <2>2. delivered' \in [Sinks -> [Groups -> Nat]]
        BY <1>4, <2>1 DEF Replay, Receive
    <2> QED BY <1>4, <2>2 DEF Replay
<1>5. CASE UNCHANGED releaseVars
    BY <1>5 DEF releaseVars
<1> QED
    BY <1>1, <1>2, <1>3, <1>4, <1>5
    DEF Next, vars, callVars, BeginDispatch, OwnerNext, EndPending, Install,
        InstallRefused, Bind, EndDeactivate, EndStartClose, EndRemove,
        CloseResource, DrainNext, DrainBegin, DrainSnapshot, DrainStartClose,
        DrainCheck, DrainTimeout, WaitPendingCheck, WaitPendingTimeout,
        CloseNext, CloseBegin, CloseSeal, CloseSnapshot, CloseStartOne,
        CloseAwaitOne, CloseFinish, CloseJoin, ObserveBarrier, FreezeInFlight

LEMMA TypeCallsNext == TypeOK /\ [Next]_vars => TypeCalls'
<1> SUFFICES ASSUME TypeOK, [Next]_vars PROVE TypeCalls'
    OBVIOUS
<1>0. TypeCalls /\ scopes \subseteq Ids
    BY DEF TypeOK, scopes
<1> USE <1>0 DEF TypeCalls
<1>1. CASE signalLocked /\ UNCHANGED <<drainTodo, closeVars>>
    BY <1>1 DEF signalLocked, Wake, closeVars
<1>2. ASSUME NEW d \in Drainers, DrainNext(d) PROVE TypeCalls'
    <2>1. UNCHANGED <<waiter, closeVars>>
        BY <1>2 DEF DrainNext, DrainBegin, DrainSnapshot, DrainStartClose,
                    DrainCheck, DrainTimeout
    <2>2. drain' \in [Drainers -> {"idle", "snapshot", "closing", "blocked",
                               "woken", "done", "failed", "refused"}]
        BY <1>2 DEF DrainNext, DrainBegin, DrainSnapshot, DrainStartClose,
                    DrainCheck, DrainTimeout
    <2>3. drainTodo' \in [Drainers -> SUBSET Ids]
        BY <1>2 DEF DrainNext, DrainBegin, DrainSnapshot, DrainStartClose,
                    DrainCheck, DrainTimeout
    <2> QED BY <2>1, <2>2, <2>3 DEF closeVars
<1>3. ASSUME NEW w \in Waiters, WaitPendingCheck(w) \/ WaitPendingTimeout(w)
      PROVE TypeCalls'
    BY <1>3 DEF WaitPendingCheck, WaitPendingTimeout, drainVars, closeVars
<1>4. ASSUME NEW c \in Closers, CloseNext(c) PROVE TypeCalls'
    BY <1>4 DEF CloseNext, CloseBegin, CloseSeal, CloseSnapshot, CloseStartOne,
                CloseAwaitOne, CloseFinish, CloseJoin, drainVars
<1>5. CASE UNCHANGED callVars
    BY <1>5 DEF callVars, drainVars, closeVars
<1> QED
    BY <1>1, <1>2, <1>3, <1>4, <1>5
    DEF Next, vars, callVars, BeginDispatch, OwnerNext, EndPending, Install,
        InstallRefused, Bind, EndDeactivate, EndStartClose, EndMarkReleased,
        EndDeliver, EndRemove, CloseResource, SetReleaseSink, Replay,
        ObserveBarrier, FreezeInFlight

LEMMA TypeBarrierNext == TypeOK /\ [Next]_vars => TypeBarrier'
<1> SUFFICES ASSUME TypeOK, [Next]_vars PROVE TypeBarrier'
    OBVIOUS
<1>0. TypeBarrier /\ scopes \subseteq Ids /\ next \in 0..MaxDispatches
    BY DEF TypeOK, TypeLife, scopes
<1> USE <1>0 DEF TypeBarrier
<1>1. ASSUME NEW b \in 1..MaxBarrier, ObserveBarrier(b) PROVE TypeBarrier'
    BY <1>1 DEF ObserveBarrier, LastSequence
<1>2. CASE FreezeInFlight
    <2>1. freeze.revision + 1 \in Nat /\ freeze.barrier \in 0..MaxBarrier
        OBVIOUS
    <2> QED BY <1>2, <2>1 DEF FreezeInFlight
<1>3. CASE UNCHANGED barrierVars
    BY <1>3 DEF barrierVars
<1> QED
    BY <1>1, <1>2, <1>3
    DEF Next, vars, callVars, BeginDispatch, OwnerNext, EndPending, Install,
        InstallRefused, Bind, EndDeactivate, EndStartClose, EndMarkReleased,
        EndDeliver, EndRemove, CloseResource, SetReleaseSink, Replay,
        DrainNext, DrainBegin, DrainSnapshot, DrainStartClose, DrainCheck,
        DrainTimeout, WaitPendingCheck, WaitPendingTimeout, CloseNext,
        CloseBegin, CloseSeal, CloseSnapshot, CloseStartOne, CloseAwaitOne,
        CloseFinish, CloseJoin

\* Every state the registry reaches is well typed.
THEOREM TypeCorrect == Spec => []TypeOK
<1>1. TypeOK /\ [Next]_vars => TypeOK'
    BY TypeLifeNext, TypeReleaseNext, TypeCallsNext, TypeBarrierNext DEF TypeOK
<1> QED BY TypeInit, <1>1, PTL DEF Spec

-----------------------------------------------------------------------------
(* No lost wake-up. The invariant is inductive once typing is known: every  *)
(* section that takes an element out of `pending` or `scopes` for good also *)
(* signals, and Install only moves one from the first to the second.        *)

LEMMA SignalWakes ==
    TypeOK /\ signalLocked => NoLostWakeup'
<1> SUFFICES ASSUME TypeOK, signalLocked PROVE NoLostWakeup'
    OBVIOUS
<1>1. \A d \in Drainers : drain'[d] # "blocked"
    BY DEF TypeOK, TypeCalls, signalLocked, Wake
<1>2. \A w \in Waiters : waiter'[w] # "blocked"
    BY DEF TypeOK, TypeCalls, signalLocked, Wake
<1> QED BY <1>1, <1>2 DEF NoLostWakeup

\* A step that keeps the sleepers and takes nothing out of the maps.
LEMMA StaysAwake ==
    ASSUME NoLostWakeup, UNCHANGED <<drain, waiter>>,
           pending \subseteq pending', scopes \subseteq scopes'
    PROVE  NoLostWakeup'
BY DEF NoLostWakeup, NothingOpen

LEMMA NoLostWakeupNext ==
    TypeOK /\ NoLostWakeup /\ [Next]_vars => NoLostWakeup'
<1> SUFFICES ASSUME TypeOK, NoLostWakeup, [Next]_vars PROVE NoLostWakeup'
    OBVIOUS
<1>0. owner \in [Ids -> Owners] /\ next \in 0..MaxDispatches
    BY DEF TypeOK, TypeLife
<1>1. ASSUME UNCHANGED <<owner, drain, waiter>> PROVE NoLostWakeup'
    BY <1>1, StaysAwake DEF pending, scopes
<1>2. CASE BeginDispatch
    <2>1. next + 1 \in pending'
        BY <1>0, <1>2 DEF BeginDispatch, pending, Ids
    <2> QED BY <2>1 DEF NoLostWakeup, NothingOpen
<1>3. ASSUME NEW i \in Ids, OwnerNext(i) PROVE NoLostWakeup'
    <2>1. CASE signalLocked
        BY <2>1, SignalWakes
    <2>2. CASE EndDeactivate(i) \/ EndStartClose(i) \/ EndMarkReleased(i)
               \/ EndDeliver(i)
        <3>1. pending \subseteq pending' /\ scopes \subseteq scopes'
            BY <1>0, <2>2 DEF EndDeactivate, EndStartClose, EndMarkReleased,
               EndDeliver, AfterMark, pending, scopes, InScope, Owners
        <3> QED BY <2>2, <3>1, StaysAwake DEF EndDeactivate, EndStartClose,
                   EndMarkReleased, EndDeliver, callVars, drainVars
    <2>3. CASE Bind(i)
        BY <2>3, <1>1 DEF Bind, callVars, drainVars
    <2> QED BY <1>3, <2>1, <2>2, <2>3
            DEF OwnerNext, EndPending, Install, InstallRefused, EndRemove
<1>4. ASSUME NEW d \in Drainers, DrainNext(d) PROVE NoLostWakeup'
    <2>1. UNCHANGED <<owner, waiter>>
        BY <1>4 DEF DrainNext, DrainBegin, DrainSnapshot, DrainStartClose,
           DrainCheck, DrainTimeout, lifeVars
    <2>2. UNCHANGED <<pending, scopes>>
        BY <2>1 DEF pending, scopes
    <2>3. \A e \in Drainers :
            drain'[e] = "blocked" => drain[e] = "blocked" \/ ~ NothingOpen
        BY <1>4 DEF TypeOK, TypeCalls, DrainNext, DrainBegin, DrainSnapshot,
           DrainStartClose, DrainCheck, DrainTimeout
    <2> QED BY <2>1, <2>2, <2>3 DEF NoLostWakeup, NothingOpen
<1>5. ASSUME NEW w \in Waiters, WaitPendingCheck(w) \/ WaitPendingTimeout(w)
      PROVE NoLostWakeup'
    <2>1. UNCHANGED <<owner, drain>>
        BY <1>5 DEF WaitPendingCheck, WaitPendingTimeout, lifeVars, drainVars
    <2>2. UNCHANGED <<pending, scopes>>
        BY <2>1 DEF pending, scopes
    <2>3. \A v \in Waiters :
            waiter'[v] = "blocked" => waiter[v] = "blocked" \/ pending # {}
        BY <1>5 DEF TypeOK, TypeCalls, WaitPendingCheck, WaitPendingTimeout
    <2> QED BY <2>1, <2>2, <2>3 DEF NoLostWakeup, NothingOpen
<1>6. ASSUME NEW c \in Closers, CloseNext(c) PROVE NoLostWakeup'
    BY <1>1, <1>6 DEF CloseNext, CloseBegin, CloseSeal, CloseSnapshot,
       CloseStartOne, CloseAwaitOne, CloseFinish, CloseJoin, lifeVars, drainVars
<1> QED
    BY <1>1, <1>2, <1>3, <1>4, <1>5, <1>6
    DEF Next, vars, lifeVars, callVars, drainVars, CloseResource,
        SetReleaseSink, Replay, ObserveBarrier, FreezeInFlight

\* Whatever the number of callers, no Drain or WaitPending call sleeps on
\* `changed` after what it waits for is gone.
THEOREM WakeupsKept == Spec => []NoLostWakeup
<1>1. Init => NoLostWakeup
    BY DEF Init, NoLostWakeup
<1> QED BY <1>1, TypeCorrect, NoLostWakeupNext, PTL DEF Spec

-----------------------------------------------------------------------------
(* The life of a scope. What the counting and the draining below rest on:  *)
(* an id not given out yet is untouched, only a live scope holds a bound    *)
(* resource, and a scope is counted as released only behind its close.      *)

Unborn == \A i \in Ids : i > next => owner[i] = "none"

BoundLive == \A i \in Ids : res[i] = "bound" => owner[i] \in {"running", "ending"}

ReleasedSettled == \A i \in Ids : owner[i] \in Released => CloseSettled(i)

NoScopeNoResource ==
    \A i \in Ids : owner[i] \in {"none", "pending", "dropped"} => res[i] = "none"

LifeInv == Unborn /\ BoundLive /\ ReleasedSettled /\ NoScopeNoResource

\* Starting the close of a resource, whoever does it, keeps the invariant.
LEMMA StartCloseKeepsLife ==
    ASSUME TypeLife, LifeInv, NEW i \in Ids, StartClose(i),
           UNCHANGED <<next, owner>>
    PROVE  LifeInv'
BY DEF TypeLife, LifeInv, StartClose, Unborn, BoundLive, ReleasedSettled,
       NoScopeNoResource, CloseSettled, Resources, Released, Ids

LEMMA LifeInvNext == TypeOK /\ LifeInv /\ [Next]_vars => LifeInv'
<1> SUFFICES ASSUME TypeOK, LifeInv, [Next]_vars PROVE LifeInv'
    OBVIOUS
<1>0. TypeLife
    BY DEF TypeOK
<1>1. CASE UNCHANGED <<next, owner, res>>
    BY <1>1 DEF LifeInv, Unborn, BoundLive, ReleasedSettled, NoScopeNoResource,
                CloseSettled
<1>2. CASE BeginDispatch
    <2> USE <1>0, <1>2 DEF BeginDispatch, TypeLife, LifeInv, Ids
    <2>1. owner[next + 1] = "none" /\ next + 1 \in Ids
        BY DEF Unborn
    <2>2. Unborn'
        BY DEF Unborn
    <2>3. BoundLive' /\ NoScopeNoResource'
        BY <2>1 DEF BoundLive, NoScopeNoResource
    <2>4. ReleasedSettled'
        BY <2>1 DEF ReleasedSettled, Released, CloseSettled
    <2> QED BY <2>2, <2>3, <2>4
<1>3. ASSUME NEW i \in Ids, OwnerNext(i) PROVE LifeInv'
    <2> USE <1>0 DEF TypeLife, LifeInv, Unborn, BoundLive, ReleasedSettled,
            NoScopeNoResource, CloseSettled, Released, Ids
    <2>1. CASE EndPending(i) \/ InstallRefused(i)
        BY <2>1 DEF EndPending, InstallRefused
    <2>2. ASSUME NEW g \in Groups \cup {Unaccounted}, Install(i, g)
          PROVE LifeInv'
        BY <2>2 DEF Install
    <2>3. CASE Bind(i)
        BY <2>3 DEF Bind, BindAllowed
    <2>4. CASE EndDeactivate(i)
        BY <2>4 DEF EndDeactivate
    <2>5. CASE EndStartClose(i)
        BY <2>5 DEF EndStartClose, StartClose, Resources
    <2>6. CASE EndMarkReleased(i)
        BY <2>6 DEF EndMarkReleased, AfterMark
    <2>7. CASE EndDeliver(i)
        BY <2>7 DEF EndDeliver
    <2>8. CASE EndRemove(i)
        BY <2>8 DEF EndRemove
    <2> QED BY <1>3, <2>1, <2>2, <2>3, <2>4, <2>5, <2>6, <2>7, <2>8
            DEF OwnerNext
<1>4. ASSUME NEW i \in Ids, CloseResource(i) PROVE LifeInv'
    BY <1>0, <1>4 DEF CloseResource, TypeLife, LifeInv, Unborn, BoundLive,
       ReleasedSettled, NoScopeNoResource, CloseSettled, Released, Resources, Ids
<1>5. ASSUME NEW d \in Drainers, DrainNext(d) PROVE LifeInv'
    BY <1>0, <1>1, <1>5, StartCloseKeepsLife
    DEF DrainNext, DrainBegin, DrainSnapshot, DrainStartClose, DrainCheck,
        DrainTimeout, lifeVars
<1>6. ASSUME NEW c \in Closers, CloseNext(c) PROVE LifeInv'
    BY <1>0, <1>1, <1>6, StartCloseKeepsLife
    DEF CloseNext, CloseBegin, CloseSeal, CloseSnapshot, CloseStartOne,
        CloseAwaitOne, CloseFinish, CloseJoin, lifeVars
<1> QED
    BY <1>1, <1>2, <1>3, <1>4, <1>5, <1>6
    DEF Next, vars, lifeVars, SetReleaseSink, Replay, WaitPendingCheck,
        WaitPendingTimeout, ObserveBarrier, FreezeInFlight

LEMMA LifeCorrect == Spec => []LifeInv
<1>1. Init => LifeInv
    BY DEF Init, LifeInv, Unborn, BoundLive, ReleasedSettled,
           NoScopeNoResource, Released, Ids
<1> QED BY <1>1, TypeCorrect, LifeInvNext, PTL DEF Spec

-----------------------------------------------------------------------------
(* Drain reaches every resource. A Drain call is followed from its snapshot *)
(* on: the registry no longer accepts, so Install and Bind are refused, and *)
(* what was bound when the snapshot was taken belongs to a listed scope.    *)

\* A Drain call that has begun leaves the registry refusing Install and Bind.
DrainStops ==
    \A d \in Drainers : drain[d] # "idle" => state # "accepting"

Past == {"closing", "blocked", "woken", "failed", "done"}

\* Behind its snapshot a Drain call has every bound resource on its list.
DrainListsBound ==
    \A d \in Drainers : drain[d] \in Past =>
        \A i \in Ids : res[i] = "bound" =>
            drain[d] = "closing" /\ i \in drainTodo[d]

LEMMA DrainStopsNext == TypeOK /\ DrainStops /\ [Next]_vars => DrainStops'
<1> SUFFICES ASSUME TypeOK, DrainStops, [Next]_vars PROVE DrainStops'
    OBVIOUS
<1>0. drain \in [Drainers -> {"idle", "snapshot", "closing", "blocked",
                              "woken", "done", "failed", "refused"}]
    BY DEF TypeOK, TypeCalls
<1>1. CASE UNCHANGED <<state, drain>>
    BY <1>1 DEF DrainStops
<1>2. CASE UNCHANGED state /\ signalLocked
    BY <1>0, <1>2 DEF DrainStops, signalLocked, Wake
<1>3. ASSUME NEW d \in Drainers, DrainNext(d) PROVE DrainStops'
    BY <1>0, <1>3 DEF DrainStops, DrainNext, DrainBegin, DrainSnapshot,
       DrainStartClose, DrainCheck, DrainTimeout, lifeVars
<1>4. ASSUME NEW c \in Closers, CloseNext(c) PROVE DrainStops'
    BY <1>1, <1>4 DEF DrainStops, CloseNext, CloseBegin, CloseSeal,
       CloseSnapshot, CloseStartOne, CloseAwaitOne, CloseFinish, CloseJoin,
       lifeVars, drainVars
<1> QED
    BY <1>1, <1>2, <1>3, <1>4
    DEF Next, vars, lifeVars, callVars, drainVars, BeginDispatch, OwnerNext,
        EndPending, Install, InstallRefused, Bind, EndDeactivate,
        EndStartClose, EndMarkReleased, EndDeliver, EndRemove, CloseResource,
        SetReleaseSink, Replay, WaitPendingCheck, WaitPendingTimeout,
        ObserveBarrier, FreezeInFlight

\* A step that binds nothing and keeps where every Drain call is.
LEMMA NothingBound ==
    ASSUME TypeOK, DrainListsBound, UNCHANGED drainTodo,
           UNCHANGED drain \/ signalLocked,
           \A i \in Ids : res'[i] = "bound" => res[i] = "bound"
    PROVE  DrainListsBound'
BY DEF TypeOK, TypeCalls, DrainListsBound, signalLocked, Wake, Past

LEMMA DrainListsBoundNext ==
    TypeOK /\ LifeInv /\ DrainStops /\ DrainListsBound /\ [Next]_vars
        => DrainListsBound'
<1> SUFFICES ASSUME TypeOK, LifeInv, DrainStops, DrainListsBound, [Next]_vars
             PROVE DrainListsBound'
    OBVIOUS
<1>0. /\ res \in [Ids -> Resources]
      /\ drain \in [Drainers -> {"idle", "snapshot", "closing", "blocked",
                                 "woken", "done", "failed", "refused"}]
      /\ drainTodo \in [Drainers -> SUBSET Ids]
    BY DEF TypeOK, TypeLife, TypeCalls
<1>1. ASSUME NEW i \in Ids, Bind(i) PROVE DrainListsBound'
    <2>1. \A d \in Drainers : drain[d] = "idle"
        BY <1>1 DEF Bind, BindAllowed, DrainStops
    <2> QED BY <1>1, <2>1 DEF Bind, callVars, drainVars, DrainListsBound, Past
<1>2. ASSUME NEW d \in Drainers, DrainNext(d) PROVE DrainListsBound'
    <2>1. CASE DrainBegin(d)
        BY <1>0, <2>1 DEF DrainBegin, DrainListsBound, Past
    <2>2. CASE DrainSnapshot(d)
        <3>1. \A i \in Ids : res[i] = "bound" => i \in scopes
            BY DEF LifeInv, BoundLive, scopes, InScope
        <3> QED BY <1>0, <2>2, <3>1
                DEF DrainSnapshot, lifeVars, DrainListsBound, Past
    <2>3. ASSUME NEW i \in Ids, DrainStartClose(d, i) PROVE DrainListsBound'
        BY <1>0, <2>3 DEF DrainStartClose, StartClose, DrainListsBound, Past
    <2>4. CASE DrainCheck(d)
        BY <1>0, <2>4 DEF DrainCheck, DrainListsBound, Past
    <2>5. CASE DrainTimeout(d)
        BY <1>0, <2>5 DEF DrainTimeout, lifeVars, DrainListsBound, Past
    <2> QED BY <1>2, <2>1, <2>2, <2>3, <2>4, <2>5 DEF DrainNext
<1>3. ASSUME NEW i \in Ids, CloseResource(i) PROVE DrainListsBound'
    BY <1>0, <1>3, NothingBound DEF CloseResource, callVars, drainVars
<1>4. ASSUME NEW i \in Ids, StartClose(i), UNCHANGED <<drain, drainTodo>>
      PROVE DrainListsBound'
    BY <1>0, <1>4, NothingBound DEF StartClose
<1>5. CASE UNCHANGED <<res, drainTodo>> /\ (UNCHANGED drain \/ signalLocked)
    BY <1>5, NothingBound
<1>6. ASSUME NEW c \in Closers, CloseNext(c) PROVE DrainListsBound'
    BY <1>4, <1>5, <1>6
    DEF CloseNext, CloseBegin, CloseSeal, CloseSnapshot, CloseStartOne,
        CloseAwaitOne, CloseFinish, CloseJoin, lifeVars, drainVars
<1> QED
    BY <1>1, <1>2, <1>3, <1>4, <1>5, <1>6
    DEF Next, vars, lifeVars, callVars, drainVars, BeginDispatch, OwnerNext,
        EndPending, Install, InstallRefused, EndDeactivate, EndStartClose,
        EndMarkReleased, EndDeliver, EndRemove, SetReleaseSink, Replay,
        WaitPendingCheck, WaitPendingTimeout, ObserveBarrier, FreezeInFlight

\* Once a Drain call has gone through its snapshot no resource is left that
\* is bound and whose close was not started, and Bind adds none.
THEOREM DrainComplete == Spec => []DrainReachesEveryResource
<1>1. Init => DrainStops /\ DrainListsBound
    BY DEF Init, DrainStops, DrainListsBound, Past
<1>2. DrainListsBound => DrainReachesEveryResource
    BY DEF DrainListsBound, DrainReachesEveryResource, Past
<1> QED BY <1>1, <1>2, TypeCorrect, LifeCorrect, DrainStopsNext,
           DrainListsBoundNext, PTL DEF Spec

-----------------------------------------------------------------------------
(* Drained means idle. The registry is closed and both maps are empty, so   *)
(* no action of an owner is enabled; LifeInv turns this into the statement  *)
(* about the resources.                                                     *)

Drained ==
    \A d \in Drainers :
        drain[d] = "done" => state = "closed" /\ pending = {} /\ scopes = {}

LEMMA DrainedNext == TypeOK /\ Drained /\ [Next]_vars => Drained'
<1> SUFFICES ASSUME TypeOK, Drained, [Next]_vars PROVE Drained'
    OBVIOUS
<1>0. drain \in [Drainers -> {"idle", "snapshot", "closing", "blocked",
                              "woken", "done", "failed", "refused"}]
    BY DEF TypeOK, TypeCalls
<1>1. ASSUME state' = state \/ state' = "closed", UNCHANGED <<owner, drain>>
      PROVE Drained'
    BY <1>1 DEF Drained, pending, scopes
<1>2. ASSUME \A d \in Drainers : drain[d] # "done",
             UNCHANGED drain \/ signalLocked
      PROVE Drained'
    BY <1>0, <1>2 DEF Drained, signalLocked, Wake
<1>3. CASE BeginDispatch
    BY <1>2, <1>3 DEF BeginDispatch, Drained, callVars, drainVars
<1>4. ASSUME NEW i \in Ids, OwnerNext(i) PROVE Drained'
    <2>1. i \in pending \cup scopes
        BY <1>4 DEF OwnerNext, EndPending, Install, InstallRefused, Bind,
           BindAllowed, EndDeactivate, EndStartClose, EndMarkReleased,
           EndDeliver, EndRemove, pending, scopes, InScope
    <2>2. UNCHANGED drain \/ signalLocked
        BY <1>4 DEF OwnerNext, EndPending, Install, InstallRefused, Bind,
           EndDeactivate, EndStartClose, EndMarkReleased, EndDeliver,
           EndRemove, callVars, drainVars
    <2> QED BY <1>2, <2>1, <2>2 DEF Drained
<1>5. ASSUME NEW d \in Drainers, DrainNext(d) PROVE Drained'
    <2>1. UNCHANGED <<owner, pending, scopes>>
        BY <1>5 DEF DrainNext, DrainBegin, DrainSnapshot, DrainStartClose,
           DrainCheck, DrainTimeout, lifeVars, pending, scopes
    <2>2. state = "closed" => state' = "closed"
        BY <1>5 DEF DrainNext, DrainBegin, DrainSnapshot, DrainStartClose,
           DrainCheck, DrainTimeout, lifeVars
    <2>3. \A e \in Drainers :
            drain'[e] = "done" =>
                drain[e] = "done" \/ (NothingOpen /\ state' = "closed")
        BY <1>0, <1>5 DEF DrainNext, DrainBegin, DrainSnapshot,
           DrainStartClose, DrainCheck, DrainTimeout
    <2> QED BY <2>1, <2>2, <2>3 DEF Drained, NothingOpen
<1>6. ASSUME NEW c \in Closers, CloseNext(c) PROVE Drained'
    BY <1>1, <1>6 DEF CloseNext, CloseBegin, CloseSeal, CloseSnapshot,
       CloseStartOne, CloseAwaitOne, CloseFinish, CloseJoin, lifeVars, drainVars
<1> QED
    BY <1>1, <1>3, <1>4, <1>5, <1>6
    DEF Next, vars, lifeVars, callVars, drainVars, CloseResource,
        SetReleaseSink, Replay, WaitPendingCheck, WaitPendingTimeout,
        ObserveBarrier, FreezeInFlight

\* Drain returns nil only from an idle registry whose resources are closed,
\* and the registry stays so.
THEOREM DrainLeavesIdle == Spec => []DrainedMeansIdle
<1>1. Init => Drained
    BY DEF Init, Drained
<1>2. TypeOK /\ LifeInv /\ Drained => DrainedMeansIdle
    <2> SUFFICES ASSUME TypeOK, LifeInv, pending = {}, scopes = {}
                 PROVE  \A i \in Ids : CloseSettled(i)
        BY DEF Drained, DrainedMeansIdle
    <2>1. \A i \in Ids : owner[i] \in {"none", "dropped", "ended"}
        BY DEF TypeOK, TypeLife, Owners, pending, scopes, InScope
    <2> QED BY <2>1 DEF LifeInv, ReleasedSettled, NoScopeNoResource, Released,
                        CloseSettled
<1> QED BY <1>1, <1>2, TypeCorrect, LifeCorrect, DrainedNext, PTL DEF Spec

-----------------------------------------------------------------------------
(* Closed means that the resources are closed. Only Close and Drain set the *)
(* state to closed, and Drain only when both maps are empty: a Close call   *)
(* that finds the registry closed and no other Close call begun has nothing *)
(* to wait for. The one that runs the loop has every unsettled resource on  *)
(* its list, since what is not settled belongs to a scope.                  *)

\* A registry that no Close call has touched was closed by Drain.
ClosedByDrain ==
    closePhase = "open" /\ state = "closed" => pending = {} /\ scopes = {}

\* Behind its compare-and-swap a Close call finds Bind refused.
CloseStops ==
    /\ closePhase = "finished" => state = "closed"
    /\ \A c \in Closers : closer[c] \in {"snapshot", "closing", "done"} => state = "closed"
    /\ \A c \in Closers : closer[c] \in {"sealing", "snapshot", "closing"} => closePhase # "open"

\* The closing loop has every resource on its list that is not settled yet.
CloseListsUnsettled ==
    \A c \in Closers : closer[c] = "closing" =>
        \A i \in Ids : CloseSettled(i) \/ i \in closeTodo

\* Whoever returns, or lets others return, leaves settled resources.
CloseOver ==
    closePhase = "finished" \/ (\E c \in Closers : closer[c] = "done") =>
        \A i \in Ids : CloseSettled(i)

CloseInv == ClosedByDrain /\ CloseStops /\ CloseListsUnsettled /\ CloseOver

\* What is not settled belongs to a scope.
LEMMA UnsettledInScope ==
    ASSUME TypeOK, LifeInv, NEW i \in Ids, ~ CloseSettled(i)
    PROVE  i \in scopes
BY DEF TypeOK, TypeLife, Owners, LifeInv, ReleasedSettled, NoScopeNoResource, Released,
       InScope, scopes, CloseSettled

\* A step that unsettles nothing and leaves the Close calls where they are.
LEMMA CloseKept ==
    ASSUME CloseInv, UNCHANGED <<closer, closePhase, closeTodo>>,
           \A i \in Ids : CloseSettled(i) => CloseSettled(i)',
           state = "closed" => state' = "closed",
           closePhase = "open" /\ state' = "closed" => pending' = {} /\ scopes' = {}
    PROVE  CloseInv'
BY DEF CloseInv, ClosedByDrain, CloseStops, CloseListsUnsettled, CloseOver

\* Starting to close a resource settles and unsettles nothing.
LEMMA StartCloseSettles ==
    ASSUME TypeOK, NEW i \in Ids, StartClose(i)
    PROVE  \A j \in Ids : CloseSettled(j) => CloseSettled(j)'
BY DEF TypeOK, TypeLife, StartClose, CloseSettled

\* Every step keeps the invariant of Close.
LEMMA CloseInvNext == TypeOK /\ LifeInv /\ CloseInv /\ [Next]_vars => CloseInv'
<1> SUFFICES ASSUME TypeOK, LifeInv, CloseInv, [Next]_vars PROVE CloseInv'
    OBVIOUS
<1>0. /\ owner \in [Ids -> Owners] /\ res \in [Ids -> Resources] /\ state \in States
      /\ closer \in [Closers -> {"idle", "joining", "sealing", "snapshot", "closing", "done"}]
    BY DEF TypeOK, TypeLife, TypeCalls
<1>1. ASSUME UNCHANGED <<state, owner, res, closer, closePhase, closeTodo>> PROVE CloseInv'
    BY <1>1, CloseKept DEF CloseSettled, CloseInv, ClosedByDrain, pending, scopes
<1>2. CASE BeginDispatch
    BY <1>2, CloseKept DEF BeginDispatch, CloseSettled, callVars, closeVars
<1>3. ASSUME NEW i \in Ids, OwnerNext(i) PROVE CloseInv'
    <2>1. i \in pending \cup scopes /\ UNCHANGED <<state, closer, closePhase, closeTodo>>
        BY <1>3 DEF OwnerNext, EndPending, Install, InstallRefused, Bind, BindAllowed,
           EndDeactivate, EndStartClose, EndMarkReleased, EndDeliver, EndRemove, pending,
           scopes, InScope, callVars, closeVars
    <2>2. ~(closePhase = "open" /\ state = "closed")
        BY <2>1 DEF CloseInv, ClosedByDrain
    <2>3. CASE Bind(i)
        <3>1. state = "accepting"
            BY <2>3 DEF Bind, BindAllowed
        <3> QED BY <2>1, <3>1
                DEF CloseInv, ClosedByDrain, CloseStops, CloseListsUnsettled, CloseOver
    <2>4. CASE ~ Bind(i)
        <3>1. UNCHANGED res \/ StartClose(i)
            BY <1>3, <2>4 DEF OwnerNext, EndPending, Install, InstallRefused,
               EndDeactivate, EndStartClose, EndMarkReleased, EndDeliver, EndRemove
        <3>2. \A j \in Ids : CloseSettled(j) => CloseSettled(j)'
            BY <3>1, StartCloseSettles DEF CloseSettled
        <3> QED BY <2>1, <2>2, <3>2, CloseKept
    <2> QED BY <2>3, <2>4
<1>4. ASSUME NEW i \in Ids, CloseResource(i) PROVE CloseInv'
    <2>1. \A j \in Ids : CloseSettled(j) => CloseSettled(j)'
        BY <1>0, <1>4 DEF CloseResource, CloseSettled
    <2> QED BY <1>4, <2>1, CloseKept DEF CloseResource, callVars, closeVars, CloseInv,
               ClosedByDrain, pending, scopes
<1>5. ASSUME NEW d \in Drainers, DrainNext(d) PROVE CloseInv'
    <2>1. UNCHANGED <<owner, pending, scopes, closer, closePhase, closeTodo>>
        BY <1>5 DEF DrainNext, DrainBegin, DrainSnapshot, DrainStartClose, DrainCheck,
           DrainTimeout, lifeVars, closeVars, pending, scopes
    <2>2. /\ state = "closed" => state' = "closed"
          /\ state' = "closed" => state = "closed" \/ NothingOpen
        BY <1>5 DEF DrainNext, DrainBegin, DrainSnapshot, DrainStartClose, DrainCheck,
           DrainTimeout, lifeVars
    <2>3. \A j \in Ids : CloseSettled(j) => CloseSettled(j)'
        <3>1. UNCHANGED res \/ \E i \in Ids : StartClose(i)
            BY <1>5 DEF DrainNext, DrainBegin, DrainSnapshot, DrainStartClose, DrainCheck,
               DrainTimeout, lifeVars
        <3> QED BY <3>1, StartCloseSettles DEF CloseSettled
    <2> QED BY <2>1, <2>2, <2>3, CloseKept DEF CloseInv, ClosedByDrain, NothingOpen
<1>6. ASSUME NEW c \in Closers, CloseNext(c) PROVE CloseInv'
    <2>1. CASE CloseBegin(c)
        <3>1. /\ UNCHANGED <<state, owner, res, closeTodo>>
              /\ closePhase' = IF closePhase = "open" /\ state # "closed"
                               THEN "started" ELSE closePhase
              /\ \A e \in Closers : e # c => closer'[e] = closer[e]
              /\ closer'[c] = IF closePhase # "open" THEN "joining"
                              ELSE IF state = "closed" THEN "done" ELSE "sealing"
            BY <1>0, <2>1 DEF CloseBegin, lifeVars
        <3>2. closePhase = "open" /\ state = "closed" => \A i \in Ids : CloseSettled(i)
            BY UnsettledInScope DEF CloseInv, ClosedByDrain
        <3>3. ClosedByDrain' /\ CloseStops'
            BY <3>1 DEF CloseInv, ClosedByDrain, CloseStops, pending, scopes
        <3>4. CloseListsUnsettled' /\ CloseOver'
            BY <3>1, <3>2 DEF CloseInv, CloseListsUnsettled, CloseOver, CloseSettled
        <3> QED BY <3>3, <3>4 DEF CloseInv
    <2>2. CASE CloseSeal(c)
        <3>1. /\ closePhase # "open" /\ state' = "closed"
              /\ UNCHANGED <<owner, res, closePhase, closeTodo>>
              /\ closer' = [closer EXCEPT ![c] = "snapshot"]
            BY <2>2 DEF CloseSeal, CloseInv, CloseStops
        <3> QED BY <1>0, <3>1 DEF CloseInv, ClosedByDrain, CloseStops,
                   CloseListsUnsettled, CloseOver, CloseSettled, pending, scopes
    <2>3. CASE CloseSnapshot(c)
        <3>1. /\ UNCHANGED <<state, owner, res, closePhase>> /\ closeTodo' = scopes
              /\ closer[c] = "snapshot" /\ closer' = [closer EXCEPT ![c] = "closing"]
            BY <2>3 DEF CloseSnapshot, lifeVars
        <3>2. \A i \in Ids : CloseSettled(i) \/ i \in scopes
            BY UnsettledInScope
        <3> QED BY <1>0, <3>1, <3>2 DEF CloseInv, ClosedByDrain, CloseStops,
                   CloseListsUnsettled, CloseOver, CloseSettled, pending, scopes
    <2>4. ASSUME NEW i \in Ids, CloseStartOne(c, i) PROVE CloseInv'
        <3>1. \A j \in Ids : CloseSettled(j) => CloseSettled(j)'
            BY <2>4, StartCloseSettles DEF CloseStartOne
        <3> QED BY <2>4, <3>1, CloseKept DEF CloseStartOne, CloseInv, ClosedByDrain,
                   pending, scopes
    <2>5. CASE CloseAwaitOne(c)
        <3>1. /\ UNCHANGED <<state, owner, res, closer, closePhase>>
              /\ CloseSettled(closeCur) /\ closeTodo' = closeTodo \ {closeCur}
            BY <2>5 DEF CloseAwaitOne, lifeVars
        <3> QED BY <3>1 DEF CloseInv, ClosedByDrain, CloseStops, CloseListsUnsettled,
                   CloseOver, CloseSettled, pending, scopes
    <2>6. CASE CloseFinish(c)
        <3>1. \A i \in Ids : CloseSettled(i)
            BY <2>6 DEF CloseFinish, CloseInv, CloseListsUnsettled
        <3>2. state = "closed" /\ UNCHANGED <<state, owner, res, closeTodo>>
              /\ closer' = [closer EXCEPT ![c] = "done"] /\ closePhase' = "finished"
            BY <2>6 DEF CloseFinish, lifeVars, CloseInv, CloseStops
        <3> QED BY <1>0, <3>1, <3>2 DEF CloseInv, ClosedByDrain, CloseStops,
                   CloseListsUnsettled, CloseOver, CloseSettled, pending, scopes
    <2>7. CASE CloseJoin(c)
        <3>1. /\ UNCHANGED <<state, owner, res, closePhase, closeTodo>>
              /\ closePhase = "finished" /\ closer' = [closer EXCEPT ![c] = "done"]
            BY <2>7 DEF CloseJoin, lifeVars
        <3> QED BY <1>0, <3>1 DEF CloseInv, ClosedByDrain, CloseStops,
                   CloseListsUnsettled, CloseOver, CloseSettled, pending, scopes
    <2> QED BY <1>6, <2>1, <2>2, <2>3, <2>4, <2>5, <2>6, <2>7 DEF CloseNext
<1> QED
    BY <1>1, <1>2, <1>3, <1>4, <1>5, <1>6
    DEF Next, vars, lifeVars, callVars, closeVars, SetReleaseSink, Replay,
        WaitPendingCheck, WaitPendingTimeout, ObserveBarrier, FreezeInFlight

\* When any Close call returns, the first, a concurrent one or one that finds
\* the registry drained, every resource ever bound has finished closing.
THEOREM CloseSettlesResources == Spec => []ClosedMeansResourcesClosed
<1>1. Init => CloseInv
    BY DEF Init, CloseInv, ClosedByDrain, CloseStops, CloseListsUnsettled, CloseOver
<1>2. CloseInv => ClosedMeansResourcesClosed
    BY DEF CloseInv, CloseOver, ClosedMeansResourcesClosed, CloseSettled
<1> QED BY <1>1, <1>2, TypeCorrect, LifeCorrect, CloseInvNext, PTL DEF Spec

-----------------------------------------------------------------------------
(* Releases are counted once and never early. relSeq counts the scopes that *)
(* passed markReleasedLocked, which is behind the close of their resource;  *)
(* every number on its way to a sink was read from relSeq.                  *)

\* What EndDeliver and Replay are about to deliver was counted, and so was
\* what the sinks know.
DeliveriesCounted ==
    /\ \A i \in Ids : owner[i] = "delivering" =>
            /\ group[i] \in Groups /\ captured[i].sink \in Sinks
            /\ captured[i].seq <= relSeq[group[i]]
    /\ \A m \in replay : m.seq <= relSeq[m.group]
    /\ \A s \in Sinks, g \in Groups : delivered[s][g] <= relSeq[g]

LEMMA ReleasedFinite == \A g : IsFiniteSet(ReleasedIn(g))
<1>1. IsFiniteSet(Ids)
    BY FS_Interval DEF Ids
<1> QED BY <1>1, FS_Subset DEF ReleasedIn

LEMMA ReleaseCountedOnceNext ==
    TypeOK /\ LifeInv /\ ReleaseCountedOnce /\ [Next]_vars
        => ReleaseCountedOnce'
<1> SUFFICES ASSUME TypeOK, LifeInv, ReleaseCountedOnce, [Next]_vars
             PROVE ReleaseCountedOnce'
    OBVIOUS
<1>0. /\ owner \in [Ids -> Owners] /\ next \in 0..MaxDispatches
      /\ group \in [Ids -> Groups \cup {Unaccounted}]
      /\ relSeq \in [Groups -> Nat]
    BY DEF TypeOK, TypeLife, TypeRelease
<1>1. ASSUME UNCHANGED relSeq,
             \A g \in Groups : ReleasedIn(g)' = ReleasedIn(g)
      PROVE ReleaseCountedOnce'
    BY <1>1 DEF ReleaseCountedOnce
<1>2. CASE UNCHANGED <<owner, group, relSeq>>
    BY <1>1, <1>2 DEF ReleasedIn
<1>3. CASE BeginDispatch
    <2>1. owner[next + 1] = "none" /\ next + 1 \in Ids
        BY <1>0, <1>3 DEF BeginDispatch, LifeInv, Unborn, Ids
    <2>2. \A g \in Groups : ReleasedIn(g)' = ReleasedIn(g)
        BY <1>0, <1>3, <2>1 DEF BeginDispatch, ReleasedIn, Released
    <2> QED BY <1>1, <1>3, <2>2 DEF BeginDispatch, releaseVars
<1>4. ASSUME NEW i \in Ids, OwnerNext(i) PROVE ReleaseCountedOnce'
    <2>1. CASE EndPending(i) \/ InstallRefused(i) \/ EndDeactivate(i)
               \/ EndStartClose(i) \/ EndDeliver(i) \/ EndRemove(i)
        <3>1. UNCHANGED <<relSeq, group>>
            BY <2>1 DEF EndPending, InstallRefused, EndDeactivate,
               EndStartClose, EndDeliver, EndRemove, releaseVars
        <3>2. /\ \A j \in Ids : j # i => owner'[j] = owner[j]
              /\ owner'[i] \in Released <=> owner[i] \in Released
            BY <1>0, <2>1 DEF EndPending, InstallRefused, EndDeactivate,
               EndStartClose, EndDeliver, EndRemove, Released
        <3>3. \A g \in Groups : ReleasedIn(g)' = ReleasedIn(g)
            BY <3>1, <3>2 DEF ReleasedIn
        <3> QED BY <1>1, <3>1, <3>3
    <2>2. ASSUME NEW g \in Groups \cup {Unaccounted}, Install(i, g)
          PROVE ReleaseCountedOnce'
        <3>1. \A h \in Groups : ReleasedIn(h)' = ReleasedIn(h)
            BY <1>0, <2>2 DEF Install, ReleasedIn, Released
        <3> QED BY <1>1, <2>2, <3>1 DEF Install, releaseVars
    <2>3. CASE Bind(i)
        BY <1>2, <2>3 DEF Bind, releaseVars
    <2>4. CASE EndMarkReleased(i)
        <3>1. /\ i \notin ReleasedIn(group[i])
              /\ \A g : ReleasedIn(g)' = IF g = group[i]
                                         THEN ReleasedIn(g) \cup {i}
                                         ELSE ReleasedIn(g)
            BY <1>0, <2>4 DEF EndMarkReleased, AfterMark, ReleasedIn, Released
        <3>2. Cardinality(ReleasedIn(group[i]) \cup {i})
                = Cardinality(ReleasedIn(group[i])) + 1
            BY <3>1, ReleasedFinite, FS_AddElement
        <3>3. \A g \in Groups : relSeq'[g] = IF g = group[i] THEN relSeq[g] + 1
                                                             ELSE relSeq[g]
            BY <1>0, <2>4 DEF EndMarkReleased
        <3> QED BY <3>1, <3>2, <3>3 DEF ReleaseCountedOnce
    <2> QED BY <1>4, <2>1, <2>2, <2>3, <2>4 DEF OwnerNext
<1>5. ASSUME NEW d \in Drainers, DrainNext(d) PROVE ReleaseCountedOnce'
    BY <1>2, <1>5 DEF DrainNext, DrainBegin, DrainSnapshot, DrainStartClose,
       DrainCheck, DrainTimeout, lifeVars, releaseVars
<1>6. ASSUME NEW c \in Closers, CloseNext(c) PROVE ReleaseCountedOnce'
    BY <1>2, <1>6 DEF CloseNext, CloseBegin, CloseSeal, CloseSnapshot,
       CloseStartOne, CloseAwaitOne, CloseFinish, CloseJoin, lifeVars,
       releaseVars
<1> QED
    BY <1>2, <1>3, <1>4, <1>5, <1>6
    DEF Next, vars, lifeVars, releaseVars, CloseResource, SetReleaseSink,
        Replay, WaitPendingCheck, WaitPendingTimeout, ObserveBarrier,
        FreezeInFlight

\* Whatever Drain, Close and the owners do concurrently, a release sequence
\* counts every accounted scope once.
THEOREM CountedOnce == Spec => []ReleaseCountedOnce
<1>1. Init => ReleaseCountedOnce
    <2> SUFFICES ASSUME Init, NEW g \in Groups
                 PROVE relSeq[g] = Cardinality(ReleasedIn(g))
        BY DEF ReleaseCountedOnce
    <2>1. ReleasedIn(g) = {} /\ relSeq[g] = 0
        BY DEF Init, ReleasedIn, Released
    <2> QED BY <2>1, FS_EmptySet
<1> QED BY <1>1, TypeCorrect, LifeCorrect, ReleaseCountedOnceNext, PTL DEF Spec

LEMMA DeliveriesCountedNext ==
    TypeOK /\ DeliveriesCounted /\ [Next]_vars => DeliveriesCounted'
<1> SUFFICES ASSUME TypeOK, DeliveriesCounted, [Next]_vars
             PROVE DeliveriesCounted'
    OBVIOUS
<1>0. /\ owner \in [Ids -> Owners] /\ next \in 0..MaxDispatches
      /\ group \in [Ids -> Groups \cup {Unaccounted}]
      /\ relSeq \in [Groups -> Nat] /\ sink \in Sinks \cup {NoSink}
      /\ captured \in [Ids -> Capture] /\ replay \subseteq Delivery
      /\ delivered \in [Sinks -> [Groups -> Nat]]
    BY DEF TypeOK, TypeLife, TypeRelease
<1>1. ASSUME UNCHANGED releaseVars,
             \A i \in Ids : owner'[i] = "delivering" =>
                owner[i] = "delivering" /\ group'[i] = group[i]
      PROVE DeliveriesCounted'
    BY <1>1 DEF DeliveriesCounted, releaseVars
<1>2. CASE BeginDispatch
    BY <1>0, <1>1, <1>2 DEF BeginDispatch, Ids
<1>3. ASSUME NEW i \in Ids, EndMarkReleased(i) PROVE DeliveriesCounted'
    <2>1. \A g \in Groups : relSeq'[g] \in Nat /\ relSeq[g] <= relSeq'[g]
        BY <1>0, <1>3 DEF EndMarkReleased
    <2>2. ASSUME NEW j \in Ids, owner'[j] = "delivering"
          PROVE  /\ group[j] \in Groups /\ captured'[j].sink \in Sinks
                 /\ captured'[j].seq <= relSeq'[group[j]]
        <3>1. CASE j = i
            <4>1. group[i] # Unaccounted /\ sink # NoSink
                BY <1>0, <1>3, <2>2, <3>1 DEF EndMarkReleased, AfterMark
            <4>2. captured'[i] = [sink |-> sink, seq |-> relSeq'[group[i]]]
                BY <1>0, <1>3, <4>1 DEF EndMarkReleased
            <4> QED BY <1>0, <2>1, <3>1, <4>1, <4>2
        <3>2. CASE j # i
            <4>1. owner[j] = "delivering" /\ captured'[j] = captured[j]
                BY <1>0, <1>3, <2>2, <3>2 DEF EndMarkReleased
            <4>2. /\ group[j] \in Groups /\ captured[j].sink \in Sinks
                  /\ captured[j].seq <= relSeq[group[j]]
                BY <4>1 DEF DeliveriesCounted
            <4>3. captured[j].seq \in Nat /\ relSeq[group[j]] \in Nat
                BY <1>0, <4>2 DEF Capture
            <4> QED BY <2>1, <4>1, <4>2, <4>3
        <3> QED BY <3>1, <3>2
    <2>3. ASSUME NEW m \in replay PROVE m.seq <= relSeq'[m.group]
        <3>1. m.seq \in Nat /\ m.group \in Groups /\ m.seq <= relSeq[m.group]
            BY <1>0 DEF DeliveriesCounted, Delivery
        <3> QED BY <1>0, <2>1, <3>1
    <2>4. ASSUME NEW s \in Sinks, NEW g \in Groups
          PROVE delivered[s][g] <= relSeq'[g]
        <3>1. delivered[s][g] \in Nat /\ delivered[s][g] <= relSeq[g]
            BY <1>0 DEF DeliveriesCounted
        <3> QED BY <1>0, <2>1, <3>1
    <2> QED BY <1>3, <2>2, <2>3, <2>4 DEF EndMarkReleased, DeliveriesCounted
<1>4. ASSUME NEW s \in Sinks, NEW g \in Groups, NEW n \in Nat,
             n <= relSeq[g], Receive(s, g, n)
      PROVE \A t \in Sinks, h \in Groups : delivered'[t][h] <= relSeq[h]
    BY <1>0, <1>4 DEF Receive, DeliveriesCounted
<1>5. ASSUME NEW i \in Ids, EndDeliver(i) PROVE DeliveriesCounted'
    <2>1. /\ group[i] \in Groups /\ captured[i].sink \in Sinks
          /\ captured[i].seq <= relSeq[group[i]] /\ captured[i].seq \in Nat
        BY <1>0, <1>5 DEF EndDeliver, DeliveriesCounted, Capture
    <2>2. \A t \in Sinks, h \in Groups : delivered'[t][h] <= relSeq[h]
        BY <1>4, <1>5, <2>1 DEF EndDeliver
    <2> QED BY <1>0, <1>5, <2>2 DEF EndDeliver, DeliveriesCounted
<1>6. ASSUME NEW m \in replay, Replay(m) PROVE DeliveriesCounted'
    <2>1. /\ m.group \in Groups /\ m.sink \in Sinks
          /\ m.seq <= relSeq[m.group] /\ m.seq \in Nat
        BY <1>0 DEF DeliveriesCounted, Delivery
    <2>2. \A t \in Sinks, h \in Groups : delivered'[t][h] <= relSeq[h]
        BY <1>4, <1>6, <2>1 DEF Replay
    <2> QED BY <1>6, <2>2 DEF Replay, lifeVars, DeliveriesCounted
<1>7. ASSUME NEW s \in Sinks \cup {NoSink}, SetReleaseSink(s)
      PROVE DeliveriesCounted'
    <2>1. \A m \in Sequences(s) : m.seq <= relSeq[m.group]
        BY <1>0 DEF Sequences
    <2>2. \A m \in replay' : m.seq <= relSeq[m.group]
        BY <1>7, <2>1 DEF SetReleaseSink, DeliveriesCounted
    <2> QED BY <1>7, <2>2 DEF SetReleaseSink, lifeVars, DeliveriesCounted
<1>8. ASSUME NEW i \in Ids, OwnerNext(i) PROVE DeliveriesCounted'
    <2>1. CASE EndPending(i) \/ InstallRefused(i) \/ Bind(i)
               \/ EndDeactivate(i) \/ EndStartClose(i) \/ EndRemove(i)
        BY <1>0, <1>1, <2>1 DEF EndPending, InstallRefused, Bind,
           EndDeactivate, EndStartClose, EndRemove
    <2>2. ASSUME NEW g \in Groups \cup {Unaccounted}, Install(i, g)
          PROVE DeliveriesCounted'
        BY <1>0, <1>1, <2>2 DEF Install
    <2> QED BY <1>3, <1>5, <1>8, <2>1, <2>2 DEF OwnerNext
<1>9. ASSUME NEW d \in Drainers, DrainNext(d) PROVE DeliveriesCounted'
    BY <1>1, <1>9 DEF DrainNext, DrainBegin, DrainSnapshot, DrainStartClose,
       DrainCheck, DrainTimeout, lifeVars
<1>10. ASSUME NEW c \in Closers, CloseNext(c) PROVE DeliveriesCounted'
    BY <1>1, <1>10 DEF CloseNext, CloseBegin, CloseSeal, CloseSnapshot,
       CloseStartOne, CloseAwaitOne, CloseFinish, CloseJoin, lifeVars
<1> QED
    BY <1>1, <1>2, <1>6, <1>7, <1>8, <1>9, <1>10
    DEF Next, vars, lifeVars, CloseResource, WaitPendingCheck,
        WaitPendingTimeout, ObserveBarrier, FreezeInFlight

\* No sink is told of more releases than there are scopes whose resource has
\* finished closing: Home never frees a slot that may still be in use.
THEOREM NeverEarly == Spec => []NoEarlyRelease
<1>1. Init => DeliveriesCounted
    BY DEF Init, DeliveriesCounted
<1>2. LifeInv /\ ReleaseCountedOnce /\ DeliveriesCounted => NoEarlyRelease
    <2> SUFFICES ASSUME LifeInv, ReleaseCountedOnce, DeliveriesCounted,
                        NEW s \in Sinks, NEW g \in Groups
                 PROVE  delivered[s][g] <= Cardinality(
                            {i \in ReleasedIn(g) : res[i] \in {"none", "closed"}})
        BY DEF NoEarlyRelease
    <2>1. {i \in ReleasedIn(g) : res[i] \in {"none", "closed"}} = ReleasedIn(g)
        BY DEF LifeInv, ReleasedSettled, CloseSettled, ReleasedIn
    <2>2. delivered[s][g] <= relSeq[g] /\ relSeq[g] = Cardinality(ReleasedIn(g))
        BY DEF DeliveriesCounted, ReleaseCountedOnce
    <2> QED BY <2>1, <2>2
<1> QED BY <1>1, <1>2, TypeCorrect, LifeCorrect, CountedOnce,
           DeliveriesCountedNext, PTL DEF Spec

-----------------------------------------------------------------------------
(* Releases get to their sinks. While a delivery is under way the installed *)
(* sink may be behind, so the invariant says where the missing number is:   *)
(* captured by an owner that is about to call the sink, or in a replay.     *)

\* The sink knows of n releases of the group, or is about to be told.
Known(s, g, n) ==
    \/ delivered[s][g] >= n
    \/ \E i \in Ids : /\ owner[i] = "delivering" /\ group[i] = g
                      /\ captured[i].sink = s /\ captured[i].seq >= n
    \/ \E m \in replay : m.sink = s /\ m.group = g /\ m.seq >= n

SinkKnows == sink # NoSink => \A g \in Groups : Known(sink, g, relSeq[g])

\* A sink is captured with the release of an accounted scope.
CapturedAtRelease ==
    \A i \in Ids : captured[i].sink # NoSink => owner[i] \in Released /\ group[i] \in Groups

SinkInv == SinkKnows /\ CapturedAtRelease /\ RemovedAfterDelivery

\* Steps that leave the deliveries, and who makes them, alone.
LEMMA SinkKept ==
    ASSUME SinkInv, UNCHANGED releaseVars,
           \A i \in Ids : owner[i] = "delivering" =>
                owner'[i] = "delivering" /\ group'[i] = group[i],
           \A i \in Ids : owner[i] \in Released =>
                owner'[i] \in Released /\ group'[i] = group[i],
           \A i \in Ids : owner'[i] \in {"removing", "ended"} =>
                owner[i] \in {"removing", "ended"}
    PROVE  SinkInv'
<1>1. SinkKnows'
    BY DEF SinkInv, SinkKnows, Known, releaseVars
<1>2. CapturedAtRelease'
    BY DEF SinkInv, CapturedAtRelease, releaseVars
<1>3. RemovedAfterDelivery'
    BY DEF SinkInv, RemovedAfterDelivery, CapturedAtRelease, releaseVars
<1> QED BY <1>1, <1>2, <1>3 DEF SinkInv

\* A sink keeps the highest number it was told of.
LEMMA ReceiveKeeps ==
    ASSUME TypeOK, NEW s \in Sinks, NEW g \in Groups, NEW n \in Nat, Receive(s, g, n)
    PROVE  /\ delivered' \in [Sinks -> [Groups -> Nat]]
           /\ \A t \in Sinks, h \in Groups : delivered'[t][h] >= delivered[t][h]
           /\ delivered'[s][g] >= n
BY DEF TypeOK, TypeRelease, Receive

\* Every step keeps the invariant of the sinks.
LEMMA SinkInvNext ==
    TypeOK /\ LifeInv /\ DeliveriesCounted /\ SinkInv /\ [Next]_vars => SinkInv'
<1> SUFFICES ASSUME TypeOK, LifeInv, DeliveriesCounted, SinkInv, [Next]_vars PROVE SinkInv'
    OBVIOUS
<1>0. /\ owner \in [Ids -> Owners] /\ next \in 0..MaxDispatches
      /\ group \in [Ids -> Groups \cup {Unaccounted}]
      /\ relSeq \in [Groups -> Nat] /\ sink \in Sinks \cup {NoSink}
      /\ captured \in [Ids -> Capture] /\ replay \subseteq Delivery
      /\ delivered \in [Sinks -> [Groups -> Nat]]
    BY DEF TypeOK, TypeLife, TypeRelease
<1>1. CASE UNCHANGED <<owner, group, releaseVars>>
    BY <1>1, SinkKept
<1>2. CASE BeginDispatch
    <2>1. owner[next + 1] = "none" /\ next + 1 \in Ids
        BY <1>0, <1>2 DEF BeginDispatch, LifeInv, Unborn, Ids
    <2> QED BY <1>0, <1>2, <2>1, SinkKept DEF BeginDispatch, Released
<1>3. ASSUME NEW i \in Ids, EndMarkReleased(i) PROVE SinkInv'
    <2>1. /\ owner[i] = "awaiting" /\ UNCHANGED <<group, sink, replay, delivered>>
          /\ owner'[i] \in {"delivering", "removing"}
          /\ \A j \in Ids : j # i => owner'[j] = owner[j] /\ captured'[j] = captured[j]
          /\ captured[i].sink = NoSink
        BY <1>0, <1>3 DEF EndMarkReleased, AfterMark, SinkInv, CapturedAtRelease, Released
    <2>2. CASE group[i] # Unaccounted /\ sink # NoSink
        <3>1. /\ owner'[i] = "delivering" /\ group[i] \in Groups /\ sink \in Sinks
              /\ captured'[i].sink = sink /\ captured'[i].seq = relSeq'[group[i]]
              /\ relSeq'[group[i]] \in Nat
              /\ \A g \in Groups : g # group[i] => relSeq'[g] = relSeq[g]
            BY <1>0, <1>3, <2>2 DEF EndMarkReleased, AfterMark
        <3>2. SinkKnows'
            <4> SUFFICES ASSUME NEW g \in Groups PROVE Known(sink, g, relSeq[g])'
                BY <2>1 DEF SinkKnows
            <4>1. CASE g = group[i]
                BY <2>1, <3>1, <4>1 DEF Known
            <4>2. CASE g # group[i]
                <5>1. Known(sink, g, relSeq[g]) /\ relSeq'[g] = relSeq[g]
                    BY <2>2, <3>1, <4>2 DEF SinkInv, SinkKnows
                <5> QED BY <2>1, <5>1 DEF Known
            <4> QED BY <4>1, <4>2
        <3>3. CapturedAtRelease' /\ RemovedAfterDelivery'
            BY <2>1, <3>1 DEF SinkInv, CapturedAtRelease, RemovedAfterDelivery, Released
        <3> QED BY <3>2, <3>3 DEF SinkInv
    <2>3. CASE group[i] = Unaccounted \/ sink = NoSink
        <3>1. captured' = captured /\ owner'[i] = "removing"
              /\ (sink # NoSink => relSeq' = relSeq)
            BY <1>0, <1>3, <2>3 DEF EndMarkReleased, AfterMark
        <3>2. SinkKnows'
            <4> SUFFICES ASSUME sink # NoSink, NEW g \in Groups
                         PROVE  Known(sink, g, relSeq[g])'
                BY <2>1 DEF SinkKnows
            <4>1. Known(sink, g, relSeq[g]) /\ relSeq'[g] = relSeq[g]
                BY <3>1 DEF SinkInv, SinkKnows
            <4> QED BY <2>1, <3>1, <4>1 DEF Known
        <3>3. CapturedAtRelease' /\ RemovedAfterDelivery'
            BY <2>1, <3>1 DEF SinkInv, CapturedAtRelease, RemovedAfterDelivery, Released
        <3> QED BY <3>2, <3>3 DEF SinkInv
    <2> QED BY <2>2, <2>3
<1>4. ASSUME NEW s \in Sinks, NEW g \in Groups, NEW n \in Nat, Receive(s, g, n),
             UNCHANGED <<group, relSeq, sink, captured>>,
             \A i \in Ids : owner'[i] # owner[i] =>
                /\ owner[i] = "delivering" /\ owner'[i] = "removing"
                /\ captured[i].sink = s /\ captured[i].seq = n /\ group[i] = g,
             \A m \in replay : m \notin replay' => m.sink = s /\ m.group = g /\ m.seq = n
      PROVE  SinkInv'
    <2>1. /\ \A t \in Sinks, h \in Groups : delivered'[t][h] >= delivered[t][h]
          /\ \A t \in Sinks, h \in Groups :
                delivered'[t][h] \in Nat /\ delivered[t][h] \in Nat
          /\ delivered'[s][g] >= n
        BY <1>0, <1>4, ReceiveKeeps
    <2>2. \A i \in Ids : captured[i].seq \in Nat /\ captured[i].sink \in Sinks \cup {NoSink}
        BY <1>0 DEF Capture
    <2>3. SinkKnows'
        <3> SUFFICES ASSUME sink \in Sinks, NEW h \in Groups
                     PROVE  Known(sink, h, relSeq[h])'
            BY <1>0, <1>4 DEF SinkKnows
        <3>1. Known(sink, h, relSeq[h]) /\ relSeq[h] \in Nat
            BY <1>0 DEF SinkInv, SinkKnows
        <3>2. CASE delivered[sink][h] >= relSeq[h]
            BY <1>4, <2>1, <3>1, <3>2 DEF Known
        <3>3. ASSUME NEW i \in Ids, owner[i] = "delivering", group[i] = h,
                     captured[i].sink = sink, captured[i].seq >= relSeq[h]
              PROVE  Known(sink, h, relSeq[h])'
            <4>1. CASE owner'[i] = owner[i]
                BY <1>4, <3>3, <4>1 DEF Known
            <4>2. CASE owner'[i] # owner[i]
                <5>1. s = sink /\ g = h /\ n >= relSeq[h]
                    BY <1>4, <3>3, <4>2
                <5>2. delivered'[sink][h] >= relSeq[h]
                    BY <2>1, <3>1, <5>1
                <5> QED BY <1>4, <5>2 DEF Known
            <4> QED BY <4>1, <4>2
        <3>4. ASSUME NEW m \in replay, m.sink = sink, m.group = h, m.seq >= relSeq[h]
              PROVE  Known(sink, h, relSeq[h])'
            <4>1. CASE m \in replay'
                BY <1>4, <3>4, <4>1 DEF Known
            <4>2. CASE m \notin replay'
                <5>1. s = sink /\ g = h /\ n >= relSeq[h]
                    BY <1>4, <3>4, <4>2
                <5>2. delivered'[sink][h] >= relSeq[h]
                    BY <2>1, <3>1, <5>1
                <5> QED BY <1>4, <5>2 DEF Known
            <4> QED BY <4>1, <4>2
        <3> QED BY <3>1, <3>2, <3>3, <3>4 DEF Known
    <2>4. CapturedAtRelease'
        BY <1>4 DEF SinkInv, CapturedAtRelease, Released
    <2>5. RemovedAfterDelivery'
        <3> SUFFICES ASSUME NEW i \in Ids, owner'[i] \in {"removing", "ended"},
                            captured[i].sink # NoSink
                     PROVE  delivered'[captured[i].sink][group[i]] >= captured[i].seq
            BY <1>4 DEF RemovedAfterDelivery
        <3>1. captured[i].sink \in Sinks /\ group[i] \in Groups
            BY <2>2 DEF SinkInv, CapturedAtRelease
        <3>2. CASE owner'[i] = owner[i]
            <4>1. delivered[captured[i].sink][group[i]] >= captured[i].seq
                BY <3>2 DEF SinkInv, RemovedAfterDelivery
            <4>2. /\ delivered[captured[i].sink][group[i]] \in Nat
                  /\ delivered'[captured[i].sink][group[i]] \in Nat
                  /\ delivered'[captured[i].sink][group[i]]
                        >= delivered[captured[i].sink][group[i]]
                BY <2>1, <3>1
            <4> QED BY <2>2, <4>1, <4>2
        <3>3. CASE owner'[i] # owner[i]
            BY <1>4, <2>1, <3>3
        <3> QED BY <3>2, <3>3
    <2> QED BY <2>3, <2>4, <2>5 DEF SinkInv
<1>5. ASSUME NEW i \in Ids, EndDeliver(i) PROVE SinkInv'
    <2>1. /\ captured[i].sink \in Sinks /\ group[i] \in Groups /\ captured[i].seq \in Nat
          /\ owner[i] = "delivering" /\ Receive(captured[i].sink, group[i], captured[i].seq)
        BY <1>0, <1>5 DEF EndDeliver, DeliveriesCounted, Capture
    <2>2. /\ UNCHANGED <<group, relSeq, sink, captured>> /\ replay' = replay
          /\ \A j \in Ids : j # i => owner'[j] = owner[j]
          /\ owner'[i] = "removing"
        BY <1>0, <1>5 DEF EndDeliver
    <2>3. \A j \in Ids : owner'[j] # owner[j] =>
            /\ owner[j] = "delivering" /\ owner'[j] = "removing"
            /\ captured[j].sink = captured[i].sink /\ captured[j].seq = captured[i].seq
            /\ group[j] = group[i]
        BY <2>1, <2>2
    <2> QED BY <1>4, <2>1, <2>2, <2>3
<1>6. ASSUME NEW m \in replay, Replay(m) PROVE SinkInv'
    <2>1. m.sink \in Sinks /\ m.group \in Groups /\ m.seq \in Nat
        BY <1>0 DEF Delivery
    <2>2. UNCHANGED <<owner, group, relSeq, sink, captured>> /\ replay' = replay \ {m}
          /\ Receive(m.sink, m.group, m.seq)
        BY <1>6 DEF Replay, lifeVars
    <2>3. \A k \in replay : k \notin replay' =>
            k.sink = m.sink /\ k.group = m.group /\ k.seq = m.seq
        BY <2>2
    <2> QED BY <1>4, <2>1, <2>2, <2>3
<1>7. ASSUME NEW s \in Sinks \cup {NoSink}, SetReleaseSink(s) PROVE SinkInv'
    <2>1. UNCHANGED <<owner, group, relSeq, captured, delivered>> /\ sink' = s
          /\ replay' = replay \cup (IF s = NoSink THEN {} ELSE Sequences(s))
        BY <1>7 DEF SetReleaseSink, lifeVars
    <2>2. SinkKnows'
        <3> SUFFICES ASSUME s \in Sinks, NEW g \in Groups
                     PROVE  Known(s, g, relSeq[g])'
            BY <2>1 DEF SinkKnows
        <3>1. CASE relSeq[g] = 0
            BY <1>0, <2>1, <3>1 DEF Known
        <3>2. CASE relSeq[g] > 0
            <4>1. [sink |-> s, group |-> g, seq |-> relSeq[g]] \in replay'
                BY <2>1, <3>2 DEF Sequences
            <4> QED BY <1>0, <2>1, <4>1 DEF Known
        <3> QED BY <1>0, <3>1, <3>2
    <2>3. CapturedAtRelease' /\ RemovedAfterDelivery'
        BY <2>1 DEF SinkInv, CapturedAtRelease, RemovedAfterDelivery
    <2> QED BY <2>2, <2>3 DEF SinkInv
<1>8. ASSUME NEW i \in Ids, OwnerNext(i) PROVE SinkInv'
    <2>1. CASE EndPending(i) \/ InstallRefused(i) \/ Bind(i)
               \/ EndDeactivate(i) \/ EndStartClose(i)
        BY <1>0, <2>1, SinkKept DEF EndPending, InstallRefused, Bind,
           EndDeactivate, EndStartClose, Released
    <2>2. ASSUME NEW g \in Groups \cup {Unaccounted}, Install(i, g) PROVE SinkInv'
        BY <1>0, <2>2, SinkKept DEF Install, Released
    <2>3. CASE EndRemove(i)
        BY <1>0, <2>3, SinkKept DEF EndRemove, Released
    <2> QED BY <1>3, <1>5, <1>8, <2>1, <2>2, <2>3 DEF OwnerNext
<1>9. ASSUME NEW d \in Drainers, DrainNext(d) PROVE SinkInv'
    BY <1>1, <1>9 DEF DrainNext, DrainBegin, DrainSnapshot, DrainStartClose,
       DrainCheck, DrainTimeout, lifeVars
<1>10. ASSUME NEW c \in Closers, CloseNext(c) PROVE SinkInv'
    BY <1>1, <1>10 DEF CloseNext, CloseBegin, CloseSeal, CloseSnapshot,
       CloseStartOne, CloseAwaitOne, CloseFinish, CloseJoin, lifeVars
<1> QED
    BY <1>1, <1>2, <1>6, <1>7, <1>8, <1>9, <1>10
    DEF Next, vars, lifeVars, CloseResource, WaitPendingCheck,
        WaitPendingTimeout, ObserveBarrier, FreezeInFlight

\* Every counted release gets to the sink that reports it: none is lost when
\* the sink is replaced, and none comes after the end of its scope is visible
\* (SetReleaseSink, EndWithRelease).
THEOREM ReleasesReachSink == Spec => []ReleasesDelivered
<1>1. Init => DeliveriesCounted /\ SinkInv
    BY DEF Init, DeliveriesCounted, SinkInv, SinkKnows, CapturedAtRelease,
           RemovedAfterDelivery, NoCapture
<1>2. TypeOK /\ DeliveriesCounted /\ SinkInv => ReleasesDelivered
    <2> SUFFICES ASSUME TypeOK, DeliveriesCounted, SinkInv, sink # NoSink,
                        ~ DeliveryInFlight(sink), NEW g \in Groups
                 PROVE  delivered[sink][g] = relSeq[g]
        BY DEF ReleasesDelivered, NoLostRelease, SinkInv
    <2>1. /\ sink \in Sinks /\ delivered[sink][g] \in Nat /\ relSeq[g] \in Nat
          /\ delivered[sink][g] <= relSeq[g]
        BY DEF TypeOK, TypeRelease, DeliveriesCounted
    <2>2. delivered[sink][g] >= relSeq[g]
        BY DEF SinkInv, SinkKnows, Known, DeliveryInFlight
    <2> QED BY <2>1, <2>2
<1> QED BY <1>1, <1>2, TypeCorrect, LifeCorrect, DeliveriesCountedNext, SinkInvNext, PTL
        DEF Spec

-----------------------------------------------------------------------------
(* Barriers. What a snapshot says of a barrier stays true because no        *)
(* dispatch with a number behind it can become pending again; the sequence  *)
(* FreezeInFlight compares with belongs to the barrier it publishes.        *)

BarrierInv ==
    /\ freeze.barrier <= observedBarrier
    /\ \A b \in 1..MaxBarrier : barrierNext[b] <= next
    /\ observedBarrier > 0 =>
            pendingBarrierSequence = barrierNext[observedBarrier]
    /\ BarrierSettled

\* Steps that leave the barriers alone, begin nothing behind one and install
\* only what is pending keep the invariant.
LEMMA BarrierKept ==
    ASSUME TypeOK, BarrierInv, UNCHANGED barrierVars,
           next' \in Nat, next <= next',
           \A i \in Ids : i <= next =>
                /\ i \in pending' => i \in pending
                /\ owner'[i] \in InScope => owner[i] \in InScope \/ i \in pending
    PROVE  BarrierInv'
<1>0. /\ freeze.barrier \in 0..MaxBarrier /\ next \in 0..MaxDispatches
      /\ barrierNext \in [1..MaxBarrier -> 0..MaxDispatches]
    BY DEF TypeOK, TypeLife, TypeBarrier
<1>1. \A b \in 1..MaxBarrier : barrierNext[b] <= next'
    BY <1>0 DEF BarrierInv
<1>2. BarrierSettled'
    <2> SUFFICES ASSUME freeze.barrier > 0,
                        NEW i \in 1..barrierNext[freeze.barrier]
                 PROVE  /\ i \notin pending'
                        /\ owner'[i] \in InScope => i \in freeze.executions
        BY DEF BarrierSettled, barrierVars
    <2>1. i \in Ids /\ i <= next
        BY <1>0 DEF BarrierInv, Ids
    <2>2. i \notin pending /\ (owner[i] \in InScope => i \in freeze.executions)
        BY DEF BarrierInv, BarrierSettled
    <2> QED BY <2>1, <2>2
<1> QED BY <1>1, <1>2 DEF BarrierInv, barrierVars

LEMMA BarrierInvNext == TypeOK /\ BarrierInv /\ [Next]_vars => BarrierInv'
<1> SUFFICES ASSUME TypeOK, BarrierInv, [Next]_vars PROVE BarrierInv'
    OBVIOUS
<1>0. /\ owner \in [Ids -> Owners] /\ next \in 0..MaxDispatches
      /\ observedBarrier \in 0..MaxBarrier
      /\ pendingBarrierSequence \in 0..MaxDispatches
      /\ freeze \in [revision : Nat, barrier : 0..MaxBarrier,
                     executions : SUBSET Ids]
      /\ barrierNext \in [1..MaxBarrier -> 0..MaxDispatches]
    BY DEF TypeOK, TypeLife, TypeBarrier
<1>1. CASE UNCHANGED <<owner, next, barrierVars>>
    BY <1>0, <1>1, BarrierKept DEF pending
<1>2. CASE BeginDispatch
    BY <1>0, <1>2, BarrierKept DEF BeginDispatch, pending, InScope, Ids
<1>3. ASSUME NEW i \in Ids, OwnerNext(i) PROVE BarrierInv'
    <2>1. UNCHANGED <<next, barrierVars>>
        BY <1>3 DEF OwnerNext, EndPending, Install, InstallRefused, Bind,
           EndDeactivate, EndStartClose, EndMarkReleased, EndDeliver, EndRemove
    <2>2. \A j \in Ids : owner'[j] = "pending" => owner[j] = "pending"
        BY <1>0, <1>3 DEF OwnerNext, EndPending, Install, InstallRefused,
           Bind, EndDeactivate, EndStartClose, EndMarkReleased, AfterMark,
           EndDeliver, EndRemove
    <2>3. \A j \in Ids :
            owner'[j] \in InScope => owner[j] \in InScope \cup {"pending"}
        BY <1>0, <1>3 DEF OwnerNext, EndPending, Install, InstallRefused,
           Bind, EndDeactivate, EndStartClose, EndMarkReleased, EndDeliver,
           EndRemove, InScope
    <2> QED BY <1>0, <2>1, <2>2, <2>3, BarrierKept DEF pending
<1>4. ASSUME NEW b \in 1..MaxBarrier, ObserveBarrier(b) PROVE BarrierInv'
    <2>1. /\ b > observedBarrier /\ observedBarrier' = b
          /\ pendingBarrierSequence' = next
          /\ barrierNext' = [barrierNext EXCEPT ![b] = next]
          /\ UNCHANGED <<owner, next, freeze>>
        BY <1>4 DEF ObserveBarrier, LastSequence, lifeVars
    <2>2. /\ freeze'.barrier <= observedBarrier'
          /\ pendingBarrierSequence' = barrierNext'[observedBarrier']
          /\ \A c \in 1..MaxBarrier : barrierNext'[c] <= next'
        BY <1>0, <2>1 DEF BarrierInv
    <2>3. freeze.barrier > 0 =>
                barrierNext'[freeze.barrier] = barrierNext[freeze.barrier]
        BY <1>0, <2>1 DEF BarrierInv
    <2>4. BarrierSettled'
        BY <2>1, <2>3 DEF BarrierInv, BarrierSettled, pending
    <2> QED BY <2>2, <2>4 DEF BarrierInv
<1>5. CASE FreezeInFlight
    <2>1. UNCHANGED <<owner, next, observedBarrier, pendingBarrierSequence,
                      barrierNext>>
        BY <1>5 DEF FreezeInFlight, lifeVars
    <2>2. /\ freeze'.executions = scopes
          /\ \/ freeze'.barrier = freeze.barrier
             \/ /\ freeze'.barrier = observedBarrier
                /\ observedBarrier > freeze.barrier
                /\ ~ BarrierBlocked
        BY <1>5 DEF FreezeInFlight
    <2>3. freeze'.barrier <= observedBarrier
        BY <1>0, <2>2 DEF BarrierInv
    <2>4. ASSUME freeze'.barrier > 0,
                 NEW i \in 1..barrierNext[freeze'.barrier]
          PROVE  i \notin pending
        <3>1. CASE freeze'.barrier = freeze.barrier
            BY <2>4, <3>1 DEF BarrierInv, BarrierSettled
        <3>2. CASE freeze'.barrier = observedBarrier /\ ~ BarrierBlocked
            <4>1. i <= pendingBarrierSequence
                BY <1>0, <2>4, <3>2 DEF BarrierInv
            <4> QED BY <3>2, <4>1 DEF BarrierBlocked
        <3> QED BY <2>2, <3>1, <3>2
    <2>5. ASSUME freeze'.barrier > 0,
                 NEW i \in 1..barrierNext[freeze'.barrier]
          PROVE  i \in Ids
        BY <1>0, <2>2, <2>5 DEF Ids
    <2>6. BarrierSettled'
        BY <2>1, <2>2, <2>4, <2>5 DEF BarrierSettled, pending, scopes
    <2> QED BY <2>1, <2>3, <2>6 DEF BarrierInv
<1>6. ASSUME NEW d \in Drainers, DrainNext(d) PROVE BarrierInv'
    BY <1>1, <1>6 DEF DrainNext, DrainBegin, DrainSnapshot, DrainStartClose,
       DrainCheck, DrainTimeout, lifeVars
<1>7. ASSUME NEW c \in Closers, CloseNext(c) PROVE BarrierInv'
    BY <1>1, <1>7 DEF CloseNext, CloseBegin, CloseSeal, CloseSnapshot,
       CloseStartOne, CloseAwaitOne, CloseFinish, CloseJoin, lifeVars
<1> QED
    BY <1>1, <1>2, <1>3, <1>4, <1>5, <1>6, <1>7
    DEF Next, vars, lifeVars, CloseResource, SetReleaseSink, Replay,
        WaitPendingCheck, WaitPendingTimeout

\* A snapshot that carries a barrier settles every dispatch begun before the
\* barrier was observed: none is unresolved, and the running ones are listed.
THEOREM BarriersSettled == Spec => []BarrierSettled
<1>1. Init => BarrierInv
    BY DEF Init, BarrierInv, BarrierSettled
<1>2. BarrierInv => BarrierSettled
    BY DEF BarrierInv
<1> QED BY <1>1, <1>2, TypeCorrect, BarrierInvNext, PTL DEF Spec
=============================================================================
