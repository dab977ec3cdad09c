------------------------- MODULE ExecutionRegistry -------------------------
(***************************************************************************)
(* The execution registry of one Home subscriber lifetime                  *)
(* (sdk/cliproxy/executionregistry/registry.go and observation.go).        *)
(*                                                                         *)
(* Every dispatch Home answers is reserved (BeginDispatch), turned into a  *)
(* scope (Install), given one resource (Bind) and ended (EndWithRelease),  *)
(* which closes the resource, counts the release in its group and hands    *)
(* the cumulative count to the release sink. Drain and Close stop the      *)
(* registry; WaitPending, ObserveBarrier and FreezeInFlight observe it.    *)
(*                                                                         *)
(* One action is one critical section of Registry.mu (or of Scope.mu, or   *)
(* one atomic operation on Registry.state). A read of the atomic state     *)
(* inside a mu section is taken to happen with the section: the goroutine  *)
(* that swaps the state needs mu before it looks at anything else, so the  *)
(* two steps commute. The channel `changed`, which signalLocked closes and *)
(* replaces, is modelled by the goroutines blocked on it: a signal turns   *)
(* every "blocked" one into "woken".                                       *)
(***************************************************************************)
EXTENDS Integers, FiniteSets

CONSTANTS
    MaxDispatches,  \* bound on the dispatches a lifetime begins
    MaxBarrier,     \* bound on Home's observation barrier revisions
    MaxFreezes,     \* bound on the snapshots taken
    Groups,         \* release groups: a credential and a model
    Unaccounted,    \* stands for the group of a scope Home does not account
    Sinks,          \* release sinks that may be installed
    NoSink,         \* a nil release sink
    Drainers,       \* goroutines that call Drain
    Closers,        \* goroutines that call Close
    Waiters         \* goroutines that call WaitPending

ASSUME BoundsAssumption ==
    /\ MaxDispatches \in Nat
    /\ MaxBarrier \in Nat
    /\ MaxFreezes \in Nat

ASSUME NilAssumption == Unaccounted \notin Groups /\ NoSink \notin Sinks

Ids == 1..MaxDispatches

VARIABLES
    state,      \* Registry.state
    next,       \* Registry.next: id of the latest dispatch
    owner,      \* where the owner of each dispatch is
    group,      \* release group of each scope, or Unaccounted
    res,        \* Scope.closeFn and Scope.closeDone of each scope
    relSeq,     \* Registry.releaseSequences
    sink,       \* Registry.releaseSink
    captured,   \* sink and sequence EndWithRelease took out of its section
    replay,     \* deliveries SetReleaseSink still has to make
    delivered,  \* highest sequence each sink received for each group
    drain,      \* where each Drain call is
    drainTodo,  \* scopes a Drain call has still to start closing
    waiter,     \* where each WaitPending call is
    closer,     \* where each Close call is
    closePhase, \* Registry.closeStarted ("started"), closeDone ("finished")
    closeTodo,  \* scopes Close has still to wait for
    closeCur,   \* the scope Close is waiting for, or 0
    observedBarrier,
    pendingBarrierSequence,
    freeze,     \* the latest Freeze; its barrier is Registry.publishedBarrier
    barrierNext \* history: `next` when each barrier revision was recorded

lifeVars    == <<state, next, owner, group, res>>
releaseVars == <<relSeq, sink, captured, replay, delivered>>
drainVars   == <<drain, drainTodo>>
closeVars   == <<closer, closePhase, closeTodo, closeCur>>
callVars    == <<drainVars, waiter, closeVars>>
barrierVars == <<observedBarrier, pendingBarrierSequence, freeze, barrierNext>>
vars        == <<lifeVars, releaseVars, callVars, barrierVars>>

States == {"accepting", "draining", "closed"}
Owners == {"none", "pending", "running", "ending", "awaiting", "delivering",
           "removing", "ended", "dropped"}
InScope == {"running", "ending", "awaiting", "delivering", "removing"}
Released == {"delivering", "removing", "ended"}

\* The keys of Registry.pending and of Registry.scopes: the sections that
\* insert and delete them are the ones that move the owner.
pending == {i \in Ids : owner[i] = "pending"}
scopes  == {i \in Ids : owner[i] \in InScope}

Resources == {"none", "bound", "closing", "closed"}

NoCapture == [sink |-> NoSink, seq |-> 0]

Init ==
    /\ state = "accepting"
    /\ next = 0
    /\ owner = [i \in Ids |-> "none"]
    /\ group = [i \in Ids |-> Unaccounted]
    /\ res = [i \in Ids |-> "none"]
    /\ relSeq = [g \in Groups |-> 0]
    /\ sink = NoSink
    /\ captured = [i \in Ids |-> NoCapture]
    /\ replay = {}
    /\ delivered = [s \in Sinks |-> [g \in Groups |-> 0]]
    /\ drain = [d \in Drainers |-> "idle"]
    /\ drainTodo = [d \in Drainers |-> {}]
    /\ waiter = [w \in Waiters |-> "idle"]
    /\ closer = [c \in Closers |-> "idle"]
    /\ closePhase = "open" /\ closeTodo = {} /\ closeCur = 0
    /\ observedBarrier = 0 /\ pendingBarrierSequence = 0
    /\ freeze = [revision |-> 0, barrier |-> 0, executions |-> {}]
    /\ barrierNext = [b \in 1..MaxBarrier |-> 0]

-----------------------------------------------------------------------------
(* signalLocked: close `changed`, which wakes whoever is blocked on it.     *)

WakeNobody(pc) == pc    \* fault: the channel is never closed

Wake(pc) == [p \in DOMAIN pc |-> IF pc[p] = "blocked" THEN "woken" ELSE pc[p]]

signalLocked == drain' = Wake(drain) /\ waiter' = Wake(waiter)

-----------------------------------------------------------------------------
(* Dispatches.                                                              *)

BeginDispatch ==
    /\ state = "accepting"
    /\ next < MaxDispatches
    /\ next' = next + 1
    /\ owner' = [owner EXCEPT ![next'] = "pending"]
    /\ UNCHANGED <<state, group, res, releaseVars, callVars, barrierVars>>

EndPending(i) ==
    /\ owner[i] = "pending"
    /\ owner' = [owner EXCEPT ![i] = "dropped"]
    /\ signalLocked
    /\ UNCHANGED <<state, next, group, res, releaseVars, drainTodo,
                   closeVars, barrierVars>>

Install(i, g) ==
    /\ owner[i] = "pending"
    /\ state = "accepting"
    /\ owner' = [owner EXCEPT ![i] = "running"]
    /\ group' = [group EXCEPT ![i] = g]
    /\ signalLocked
    /\ UNCHANGED <<state, next, res, releaseVars, drainTodo, closeVars,
                   barrierVars>>

\* Install on a registry that stopped accepting drops the reservation.
InstallRefused(i) == state # "accepting" /\ EndPending(i)

BindsWhileStopping(i) == owner[i] = "running" /\ res[i] = "none"    \* fault

BindAllowed(i) == state = "accepting" /\ owner[i] = "running" /\ res[i] = "none"

Bind(i) ==
    /\ BindAllowed(i)
    /\ res' = [res EXCEPT ![i] = "bound"]
    /\ UNCHANGED <<state, next, owner, group, releaseVars, callVars,
                   barrierVars>>

-----------------------------------------------------------------------------
(* The bound resource.                                                      *)

\* startBoundResourceClose: the first caller takes closeFn and spawns the
\* goroutine that runs it; later callers get the same closeDone.
StartClose(i) ==
    res' = [res EXCEPT ![i] = IF @ = "bound" THEN "closing" ELSE @]

ClosesInBackground(i) == TRUE    \* fault: nobody waits for closeDone

\* waitForBoundResourceClose does not block on a scope without a resource.
CloseSettled(i) == res[i] \in {"none", "closed"}

\* The goroutine of startBoundResourceClose: closeFn returns, closeDone closes.
CloseResource(i) ==
    /\ res[i] = "closing"
    /\ res' = [res EXCEPT ![i] = "closed"]
    /\ UNCHANGED <<state, next, owner, group, releaseVars, callVars,
                   barrierVars>>

-----------------------------------------------------------------------------
(* EndWithRelease, section by section. Its sync.Once makes the sections run *)
(* once per scope, whoever calls it.                                        *)

EndDeactivate(i) ==
    /\ owner[i] = "running"
    /\ owner' = [owner EXCEPT ![i] = "ending"]
    /\ UNCHANGED <<state, next, group, res, releaseVars, callVars,
                   barrierVars>>

EndStartClose(i) ==
    /\ owner[i] = "ending"
    /\ owner' = [owner EXCEPT ![i] = "awaiting"]
    /\ StartClose(i)
    /\ UNCHANGED <<state, next, group, releaseVars, callVars, barrierVars>>

RemovesFirst(deliver) == "removing"    \* fault: the sink is not called

\* EndWithRelease calls the captured sink before it removes the scope.
AfterMark(deliver) == IF deliver THEN "delivering" ELSE "removing"

\* markReleasedLocked: count the release and capture the sink with the count.
EndMarkReleased(i) ==
    LET accounted == group[i] # Unaccounted
        deliver   == accounted /\ sink # NoSink
    IN  /\ owner[i] = "awaiting"
        /\ CloseSettled(i)
        /\ relSeq' = IF accounted THEN [relSeq EXCEPT ![group[i]] = @ + 1]
                                  ELSE relSeq
        /\ captured' = IF deliver
                       THEN [captured EXCEPT ![i] =
                                [sink |-> sink, seq |-> relSeq'[group[i]]]]
                       ELSE captured
        /\ owner' = [owner EXCEPT ![i] = AfterMark(deliver)]
        /\ UNCHANGED <<state, next, group, res, sink, replay, delivered,
                       callVars, barrierVars>>

\* What a sink does with a sequence: it keeps the highest one it was given.
Receive(s, g, n) ==
    delivered' = [delivered EXCEPT ![s][g] = IF n > @ THEN n ELSE @]

\* The call of the captured sink, outside every lock.
EndDeliver(i) ==
    /\ owner[i] = "delivering"
    /\ owner' = [owner EXCEPT ![i] = "removing"]
    /\ Receive(captured[i].sink, group[i], captured[i].seq)
    /\ UNCHANGED <<state, next, group, res, relSeq, sink, captured, replay,
                   callVars, barrierVars>>

EndRemove(i) ==
    /\ owner[i] = "removing"
    /\ owner' = [owner EXCEPT ![i] = "ended"]
    /\ signalLocked
    /\ UNCHANGED <<state, next, group, res, releaseVars, drainTodo,
                   closeVars, barrierVars>>

-----------------------------------------------------------------------------
(* SetReleaseSink: swap the sink and copy the sequences in one section,     *)
(* then replay the copy to the new sink outside it.                         *)

NothingToReplay(s) == {}    \* fault: the new sink starts from scratch

Sequences(s) == {[sink |-> s, group |-> g, seq |-> relSeq[g]] :
                    g \in {h \in Groups : relSeq[h] > 0}}

SetReleaseSink(s) ==
    /\ sink' = s
    /\ replay' = replay \cup (IF s = NoSink THEN {} ELSE Sequences(s))
    /\ UNCHANGED <<lifeVars, relSeq, captured, delivered, callVars,
                   barrierVars>>

Replay(m) ==
    /\ m \in replay
    /\ replay' = replay \ {m}
    /\ Receive(m.sink, m.group, m.seq)
    /\ UNCHANGED <<lifeVars, relSeq, sink, captured, callVars, barrierVars>>

-----------------------------------------------------------------------------
(* Drain.                                                                   *)

\* The compare-and-swap, and ErrRegistryClosed when it finds "closed".
DrainBegin(d) ==
    /\ drain[d] \in {"idle", "failed"}
    /\ state' = IF state = "accepting" THEN "draining" ELSE state
    /\ drain' = [drain EXCEPT ![d] =
                    IF state = "closed" THEN "refused" ELSE "snapshot"]
    /\ UNCHANGED <<next, owner, group, res, releaseVars, drainTodo, waiter,
                   closeVars, barrierVars>>

DrainSnapshot(d) ==
    /\ drain[d] = "snapshot"
    /\ drain' = [drain EXCEPT ![d] = "closing"]
    /\ drainTodo' = [drainTodo EXCEPT ![d] = scopes]
    /\ UNCHANGED <<lifeVars, releaseVars, waiter, closeVars, barrierVars>>

DrainStartClose(d, i) ==
    /\ drain[d] = "closing"
    /\ i \in drainTodo[d]
    /\ drainTodo' = [drainTodo EXCEPT ![d] = @ \ {i}]
    /\ StartClose(i)
    /\ UNCHANGED <<state, next, owner, group, releaseVars, drain, waiter,
                   closeVars, barrierVars>>

NothingPending == pending = {}    \* fault: the loop forgets the scopes

NothingOpen == pending = {} /\ scopes = {}

\* The wait loop: block on `changed` while anything is open, else close.
DrainCheck(d) ==
    /\ \/ drain[d] = "closing" /\ drainTodo[d] = {}
       \/ drain[d] = "woken"
    /\ IF NothingOpen
       THEN state' = "closed" /\ drain' = [drain EXCEPT ![d] = "done"]
       ELSE state' = state /\ drain' = [drain EXCEPT ![d] = "blocked"]
    /\ UNCHANGED <<next, owner, group, res, releaseVars, drainTodo, waiter,
                   closeVars, barrierVars>>

\* ctx.Done wins the select, also when `changed` is closed at the same time.
DrainTimeout(d) ==
    /\ drain[d] \in {"blocked", "woken"}
    /\ drain' = [drain EXCEPT ![d] = "failed"]
    /\ UNCHANGED <<lifeVars, releaseVars, drainTodo, waiter, closeVars,
                   barrierVars>>

-----------------------------------------------------------------------------
(* WaitPending.                                                             *)

WaitPendingCheck(w) ==
    /\ waiter[w] # "blocked"
    /\ waiter' = [waiter EXCEPT ![w] =
                    IF pending = {} THEN "done" ELSE "blocked"]
    /\ UNCHANGED <<lifeVars, releaseVars, drainVars, closeVars, barrierVars>>

WaitPendingTimeout(w) ==
    /\ waiter[w] \in {"blocked", "woken"}
    /\ waiter' = [waiter EXCEPT ![w] = "failed"]
    /\ UNCHANGED <<lifeVars, releaseVars, drainVars, closeVars, barrierVars>>

-----------------------------------------------------------------------------
(* Close. Only the caller that sets closeStarted runs the closing loop.     *)

CloseBegin(c) ==
    /\ closer[c] = "idle"
    /\ closer' = [closer EXCEPT ![c] =
                    IF closePhase # "open" THEN "joining"
                    ELSE IF state = "closed" THEN "done" ELSE "sealing"]
    /\ closePhase' = IF closePhase = "open" /\ state # "closed"
                     THEN "started" ELSE closePhase
    /\ UNCHANGED <<lifeVars, releaseVars, drainVars, waiter, closeTodo,
                   closeCur, barrierVars>>

CloseSeal(c) ==
    /\ closer[c] = "sealing"
    /\ closer' = [closer EXCEPT ![c] = "snapshot"]
    /\ state' = "closed"
    /\ UNCHANGED <<next, owner, group, res, releaseVars, drainVars, waiter,
                   closePhase, closeTodo, closeCur, barrierVars>>

CloseSnapshot(c) ==
    /\ closer[c] = "snapshot"
    /\ closer' = [closer EXCEPT ![c] = "closing"]
    /\ closeTodo' = scopes
    /\ UNCHANGED <<lifeVars, releaseVars, drainVars, waiter, closePhase,
                   closeCur, barrierVars>>

CloseStartOne(c, i) ==
    /\ closer[c] = "closing"
    /\ closeCur = 0
    /\ i \in closeTodo
    /\ closeCur' = i
    /\ StartClose(i)
    /\ UNCHANGED <<state, next, owner, group, releaseVars, drainVars, waiter,
                   closer, closePhase, closeTodo, barrierVars>>

CloseAwaitOne(c) ==
    /\ closer[c] = "closing"
    /\ closeCur # 0
    /\ CloseSettled(closeCur)
    /\ closeTodo' = closeTodo \ {closeCur}
    /\ closeCur' = 0
    /\ UNCHANGED <<lifeVars, releaseVars, drainVars, waiter, closer,
                   closePhase, barrierVars>>

CloseFinish(c) ==
    /\ closer[c] = "closing"
    /\ closeCur = 0
    /\ closeTodo = {}
    /\ closer' = [closer EXCEPT ![c] = "done"]
    /\ closePhase' = "finished"
    /\ UNCHANGED <<lifeVars, releaseVars, drainVars, waiter, closeTodo,
                   closeCur, barrierVars>>

CloseJoin(c) ==
    /\ closer[c] = "joining"
    /\ closePhase = "finished"
    /\ closer' = [closer EXCEPT ![c] = "done"]
    /\ UNCHANGED <<lifeVars, releaseVars, drainVars, waiter, closePhase,
                   closeTodo, closeCur, barrierVars>>

-----------------------------------------------------------------------------
(* Observation.                                                             *)

\* The last dispatch begun before the barrier.
LastSequence == next

ObserveBarrier(b) ==
    /\ b > observedBarrier
    /\ observedBarrier' = b
    /\ pendingBarrierSequence' = LastSequence
    /\ barrierNext' = [barrierNext EXCEPT ![b] = next]
    /\ UNCHANGED <<lifeVars, releaseVars, callVars, freeze>>

\* fault: off by one, the last dispatch before the barrier is ignored
BarrierBlockedBelow == \E i \in pending : i < pendingBarrierSequence

\* The barrier is published once no dispatch begun before it is pending.
BarrierBlocked == \E i \in pending : i <= pendingBarrierSequence

FreezeInFlight ==
    /\ freeze.revision < MaxFreezes
    /\ freeze' = [revision   |-> freeze.revision + 1,
                  barrier    |-> IF /\ observedBarrier > freeze.barrier
                                    /\ ~ BarrierBlocked
                                 THEN observedBarrier ELSE freeze.barrier,
                  executions |-> scopes]
    /\ UNCHANGED <<lifeVars, releaseVars, callVars, observedBarrier,
                   pendingBarrierSequence, barrierNext>>

-----------------------------------------------------------------------------
OwnerNext(i) ==
    \/ EndPending(i)
    \/ \E g \in Groups \cup {Unaccounted} : Install(i, g)
    \/ InstallRefused(i)
    \/ Bind(i)
    \/ EndDeactivate(i)
    \/ EndStartClose(i)
    \/ EndMarkReleased(i)
    \/ EndDeliver(i)
    \/ EndRemove(i)

DrainNext(d) ==
    \/ DrainBegin(d)
    \/ DrainSnapshot(d)
    \/ \E i \in Ids : DrainStartClose(d, i)
    \/ DrainCheck(d)
    \/ DrainTimeout(d)

CloseNext(c) ==
    \/ CloseBegin(c)
    \/ CloseSeal(c)
    \/ CloseSnapshot(c)
    \/ \E i \in Ids : CloseStartOne(c, i)
    \/ CloseAwaitOne(c)
    \/ CloseFinish(c)
    \/ CloseJoin(c)

Next ==
    \/ BeginDispatch
    \/ \E i \in Ids : OwnerNext(i)
    \/ \E i \in Ids : CloseResource(i)
    \/ \E s \in Sinks \cup {NoSink} : SetReleaseSink(s)
    \/ \E m \in replay : Replay(m)
    \/ \E d \in Drainers : DrainNext(d)
    \/ \E w \in Waiters : WaitPendingCheck(w) \/ WaitPendingTimeout(w)
    \/ \E c \in Closers : CloseNext(c)
    \/ \E b \in 1..MaxBarrier : ObserveBarrier(b)
    \/ FreezeInFlight

Spec == Init /\ [][Next]_vars

-----------------------------------------------------------------------------
(* Fairness: goroutines that can run do run; the owner of a dispatch gets   *)
(* an answer from Home or from the executor it runs and then ends; closeFn  *)
(* returns. Deadlines (the Timeout actions) may never come.                 *)

OwnerEnds(i) ==
    \/ EndPending(i)
    \/ EndDeactivate(i)
    \/ EndStartClose(i)
    \/ EndMarkReleased(i)
    \/ EndDeliver(i)
    \/ EndRemove(i)

DrainProceeds(d) ==
    \/ DrainSnapshot(d)
    \/ \E i \in Ids : DrainStartClose(d, i)
    \/ DrainCheck(d)

Fairness ==
    /\ \A i \in Ids : WF_vars(OwnerEnds(i)) /\ WF_vars(CloseResource(i))
    /\ \A d \in Drainers : WF_vars(DrainProceeds(d))

FairSpec == Spec /\ Fairness

-----------------------------------------------------------------------------
(* Properties.                                                              *)

Capture == [sink : Sinks \cup {NoSink}, seq : Nat]
Delivery == [sink : Sinks, group : Groups, seq : Nat]

TypeLife ==
    /\ state \in States
    /\ next \in 0..MaxDispatches
    /\ owner \in [Ids -> Owners]
    /\ group \in [Ids -> Groups \cup {Unaccounted}]
    /\ res \in [Ids -> Resources]

TypeRelease ==
    /\ relSeq \in [Groups -> Nat]
    /\ sink \in Sinks \cup {NoSink}
    /\ captured \in [Ids -> Capture]
    /\ replay \subseteq Delivery
    /\ delivered \in [Sinks -> [Groups -> Nat]]

TypeCalls ==
    /\ drain \in [Drainers -> {"idle", "snapshot", "closing", "blocked",
                               "woken", "done", "failed", "refused"}]
    /\ drainTodo \in [Drainers -> SUBSET Ids]
    /\ waiter \in [Waiters -> {"idle", "blocked", "woken", "done", "failed"}]
    /\ closer \in [Closers -> {"idle", "joining", "sealing", "snapshot",
                               "closing", "done"}]
    /\ closePhase \in {"open", "started", "finished"}
    /\ closeTodo \subseteq Ids
    /\ closeCur \in Ids \cup {0}

TypeBarrier ==
    /\ observedBarrier \in 0..MaxBarrier
    /\ pendingBarrierSequence \in 0..MaxDispatches
    /\ freeze \in [revision : Nat, barrier : 0..MaxBarrier,
                   executions : SUBSET Ids]
    /\ barrierNext \in [1..MaxBarrier -> 0..MaxDispatches]

\* Every variable has the type of the field or local it models.
TypeOK == TypeLife /\ TypeRelease /\ TypeCalls /\ TypeBarrier

\* A Drain or WaitPending call sleeps on `changed` only while what it waits
\* for is still there: no End, Install or EndWithRelease that empties the
\* maps leaves a sleeper behind (registry.go, signalLocked).
NoLostWakeup ==
    /\ \A d \in Drainers : drain[d] = "blocked" => ~ NothingOpen
    /\ \A w \in Waiters : waiter[w] = "blocked" => pending # {}

\* Once a Drain call has gone through its snapshot, also one that gave up at
\* its deadline, no resource is left bound and unclosed, and none is bound
\* later: Install and Bind racing with Drain are either in the snapshot or
\* refused.
DrainReachesEveryResource ==
    \A d \in Drainers :
        drain[d] \in {"blocked", "woken", "failed", "done"} =>
            \A i \in Ids : res[i] # "bound"

\* Drain returns nil only when no dispatch is pending, no scope is left and
\* every resource ever bound has finished closing; and this stays so.
DrainedMeansIdle ==
    \A d \in Drainers :
        drain[d] = "done" =>
            /\ state = "closed" /\ pending = {} /\ scopes = {}
            /\ \A i \in Ids : CloseSettled(i)

\* When any Close call returns, the first, a concurrent one or one that
\* finds the registry drained, every resource ever bound has finished closing
\* although owners may still be ending their scopes.
ClosedMeansResourcesClosed ==
    \A c \in Closers :
        closer[c] = "done" => \A i \in Ids : res[i] \in {"none", "closed"}

\* The scopes of a group whose release has been counted.
ReleasedIn(g) == {i \in Ids : group[i] = g /\ owner[i] \in Released}

\* No sink is ever told of more releases than there are scopes of the group
\* whose resource has finished closing: Home never frees a slot whose
\* upstream request may still be running.
NoEarlyRelease ==
    \A s \in Sinks, g \in Groups :
        delivered[s][g] <=
            Cardinality({i \in ReleasedIn(g) : res[i] \in {"none", "closed"}})

\* A release is counted once per accounted scope, whatever Drain, Close and
\* the owner do concurrently.
ReleaseCountedOnce ==
    \A g \in Groups : relSeq[g] = Cardinality(ReleasedIn(g))

DeliveryInFlight(s) ==
    \/ \E i \in Ids : owner[i] = "delivering" /\ captured[i].sink = s
    \/ \E m \in replay : m.sink = s

\* Whenever no sink call is under way, the installed sink knows the full
\* count of every group: a release counted while the sink is being replaced
\* is either replayed or delivered, and late calls do not set it back.
NoLostRelease ==
    sink # NoSink /\ ~ DeliveryInFlight(sink) =>
        \A g \in Groups : delivered[sink][g] = relSeq[g]

\* A scope leaves the map, and so the in-flight snapshots, only after the
\* sink captured for it has been told of its release: Home never sees the
\* execution gone before its release is queued.
RemovedAfterDelivery ==
    \A i \in Ids :
        owner[i] \in {"removing", "ended"} /\ captured[i].sink # NoSink =>
            delivered[captured[i].sink][group[i]] >= captured[i].seq

\* Every counted release gets to the sink that reports it: none is lost when
\* the sink is replaced, and none comes after the end of its scope is visible
\* (SetReleaseSink, EndWithRelease).
ReleasesDelivered == NoLostRelease /\ RemovedAfterDelivery

\* When a snapshot carries barrier b, no dispatch begun before b was observed
\* is still unresolved, and every one of them that is still executing is
\* listed in that snapshot.
BarrierSettled ==
    freeze.barrier > 0 =>
        \A i \in 1..barrierNext[freeze.barrier] :
            /\ i \notin pending
            /\ owner[i] \in InScope => i \in freeze.executions

\* A Drain call that got past its state check returns, or meets its
\* deadline: whatever order the owners end in, some signal wakes it.
DrainTerminates ==
    \A d \in Drainers : drain[d] = "snapshot" ~> drain[d] \in {"done", "failed"}

=============================================================================
