------------------------- MODULE HomeLifetimeProofs -------------------------
(* Proofs about HomeLifetime, for every number of dispatches, client        *)
(* lifetimes and release groups. The registry is used only as it is         *)
(* specified, so what ExecutionRegistryProofs proves of it holds here; the  *)
(* rest is what connects it with the loop and the requests.                 *)
EXTENDS HomeLifetime, FiniteSetTheorems, TLAPS

\* The registry of HomeLifetime with what is proved about it.
RegP == INSTANCE ExecutionRegistryProofs
         WITH Sinks <- {Flusher}, Drainers <- {Subscriber}, Closers <- {},
              Waiters <- {Subscriber}, MaxBarrier <- 0, MaxFreezes <- 0

\* What the registry keeps by itself (ExecutionRegistryProofs).
RegInv ==
    /\ RegP!TypeOK /\ RegP!LifeInv
    /\ RegP!DrainStops /\ RegP!DrainListsBound /\ RegP!Drained
    /\ RegP!ReleaseCountedOnce /\ RegP!DeliveriesCounted /\ RegP!SinkInv

\* Where the loop serves dispatches, ends homeCtx, or gives the registry up.
Serving == {"running", "settle_rebalance", "detach", "detach_settled",
            "detach_unsettled", "settle", "decide"}
Shutdown == {"drain_shutdown", "flush", "clean"}
Stopping == {"drain_replace", "drain_exit", "replaced", "exited", "failed"}

\* The variables of the loop, the requests and the flusher have their types.
HomeType ==
    /\ life \in Lives /\ bundles \subseteq Lives
    /\ fenced \subseteq Lives /\ ambiguous \subseteq Lives
    /\ sub \in {"attaching"} \cup Serving \cup Shutdown \cup Stopping
    /\ via \in [Ids -> 0..MaxLives]
    /\ call \in [Ids -> {"none", "begun", "issued", "unanswered", "aborted",
                         "suspect", "over"}]
    /\ slot \in [Ids -> Granted \cup {"none", "asked", "denied"}]
    /\ latest \in [Groups -> Nat] /\ applied \in [Groups -> Nat]
    /\ acked \in [Groups -> Nat]

\* Where the request of a dispatch is, and what the registry has of it.
CallInv ==
    \A i \in Ids :
        /\ call[i] = "none" <=> owner[i] = "none"
        /\ call[i] \in {"none", "begun"} => slot[i] = "none"
        /\ call[i] \in {"begun", "issued", "unanswered", "aborted"} <=> owner[i] = "pending"

\* Only a scope has a release group.
GroupInv ==
    \A i \in Ids : owner[i] \in {"none", "pending", "dropped"} => group[i] = Unaccounted

\* Until the sink is attached nothing is begun; while dispatches are served the
\* registry accepts them and reports to the flusher; an end of the loop is
\* behind a Drain call. There is nothing to replay to the only sink.
LoopInv ==
    /\ sub = "attaching" => bundles = {} /\ next = 0
    /\ sub \in {"attaching"} \cup Serving => state = "accepting"
    /\ sub \in Serving \cup Shutdown => sink = Flusher
    /\ state = "closed" => drain[Subscriber] = "done"
    /\ drain[Subscriber] # "refused"
    /\ drain[Subscriber] = "idle" => state = "accepting"
    /\ sub \in {"flush", "clean", "replaced"} => drain[Subscriber] = "done"
    /\ sub = "exited" => drain[Subscriber] \in {"done", "failed"}
    /\ replay = {}

\* What Home has lies between what it confirmed and what was marked, which is
\* what the registry delivered.
QueueInv ==
    /\ \A g \in Groups : /\ acked[g] <= applied[g] /\ applied[g] <= latest[g]
                         /\ latest[g] = delivered[Flusher][g]
    /\ sub = "clean" => \A g \in Groups : acked[g] = latest[g]

\* Dispatches are made through clients up to the current one, and every client
\* before it is fenced; so is the current one once the loop waits to settle.
FenceInv ==
    /\ \A c \in bundles : c <= life
    /\ \A c \in Lives : c < life => c \in fenced
    /\ sub \in {"settle_rebalance", "detach_settled", "settle", "decide"} => life \in fenced
    /\ \A i \in Ids : via[i] <= life
    /\ \A i \in Ids : via[i] = 0 => call[i] = "none"

\* Behind WaitPending a pending dispatch of the client is one that its fence
\* keeps from being sent.
SettledInv ==
    \A i \in Ids :
        owner[i] = "pending" /\ (via[i] < life \/ sub \in {"detach_settled", "decide"})
            => call[i] = "begun"

\* A slot may be held for a dispatch that the registry will not report.
Lost(i) == MayHoldSlot(i) /\ owner[i] \notin Reg!InScope \cup {"ended"}

\* A slot that the registry may not know of has its token still pending or its
\* client marked, or there is no takeover to come.
MarkInv ==
    \A i \in Ids : Lost(i) =>
        owner[i] = "pending" \/ via[i] \in ambiguous \/ state # "accepting"

\* A token of a lost answer is ended only after its client was marked.
AbortedMarked == \A i \in Ids : call[i] = "aborted" => via[i] \in ambiguous

\* What holds of the loop and the requests, beside the registry's own invariant.
RestInv ==
    /\ HomeType /\ CallInv /\ GroupInv /\ LoopInv /\ QueueInv
    /\ FenceInv /\ SettledInv /\ MarkInv /\ AbortedMarked /\ TakeoverKeepsSlots

HomeInv == RegInv /\ RestInv

-----------------------------------------------------------------------------
(* Every step is a step of the registry, or leaves it alone.               *)

\* The two instances of the registry, of HomeLifetime and of its proofs, define
\* the same sets and the same steps.
LEMMA SameNames ==
    /\ Ids = RegP!Ids /\ Reg!Ids = RegP!Ids
    /\ Reg!pending = RegP!pending /\ Reg!scopes = RegP!scopes
    /\ Reg!InScope = RegP!InScope
    /\ Reg!NothingOpen <=> RegP!NothingOpen
<1>1. Ids = RegP!Ids /\ Reg!Ids = RegP!Ids /\ Reg!InScope = RegP!InScope
    BY DEF Reg!Ids, RegP!Ids, Ids, Reg!InScope, RegP!InScope
<1>2. Reg!pending = RegP!pending
    BY <1>1 DEF Reg!pending, RegP!pending
<1>3. Reg!scopes = RegP!scopes
    BY <1>1 DEF Reg!scopes, RegP!scopes
<1>4. Reg!NothingOpen <=> RegP!NothingOpen
    BY <1>2, <1>3 DEF Reg!NothingOpen, RegP!NothingOpen
<1> QED BY <1>1, <1>2, <1>3, <1>4

\* The steps of an owner.
LEMMA SameOwner ==
    ASSUME NEW i
    PROVE  /\ Reg!EndPending(i) => RegP!EndPending(i)
           /\ Reg!InstallRefused(i) => RegP!InstallRefused(i)
           /\ \A g : Reg!Install(i, g) => RegP!Install(i, g)
           /\ Reg!Bind(i) => RegP!Bind(i)
           /\ Reg!EndDeactivate(i) => RegP!EndDeactivate(i)
           /\ Reg!EndStartClose(i) => RegP!EndStartClose(i)
           /\ Reg!CloseResource(i) => RegP!CloseResource(i)
           /\ Reg!EndMarkReleased(i) => RegP!EndMarkReleased(i)
           /\ Reg!EndDeliver(i) => RegP!EndDeliver(i)
           /\ Reg!EndRemove(i) => RegP!EndRemove(i)
<1> USE SameNames DEF Reg!lifeVars, RegP!lifeVars, Reg!releaseVars, RegP!releaseVars,
        Reg!drainVars, RegP!drainVars, Reg!closeVars, RegP!closeVars, Reg!callVars,
        RegP!callVars, Reg!barrierVars, RegP!barrierVars, Reg!signalLocked,
        RegP!signalLocked, Reg!Wake, RegP!Wake
<1>1. Reg!EndPending(i) => RegP!EndPending(i)
    BY DEF Reg!EndPending, RegP!EndPending
<1>2. Reg!InstallRefused(i) => RegP!InstallRefused(i)
    BY <1>1 DEF Reg!InstallRefused, RegP!InstallRefused
<1>3. \A g : Reg!Install(i, g) => RegP!Install(i, g)
    BY DEF Reg!Install, RegP!Install
<1>4. Reg!Bind(i) => RegP!Bind(i)
    BY DEF Reg!Bind, RegP!Bind, Reg!BindAllowed, RegP!BindAllowed
<1>5. Reg!EndDeactivate(i) => RegP!EndDeactivate(i)
    BY DEF Reg!EndDeactivate, RegP!EndDeactivate
<1>6. Reg!EndStartClose(i) => RegP!EndStartClose(i)
    BY DEF Reg!EndStartClose, RegP!EndStartClose, Reg!StartClose, RegP!StartClose
<1>7. Reg!CloseResource(i) => RegP!CloseResource(i)
    BY DEF Reg!CloseResource, RegP!CloseResource
<1>8. Reg!EndMarkReleased(i) => RegP!EndMarkReleased(i)
    BY DEF Reg!EndMarkReleased, RegP!EndMarkReleased, Reg!CloseSettled, RegP!CloseSettled,
           Reg!AfterMark, RegP!AfterMark
<1>9. Reg!EndDeliver(i) => RegP!EndDeliver(i)
    BY DEF Reg!EndDeliver, RegP!EndDeliver, Reg!Receive, RegP!Receive
<1>10. Reg!EndRemove(i) => RegP!EndRemove(i)
    BY DEF Reg!EndRemove, RegP!EndRemove
<1> QED BY <1>1, <1>2, <1>3, <1>4, <1>5, <1>6, <1>7, <1>8, <1>9, <1>10

\* The steps of the other callers.
LEMMA SameCalls ==
    /\ Reg!BeginDispatch => RegP!BeginDispatch
    /\ \A s : Reg!SetReleaseSink(s) => RegP!SetReleaseSink(s)
    /\ \A d : Reg!DrainBegin(d) => RegP!DrainBegin(d)
    /\ \A d : Reg!DrainSnapshot(d) => RegP!DrainSnapshot(d)
    /\ \A d, i : Reg!DrainStartClose(d, i) => RegP!DrainStartClose(d, i)
    /\ \A d : Reg!DrainCheck(d) => RegP!DrainCheck(d)
    /\ \A d : Reg!DrainTimeout(d) => RegP!DrainTimeout(d)
    /\ \A w : Reg!WaitPendingCheck(w) => RegP!WaitPendingCheck(w)
    /\ \A w : Reg!WaitPendingTimeout(w) => RegP!WaitPendingTimeout(w)
<1> USE SameNames DEF Reg!lifeVars, RegP!lifeVars, Reg!releaseVars, RegP!releaseVars,
        Reg!drainVars, RegP!drainVars, Reg!closeVars, RegP!closeVars, Reg!callVars,
        RegP!callVars, Reg!barrierVars, RegP!barrierVars, Reg!signalLocked,
        RegP!signalLocked, Reg!Wake, RegP!Wake
<1>1. Reg!BeginDispatch => RegP!BeginDispatch
    BY DEF Reg!BeginDispatch, RegP!BeginDispatch
<1>2. \A s : Reg!SetReleaseSink(s) => RegP!SetReleaseSink(s)
    BY DEF Reg!SetReleaseSink, RegP!SetReleaseSink, Reg!Sequences, RegP!Sequences
<1>3. \A d : Reg!DrainBegin(d) => RegP!DrainBegin(d)
    BY DEF Reg!DrainBegin, RegP!DrainBegin
<1>4. \A d : Reg!DrainSnapshot(d) => RegP!DrainSnapshot(d)
    BY DEF Reg!DrainSnapshot, RegP!DrainSnapshot
<1>5. \A d, i : Reg!DrainStartClose(d, i) => RegP!DrainStartClose(d, i)
    BY DEF Reg!DrainStartClose, RegP!DrainStartClose, Reg!StartClose, RegP!StartClose
<1>6. \A d : Reg!DrainCheck(d) => RegP!DrainCheck(d)
    BY DEF Reg!DrainCheck, RegP!DrainCheck
<1>7. \A d : Reg!DrainTimeout(d) => RegP!DrainTimeout(d)
    BY DEF Reg!DrainTimeout, RegP!DrainTimeout
<1>8. \A w : Reg!WaitPendingCheck(w) => RegP!WaitPendingCheck(w)
    BY DEF Reg!WaitPendingCheck, RegP!WaitPendingCheck
<1>9. \A w : Reg!WaitPendingTimeout(w) => RegP!WaitPendingTimeout(w)
    BY DEF Reg!WaitPendingTimeout, RegP!WaitPendingTimeout
<1> QED BY <1>1, <1>2, <1>3, <1>4, <1>5, <1>6, <1>7, <1>8, <1>9

\* The registry of HomeLifetime implements ExecutionRegistry.
LEMMA RegStep == HomeType /\ [Next]_vars => [RegP!Next]_(RegP!vars)
<1> SUFFICES ASSUME HomeType, [Next]_vars PROVE RegP!Next \/ UNCHANGED RegP!vars
    OBVIOUS
<1> USE SameNames
<1>0. UNCHANGED regVars => UNCHANGED RegP!vars
    BY DEF regVars, RegP!vars, RegP!lifeVars, RegP!releaseVars, RegP!drainVars,
           RegP!closeVars, RegP!callVars, RegP!barrierVars
<1>1. \A i \in Ids : RegP!OwnerNext(i) => RegP!Next
    BY DEF RegP!Next
<1>2. ASSUME NEW c \in Lives, Begin(c) PROVE RegP!Next
    BY <1>2, SameCalls DEF Begin, RegP!Next
<1>3. ASSUME NEW i \in Ids, Reg!EndPending(i) PROVE RegP!Next
    BY <1>1, <1>3, SameOwner DEF RegP!OwnerNext
<1>4. ASSUME NEW i \in Ids, RefusedUnsent(i) \/ Denied(i) \/ EndAborted(i) PROVE RegP!Next
    BY <1>3, <1>4 DEF RefusedUnsent, Denied, EndAborted
<1>5. ASSUME NEW i \in Ids,
             \/ Issue(i) \/ Unanswered(i) \/ Abort(i)
             \/ \E a \in Granted \cup {"denied"} : HomeAnswers(i, a)
      PROVE  UNCHANGED RegP!vars
    BY <1>0, <1>5 DEF Issue, Unanswered, Abort, HomeAnswers
<1>6. ASSUME NEW i \in Ids, Installed(i) PROVE RegP!Next
    BY <1>1, <1>6, SameOwner DEF Installed, RegP!OwnerNext, Granted
<1>7. ASSUME NEW i \in Ids, InstallRefused(i) PROVE RegP!Next
    BY <1>1, <1>7, SameOwner DEF InstallRefused, RegP!OwnerNext
<1>8. ASSUME NEW i \in Ids, Executes(i) PROVE RegP!Next
  <2>1. ASSUME Reg!CloseResource(i) PROVE RegP!Next
    BY <2>1, SameOwner DEF RegP!Next
  <2> QED BY <1>1, <1>8, <2>1, SameOwner DEF Executes, RegP!OwnerNext
<1>9. ASSUME NEW i \in Ids, Releases(i) PROVE RegP!Next
    BY <1>1, <1>9, SameOwner DEF Releases, RegP!OwnerNext
<1>10. ASSUME FlusherStep \/ Publish \/ LifetimeEnds \/ Detach \/ TakeOver \/ FlushReleases
       PROVE  UNCHANGED RegP!vars
    BY <1>0, <1>10 DEF FlusherStep, Publish, LifetimeEnds, Detach, TakeOver, FlushReleases,
               RegQueueUnchanged
<1>11. ASSUME Attach \/ RemoveSink PROVE RegP!Next
  <2>1. PICK s \in {Flusher, NoSink} : RegP!SetReleaseSink(s)
    BY <1>11, SameCalls DEF Attach, RemoveSink
  <2> QED BY <2>1 DEF RegP!Next
<1>12. ASSUME SettleRebalance \/ SettleFailed PROVE RegP!Next
    BY <1>12, SameCalls DEF SettleRebalance, SettleFailed, Settle, RegP!Next
<1>13. ASSUME Draining PROVE RegP!Next
  <2>1. RegP!DrainNext(Subscriber)
    BY <1>13, SameCalls DEF Draining, RegP!DrainNext
  <2> QED BY <2>1 DEF RegP!Next
<1>14. ASSUME UNCHANGED vars PROVE UNCHANGED RegP!vars
    BY <1>0, <1>14 DEF vars
<1> QED BY <1>2, <1>4, <1>5, <1>6, <1>7, <1>8, <1>9, <1>10, <1>11, <1>12, <1>13, <1>14
        DEF Next

\* So the registry keeps the invariants proved of it.
LEMMA RegInvNext == HomeType /\ RegInv /\ [Next]_vars => RegInv'
<1> SUFFICES ASSUME HomeType, RegInv, [Next]_vars PROVE RegInv'
    OBVIOUS
<1> USE HomeAssumption
<1>0. [RegP!Next]_(RegP!vars)
    BY RegStep
<1>1. RegP!TypeOK'
  <2>1. RegP!TypeLife' BY <1>0, RegP!TypeLifeNext DEF RegInv
  <2>2. RegP!TypeRelease' BY <1>0, RegP!TypeReleaseNext DEF RegInv
  <2>3. RegP!TypeCalls' BY <1>0, RegP!TypeCallsNext DEF RegInv
  <2>4. RegP!TypeBarrier' BY <1>0, RegP!TypeBarrierNext DEF RegInv
  <2> QED BY <2>1, <2>2, <2>3, <2>4 DEF RegP!TypeOK
<1>2. RegP!LifeInv' BY <1>0, RegP!LifeInvNext DEF RegInv
<1>3. RegP!DrainStops' BY <1>0, RegP!DrainStopsNext DEF RegInv
<1>4. RegP!DrainListsBound' BY <1>0, RegP!DrainListsBoundNext DEF RegInv
<1>5. RegP!Drained' BY <1>0, RegP!DrainedNext DEF RegInv
<1>6. RegP!ReleaseCountedOnce' BY <1>0, RegP!ReleaseCountedOnceNext DEF RegInv
<1>7. RegP!DeliveriesCounted' BY <1>0, RegP!DeliveriesCountedNext DEF RegInv
<1>8. RegP!SinkInv' BY <1>0, RegP!SinkInvNext DEF RegInv
<1> QED BY <1>1, <1>2, <1>3, <1>4, <1>5, <1>6, <1>7, <1>8 DEF RegInv
-----------------------------------------------------------------------------
(* What every step does to the rest of the invariant.                      *)

DrainPlaces == {"idle", "snapshot", "closing", "blocked", "woken", "done", "failed", "refused"}

\* The types of the registry's variables that the loop and the requests use.
LEMMA RegTypes ==
    ASSUME RegInv
    PROVE  /\ owner \in [Ids -> {"none", "pending", "running", "ending", "awaiting",
                                 "delivering", "removing", "ended", "dropped"}]
           /\ group \in [Ids -> Groups \cup {Unaccounted}]
           /\ state \in {"accepting", "draining", "closed"}
           /\ next \in 0..MaxDispatches
           /\ drain \in [{Subscriber} -> DrainPlaces]
           /\ delivered \in [{Flusher} -> [Groups -> Nat]]
           /\ relSeq \in [Groups -> Nat]
           /\ captured \in [Ids -> [sink : {Flusher} \cup {NoSink}, seq : Nat]]
BY SameNames DEF RegInv, RegP!TypeOK, RegP!TypeLife, RegP!TypeRelease, RegP!TypeCalls, RegP!Owners,
    RegP!States, RegP!Capture, DrainPlaces

\* Both instances count with the same Cardinality.
LEMMA SameCardinality == \A S : RegP!Cardinality(S) = Cardinality(S)
BY DEF RegP!Cardinality, Cardinality

\* A signal wakes the Drain call, which is then still under way.
LEMMA SignalKeeps ==
    ASSUME RegInv, Reg!signalLocked
    PROVE  \A p \in {"idle", "done", "failed", "refused"} :
                drain'[Subscriber] = p <=> drain[Subscriber] = p
BY RegTypes DEF Reg!signalLocked, Reg!Wake, DrainPlaces

\* A request begins: nothing is sent yet.
LEMMA BeginKeeps ==
    ASSUME RegInv, RestInv, NEW c \in Lives, Begin(c)
    PROVE  RestInv'
<1> USE HomeAssumption, RegTypes DEF RestInv
<1>a. next' \in Ids /\ owner[next'] = "none"
    BY SameNames DEF Begin, Reg!BeginDispatch, RegInv, RegP!LifeInv, RegP!Unborn, Ids
<1>b. /\ c \in bundles /\ owner' = [owner EXCEPT ![next'] = "pending"]
      /\ via' = [via EXCEPT ![next'] = c] /\ call' = [call EXCEPT ![next'] = "begun"]
      /\ UNCHANGED <<state, group, sink, replay, delivered, drain>>
      /\ UNCHANGED <<latest, applied, acked, life, bundles, fenced, ambiguous, sub, slot>>
    BY DEF Begin, Reg!BeginDispatch, Reg!releaseVars, Reg!callVars, Reg!drainVars, queueVars, subVars
<1>1. HomeType'
    BY <1>a, <1>b DEF HomeType, Serving, Shutdown, Stopping, Lives
<1>2. CallInv'
    BY <1>a, <1>b DEF CallInv, HomeType
<1>3. GroupInv'
    BY <1>a, <1>b DEF GroupInv
<1>4. LoopInv'
    BY <1>a, <1>b DEF LoopInv, Begin
<1>5. QueueInv'
    BY <1>a, <1>b DEF QueueInv
<1>6. FenceInv'
  <2>1. c <= life /\ c # 0
    BY <1>b DEF FenceInv, Lives
  <2>2. \A j \in Ids : \/ via'[j] = via[j] /\ call'[j] = call[j]
                       \/ via'[j] = c /\ call'[j] = "begun"
    BY <1>a, <1>b DEF HomeType
  <2> QED BY <1>b, <2>1, <2>2 DEF FenceInv
<1>7. SettledInv'
    BY <1>a, <1>b DEF SettledInv, CallInv, FenceInv, HomeType
<1>8. MarkInv'
    BY <1>a, <1>b DEF MarkInv, Lost, MayHoldSlot, HomeType, CallInv, subVars
<1>9. AbortedMarked'
    BY <1>a, <1>b DEF AbortedMarked, HomeType, subVars
<1>10. TakeoverKeepsSlots'
  <2> SUFFICES ASSUME NEW j \in Ids, (0 < via[j] /\ via[j] < life /\ MayHoldSlot(j))'
               PROVE  owner'[j] \in Reg!InScope \cup {"ended"}
    BY DEF TakeoverKeepsSlots, Reg!InScope
  <2>1. j # next'
    BY <1>a, <1>b DEF CallInv, MayHoldSlot, HomeType
  <2> QED BY <1>a, <1>b, <2>1 DEF TakeoverKeepsSlots, MayHoldSlot, HomeType, subVars
<1> QED BY <1>1, <1>2, <1>3, <1>4, <1>5, <1>6, <1>7, <1>8, <1>9, <1>10

\* A request ends its token without a scope.
LEMMA EndKeeps ==
    ASSUME RegInv, RestInv, NEW i \in Ids, RefusedUnsent(i) \/ Denied(i) \/ EndAborted(i)
    PROVE  RestInv'
<1> USE HomeAssumption, RegTypes DEF RestInv
<1>a. /\ owner[i] = "pending" /\ owner' = [owner EXCEPT ![i] = "dropped"]
      /\ call[i] \in {"begun", "issued", "aborted"} /\ call' = [call EXCEPT ![i] = "over"]
      /\ Reg!signalLocked
      /\ UNCHANGED <<state, next, group, sink, replay, delivered, via, slot>>
      /\ UNCHANGED <<latest, applied, acked, life, bundles, fenced, ambiguous, sub>>
    BY DEF RefusedUnsent, Denied, EndAborted, Reg!EndPending, Reg!releaseVars, queueVars, subVars
<1>b. call[i] = "aborted" \/ ~ MayHoldSlot(i)
    BY DEF RefusedUnsent, Denied, EndAborted, CallInv, MayHoldSlot
<1>1. HomeType'
    BY <1>a DEF HomeType, Serving, Shutdown, Stopping, Lives
<1>2. CallInv'
    BY <1>a DEF CallInv, HomeType
<1>3. GroupInv'
    BY <1>a DEF GroupInv
<1>4. LoopInv'
    BY <1>a, SignalKeeps DEF LoopInv
<1>5. QueueInv'
    BY <1>a DEF QueueInv
<1>6. FenceInv'
    BY <1>a DEF FenceInv, HomeType, subVars
<1>7. SettledInv'
    BY <1>a DEF SettledInv, CallInv, FenceInv, HomeType
<1>8. MarkInv'
    BY <1>a, <1>b DEF MarkInv, AbortedMarked, Lost, MayHoldSlot, HomeType, subVars
<1>9. AbortedMarked'
    BY <1>a DEF AbortedMarked, HomeType, subVars
<1>10. TakeoverKeepsSlots'
    BY <1>a DEF TakeoverKeepsSlots, MayHoldSlot, Reg!InScope, HomeType
<1> QED BY <1>1, <1>2, <1>3, <1>4, <1>5, <1>6, <1>7, <1>8, <1>9, <1>10

\* The RPOP is sent, Home takes it, or its answer is given up.
LEMMA AskKeeps ==
    ASSUME RegInv, RestInv, NEW i \in Ids,
           \/ Issue(i) \/ Unanswered(i)
           \/ \E a \in Granted \cup {"denied"} : HomeAnswers(i, a)
    PROVE  RestInv'
<1> USE HomeAssumption, RegTypes DEF RestInv
<1>a. /\ UNCHANGED <<regVars, queueVars, subVars, via>>
      /\ \A j \in Ids \ {i} : call'[j] = call[j] /\ slot'[j] = slot[j]
    BY DEF Issue, Unanswered, HomeAnswers, HomeType
<1>b. \/ /\ call[i] = "begun" /\ via[i] \notin fenced /\ call'[i] = "issued"
         /\ slot[i] = "none" /\ slot'[i] = "asked"
      \/ /\ slot[i] = "asked" /\ slot'[i] \in Granted \cup {"denied"}
         /\ call'[i] = call[i]
      \/ /\ call[i] = "issued" /\ call'[i] = "unanswered" /\ slot'[i] = slot[i]
    BY DEF Issue, Unanswered, HomeAnswers, HomeType, CallInv
<1>c. /\ call' \in [Ids -> {"none", "begun", "issued", "unanswered", "aborted", "suspect", "over"}]
      /\ slot' \in [Ids -> Granted \cup {"none", "asked", "denied"}]
    BY DEF Issue, Unanswered, HomeAnswers, HomeType
<1>1. HomeType'
    BY <1>a, <1>c DEF HomeType, subVars, queueVars
<1>2. CallInv'
  <2>1. \A j \in Ids \ {i} : owner'[j] = owner[j] /\ call'[j] = call[j] /\ slot'[j] = slot[j]
    BY <1>a DEF regVars
  <2>2. owner'[i] = owner[i]
    BY <1>a DEF regVars
  <2> QED BY <1>b, <2>1, <2>2 DEF CallInv, Granted
<1>3. GroupInv'
    BY <1>a DEF GroupInv, regVars
<1>4. LoopInv'
    BY <1>a DEF LoopInv, regVars, subVars
<1>5. QueueInv'
    BY <1>a DEF QueueInv, regVars, queueVars, subVars
<1>6. FenceInv'
    BY <1>a, <1>b DEF FenceInv, subVars
<1>7. SettledInv'
  <2> SUFFICES ASSUME NEW j \in Ids,
                      owner[j] = "pending",
                      via[j] < life \/ sub \in {"detach_settled", "decide"}
               PROVE  call'[j] = "begun"
    BY <1>a DEF SettledInv, regVars, subVars
  <2>1. call[j] = "begun"
    BY DEF SettledInv
  <2>2. via[j] \in fenced
    <3>1. via[j] \in Lives /\ via[j] <= life /\ life \in Lives
      BY <2>1 DEF FenceInv, HomeType, Lives
    <3>2. CASE via[j] < life
      BY <3>1, <3>2 DEF FenceInv
    <3>3. CASE via[j] = life
      BY <3>1, <3>3 DEF FenceInv, Lives
    <3>4. via[j] < life \/ via[j] = life
      <4> HIDE RegTypes DEF RestInv
      <4> QED BY <3>1 DEF Lives
    <3> QED BY <3>2, <3>3, <3>4
  <2> QED BY <1>a, <1>b, <2>1, <2>2 DEF CallInv
<1>8. MarkInv'
  <2>1. \A j \in Ids \ {i} : Lost(j)' => Lost(j)
    BY <1>a DEF Lost, MayHoldSlot, regVars
  <2>2. Lost(i)' => Lost(i) \/ owner[i] = "pending"
    BY <1>a, <1>b DEF Lost, MayHoldSlot, regVars, CallInv
  <2> QED BY <1>a, <2>1, <2>2 DEF MarkInv, regVars, subVars
<1>9. AbortedMarked'
    BY <1>a, <1>b DEF AbortedMarked, subVars
<1>10. TakeoverKeepsSlots'
  <2> SUFFICES ASSUME NEW j \in Ids, 0 < via[j], via[j] < life, MayHoldSlot(j)'
               PROVE  owner[j] \in Reg!InScope \cup {"ended"}
    BY <1>a DEF TakeoverKeepsSlots, regVars, subVars, Reg!InScope
  <2>1. via[j] \in fenced
    BY DEF FenceInv, HomeType, Lives
  <2>2. MayHoldSlot(j)
    BY <1>a, <1>b, <2>1 DEF MayHoldSlot
  <2> QED BY <2>2 DEF TakeoverKeepsSlots
<1> QED BY <1>1, <1>2, <1>3, <1>4, <1>5, <1>6, <1>7, <1>8, <1>9, <1>10

\* The client of a lost answer is marked.
LEMMA AbortKeeps ==
    ASSUME RegInv, RestInv, NEW i \in Ids, Abort(i)
    PROVE  RestInv'
<1> USE HomeAssumption, RegTypes DEF RestInv
<1>a. /\ call[i] \in {"unanswered", "suspect"}
      /\ ambiguous' = ambiguous \cup {via[i]} /\ fenced' = fenced \cup {via[i]}
      /\ call' = [call EXCEPT ![i] = IF @ = "suspect" THEN "over" ELSE "aborted"]
      /\ UNCHANGED <<owner, group, state, next, sink, replay, delivered, drain>>
      /\ UNCHANGED <<latest, applied, acked, life, bundles, sub, via, slot>>
    BY DEF Abort, AbortAmbiguousDispatch, regVars, queueVars
<1>1. HomeType'
  <2>1. via[i] \in Lives
    BY <1>a DEF HomeType, FenceInv, Lives
  <2> QED BY <1>a, <2>1 DEF HomeType
<1>2. CallInv'
    BY <1>a DEF CallInv, HomeType
<1>3. GroupInv'
    BY <1>a DEF GroupInv
<1>4. LoopInv'
    BY <1>a DEF LoopInv, Serving, Shutdown
<1>5. QueueInv'
    BY <1>a DEF QueueInv
<1>6. FenceInv'
    BY <1>a DEF FenceInv, HomeType, Lives
<1>7. SettledInv'
    BY <1>a DEF SettledInv, CallInv, FenceInv, HomeType
<1>8. MarkInv'
    BY <1>a DEF MarkInv, Lost, MayHoldSlot, Reg!InScope, HomeType
<1>9. AbortedMarked'
    BY <1>a DEF AbortedMarked, HomeType
<1>10. TakeoverKeepsSlots'
    BY <1>a DEF TakeoverKeepsSlots, MayHoldSlot, Reg!InScope, HomeType
<1> QED BY <1>1, <1>2, <1>3, <1>4, <1>5, <1>6, <1>7, <1>8, <1>9, <1>10

\* An answer becomes a scope.
LEMMA InstallKeeps ==
    ASSUME RegInv, RestInv, NEW i \in Ids, Installed(i)
    PROVE  RestInv'
<1> USE HomeAssumption, RegTypes DEF RestInv
<1>a. /\ owner[i] = "pending" /\ owner' = [owner EXCEPT ![i] = "running"]
      /\ call[i] = "issued" /\ slot[i] \in Granted
      /\ \E v \in {"over", "suspect"} : call' = [call EXCEPT ![i] = v]
      /\ group' = [group EXCEPT ![i] = slot[i]] /\ Reg!signalLocked
      /\ UNCHANGED <<state, next, sink, replay, delivered, via, slot>>
      /\ UNCHANGED <<latest, applied, acked, life, bundles, fenced, ambiguous, sub>>
    BY DEF Installed, Reg!Install, Reg!releaseVars, queueVars, subVars
<1>1. HomeType'
    BY <1>a DEF HomeType, Serving, Shutdown, Stopping, Lives
<1>2. CallInv'
    BY <1>a DEF CallInv, HomeType
<1>3. GroupInv'
    BY <1>a DEF GroupInv
<1>4. LoopInv'
    BY <1>a, SignalKeeps DEF LoopInv
<1>5. QueueInv'
    BY <1>a DEF QueueInv
<1>6. FenceInv'
    BY <1>a DEF FenceInv, HomeType, Lives
<1>7. SettledInv'
    BY <1>a DEF SettledInv, CallInv, FenceInv, HomeType
<1>8. MarkInv'
    BY <1>a DEF MarkInv, Lost, MayHoldSlot, Reg!InScope, HomeType
<1>9. AbortedMarked'
    BY <1>a DEF AbortedMarked, HomeType
<1>10. TakeoverKeepsSlots'
    BY <1>a DEF TakeoverKeepsSlots, MayHoldSlot, Reg!InScope, HomeType
<1> QED BY <1>1, <1>2, <1>3, <1>4, <1>5, <1>6, <1>7, <1>8, <1>9, <1>10

\* A stopping registry refuses the answer.
LEMMA RefuseKeeps ==
    ASSUME RegInv, RestInv, NEW i \in Ids, InstallRefused(i)
    PROVE  RestInv'
<1> USE HomeAssumption, RegTypes DEF RestInv
<1>a. /\ owner[i] = "pending" /\ owner' = [owner EXCEPT ![i] = "dropped"]
      /\ call[i] = "issued" /\ call' = [call EXCEPT ![i] = "suspect"]
      /\ state # "accepting" /\ Reg!signalLocked
      /\ UNCHANGED <<state, next, group, sink, replay, delivered, via, slot>>
      /\ UNCHANGED <<latest, applied, acked, life, bundles, fenced, ambiguous, sub>>
    BY DEF InstallRefused, Reg!InstallRefused, Reg!EndPending, Reg!releaseVars, queueVars, subVars
<1>1. HomeType'
    BY <1>a DEF HomeType, Serving, Shutdown, Stopping, Lives
<1>2. CallInv'
    BY <1>a DEF CallInv, HomeType
<1>3. GroupInv'
    BY <1>a DEF GroupInv
<1>4. LoopInv'
    BY <1>a, SignalKeeps DEF LoopInv
<1>5. QueueInv'
    BY <1>a DEF QueueInv
<1>6. FenceInv'
    BY <1>a DEF FenceInv, HomeType, Lives
<1>7. SettledInv'
    BY <1>a DEF SettledInv, CallInv, FenceInv, HomeType
<1>8. MarkInv'
    BY <1>a DEF MarkInv, Lost, MayHoldSlot, Reg!InScope, HomeType
<1>9. AbortedMarked'
    BY <1>a DEF AbortedMarked, HomeType
<1>10. TakeoverKeepsSlots'
    BY <1>a DEF TakeoverKeepsSlots, MayHoldSlot, Reg!InScope, HomeType
<1> QED BY <1>1, <1>2, <1>3, <1>4, <1>5, <1>6, <1>7, <1>8, <1>9, <1>10

\* A scope runs and ends.
LEMMA ExecuteKeeps ==
    ASSUME RegInv, RestInv, NEW i \in Ids, Executes(i)
    PROVE  RestInv'
<1> USE HomeAssumption, RegTypes DEF RestInv
<1>a. /\ UNCHANGED <<state, next, group, sink, replay, delivered, queueVars, subVars, callVars>>
      /\ UNCHANGED drain \/ Reg!signalLocked
    BY DEF Executes, Reg!Bind, Reg!EndDeactivate, Reg!EndStartClose, Reg!CloseResource,
           Reg!EndMarkReleased, Reg!EndRemove, Reg!releaseVars, Reg!callVars, Reg!drainVars
<1>b. \A j \in Ids : \/ owner'[j] = owner[j]
                     \/ owner[j] \in Reg!InScope /\ owner'[j] \in Reg!InScope \cup {"ended"}
    BY DEF Executes, Reg!Bind, Reg!EndDeactivate, Reg!EndStartClose, Reg!CloseResource,
           Reg!EndMarkReleased, Reg!AfterMark, Reg!EndRemove, Reg!InScope
<1>c. \A p \in {"idle", "done", "failed", "refused"} :
            drain'[Subscriber] = p <=> drain[Subscriber] = p
    BY <1>a, SignalKeeps
<1>1. HomeType'
    BY <1>a DEF HomeType, queueVars, subVars, callVars
<1>2. CallInv'
    BY <1>a, <1>b DEF CallInv, Reg!InScope, subVars, callVars
<1>3. GroupInv'
    BY <1>a, <1>b DEF GroupInv, Reg!InScope, subVars, callVars
<1>4. LoopInv'
    BY <1>a, <1>c DEF LoopInv, subVars
<1>5. QueueInv'
    BY <1>a DEF QueueInv, queueVars, subVars
<1>6. FenceInv'
    BY <1>a DEF FenceInv, subVars, callVars
<1>7. SettledInv'
    BY <1>a, <1>b DEF SettledInv, Reg!InScope, subVars, callVars
<1>8. MarkInv'
    BY <1>a, <1>b DEF MarkInv, Lost, MayHoldSlot, Reg!InScope, subVars, callVars
<1>9. AbortedMarked'
    BY <1>a DEF AbortedMarked, subVars, callVars
<1>10. TakeoverKeepsSlots'
    BY <1>a, <1>b DEF TakeoverKeepsSlots, MayHoldSlot, Reg!InScope, subVars, callVars
<1> QED BY <1>1, <1>2, <1>3, <1>4, <1>5, <1>6, <1>7, <1>8, <1>9, <1>10

\* The flusher is told of a release.
LEMMA ReleaseKeeps ==
    ASSUME RegInv, RestInv, NEW i \in Ids, Releases(i)
    PROVE  RestInv'
<1> USE HomeAssumption, RegTypes DEF RestInv
<1>a. /\ owner[i] = "delivering" /\ owner' = [owner EXCEPT ![i] = "removing"]
      /\ latest' = [latest EXCEPT ![group[i]] = IF captured[i].seq > @ THEN captured[i].seq ELSE @]
      /\ delivered' = [delivered EXCEPT ![captured[i].sink][group[i]] =
                            IF captured[i].seq > @ THEN captured[i].seq ELSE @]
      /\ UNCHANGED <<state, next, group, sink, replay, drain, applied, acked>>
      /\ UNCHANGED <<life, bundles, fenced, ambiguous, sub, via, call, slot>>
    BY DEF Releases, Reg!EndDeliver, Reg!Receive, Queue!Mark, Reg!callVars, Reg!drainVars,
           subVars, callVars
<1>b. captured[i].sink = Flusher /\ captured[i].seq \in Nat /\ group[i] \in Groups
    BY <1>a, SameNames DEF RegInv, RegP!DeliveriesCounted
<1>1. HomeType'
  <2>1. latest' \in [Groups -> Nat]
    BY <1>a, <1>b DEF HomeType
  <2> QED BY <1>a, <2>1 DEF HomeType
<1>2. CallInv'
    BY <1>a DEF CallInv
<1>3. GroupInv'
    BY <1>a DEF GroupInv
<1>4. LoopInv'
    BY <1>a DEF LoopInv, Serving, Shutdown
<1>5. QueueInv'
  <2>1. sub # "clean"
    BY <1>a, SameNames DEF RegInv, RegP!Drained, RegP!scopes, RegP!InScope, LoopInv
  <2> QED BY <1>a, <1>b, <2>1 DEF QueueInv, HomeType
<1>6. FenceInv'
    BY <1>a DEF FenceInv, HomeType, Lives
<1>7. SettledInv'
    BY <1>a DEF SettledInv, CallInv, FenceInv, HomeType
<1>8. MarkInv'
    BY <1>a DEF MarkInv, Lost, MayHoldSlot, Reg!InScope, HomeType
<1>9. AbortedMarked'
    BY <1>a DEF AbortedMarked
<1>10. TakeoverKeepsSlots'
    BY <1>a DEF TakeoverKeepsSlots, MayHoldSlot, Reg!InScope, HomeType
<1> QED BY <1>1, <1>2, <1>3, <1>4, <1>5, <1>6, <1>7, <1>8, <1>9, <1>10

\* The flusher reports.
LEMMA FlusherKeeps ==
    ASSUME RegInv, RestInv, FlusherStep
    PROVE  RestInv'
<1> USE HomeAssumption, RegTypes DEF RestInv
<1>a. PICK g \in Groups, n \in Ids :
        \/ /\ applied[g] < n /\ n <= latest[g] /\ applied' = [applied EXCEPT ![g] = n]
           /\ UNCHANGED <<latest, acked>>
        \/ /\ acked[g] < n /\ n <= applied[g] /\ acked' = [acked EXCEPT ![g] = n]
           /\ UNCHANGED <<latest, applied>>
    BY DEF FlusherStep, Queue!Apply, Queue!Ack
<1>b. UNCHANGED <<regVars, subVars, callVars>>
    BY DEF FlusherStep
<1>c. n \in Nat
    BY DEF Ids
<1>1. HomeType'
  <2>1. applied' \in [Groups -> Nat] /\ acked' \in [Groups -> Nat] /\ latest' = latest
    BY <1>a, <1>c DEF HomeType
  <2> QED BY <1>b, <2>1 DEF HomeType, subVars, callVars
<1>2. CallInv'
    BY <1>b DEF CallInv, regVars, callVars
<1>3. GroupInv'
    BY <1>b DEF GroupInv, regVars
<1>4. LoopInv'
    BY <1>b DEF LoopInv, regVars, subVars
<1>5. QueueInv'
  <2>1. delivered' = delivered /\ sub' = sub /\ latest' = latest
    BY <1>a, <1>b DEF regVars, subVars
  <2>2. \A h \in Groups : /\ acked'[h] <= applied'[h] /\ applied'[h] <= latest[h]
                          /\ acked[h] <= acked'[h]
    BY <1>a, <1>c DEF QueueInv, HomeType
  <2>3. \A h \in Groups : acked[h] \in Nat /\ acked'[h] \in Nat /\ applied'[h] \in Nat /\ latest[h] \in Nat
    BY <1>1, <2>1 DEF HomeType
  <2>4. sub' = "clean" => \A h \in Groups : acked'[h] = latest'[h]
    <3> SUFFICES ASSUME sub = "clean", NEW h \in Groups PROVE acked'[h] = latest[h]
      BY <2>1
    <3>1. acked[h] = latest[h]
      BY DEF QueueInv
    <3> HIDE RegTypes, HomeAssumption DEF RestInv
    <3> QED BY <2>2, <2>3, <3>1
  <2> QED BY <2>1, <2>2, <2>4 DEF QueueInv
<1>6. FenceInv'
    BY <1>b DEF FenceInv, subVars, callVars
<1>7. SettledInv'
    BY <1>b DEF SettledInv, regVars, subVars, callVars
<1>8. MarkInv'
    BY <1>b DEF MarkInv, Lost, MayHoldSlot, regVars, subVars, callVars
<1>9. AbortedMarked'
    BY <1>b DEF AbortedMarked, subVars, callVars
<1>10. TakeoverKeepsSlots'
    BY <1>b DEF TakeoverKeepsSlots, MayHoldSlot, regVars, subVars, callVars
<1> QED BY <1>1, <1>2, <1>3, <1>4, <1>5, <1>6, <1>7, <1>8, <1>9, <1>10

\* The sink is attached.
LEMMA AttachKeeps ==
    ASSUME RegInv, RestInv, Attach
    PROVE  RestInv'
<1> USE HomeAssumption, RegTypes DEF RestInv
<1>a. /\ sub = "attaching" /\ sub' = "running" /\ sink' = Flusher
      /\ UNCHANGED <<owner, group, state, next, delivered, drain>>
      /\ UNCHANGED <<latest, applied, acked, life, bundles, fenced, ambiguous, via, call, slot>>
    BY DEF Attach, GoTo, Reg!SetReleaseSink, Reg!lifeVars, Reg!callVars, Reg!drainVars,
           queueVars, callVars
<1>1. HomeType'
    BY <1>a DEF HomeType, Serving, Shutdown, Stopping, Lives
<1>2. CallInv'
    BY <1>a DEF CallInv
<1>3. GroupInv'
    BY <1>a DEF GroupInv
<1>4. LoopInv'
  <2>1. \A g \in Groups : relSeq[g] = 0
    <3> TAKE g \in Groups
    <3>1. \A i \in Ids : owner[i] = "none"
      BY <1>a, SameNames DEF LoopInv, RegInv, RegP!LifeInv, RegP!Unborn, Ids
    <3>2. RegP!ReleasedIn(g) = {}
      BY <3>1, SameNames DEF RegP!ReleasedIn, RegP!Released
    <3>3. relSeq[g] = Cardinality(RegP!ReleasedIn(g))
      BY SameCardinality DEF RegInv, RegP!ReleaseCountedOnce
    <3> QED BY <3>2, <3>3, FS_EmptySet
  <2>2. Reg!Sequences(Flusher) = {}
    BY <2>1 DEF Reg!Sequences
  <2>3. replay' = {}
    BY <2>2 DEF Attach, Reg!SetReleaseSink, LoopInv
  <2> QED BY <1>a, <2>3 DEF LoopInv, Serving, Shutdown
<1>5. QueueInv'
    BY <1>a DEF QueueInv
<1>6. FenceInv'
    BY <1>a DEF FenceInv, HomeType, Lives
<1>7. SettledInv'
    BY <1>a DEF SettledInv, CallInv, FenceInv, HomeType
<1>8. MarkInv'
    BY <1>a DEF MarkInv, Lost, MayHoldSlot, Reg!InScope, HomeType
<1>9. AbortedMarked'
    BY <1>a DEF AbortedMarked
<1>10. TakeoverKeepsSlots'
    BY <1>a DEF TakeoverKeepsSlots, MayHoldSlot, Reg!InScope, HomeType
<1> QED BY <1>1, <1>2, <1>3, <1>4, <1>5, <1>6, <1>7, <1>8, <1>9, <1>10

\* The loop goes on without the registry.
LEMMA LoopKeeps ==
    ASSUME RegInv, RestInv, Publish \/ LifetimeEnds \/ Detach \/ FlushReleases
    PROVE  RestInv'
<1> USE HomeAssumption, RegTypes DEF RestInv
<1>a. /\ UNCHANGED <<owner, group, state, next, sink, replay, delivered, drain>>
      /\ UNCHANGED <<latest, applied, acked, life, ambiguous, via, call, slot>>
      /\ fenced \subseteq fenced' /\ fenced' \subseteq fenced \cup {life}
      /\ bundles \subseteq bundles' /\ bundles' \subseteq bundles \cup {life}
    BY DEF Publish, LifetimeEnds, Detach, FlushReleases, GoTo, FencedWith, RegQueueUnchanged,
           regVars, queueVars, callVars
<1>b. \/ sub' = sub /\ sub \in Serving
      \/ sub = "running" /\ sub' = "detach"
      \/ sub = "running" /\ sub' = "settle_rebalance" /\ life \in fenced'
      \/ sub = "detach" /\ sub' = "settle" /\ life \in fenced'
      \/ sub = "detach_settled" /\ sub' = "decide" /\ life \in fenced'
      \/ sub = "detach_unsettled" /\ sub' = "failed"
      \/ sub \in Serving /\ sub' = "drain_shutdown"
      \/ sub = "flush" /\ sub' = "exited"
      \/ sub = "flush" /\ sub' = "clean" /\ \A g \in Groups : acked[g] = latest[g]
    BY DEF Publish, LifetimeEnds, Detach, FlushReleases, GoTo, FencedWith, Serving
<1>1. HomeType'
    BY <1>a, <1>b DEF HomeType, Serving, Shutdown, Stopping, Lives
<1>2. CallInv'
    BY <1>a, <1>b DEF CallInv
<1>3. GroupInv'
    BY <1>a, <1>b DEF GroupInv
<1>4. LoopInv'
    BY <1>a, <1>b DEF LoopInv, Serving, Shutdown
<1>5. QueueInv'
    BY <1>a, <1>b DEF QueueInv
<1>6. FenceInv'
  <2>1. sub' \in {"settle_rebalance", "detach_settled", "settle", "decide"} => life \in fenced'
    BY <1>a, <1>b DEF FenceInv
  <2>2. life <= life
    BY DEF HomeType, Lives
  <2> QED BY <1>a, <2>1, <2>2 DEF FenceInv
<1>7. SettledInv'
    BY <1>a, <1>b DEF SettledInv, CallInv, FenceInv, HomeType
<1>8. MarkInv'
    BY <1>a, <1>b DEF MarkInv, Lost, MayHoldSlot, Reg!InScope, HomeType
<1>9. AbortedMarked'
    BY <1>a, <1>b DEF AbortedMarked
<1>10. TakeoverKeepsSlots'
    BY <1>a, <1>b DEF TakeoverKeepsSlots, MayHoldSlot, Reg!InScope, HomeType
<1> QED BY <1>1, <1>2, <1>3, <1>4, <1>5, <1>6, <1>7, <1>8, <1>9, <1>10

\* The loop waits for the pending dispatches.
LEMMA SettleKeeps ==
    ASSUME RegInv, RestInv, SettleRebalance \/ SettleFailed
    PROVE  RestInv'
<1> USE HomeAssumption, RegTypes DEF RestInv
<1>a. /\ UNCHANGED <<owner, group, state, next, sink, replay, delivered, drain>>
      /\ UNCHANGED <<latest, applied, acked, life, bundles, fenced, ambiguous, via, call, slot>>
    BY DEF SettleRebalance, SettleFailed, Settle, Reg!WaitPendingCheck, Reg!WaitPendingTimeout,
           Reg!lifeVars, Reg!releaseVars, Reg!drainVars, queueVars, callVars
<1>b. \/ sub = "settle_rebalance" /\ sub' \in {"settle_rebalance", "detach_settled", "detach_unsettled"}
      \/ sub = "settle" /\ sub' \in {"settle", "decide", "failed"}
    BY DEF SettleRebalance, SettleFailed, Settle
<1>1. HomeType'
    BY <1>a, <1>b DEF HomeType, Serving, Shutdown, Stopping, Lives
<1>2. CallInv'
    BY <1>a, <1>b DEF CallInv
<1>3. GroupInv'
    BY <1>a, <1>b DEF GroupInv
<1>4. LoopInv'
    BY <1>a, <1>b DEF LoopInv, Serving, Shutdown
<1>5. QueueInv'
    BY <1>a, <1>b DEF QueueInv
<1>6. FenceInv'
    BY <1>a, <1>b DEF FenceInv, HomeType, Lives
<1>7. SettledInv'
  <2>1. sub' \in {"detach_settled", "decide"} => Reg!pending = {}
    <3>1. ASSUME NEW from, NEW ok, NEW late, Settle(from, ok, late), sub' = ok, ok # from, ok # late
          PROVE  Reg!pending = {}
      <4>1. Reg!WaitPendingCheck(Subscriber) /\ waiter'[Subscriber] = "done"
        BY <3>1 DEF Settle
      <4>2. waiter \in [{Subscriber} -> {"idle", "blocked", "woken", "done", "failed"}]
        BY DEF RegInv, RegP!TypeOK, RegP!TypeCalls
      <4> QED BY <4>1, <4>2 DEF Reg!WaitPendingCheck
    <3> QED BY <3>1 DEF SettleRebalance, SettleFailed, Settle
  <2>2. Reg!pending = {} => \A j \in Ids : owner[j] # "pending"
    BY SameNames DEF RegP!pending
  <2> QED BY <1>a, <2>1, <2>2 DEF SettledInv
<1>8. MarkInv'
    BY <1>a, <1>b DEF MarkInv, Lost, MayHoldSlot, Reg!InScope, HomeType
<1>9. AbortedMarked'
    BY <1>a, <1>b DEF AbortedMarked
<1>10. TakeoverKeepsSlots'
    BY <1>a, <1>b DEF TakeoverKeepsSlots, MayHoldSlot, Reg!InScope, HomeType
<1> QED BY <1>1, <1>2, <1>3, <1>4, <1>5, <1>6, <1>7, <1>8, <1>9, <1>10

\* The next client takes over.
LEMMA TakeOverKeeps ==
    ASSUME RegInv, RestInv, TakeOver
    PROVE  RestInv'
<1> USE HomeAssumption, RegTypes DEF RestInv
<1>a. /\ UNCHANGED <<owner, group, state, next, sink, replay, delivered, drain>>
      /\ UNCHANGED <<latest, applied, acked, bundles, fenced, ambiguous, via, call, slot>>
      /\ sub = "decide" /\ life \notin ambiguous
    BY DEF TakeOver, GoTo, RegQueueUnchanged, regVars, queueVars, callVars
<1>b. \/ sub' = "running" /\ life < MaxLives /\ life' = life + 1
      \/ sub' = "failed" /\ life' = life
    BY DEF TakeOver, GoTo
<1>1. HomeType'
    BY <1>a, <1>b DEF HomeType, Serving, Shutdown, Stopping, Lives
<1>2. CallInv'
    BY <1>a, <1>b DEF CallInv
<1>3. GroupInv'
    BY <1>a, <1>b DEF GroupInv
<1>4. LoopInv'
    BY <1>a, <1>b DEF LoopInv, Serving, Shutdown
<1>5. QueueInv'
    BY <1>a, <1>b DEF QueueInv
<1>6. FenceInv'
  <2>1. life \in fenced /\ life \in Int /\ life' \in Int /\ life <= life' /\ life' <= life + 1
    BY <1>a, <1>b DEF FenceInv, HomeType, Lives
  <2>2. \A c \in Lives : c < life' => c < life \/ c = life
    BY <2>1 DEF Lives
  <2>3. \A c : c \in Int /\ c <= life => c <= life'
    BY <2>1
  <2>4. (\A c \in bundles : c \in Int) /\ (\A i \in Ids : via[i] \in Int)
    BY DEF HomeType, Lives
  <2>5. (\A c \in bundles : c <= life') /\ (\A i \in Ids : via[i] <= life')
    BY <2>3, <2>4 DEF FenceInv
  <2> QED BY <1>a, <1>b, <2>1, <2>2, <2>5 DEF FenceInv
<1>7. SettledInv'
    BY <1>a, <1>b DEF SettledInv, CallInv, FenceInv, HomeType
<1>8. MarkInv'
    BY <1>a, <1>b DEF MarkInv, Lost, MayHoldSlot, Reg!InScope, HomeType
<1>9. AbortedMarked'
    BY <1>a, <1>b DEF AbortedMarked
<1>10. TakeoverKeepsSlots'
  <2> SUFFICES ASSUME NEW j \in Ids, 0 < via[j], via[j] < life', MayHoldSlot(j)
               PROVE  owner[j] \in Reg!InScope \cup {"ended"}
    BY <1>a DEF TakeoverKeepsSlots, MayHoldSlot, Reg!InScope
  <2>1. CASE via[j] < life
    BY <2>1 DEF TakeoverKeepsSlots
  <2>2. CASE via[j] = life
    <3>1. owner[j] # "pending"
      BY <1>a DEF SettledInv, CallInv, MayHoldSlot
    <3>2. state = "accepting"
      BY <1>a DEF LoopInv, Serving
    <3> QED BY <1>a, <2>2, <3>1, <3>2 DEF MarkInv, Lost
  <2>3. via[j] \in Int /\ life \in Int
    BY DEF HomeType, Lives
  <2>4. via[j] < life \/ via[j] = life
    <3> HIDE RegTypes, HomeAssumption DEF RestInv
    <3> QED BY <1>b, <2>3
  <2> QED BY <2>1, <2>2, <2>4
<1> QED BY <1>1, <1>2, <1>3, <1>4, <1>5, <1>6, <1>7, <1>8, <1>9, <1>10

\* The sink is removed.
LEMMA RemoveSinkKeeps ==
    ASSUME RegInv, RestInv, RemoveSink
    PROVE  RestInv'
<1> USE HomeAssumption, RegTypes DEF RestInv
<1>a. /\ UNCHANGED <<owner, group, state, next, replay, delivered, drain>>
      /\ UNCHANGED <<latest, applied, acked, life, bundles, fenced, ambiguous, via, call, slot>>
      /\ sub' \in {"drain_replace", "drain_exit"}
    BY DEF RemoveSink, GoTo, Reg!SetReleaseSink, Reg!lifeVars, Reg!callVars, Reg!drainVars,
           queueVars, callVars, LoopInv
<1>1. HomeType'
    BY <1>a DEF HomeType, Serving, Shutdown, Stopping, Lives
<1>2. CallInv'
    BY <1>a DEF CallInv
<1>3. GroupInv'
    BY <1>a DEF GroupInv
<1>4. LoopInv'
    BY <1>a DEF LoopInv, Serving, Shutdown
<1>5. QueueInv'
    BY <1>a DEF QueueInv
<1>6. FenceInv'
    BY <1>a DEF FenceInv, HomeType, Lives
<1>7. SettledInv'
    BY <1>a DEF SettledInv, CallInv, FenceInv, HomeType
<1>8. MarkInv'
    BY <1>a DEF MarkInv, Lost, MayHoldSlot, Reg!InScope, HomeType
<1>9. AbortedMarked'
    BY <1>a DEF AbortedMarked
<1>10. TakeoverKeepsSlots'
    BY <1>a DEF TakeoverKeepsSlots, MayHoldSlot, Reg!InScope, HomeType
<1> QED BY <1>1, <1>2, <1>3, <1>4, <1>5, <1>6, <1>7, <1>8, <1>9, <1>10

\* The loop drains the registry.
LEMMA DrainKeeps ==
    ASSUME RegInv, RestInv, Draining
    PROVE  RestInv'
<1> USE HomeAssumption, RegTypes DEF RestInv
<1>a. /\ UNCHANGED <<owner, group, next, sink, replay, delivered>>
      /\ UNCHANGED <<queueVars, callVars, life, bundles, fenced, ambiguous>>
      /\ state # "accepting" => state' # "accepting"
    BY DEF Draining, Reg!DrainBegin, Reg!DrainSnapshot, Reg!DrainStartClose, Reg!DrainCheck,
           Reg!DrainTimeout, Reg!lifeVars, Reg!releaseVars
<1>b. /\ sub \in {"drain_replace", "drain_shutdown", "drain_exit"}
      /\ sub' = AfterDrain(drain'[Subscriber])
    BY DEF Draining
<1>c. /\ sub' \in {sub, "exited", "replaced", "flush", "failed"}
      /\ sub' \in {"replaced", "flush"} => drain'[Subscriber] = "done"
      /\ sub' = "exited" => drain'[Subscriber] \in {"done", "failed", "refused"}
      /\ sub' \in {"drain_shutdown", "flush"} => sub = "drain_shutdown"
    BY <1>b DEF AfterDrain
<1>d. /\ drain'[Subscriber] # "refused" /\ drain'[Subscriber] # "idle"
      /\ state' = "closed" => drain'[Subscriber] = "done"
  <2>1. CASE Reg!DrainBegin(Subscriber)
    BY <2>1 DEF Reg!DrainBegin, LoopInv
  <2>2. CASE Reg!DrainSnapshot(Subscriber)
    BY <2>2 DEF Reg!DrainSnapshot, Reg!lifeVars, LoopInv
  <2>3. CASE \E j \in Ids : Reg!DrainStartClose(Subscriber, j)
    BY <2>3 DEF Reg!DrainStartClose, LoopInv
  <2>4. CASE Reg!DrainCheck(Subscriber)
    BY <2>4 DEF Reg!DrainCheck, LoopInv
  <2>5. CASE Reg!DrainTimeout(Subscriber)
    BY <2>5 DEF Reg!DrainTimeout, Reg!lifeVars, LoopInv
  <2> QED BY <2>1, <2>2, <2>3, <2>4, <2>5 DEF Draining
<1>1. HomeType'
    BY <1>a, <1>b, <1>c DEF HomeType, Shutdown, Stopping, queueVars, callVars
<1>2. CallInv'
    BY <1>a DEF CallInv, callVars
<1>3. GroupInv'
    BY <1>a DEF GroupInv
<1>4. LoopInv'
    BY <1>a, <1>b, <1>c, <1>d DEF LoopInv, Serving, Shutdown
<1>5. QueueInv'
    BY <1>a, <1>b, <1>c DEF QueueInv, queueVars
<1>6. FenceInv'
    BY <1>a, <1>b, <1>c DEF FenceInv, callVars
<1>7. SettledInv'
    BY <1>a, <1>b, <1>c DEF SettledInv, callVars
<1>8. MarkInv'
    BY <1>a DEF MarkInv, Lost, MayHoldSlot, callVars
<1>9. AbortedMarked'
    BY <1>a DEF AbortedMarked, callVars
<1>10. TakeoverKeepsSlots'
    BY <1>a DEF TakeoverKeepsSlots, MayHoldSlot, callVars
<1> QED BY <1>1, <1>2, <1>3, <1>4, <1>5, <1>6, <1>7, <1>8, <1>9, <1>10

-----------------------------------------------------------------------------
(* The theorems.                                                           *)

\* The registry starts with its invariant.
LEMMA RegInitInv == Reg!Init => RegInv
<1> SUFFICES ASSUME RegP!Init PROVE RegInv
  <2>1. Reg!Init => RegP!Init
    BY SameNames DEF Reg!Init, RegP!Init, Reg!NoCapture, RegP!NoCapture
  <2> QED BY <2>1
<1> USE HomeAssumption
<1>1. RegP!TypeOK
    BY RegP!TypeInit
<1>2. RegP!LifeInv
    BY DEF RegP!Init, RegP!LifeInv, RegP!Unborn, RegP!BoundLive, RegP!ReleasedSettled,
           RegP!NoScopeNoResource, RegP!Released
<1>3. RegP!DrainStops /\ RegP!DrainListsBound /\ RegP!Drained
    BY DEF RegP!Init, RegP!DrainStops, RegP!DrainListsBound, RegP!Past, RegP!Drained
<1>4. RegP!ReleaseCountedOnce
  <2> SUFFICES ASSUME NEW g \in Groups PROVE relSeq[g] = RegP!Cardinality(RegP!ReleasedIn(g))
    BY DEF RegP!ReleaseCountedOnce
  <2>1. RegP!ReleasedIn(g) = {}
    BY DEF RegP!Init, RegP!ReleasedIn, RegP!Released
  <2> QED BY <2>1, FS_EmptySet, SameCardinality DEF RegP!Init
<1>5. RegP!DeliveriesCounted
    BY DEF RegP!Init, RegP!DeliveriesCounted
<1>6. RegP!SinkInv
    BY DEF RegP!Init, RegP!SinkInv, RegP!SinkKnows, RegP!CapturedAtRelease,
           RegP!RemovedAfterDelivery, RegP!NoCapture
<1> QED BY <1>1, <1>2, <1>3, <1>4, <1>5, <1>6 DEF RegInv

\* A subscriber starts with the invariant.
LEMMA HomeInit == Init => HomeInv
<1> SUFFICES ASSUME Init PROVE HomeInv
    OBVIOUS
<1> USE HomeAssumption
<1>1. RegInv
    BY RegInitInv DEF Init
<1>2. /\ owner = [i \in Ids |-> "none"] /\ group = [i \in Ids |-> Unaccounted]
      /\ state = "accepting" /\ next = 0 /\ replay = {} /\ drain[Subscriber] = "idle"
      /\ \A g \in Groups : delivered[Flusher][g] = 0
    BY SameNames DEF Init, Reg!Init, Reg!Ids, Ids
<1>3. HomeType /\ QueueInv
    BY <1>2 DEF Init, HomeType, QueueInv, Queue!QueueInit, Lives
<1>4. LoopInv
    BY <1>2 DEF Init, LoopInv, Serving, Shutdown
<1>5. FenceInv /\ SettledInv /\ CallInv /\ GroupInv /\ AbortedMarked
    BY <1>2 DEF Init, FenceInv, SettledInv, CallInv, GroupInv, AbortedMarked, Lives
<1>6. MarkInv /\ TakeoverKeepsSlots
    BY <1>2 DEF Init, MarkInv, TakeoverKeepsSlots, Lost, MayHoldSlot
<1> QED BY <1>1, <1>3, <1>4, <1>5, <1>6 DEF HomeInv, RestInv

\* A step that changes nothing keeps the invariant.
LEMMA StutterKeeps == ASSUME RestInv, UNCHANGED vars PROVE RestInv'
<1> USE DEF vars, regVars, queueVars, subVars, callVars, RestInv
<1>1. HomeType' /\ QueueInv' /\ LoopInv' /\ FenceInv'
    BY DEF HomeType, QueueInv, LoopInv, FenceInv
<1>2. CallInv' /\ GroupInv' /\ SettledInv' /\ AbortedMarked'
    BY DEF CallInv, GroupInv, SettledInv, AbortedMarked
<1>3. MarkInv' /\ TakeoverKeepsSlots'
    BY DEF MarkInv, TakeoverKeepsSlots, Lost, MayHoldSlot
<1> QED BY <1>1, <1>2, <1>3

\* Every step keeps the invariant.
LEMMA HomeInvNext == HomeInv /\ [Next]_vars => HomeInv'
<1> SUFFICES ASSUME RegInv, RestInv, [Next]_vars PROVE RegInv' /\ RestInv'
    BY DEF HomeInv
<1>1. RegInv'
    BY RegInvNext DEF RestInv
<1>2. RestInv'
    BY BeginKeeps, EndKeeps, AskKeeps, AbortKeeps, InstallKeeps, RefuseKeeps, ExecuteKeeps,
       ReleaseKeeps, FlusherKeeps, AttachKeeps, LoopKeeps, SettleKeeps, TakeOverKeeps,
       RemoveSinkKeeps, DrainKeeps, StutterKeeps DEF Next
<1> QED BY <1>1, <1>2

\* The inductive invariant of the composition.
THEOREM HomeInvAlways == Spec => []HomeInv
BY HomeInit, HomeInvNext, PTL DEF Spec

\* The subscriber and the requests use the registry only as it is specified:
\* HomeLifetime implements ExecutionRegistry.
THEOREM UsesRegistry == Spec => RegP!Spec
<1>1. Init => RegP!Init
    BY SameNames DEF Init, Reg!Init, RegP!Init, Reg!NoCapture, RegP!NoCapture
<1>2. HomeInv /\ [Next]_vars => [RegP!Next]_(RegP!vars)
    BY RegStep DEF HomeInv, RestInv
<1> QED BY <1>1, <1>2, HomeInvAlways, PTL DEF Spec, RegP!Spec

\* The registry hands the flusher only counts that its specification allows:
\* HomeLifetime implements ReleaseQueue.
THEOREM UsesQueue == Spec => Queue!QueueSpec
<1>1. Init => Queue!QueueInit
    BY DEF Init
<1>2. HomeInv /\ [Next]_vars => [Queue!QueueNext]_(Queue!queueVars)
  <2> SUFFICES ASSUME HomeInv, [Next]_vars
               PROVE  Queue!QueueNext \/ UNCHANGED Queue!queueVars
    OBVIOUS
  <2>1. ASSUME NEW i \in Ids, Releases(i) PROVE Queue!QueueNext \/ UNCHANGED Queue!queueVars
    <3>1. /\ group[i] \in Groups /\ captured[i].seq \in Nat
          /\ captured[i].seq <= relSeq[group[i]]
      BY <2>1, RegTypes, SameNames DEF HomeInv, Releases, Reg!EndDeliver, RegInv, RegP!DeliveriesCounted
    <3>2. relSeq[group[i]] \in 0..MaxDispatches
      <4>1. relSeq[group[i]] = Cardinality(RegP!ReleasedIn(group[i]))
        BY <3>1, SameCardinality DEF HomeInv, RegInv, RegP!ReleaseCountedOnce
      <4>2. RegP!ReleasedIn(group[i]) \subseteq 1..MaxDispatches
        BY DEF RegP!ReleasedIn, RegP!Ids
      <4>3. IsFiniteSet(1..MaxDispatches) /\ Cardinality(1..MaxDispatches) = MaxDispatches
        BY HomeAssumption, FS_Interval
      <4>4. Cardinality(RegP!ReleasedIn(group[i])) <= MaxDispatches
        BY <4>2, <4>3, FS_Subset
      <4>5. relSeq[group[i]] \in Nat
        BY <3>1, RegTypes DEF HomeInv
      <4> QED BY <4>1, <4>4, <4>5, HomeAssumption
    <3>3. Queue!Mark(group[i], captured[i].seq)
      BY <2>1 DEF Releases
    <3>4. CASE captured[i].seq = 0
      <4>1. latest' = latest
        BY <3>1, <3>3, <3>4 DEF Queue!Mark, HomeInv, RestInv, HomeType
      <4> QED BY <3>3, <4>1 DEF Queue!Mark, Queue!queueVars
    <3>5. CASE captured[i].seq # 0
      <4>1. captured[i].seq \in 1..MaxDispatches
        BY <3>1, <3>2, <3>5, HomeAssumption
      <4> QED BY <3>1, <3>3, <4>1 DEF Queue!QueueNext
    <3> QED BY <3>4, <3>5
  <2>2. ASSUME FlusherStep PROVE Queue!QueueNext
    BY <2>2 DEF FlusherStep, Queue!QueueNext, Ids
  <2>3. ASSUME UNCHANGED queueVars PROVE UNCHANGED Queue!queueVars
    BY <2>3 DEF queueVars, Queue!queueVars
  <2>4. ASSUME NEW c \in Lives, Begin(c) PROVE UNCHANGED queueVars
    BY <2>4 DEF Begin
  <2>5. ASSUME NEW i \in Ids,
               \/ RefusedUnsent(i) \/ Issue(i) \/ Denied(i) \/ Installed(i) \/ InstallRefused(i)
               \/ Unanswered(i) \/ Abort(i) \/ EndAborted(i) \/ Executes(i)
               \/ \E a \in Granted \cup {"denied"} : HomeAnswers(i, a)
        PROVE  UNCHANGED queueVars
    BY <2>5 DEF RefusedUnsent, Issue, Denied, Installed, InstallRefused, Unanswered, Abort,
                EndAborted, Executes, HomeAnswers
  <2>6. ASSUME \/ Attach \/ Publish \/ LifetimeEnds \/ SettleRebalance \/ Detach \/ SettleFailed
               \/ TakeOver \/ RemoveSink \/ Draining \/ FlushReleases
        PROVE  UNCHANGED queueVars
    BY <2>6 DEF Attach, Publish, LifetimeEnds, SettleRebalance, Detach, SettleFailed, Settle,
                TakeOver, RemoveSink, Draining, FlushReleases, RegQueueUnchanged
  <2>7. ASSUME UNCHANGED vars PROVE UNCHANGED queueVars
    BY <2>7 DEF vars
  <2> QED BY <2>1, <2>2, <2>3, <2>4, <2>5, <2>6, <2>7 DEF Next
<1> QED BY <1>1, <1>2, HomeInvAlways, PTL DEF Spec, Queue!QueueSpec

\* No takeover leaks a slot, whatever the order in which requests lose their
\* answers and the subscriber fences, waits and looks at the mark.
THEOREM NoSlotLeaked == Spec => []TakeoverKeepsSlots
<1>1. HomeInv => TakeoverKeepsSlots
    BY DEF HomeInv, RestInv
<1> QED BY <1>1, HomeInvAlways, PTL

\* The registry has delivered at most what it counted, once per released scope.
LEMMA CountIsReleased ==
    ASSUME RegInv, NEW g \in Groups
    PROVE  /\ delivered[Flusher][g] <= relSeq[g]
           /\ relSeq[g] = Cardinality(RegP!ReleasedIn(g))
BY SameCardinality DEF RegInv, RegP!DeliveriesCounted, RegP!ReleaseCountedOnce

\* Home is told of an execution's release only after its resource has closed.
THEOREM FreedAfterClose == Spec => []HomeFreesAfterClose
<1>1. HomeInv => HomeFreesAfterClose
  <2> SUFFICES ASSUME HomeInv, NEW g \in Groups
               PROVE  applied[g] <= Cardinality(
                        {i \in Reg!ReleasedIn(g) : res[i] \in {"none", "closed"}})
    BY DEF HomeFreesAfterClose
  <2>1. Reg!ReleasedIn(g) = RegP!ReleasedIn(g)
    BY SameNames DEF Reg!ReleasedIn, RegP!ReleasedIn, Reg!Released, RegP!Released
  <2>2. {i \in RegP!ReleasedIn(g) : res[i] \in {"none", "closed"}} = RegP!ReleasedIn(g)
    BY DEF HomeInv, RegInv, RegP!LifeInv, RegP!ReleasedSettled, RegP!CloseSettled,
           RegP!ReleasedIn
  <2>3. /\ applied[g] \in Nat /\ latest[g] \in Nat /\ relSeq[g] \in Nat
        /\ applied[g] <= latest[g] /\ latest[g] = delivered[Flusher][g]
    BY RegTypes DEF HomeInv, RestInv, HomeType, QueueInv
  <2>4. /\ delivered[Flusher][g] <= relSeq[g]
        /\ relSeq[g] = Cardinality(RegP!ReleasedIn(g))
    BY CountIsReleased DEF HomeInv
  <2>5. applied[g] <= relSeq[g]
    BY <2>3, <2>4
  <2> QED BY <2>1, <2>2, <2>4, <2>5
<1> QED BY <1>1, HomeInvAlways, PTL

\* A clean shutdown leaves no execution behind and has reported each of them.
THEOREM CleanShutdown == Spec => []CleanShutdownReportsAll
<1>1. HomeInv => CleanShutdownReportsAll
  <2> SUFFICES ASSUME HomeInv, sub = "clean"
               PROVE  /\ Reg!pending = {} /\ Reg!scopes = {}
                      /\ \A g \in Groups : applied[g] = Cardinality({i \in Ids : group[i] = g})
    BY DEF CleanShutdownReportsAll
  <2>1. RegP!pending = {} /\ RegP!scopes = {} /\ sink = Flusher /\ replay = {}
    BY DEF HomeInv, RestInv, LoopInv, Shutdown, RegInv, RegP!Drained
  <2>2. ASSUME NEW g \in Groups PROVE applied[g] = Cardinality({i \in Ids : group[i] = g})
    <3>1. delivered[Flusher][g] >= relSeq[g]
      <4>1. RegP!Known(Flusher, g, relSeq[g])
        BY <2>1, <2>2, HomeAssumption DEF HomeInv, RegInv, RegP!SinkInv, RegP!SinkKnows
      <4>2. \A i \in Ids : owner[i] # "delivering"
        BY <2>1, SameNames DEF RegP!scopes, RegP!InScope
      <4> QED BY <2>1, <4>1, <4>2, SameNames DEF RegP!Known
    <3>2. RegP!ReleasedIn(g) = {i \in Ids : group[i] = g}
      <4>1. \A i \in Ids : owner[i] \in {"none", "dropped", "ended"}
        BY <2>1, SameNames, RegTypes DEF HomeInv, RegP!pending, RegP!scopes, RegP!InScope
      <4>2. \A i \in Ids : group[i] = g => owner[i] = "ended"
        BY <2>2, <4>1, HomeAssumption DEF HomeInv, RestInv, GroupInv
      <4> QED BY <4>2, SameNames DEF RegP!ReleasedIn, RegP!Released
    <3>3. /\ applied[g] \in Nat /\ latest[g] \in Nat /\ relSeq[g] \in Nat /\ acked[g] \in Nat
          /\ acked[g] <= applied[g] /\ applied[g] <= latest[g] /\ acked[g] = latest[g]
          /\ latest[g] = delivered[Flusher][g]
      BY <2>2, RegTypes DEF HomeInv, RestInv, HomeType, QueueInv
    <3>4. /\ delivered[Flusher][g] <= relSeq[g]
          /\ relSeq[g] = Cardinality(RegP!ReleasedIn(g))
      BY <2>2, CountIsReleased DEF HomeInv
    <3>5. applied[g] = relSeq[g]
      BY <3>1, <3>3, <3>4
    <3> QED BY <3>2, <3>4, <3>5
  <2> QED BY <2>1, <2>2, SameNames
<1> QED BY <1>1, HomeInvAlways, PTL

\* However the loop ends, every resource of the registry is closed or closing.
THEOREM ExitCancels == Spec => []ExitCancelsEverything
<1>1. HomeInv => ExitCancelsEverything
  <2> SUFFICES ASSUME HomeInv, sub \in {"clean", "exited", "replaced"}, NEW i \in Ids
               PROVE  res[i] # "bound"
    BY DEF ExitCancelsEverything
  <2>1. drain[Subscriber] \in {"done", "failed"}
    BY DEF HomeInv, RestInv, LoopInv
  <2> QED BY <2>1, SameNames DEF HomeInv, RegInv, RegP!DrainListsBound, RegP!Past
<1> QED BY <1>1, HomeInvAlways, PTL

=============================================================================
