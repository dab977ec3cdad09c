---------------------------- MODULE HomeLifetime ----------------------------
(***************************************************************************)
(* A Home subscriber and the dispatches it serves: the execution registry  *)
(* and the release flusher of one runHomeSubscriber loop, the clients that *)
(* loop replaces (sdk/cliproxy/service_home.go, internal/home/client.go),  *)
(* and the requests that ask Home for a credential through them            *)
(* (sdk/cliproxy/auth/conductor_home.go, pickNextViaHome).                 *)
(*                                                                         *)
(* Home counts a slot for every credential it hands out with a concurrency *)
(* tuple and frees slots by the release counts it receives. When a client  *)
(* lifetime ends, the next one may take over the membership, and with it   *)
(* Home's counts; so the loop has to know that every slot Home counted is  *)
(* known to the registry, or else drain and start from a new registry.     *)
(*                                                                         *)
(* The registry is ExecutionRegistry with one sink, the flusher; the       *)
(* flusher is its abstract specification ReleaseQueue, which               *)
(* ReleaseFlusher implements. Home is external. The model stops where the  *)
(* loop drops this registry and flusher for new ones.                      *)
(***************************************************************************)
EXTENDS Integers, FiniteSets

CONSTANTS
    MaxDispatches,  \* bound on the dispatches
    MaxLives,       \* bound on the client lifetimes
    Groups,         \* release groups: a credential and a model
    Unaccounted,    \* stands for a grant without a concurrency tuple
    Flusher,        \* the release sink: releaseFlusher.MarkDirty
    NoSink,         \* a nil release sink
    Subscriber      \* the goroutine of runHomeSubscriber

ASSUME HomeAssumption ==
    /\ MaxDispatches \in Nat /\ MaxLives \in Nat \ {0}
    /\ Unaccounted \notin Groups /\ NoSink # Flusher
    /\ \A a \in {"none", "asked", "denied"} : a \notin Groups \cup {Unaccounted}

VARIABLES
    \* the execution registry
    state, next, owner, group, res, relSeq, sink, captured, replay, delivered,
    drain, drainTodo, waiter, closer, closePhase, closeTodo, closeCur,
    observedBarrier, pendingBarrierSequence, freeze, barrierNext,
    \* the release flusher
    latest, applied, acked,
    \* the subscriber and the requests
    life,       \* number of the current client
    bundles,    \* clients whose dispatch bundle has been published
    fenced,     \* clients with dispatchFenced
    ambiguous,  \* clients with ambiguousDispatch
    sub,        \* where runHomeSubscriber is
    via,        \* client a dispatch was begun with
    call,       \* where the RPop of a dispatch is
    slot        \* external: what Home handed out for a dispatch

Reg == INSTANCE ExecutionRegistry
         WITH Sinks <- {Flusher}, Drainers <- {Subscriber}, Closers <- {},
              Waiters <- {Subscriber}, MaxBarrier <- 0, MaxFreezes <- 0
Queue == INSTANCE ReleaseQueue WITH MaxSeq <- MaxDispatches

regVars   == <<state, next, owner, group, res, relSeq, sink, captured, replay,
               delivered, drain, drainTodo, waiter, closer, closePhase,
               closeTodo, closeCur, observedBarrier, pendingBarrierSequence,
               freeze, barrierNext>>
queueVars == <<latest, applied, acked>>
subVars   == <<life, bundles, fenced, ambiguous, sub>>
callVars  == <<via, call, slot>>
vars      == <<regVars, queueVars, subVars, callVars>>

Ids == 1..MaxDispatches
Lives == 1..MaxLives

Init ==
    /\ Reg!Init
    /\ Queue!QueueInit
    /\ life = 1 /\ bundles = {} /\ fenced = {} /\ ambiguous = {}
    /\ sub = "attaching"
    /\ via = [i \in Ids |-> 0]
    /\ call = [i \in Ids |-> "none"]
    /\ slot = [i \in Ids |-> "none"]

-----------------------------------------------------------------------------
(* A request: pickNextViaHome.                                             *)

\* HomeDispatchBundle, then BeginDispatch. Between the two the bundle may have
\* been detached and its client replaced, so any published one may be used.
Begin(c) ==
    /\ c \in bundles
    /\ Reg!BeginDispatch
    /\ via' = [via EXCEPT ![next'] = c]
    /\ call' = [call EXCEPT ![next'] = "begun"]
    /\ UNCHANGED <<queueVars, subVars, slot>>

\* rPopAuth returns ErrDispatchFenced, or another error before it sends.
RefusedUnsent(i) ==
    /\ call[i] = "begun"
    /\ Reg!EndPending(i)
    /\ call' = [call EXCEPT ![i] = "over"]
    /\ UNCHANGED <<queueVars, subVars, via, slot>>

\* The last check of dispatchFenced passes; the RPOP is on its way after it.
Issue(i) ==
    /\ call[i] = "begun"
    /\ via[i] \notin fenced
    /\ call' = [call EXCEPT ![i] = "issued"]
    /\ slot' = [slot EXCEPT ![i] = "asked"]
    /\ UNCHANGED <<regVars, queueVars, subVars, via>>

\* External: Home takes the RPOP, also one whose caller has given up.
HomeAnswers(i, a) ==
    /\ slot[i] = "asked"
    /\ slot' = [slot EXCEPT ![i] = a]
    /\ UNCHANGED <<regVars, queueVars, subVars, via, call>>

\* The answer is no credential (a redis error or a Home error), or one without
\* a concurrency tuple that does not pass validation.
Denied(i) ==
    /\ call[i] = "issued" /\ slot[i] \in {"denied", Unaccounted}
    /\ Reg!EndPending(i)
    /\ call' = [call EXCEPT ![i] = "over"]
    /\ UNCHANGED <<queueVars, subVars, via, slot>>

Granted == Groups \cup {Unaccounted}

\* An accounted grant is installed before the answer is validated; one that
\* contradicts itself (also an error, another model) makes the client suspect.
Installed(i) ==
    /\ call[i] = "issued" /\ slot[i] \in Granted
    /\ Reg!Install(i, slot[i])
    /\ \/ call' = [call EXCEPT ![i] = "over"]
       \/ slot[i] \in Groups /\ call' = [call EXCEPT ![i] = "suspect"]
    /\ UNCHANGED <<queueVars, subVars, via, slot>>

\* Install fails on a stopping registry; it has already dropped the token.
InstallRefused(i) ==
    /\ call[i] = "issued" /\ slot[i] \in Granted
    /\ Reg!InstallRefused(i)
    /\ call' = [call EXCEPT ![i] = "suspect"]
    /\ UNCHANGED <<queueVars, subVars, via, slot>>

\* The RPOP ends without an answer, or its tuple is malformed: Home may have
\* counted a slot.
Unanswered(i) ==
    /\ call[i] = "issued"
    /\ call' = [call EXCEPT ![i] = "unanswered"]
    /\ UNCHANGED <<regVars, queueVars, subVars, via, slot>>

\* fault: the error is taken for an ordinary one
IgnoresAmbiguity(i) == UNCHANGED <<fenced, ambiguous>>

AbortAmbiguousDispatch(i) ==
    /\ ambiguous' = ambiguous \cup {via[i]}
    /\ fenced' = fenced \cup {via[i]}

Abort(i) ==
    /\ call[i] \in {"unanswered", "suspect"}
    /\ AbortAmbiguousDispatch(i)
    /\ call' = [call EXCEPT ![i] = IF @ = "suspect" THEN "over" ELSE "aborted"]
    /\ UNCHANGED <<regVars, queueVars, life, bundles, sub, via, slot>>

\* pending.End, after the client has been marked.
EndAborted(i) ==
    /\ call[i] = "aborted"
    /\ Reg!EndPending(i)
    /\ call' = [call EXCEPT ![i] = "over"]
    /\ UNCHANGED <<queueVars, subVars, via, slot>>

\* The execution and its end: Bind, EndWithRelease and the release sink.
Executes(i) ==
    /\ call[i] = "over"
    /\ \/ Reg!Bind(i)
       \/ Reg!EndDeactivate(i)
       \/ Reg!EndStartClose(i)
       \/ Reg!CloseResource(i)
       \/ Reg!EndMarkReleased(i)
       \/ Reg!EndRemove(i)
    /\ UNCHANGED <<queueVars, subVars, callVars>>

Releases(i) ==
    /\ Reg!EndDeliver(i)
    /\ Queue!Mark(group[i], captured[i].seq)
    /\ UNCHANGED <<subVars, callVars>>

-----------------------------------------------------------------------------
(* The flusher, by its abstract specification. That a fenced client sends  *)
(* nothing (releaseFenced) is left out: a frame may arrive at any time.    *)

FlusherStep ==
    /\ \E g \in Groups, n \in Ids : Queue!Apply(g, n) \/ Queue!Ack(g, n)
    /\ UNCHANGED <<regVars, subVars, callVars>>

-----------------------------------------------------------------------------
(* runHomeSubscriber. Its steps follow the order of the code; `sub` names  *)
(* the step that comes next.                                               *)

GoTo(from, to) == sub = from /\ sub' = to

RegQueueUnchanged == UNCHANGED <<regVars, queueVars, callVars>>

\* The registry gets its sink before the first client exists.
Attach ==
    /\ GoTo("attaching", "running")
    /\ Reg!SetReleaseSink(Flusher)
    /\ UNCHANGED <<queueVars, callVars, life, bundles, fenced,
                   ambiguous>>

\* The config worker publishes the dispatch bundle of the current client; it
\* runs until the loop cancels it, just before it detaches the client.
Publish ==
    /\ sub \in {"running", "settle_rebalance", "detach", "detach_settled",
               "detach_unsettled"}
    /\ life \notin bundles
    /\ bundles' = bundles \cup {life}
    /\ RegQueueUnchanged
    /\ UNCHANGED <<life, fenced, ambiguous, sub>>

FencesNothing(c) == fenced    \* fault: the client stays open

\* dispatchFenced of client c is set (FenceDispatch, Close).
FencedWith(c) == fenced \cup {c}

\* RunConfigSubscriberLifetime returns: the connection failed, which may have
\* fenced the client, homeCtx ended, or Home asked for a rebalance, for which
\* the loop fences the client itself.
LifetimeEnds ==
    /\ \/ GoTo("running", "detach") /\ fenced' \in {fenced, FencedWith(life)}
       \/ GoTo("running", "settle_rebalance") /\ fenced' = FencedWith(life)
    /\ RegQueueUnchanged
    /\ UNCHANGED <<life, bundles, ambiguous>>

\* WaitPending with its deadline: the steps that follow it are given.
Settle(from, ok, late) ==
    /\ sub = from
    /\ \/ /\ Reg!WaitPendingCheck(Subscriber)
          /\ sub' = IF waiter'[Subscriber] = "done" THEN ok ELSE from
       \/ Reg!WaitPendingTimeout(Subscriber) /\ sub' = late
    /\ UNCHANGED <<queueVars, callVars, life, bundles, fenced, ambiguous>>

\* A rebalance that does not settle in time is noticed after detaching.
SettleRebalance ==
    Settle("settle_rebalance", "detach_settled", "detach_unsettled")

\* detachHomeSubscriberLifetime. If the loop goes on, the flusher stops and
\* the client is closed before anything else; if homeCtx has ended, they are
\* kept for the final releases.
Detach ==
    /\ \/ /\ \/ GoTo("detach", "settle")
             \/ GoTo("detach_settled", "decide")
             \/ GoTo("detach_unsettled", "failed")
          /\ fenced' = FencedWith(life)
       \/ /\ sub \in {"detach", "detach_settled", "detach_unsettled"}
          /\ sub' = "drain_shutdown"
          /\ fenced' = fenced
    /\ RegQueueUnchanged
    /\ UNCHANGED <<life, bundles, ambiguous>>

SettleFailed == Settle("settle", "decide", "failed")

\* The next client takes the membership over, with this registry and flusher,
\* unless homeCtx ends during the retry delay.
TakeOver ==
    /\ life \notin ambiguous
    /\ \/ GoTo("decide", "running") /\ life < MaxLives /\ life' = life + 1
       \/ GoTo("decide", "failed") /\ life' = life
    /\ RegQueueUnchanged
    /\ UNCHANGED <<bundles, fenced, ambiguous>>

\* An ambiguous dispatch, or a Home that cannot be taken over: the sink is
\* removed and the registry drained before both are replaced. The deferred
\* end of a failed loop starts in the same way.
RemoveSink ==
    /\ \/ GoTo("decide", "drain_replace")
       \/ GoTo("failed", "drain_exit")
    /\ Reg!SetReleaseSink(NoSink)
    /\ UNCHANGED <<queueVars, callVars, life, bundles, fenced, ambiguous>>

AfterDrain(outcome) ==
    CASE sub = "drain_exit" /\ outcome \in {"done", "failed", "refused"} -> "exited"
      [] sub = "drain_replace" /\ outcome = "done"   -> "replaced"
      [] sub = "drain_shutdown" /\ outcome = "done"  -> "flush"
      [] sub # "drain_exit" /\ outcome = "failed"    -> "failed"
      [] OTHER                                       -> sub

\* Drain with its deadline, in the three places it is called.
Draining ==
    /\ sub \in {"drain_replace", "drain_shutdown", "drain_exit"}
    /\ \/ Reg!DrainBegin(Subscriber)
       \/ Reg!DrainSnapshot(Subscriber)
       \/ \E i \in Ids : Reg!DrainStartClose(Subscriber, i)
       \/ Reg!DrainCheck(Subscriber)
       \/ Reg!DrainTimeout(Subscriber)
    /\ sub' = AfterDrain(drain'[Subscriber])
    /\ UNCHANGED <<queueVars, callVars, life, bundles, fenced, ambiguous>>

\* Flush at shutdown: it returns once nothing is dirty, or at the deadline.
FlushReleases ==
    /\ \/ GoTo("flush", "clean") /\ \A g \in Groups : acked[g] = latest[g]
       \/ GoTo("flush", "exited")
    /\ RegQueueUnchanged
    /\ UNCHANGED <<life, bundles, fenced, ambiguous>>

-----------------------------------------------------------------------------
Next ==
    \/ \E c \in Lives : Begin(c)
    \/ \E i \in Ids :
        \/ RefusedUnsent(i) \/ Issue(i) \/ Denied(i)
        \/ \E a \in Granted \cup {"denied"} : HomeAnswers(i, a)
        \/ Installed(i) \/ InstallRefused(i)
        \/ Unanswered(i) \/ Abort(i) \/ EndAborted(i)
        \/ Executes(i) \/ Releases(i)
    \/ FlusherStep
    \/ Attach \/ Publish \/ LifetimeEnds \/ SettleRebalance \/ Detach
    \/ SettleFailed \/ TakeOver \/ RemoveSink \/ Draining \/ FlushReleases

Spec == Init /\ [][Next]_vars

-----------------------------------------------------------------------------
(* Properties.                                                             *)

\* A dispatch for which Home counts a slot now or may still count one.
MayHoldSlot(i) == slot[i] \in Groups \cup {"asked"}

\* A takeover never leaks a slot: of the dispatches made through clients that
\* were taken over, each one Home counted, or may still count, a slot for has
\* become a scope of the registry, whose end will be reported. The race is
\* between the request that finds its answer lost, marks the client and ends
\* its token, and the subscriber that fences, waits and looks at the mark.
TakeoverKeepsSlots ==
    \A i \in Ids :
        0 < via[i] /\ via[i] < life /\ MayHoldSlot(i) =>
            owner[i] \in Reg!InScope \cup {"ended"}

\* Home never frees a slot while the resource of its execution is open: the
\* count it has received is at most the number of executions of the group
\* whose resource has finished closing.
HomeFreesAfterClose ==
    \A g \in Groups :
        applied[g] <= Cardinality({i \in Reg!ReleasedIn(g) : res[i] \in {"none", "closed"}})

\* A clean shutdown has told Home of every accounted execution of the
\* registry, and left none of them running.
CleanShutdownReportsAll ==
    sub = "clean" =>
        /\ Reg!pending = {} /\ Reg!scopes = {}
        /\ \A g \in Groups :
             applied[g] = Cardinality({i \in Ids : group[i] = g})

\* However the loop ends, no execution keeps a resource that nobody has begun
\* to close.
ExitCancelsEverything ==
    sub \in {"clean", "exited", "replaced"} => \A i \in Ids : res[i] # "bound"
=============================================================================
