---------------------------- MODULE FlowControl ----------------------------
(***************************************************************************)
(* Local flow control (sdk/cliproxy/flowcontrol): one Engine admits calls  *)
(* under concurrency limits and rolling rate windows, keeps a bounded      *)
(* queue served key by key, and reloads its policy while work is running.  *)
(*                                                                         *)
(* A call is one AcquireForRequest or Acquire and the permit it returns.   *)
(* The calls of an operation are attempts of one request: the first        *)
(* attempt also takes the request's own record (joint.go). A bucket is a   *)
(* rule with the values of its dimensions; a policy says which buckets a   *)
(* record is a member of.                                                  *)
(*                                                                         *)
(* Every method runs under Engine.mu, so it is one step, except the loop   *)
(* of dispatchLocked: it is one step per waiter, during which `lk` says    *)
(* who holds the mutex. The clock counts milliseconds and stands still     *)
(* while the mutex is held. Abstracted: payload bytes, bucket and record   *)
(* caps (max-buckets, 100000), a context's own deadline (Cancel stands for *)
(* it), statistics and observers.                                          *)
(***************************************************************************)
EXTENDS Integers, FiniteSets, FiniteSetsExt

CONSTANTS
    Calls,      \* attempts, and requests without an operation
    Ops,        \* operations (BeginRequest)
    NoOp,       \* stands for no operation
    OpOf,       \* operation of a call, or NoOp
    Immediate,  \* calls that may not wait
    Keys,       \* callers
    NoKey,      \* stands for no key
    KeyOf,      \* caller of a call or an operation
    Buckets,    \* rules, with the values of their dimensions
    Policies,   \* configurations that may be applied
    Batch,      \* dispatchGrantBatch
    Cancelled,  \* calls whose context may be cancelled
    LastArrival,\* bound on the time of an Acquire
    MaxTime     \* bound on the clock

Recs == Calls \cup Ops

Windows == [requests : Nat \ {0}, period : Nat \ {0}]

ASSUME FlowAssumption ==
    /\ OpOf \in [Calls -> Ops \cup {NoOp}] /\ NoOp \notin Recs
    /\ Calls \cap Ops = {} /\ IsFiniteSet(Recs)
    /\ Immediate \subseteq Calls /\ Cancelled \subseteq Calls
    /\ KeyOf \in [Recs -> Keys] /\ NoKey \notin Keys
    /\ \A c \in Calls : OpOf[c] \in Ops => KeyOf[OpOf[c]] = KeyOf[c]
    /\ Batch \in Nat \ {0} /\ LastArrival \in Nat /\ MaxTime \in Nat
    /\ \A p \in Policies :
        /\ p.enabled \in BOOLEAN /\ p.v3 \in BOOLEAN
        /\ p.limit \in [Buckets -> Nat]
        /\ \A b \in Buckets : IsFiniteSet(p.windows[b])
                              /\ \A w \in p.windows[b] : w \in Windows
        /\ p.members \in [Recs -> SUBSET Buckets]
        /\ \A r \in Recs : IsFiniteSet(p.members[r])
        \* a rule has one stage, so no bucket counts requests and attempts
        /\ \A c \in Calls, o \in Ops : p.members[c] \cap p.members[o] = {}
        /\ p.maxWait \in Nat /\ p.maxWaiting \in Nat
        /\ p.maxPerKey \in Nat /\ p.maxHistory \in Nat

VARIABLES
    now,        \* the clock
    cfg,        \* Engine.cfg
    closed,     \* Engine.closed
    active,     \* Engine.active: an operation is in it while its ticket is not 0
    mem,        \* active.members of a record
    conc,       \* bucket.active
    ret,        \* bucket.retention; 0 when there is no bucket
    hist,       \* bucket.history of all buckets; historyCount is its size
    started,    \* operation.started
    opClosed,   \* operation.closed
    waitUsed,   \* operation.waitUsed
    queue,      \* Engine.queue; operation.waiting is derived from it
    waiter,     \* the waiter of a queued call
    sequence,   \* Engine.sequence
    lastServed, \* Engine.lastServed, 0 when there is none
    activity,   \* Engine.activitySequence
    timer,      \* when Engine.timer is due, 0 when none is set
    dispatchPending, \* Engine.dispatchPending
    call,       \* where a call is
    ctxDone,    \* calls whose context is cancelled
    lk,         \* who holds Engine.mu, and the locals of dispatchLocked
    log,        \* history: admissions not refunded, kept when hist expires
    bornV3      \* history: records admitted under version 3

recVars   == <<active, mem, conc, sequence, log, bornV3>>
bucketVars == <<hist, ret, lastServed>>
opVars    == <<started, opClosed>>
queueVars == <<queue, waiter, waitUsed, call>>
timerVars == <<timer, dispatchPending>>
vars      == <<now, cfg, closed, recVars, bucketVars, opVars, queueVars,
               activity, timerVars, ctxDone, lk>>

NoWaiter == [id |-> 0, enqueued |-> 0, deadline |-> 0, nextCheck |-> 0]

Unlocked == [kind |-> "unlocked", call |-> NoOp, at |-> 0, todo |-> {},
             key |-> NoKey, grants |-> 0]

Init ==
    /\ now = 0 /\ cfg \in Policies /\ closed = FALSE
    /\ active = {} /\ mem = [r \in Recs |-> {}]
    /\ conc = [b \in Buckets |-> 0] /\ ret = [b \in Buckets |-> 0]
    /\ hist = {} /\ log = {} /\ bornV3 = {}
    /\ started = [o \in Ops |-> FALSE] /\ opClosed = [o \in Ops |-> FALSE]
    /\ waitUsed = [o \in Ops |-> 0]
    /\ queue = {} /\ waiter = [c \in Calls |-> NoWaiter]
    /\ sequence = 0 /\ lastServed = [k \in Keys |-> 0] /\ activity = 0
    /\ timer = 0 /\ dispatchPending = FALSE
    /\ call = [c \in Calls |-> "idle"] /\ ctxDone = {}
    /\ lk = Unlocked

-----------------------------------------------------------------------------
(* checkLocked and checkWorkLocked: may a call be admitted at time t?      *)

Members(p, r) == IF p.enabled THEN p.members[r] ELSE {}

Periods(p, b) == {w.period : w \in p.windows[b]}

retention(p, b) == Max({0} \cup Periods(p, b))

AtLimit(r) ==
    \E b \in Members(cfg, r) : cfg.limit[b] > 0 /\ conc[b] >= cfg.limit[b]

Recent(b, t, period) == {e \in hist : e.bucket = b /\ e.at > t - period}

\* fault: the window admits one more
ExhaustedLate(r, t) ==
    {x \in UNION {{b} \X cfg.windows[b] : b \in Members(cfg, r)} :
        Cardinality(Recent(x[1], t, x[2].period)) > x[2].requests}

\* The windows that have no room for another admission of r.
Exhausted(r, t) ==
    {x \in UNION {{b} \X cfg.windows[b] : b \in Members(cfg, r)} :
        Cardinality(Recent(x[1], t, x[2].period)) >= x[2].requests}

\* When enough events of an exhausted window will have left it.
FreeAt(b, w, t) ==
    LET R == Recent(b, t, w.period)
    IN  w.period + Max({e.at : e \in {d \in R :
            Cardinality({x \in R : x.at >= d.at}) >= w.requests}})

Blocked(r, t) == AtLimit(r) \/ Exhausted(r, t) # {}

NextCheck(r, t) == Max({0} \cup {FreeAt(x[1], x[2], t) : x \in Exhausted(r, t)})

\* Buckets that keep a history event for r.
Recorded(r) == {b \in Members(cfg, r) : cfg.windows[b] # {}}

Events(rs, t) ==
    UNION {{[bucket |-> b, rec |-> r, at |-> t] : b \in Recorded(r)} : r \in rs}

NoRoom(rs) == Cardinality(hist) + Cardinality(Events(rs, 0)) > cfg.maxHistory

\* The records an admission of c creates.
Needed(c) == IF OpOf[c] \in Ops \ active THEN {OpOf[c], c} ELSE {c}

RequestIgnored(c, t) == FALSE    \* fault: only the attempt is checked

\* The request's buckets come first; if they refuse, the attempt's are not
\* looked at.
RequestRefuses(c, t) ==
    OpOf[c] \in Needed(c) /\ (Blocked(OpOf[c], t) \/ NoRoom({OpOf[c]}))

checkWorkLocked(c, t) ==
    LET o == OpOf[c]
        r == IF RequestRefuses(c, t) THEN o ELSE c
    IN  IF o \in Ops /\ opClosed[o] THEN [verdict |-> "error", next |-> 0]
        ELSE IF Blocked(r, t)
        THEN [verdict |-> "blocked", next |-> NextCheck(r, t)]
        ELSE [verdict |-> IF NoRoom(Needed(c)) THEN "error" ELSE "grant", next |-> 0]

\* The check also makes the buckets it looks at, or lengthens their retention.
Touched(c, t) ==
    LET rs == IF OpOf[c] \in Ops /\ opClosed[OpOf[c]] THEN {}
              ELSE IF RequestRefuses(c, t) THEN {OpOf[c]} ELSE Needed(c)
    IN  [b \in Buckets |->
            IF \E r \in rs : b \in Members(cfg, r)
            THEN Max({ret[b], retention(cfg, b)}) ELSE ret[b]]

-----------------------------------------------------------------------------
(* grantWorkLocked, releaseRecordLocked, cleanupLocked.                    *)

Grant(c, t) ==
    /\ active' = active \cup Needed(c)
    /\ mem' = [r \in Recs |-> IF r \in Needed(c) THEN Members(cfg, r) ELSE mem[r]]
    /\ conc' = [b \in Buckets |->
            conc[b] + Cardinality({r \in Needed(c) : b \in Members(cfg, r)})]
    /\ hist' = hist \cup Events(Needed(c), t)
    /\ log' = log \cup Events(Needed(c), t)
    /\ bornV3' = IF cfg.v3 THEN bornV3 \cup Needed(c) ELSE bornV3
    /\ sequence' = sequence + Cardinality(Needed(c))
    /\ lastServed' = [lastServed EXCEPT ![KeyOf[c]] = sequence']

Live(h, t) == {e \in h : e.at > t - ret[e.bucket]}

HasEvent(h, b) == \E e \in h : e.bucket = b

KeyInUse(k, rs) == \E r \in rs : KeyOf[r] = k

\* The records `gone` leave, the events of `refunded` are taken back, and what
\* has expired is cleaned up; q is the queue.
ReleaseAndCleanup(gone, refunded, q) ==
    LET kept == {e \in hist : e.rec \notin refunded}
    IN  /\ active' = active \ gone
        /\ mem' = [r \in Recs |-> IF r \in gone THEN {} ELSE mem[r]]
        /\ conc' = [b \in Buckets |->
                conc[b] - Cardinality({r \in gone : b \in mem[r]})]
        /\ hist' = Live(kept, now)
        /\ ret' = [b \in Buckets |->
                IF conc'[b] = 0 /\ ~ HasEvent(hist', b) THEN 0 ELSE ret[b]]
        /\ lastServed' = [k \in Keys |->
                IF KeyInUse(k, active' \cup q) THEN lastServed[k] ELSE 0]
        /\ log' = {e \in log : e.rec \notin refunded}
        /\ bornV3' = bornV3 \ gone
        /\ UNCHANGED sequence

Cleanup(q) == ReleaseAndCleanup({}, {}, q)

Attempts(o) == {c \in active \cap Calls : OpOf[c] = o}

StartedAfter(c, refund) == started[OpOf[c]] \/ ~ refund

\* fault: the request waits for its end although nothing was sent
OverIfClosed(c, refund) ==
    {o \in active \cap {OpOf[c]} : Attempts(o) = {c} /\ opClosed[o]}

\* The operation, if it goes with its attempt c: the last one, after the end of
\* the request or before anything was sent.
Over(c, refund) ==
    {o \in active \cap {OpOf[c]} :
        /\ Attempts(o) = {c}
        /\ opClosed[o] \/ ~ StartedAfter(c, refund)}

\* fault: the request's event is refunded with its attempt's
RefundsBoth(c, refund) == IF refund THEN {c, OpOf[c]} ELSE {}

RefundedWith(c, refund) ==
    IF refund
    THEN {c} \cup {o \in Over(c, refund) : ~ started[o]}
    ELSE {}

-----------------------------------------------------------------------------
(* The queue: settleWaiterLocked, dispatchLocked, scheduleLocked.          *)

\* What operation o is charged when the waiters ws leave: one of them is its
\* attempt, or none.
Spent(o, ws, t) ==
    IF \E w \in ws : OpOf[w] = o
    THEN t - waiter[CHOOSE w \in ws : OpOf[w] = o].enqueued ELSE 0

\* Waiters ws leave the queue with this status; their operations are charged.
Leave(ws, status, t, q, cl) ==
    /\ queue' = q \ ws
    /\ call' = [c \in Calls |-> IF c \in ws THEN status ELSE cl[c]]
    /\ waiter' = [c \in Calls |-> IF c \in ws THEN NoWaiter ELSE waiter[c]]
    /\ waitUsed' = [o \in Ops |-> waitUsed[o] + Spent(o, ws, t)]

NotExpired(w, t) == FALSE    \* fault: the deadline is not looked at

Expired(w, t) == t >= waiter[w].deadline

\* dispatchLocked begins, called in `kind` for call c: the waiters in ws have
\* just been taken from the queue, cancelled and expired ones follow.
Dispatch(kind, c, ws, cl) ==
    LET gone == {w \in queue : w \in ctxDone \/ Expired(w, now)}
    IN  /\ Leave(ws \cup gone, "refused", now, queue, cl)
        /\ lk' = [Unlocked EXCEPT !.kind = kind, !.call = c, !.at = now,
                                  !.todo = queue \ (ws \cup gone)]
        /\ dispatchPending' = FALSE

Of(k) == {w \in lk.todo : KeyOf[w] = k}

\* Waiter w is the longest waiting one of key k.
Heads(w, k) == w \in Of(k) /\ \A v \in Of(k) : waiter[w].id <= waiter[v].id

\* Waiter w of key k comes before waiter v of key j: its key was served longer
\* ago, or neither was served and w has waited longer.
Before(w, k, v, j) ==
    \/ lastServed[k] < lastServed[j]
    \/ lastServed[k] = lastServed[j] /\ waiter[w].id < waiter[v].id

DispatchOver == lk.todo = {} \/ (lk.key = NoKey /\ lk.grants >= Batch)

\* Waiter w of key k has been tried.
Tried(w, k, admitted) ==
    lk' = [lk EXCEPT !.todo = @ \ {w},
                     !.key = IF admitted \/ Of(k) = {w} THEN NoKey ELSE k,
                     !.grants = IF admitted THEN @ + 1 ELSE @]

\* w is tried next: it heads the least recently served key, which is kept until
\* one of its waiters is admitted or all of them have been tried.
Try(w, k) ==
    /\ lk.kind # "unlocked" /\ ~ DispatchOver
    /\ Heads(w, k)
    /\ IF lk.key = NoKey
       THEN \A j \in Keys \ {k}, v \in Calls : Heads(v, j) => Before(w, k, v, j)
       ELSE k = lk.key

TryCancelled(w, k) ==
    /\ Try(w, k) /\ w \in ctxDone
    /\ Leave({w}, "refused", lk.at, queue, call)
    /\ Tried(w, k, FALSE)
    /\ UNCHANGED <<now, cfg, closed, recVars, bucketVars, opVars, activity,
                   timerVars, ctxDone>>

\* The policy has been switched off: the waiter goes on without a record.
TryUncontrolled(w, k) ==
    /\ Try(w, k) /\ w \notin ctxDone /\ ~ cfg.enabled
    /\ Leave({w}, "free", lk.at, queue, call)
    /\ Tried(w, k, TRUE)
    /\ UNCHANGED <<now, cfg, closed, recVars, bucketVars, opVars, activity,
                   timerVars, ctxDone>>

TryAdmitted(w, k) ==
    /\ Try(w, k) /\ w \notin ctxDone /\ cfg.enabled
    /\ checkWorkLocked(w, lk.at).verdict = "grant"
    /\ Grant(w, lk.at)
    /\ ret' = Touched(w, lk.at)
    /\ Leave({w}, "granted", lk.at, queue, call)
    /\ Tried(w, k, TRUE)
    /\ UNCHANGED <<now, cfg, closed, opVars, activity, timerVars, ctxDone>>

TryBlocked(w, k) ==
    /\ Try(w, k) /\ w \notin ctxDone /\ cfg.enabled
    /\ checkWorkLocked(w, lk.at).verdict # "grant"
    /\ waiter' = [waiter EXCEPT ![w].nextCheck = checkWorkLocked(w, lk.at).next]
    /\ ret' = Touched(w, lk.at)
    /\ Tried(w, k, FALSE)
    /\ UNCHANGED <<now, cfg, closed, recVars, hist, lastServed, opVars, queue,
                   waitUsed, call, activity, timerVars, ctxDone>>

\* fault: expiring history does not wake the queue
NoExpiry(h, rt, t) == {}

\* When the oldest event of each bucket expires, if that is still to come.
Expiries(h, rt, t) ==
    {Min({e.at : e \in {d \in h : d.bucket = b}}) + rt[b] :
        b \in {x \in Buckets : HasEvent(h, x)}} \ 0..t

\* scheduleLocked: when the timer is due, 0 for none.
DueAt(q, wt, h, rt, pending, t) ==
    IF closed \/ q = {} THEN 0
    ELSE Max({t + 1, Min({wt[w].deadline : w \in q} \cup Expiries(h, rt, t)
            \cup (IF cfg.enabled THEN {wt[w].nextCheck : w \in q} \ 0..t ELSE {})
            \cup (IF pending THEN {t + 1} ELSE {}))})

Remaining == lk.todo # {}

\* The end of a method that dispatches: schedule, unlock.
DispatchEnd ==
    /\ lk.kind = "dispatch" /\ DispatchOver
    /\ dispatchPending' = Remaining
    /\ timer' = DueAt(queue, waiter, hist, ret, Remaining, lk.at)
    /\ lk' = Unlocked
    /\ UNCHANGED <<now, cfg, closed, recVars, bucketVars, opVars, queueVars,
                   activity, ctxDone>>

-----------------------------------------------------------------------------
(* acquireWork.                                                            *)

\* Waiters get the first chance.
Acquire(c) ==
    /\ lk = Unlocked /\ call[c] = "idle" /\ now <= LastArrival
    /\ ~ closed /\ cfg.enabled
    /\ Cleanup(queue)
    /\ Dispatch("acquire", c, {}, call)
    /\ UNCHANGED <<now, cfg, closed, opVars, activity, timer, ctxDone>>

\* The engine is closed, or does not limit anything.
AcquireUncontrolled(c) ==
    /\ lk = Unlocked /\ call[c] = "idle" /\ now <= LastArrival
    /\ \/ /\ closed
          /\ call' = [call EXCEPT ![c] = "refused"]
          /\ UNCHANGED <<recVars, bucketVars>>
       \/ /\ ~ closed /\ ~ cfg.enabled
          /\ call' = [call EXCEPT ![c] = "free"]
          /\ Cleanup(queue)
    /\ UNCHANGED <<now, cfg, closed, opVars, queue, waiter, waitUsed, activity,
                   timerVars, ctxDone, lk>>

\* fault: the work the batch left behind is forgotten
AdmitsIfFree(c) == checkWorkLocked(c, lk.at).verdict = "grant"

AdmitNow(c) == checkWorkLocked(c, lk.at).verdict = "grant" /\ ~ Remaining

Budget(c) ==
    cfg.maxWait - (IF OpOf[c] \in Ops THEN waitUsed[OpOf[c]] ELSE 0)

waiting(o) == \E w \in queue : OpOf[w] = o

\* Only the sole attempt of an operation waits.
MayWait(c) ==
    /\ c \notin Immediate
    /\ OpOf[c] \in Ops => Attempts(OpOf[c]) = {} /\ ~ waiting(OpOf[c])
    /\ cfg.maxWaiting > 0 /\ Budget(c) > 0
    /\ Cardinality(queue) < cfg.maxWaiting
    /\ Cardinality({w \in queue : KeyOf[w] = KeyOf[c]}) < cfg.maxPerKey

Deciding(c) ==
    /\ lk.kind = "acquire" /\ lk.call = c /\ DispatchOver
    /\ dispatchPending' = Remaining
    /\ lk' = Unlocked

AcquireAdmitted(c) ==
    /\ Deciding(c) /\ AdmitNow(c)
    /\ Grant(c, lk.at)
    /\ ret' = Touched(c, lk.at)
    /\ call' = [call EXCEPT ![c] = "granted"]
    /\ timer' = DueAt(queue, waiter, hist', ret', Remaining, lk.at)
    /\ UNCHANGED <<now, cfg, closed, opVars, queue, waiter, waitUsed, activity,
                   ctxDone>>

\* A refusal sets the timer only for what the batch left behind.
AcquireRefused(c) ==
    /\ Deciding(c) /\ ~ AdmitNow(c)
    /\ checkWorkLocked(c, lk.at).verdict = "error" \/ ~ MayWait(c)
    /\ ret' = Touched(c, lk.at)
    /\ call' = [call EXCEPT ![c] = "refused"]
    /\ timer' = IF Remaining
                THEN DueAt(queue, waiter, hist, ret, TRUE, lk.at) ELSE timer
    /\ UNCHANGED <<now, cfg, closed, recVars, hist, lastServed, opVars, queue,
                   waiter, waitUsed, activity, ctxDone>>

AcquireQueued(c) ==
    /\ Deciding(c) /\ ~ AdmitNow(c)
    /\ checkWorkLocked(c, lk.at).verdict # "error" /\ MayWait(c)
    /\ activity' = activity + 1
    /\ queue' = queue \cup {c}
    /\ call' = [call EXCEPT ![c] = "waiting"]
    /\ waiter' = [waiter EXCEPT ![c] =
            [id |-> activity', enqueued |-> lk.at,
             deadline |-> lk.at + Budget(c),
             nextCheck |-> checkWorkLocked(c, lk.at).next]]
    /\ ret' = Touched(c, lk.at)
    /\ timer' = DueAt(queue', waiter', hist, ret', Remaining, lk.at)
    /\ UNCHANGED <<now, cfg, closed, recVars, hist, lastServed, opVars,
                   waitUsed, ctxDone>>

-----------------------------------------------------------------------------
(* The caller and its permit.                                              *)

\* acquireWork returns the permit.
Resume(c) ==
    /\ call[c] = "granted" /\ c \notin ctxDone
    /\ call' = [call EXCEPT ![c] = "held"]
    /\ UNCHANGED <<now, cfg, closed, recVars, bucketVars, opVars, queue,
                   waiter, waitUsed, activity, timerVars, ctxDone, lk>>

CommitDispatch(c) ==
    /\ lk = Unlocked /\ call[c] = "held"
    /\ call' = [call EXCEPT ![c] = "sent"]
    /\ started' = [o \in Ops |-> started[o] \/ o = OpOf[c]]
    /\ UNCHANGED <<now, cfg, closed, recVars, bucketVars, opClosed, queue,
                   waiter, waitUsed, activity, timerVars, ctxDone, lk>>

release(c, refund, status) ==
    /\ lk = Unlocked
    /\ ReleaseAndCleanup({c} \cup Over(c, refund), RefundedWith(c, refund), queue)
    /\ started' = [o \in Ops |-> started[o] \/ (o = OpOf[c] /\ ~ refund)]
    /\ Dispatch("dispatch", c, {}, [call EXCEPT ![c] = status])
    /\ UNCHANGED <<now, cfg, closed, opClosed, activity, timer, ctxDone>>

Release(c) == call[c] = "sent" /\ release(c, FALSE, "finished")

\* abort: the context ended before the permit was returned, or the caller gave
\* it back before it sent anything.
CancelBeforeDispatch(c) ==
    /\ call[c] = "held" \/ (call[c] = "granted" /\ c \in ctxDone)
    /\ release(c, TRUE, "refused")

\* The context of a waiter ends. Unlike the other ways into dispatchLocked this
\* one cleans nothing up.
CancelWait(c) ==
    /\ lk = Unlocked /\ c \in queue /\ c \in ctxDone
    /\ Dispatch("dispatch", c, {c}, call)
    /\ UNCHANGED <<now, cfg, closed, recVars, bucketVars, opVars, activity,
                   timer, ctxDone>>

Ended(o) == IF o \in active /\ Attempts(o) = {} THEN {o} ELSE {}

endOperation(o) ==
    /\ lk = Unlocked /\ ~ opClosed[o]
    /\ opClosed' = [opClosed EXCEPT ![o] = TRUE]
    /\ LET ws == {w \in queue : OpOf[w] = o}
       IN  /\ ReleaseAndCleanup(Ended(o), IF started[o] THEN {} ELSE Ended(o),
                                queue \ ws)
           /\ Dispatch("dispatch", NoOp, ws, call)
    /\ UNCHANGED <<now, cfg, closed, started, activity, timer, ctxDone>>

-----------------------------------------------------------------------------
(* The engine as a whole.                                                  *)

TimerFire ==
    /\ lk = Unlocked /\ timer # 0 /\ timer <= now
    /\ Cleanup(queue)
    /\ Dispatch("dispatch", NoOp, {}, call)
    /\ timer' = 0
    /\ UNCHANGED <<now, cfg, closed, opVars, activity, ctxDone>>

\* A hint for the selection of a credential, with the side effects of a check.
Available(c) ==
    /\ lk = Unlocked /\ cfg.enabled /\ ~ closed
    /\ hist' = Live(hist, now)
    /\ ret' = [b \in Buckets |->
            IF b \in Members(cfg, c)
            THEN Max({IF conc[b] = 0 /\ ~ HasEvent(hist', b) THEN 0 ELSE ret[b],
                      retention(cfg, b)})
            ELSE IF conc[b] = 0 /\ ~ HasEvent(hist', b) THEN 0 ELSE ret[b]]
    /\ lastServed' = [k \in Keys |->
            IF KeyInUse(k, active \cup queue) THEN lastServed[k] ELSE 0]
    /\ UNCHANGED <<now, cfg, closed, recVars, opVars, queueVars, activity,
                   timerVars, ctxDone, lk>>

\* fault: what is retained may exceed the new bound
UpdateFitsVersion(p) ==
    p.enabled => (p.v3 # cfg.v3 => active = {} /\ queue = {})

\* Left out: from version 3 on, a rule with live rate history may not change what
\* it covers (flow_control_rate_domain_change). Here such reloads are let through.
checkUpdateLocked(p) ==
    p.enabled =>
        /\ p.v3 # cfg.v3 => active = {} /\ queue = {}
        /\ Cardinality(Live(hist, now)) <= p.maxHistory

\* fault: the records keep their old buckets
NotReprojected(p) == mem

\* Every active record is counted under the new rules.
Reprojected(p) ==
    [r \in Recs |-> IF r \in active THEN Members(p, r) ELSE {}]

Update(p) ==
    /\ lk = Unlocked /\ ~ closed /\ checkUpdateLocked(p)
    /\ cfg' = p
    /\ mem' = Reprojected(p)
    /\ conc' = [b \in Buckets |-> Cardinality({r \in active : b \in Members(p, r)})]
    /\ hist' = Live(hist, now)
    /\ ret' = [b \in Buckets |->
            IF conc'[b] = 0 /\ ~ HasEvent(hist', b) THEN 0
            ELSE IF conc'[b] = 0 THEN ret[b]
            ELSE IF conc[b] = 0 /\ ~ HasEvent(hist', b) THEN retention(p, b)
            ELSE Max({ret[b], retention(p, b)})]
    /\ lastServed' = [k \in Keys |->
            IF KeyInUse(k, active \cup queue) THEN lastServed[k] ELSE 0]
    /\ log' = Live(log, now)
    /\ Dispatch("dispatch", NoOp, {}, call)
    /\ UNCHANGED <<now, closed, active, sequence, bornV3, opVars, activity, timer,
                   ctxDone>>

Close ==
    /\ lk = Unlocked /\ ~ closed
    /\ closed' = TRUE
    /\ Leave(queue, "refused", now, queue, call)
    /\ timer' = 0
    /\ UNCHANGED <<now, cfg, recVars, bucketVars, opVars, activity,
                   dispatchPending, ctxDone, lk>>

-----------------------------------------------------------------------------
(* The environment.                                                        *)

\* external: the context of a call that has not got its permit ends
Cancel(c) ==
    /\ c \in Cancelled \ ctxDone /\ call[c] \in {"waiting", "granted"}
    /\ ctxDone' = ctxDone \cup {c}
    /\ UNCHANGED <<now, cfg, closed, recVars, bucketVars, opVars, queueVars,
                   activity, timerVars, lk>>

\* external: time passes
Tick ==
    /\ now < MaxTime /\ lk = Unlocked
    /\ now' = now + 1
    /\ UNCHANGED <<cfg, closed, recVars, bucketVars, opVars, queueVars,
                   activity, timerVars, ctxDone, lk>>

Engine ==
    \/ \E w \in Calls, k \in Keys :
        TryCancelled(w, k) \/ TryUncontrolled(w, k) \/ TryAdmitted(w, k)
        \/ TryBlocked(w, k)
    \/ DispatchEnd
    \/ \E c \in Calls : AcquireAdmitted(c) \/ AcquireRefused(c) \/ AcquireQueued(c)

Next ==
    \/ Engine
    \/ \E c \in Calls :
        \/ Acquire(c) \/ AcquireUncontrolled(c) \/ Resume(c)
        \/ CommitDispatch(c) \/ Release(c) \/ CancelBeforeDispatch(c)
        \/ CancelWait(c) \/ Available(c) \/ Cancel(c)
    \/ \E o \in Ops : endOperation(o)
    \/ TimerFire \/ Close \/ Tick
    \/ \E p \in Policies \ {cfg} : Update(p)

Spec == Init /\ [][Next]_vars

(* Fairness: whoever holds the mutex goes on, the runtime fires due timers, *)
(* time passes. Nothing is assumed of callers: permits may be kept.        *)
Fairness == WF_vars(Engine) /\ WF_vars(TimerFire) /\ WF_vars(Tick)

FairSpec == Spec /\ Fairness

-----------------------------------------------------------------------------
(* Properties.                                                             *)

HistoryEvents == [bucket : Buckets, rec : Recs, at : 0..MaxTime]

\* Every variable has the type of the field it models.
TypeOK ==
    /\ now \in 0..MaxTime /\ cfg \in Policies /\ closed \in BOOLEAN
    /\ active \subseteq Recs /\ mem \in [Recs -> SUBSET Buckets]
    /\ conc \in [Buckets -> Nat] /\ ret \in [Buckets -> Nat]
    /\ hist \subseteq HistoryEvents /\ log \subseteq HistoryEvents
    /\ bornV3 \subseteq Recs
    /\ started \in [Ops -> BOOLEAN] /\ opClosed \in [Ops -> BOOLEAN]
    /\ waitUsed \in [Ops -> Nat]
    /\ queue \subseteq Calls
    /\ waiter \in [Calls -> [id : Nat, enqueued : Nat, deadline : Nat,
                             nextCheck : Nat]]
    /\ sequence \in Nat /\ lastServed \in [Keys -> Nat] /\ activity \in Nat
    /\ timer \in Nat /\ dispatchPending \in BOOLEAN
    /\ call \in [Calls -> {"idle", "waiting", "granted", "held", "sent",
                           "finished", "refused", "free"}]
    /\ ctxDone \subseteq Calls
    /\ lk.todo \subseteq queue

\* The counter of every bucket, which calls raise and lower and an update of
\* the policy recomputes, is the number of running records in the bucket: no
\* order of admissions, refunds and reloads leaks a slot or frees one twice.
CountersMatch ==
    \A b \in Buckets : conc[b] = Cardinality({r \in active : b \in mem[r]})

\* A request's slot goes with its work: a call is counted exactly while it has
\* its permit, and a request while it has an attempt or may make another after
\* it has sent one.
NoLeak ==
    /\ \A c \in Calls : c \in active <=> call[c] \in {"granted", "held", "sent"}
    /\ \A o \in Ops : o \in active =>
            Attempts(o) # {} \/ (started[o] /\ ~ opClosed[o])

\* No admission exceeds a concurrency limit of the policy it was made under,
\* neither for the request nor for the attempt.
LimitKept ==
    [][\A b \in Buckets :
        conc'[b] > conc[b] /\ cfg' = cfg /\ cfg.limit[b] > 0 =>
            conc'[b] <= cfg.limit[b]]_vars

\* No admission exceeds a rate window, whatever has been refunded, expired or
\* reloaded since: the admissions of the trailing period that still count,
\* with the new one, are at most the number allowed.
WindowKept ==
    [][cfg' = cfg => \A e \in log' \ log : \A w \in cfg.windows[e.bucket] :
        Cardinality({d \in log' : d.bucket = e.bucket /\ d.at > e.at - w.period})
            <= w.requests]_vars

\* Only an admission that was not used is taken back from the rate windows:
\* not one whose call was sent, and not the request's if any attempt was.
RefundOnlyUnsent ==
    [][cfg' = cfg => \A e \in log \ log' : \A c \in Calls :
        c = e.rec \/ OpOf[c] = e.rec => call[c] \notin {"sent", "finished"}]_vars

\* An arrival is admitted ahead of the queue only when no waiter could be: also
\* when the dispatch before it stopped at its batch.
NoQueueJump ==
    [][\A c \in Calls : call[c] = "idle" /\ call'[c] = "granted" =>
        \A w \in queue : checkWorkLocked(w, lk.at).verdict # "grant"]_vars

\* The history of a policy in force never exceeds its bound.
HistoryBounded == cfg.enabled => Cardinality(hist) <= cfg.maxHistory

\* The engine's books stay right over admissions, refunds and reloads: counters,
\* the history bound and the queue (acquireWork, releaseLocked, Update).
EngineConsistent == TypeOK /\ CountersMatch /\ HistoryBounded

\* The waiters that could be admitted if the engine cleaned up now.
Admissible ==
    LET h == Live(hist, now)
        Fits(w) ==
            /\ \A r \in Needed(w) :
                /\ ~ AtLimit(r)
                /\ \A b \in Members(cfg, r) : \A v \in cfg.windows[b] :
                    Cardinality(Recent(b, now, v.period)) < v.requests
            /\ Cardinality(h) + Cardinality(Events(Needed(w), 0)) <= cfg.maxHistory
    IN  {w \in queue \ ctxDone : ~ Expired(w, now) /\ Fits(w)}

\* Nobody is left waiting for what is there: whenever a queued call could be
\* admitted, because capacity came back, a window moved on or history expired,
\* the timer is due or the rest of a batch is.
NoStrandedWaiter ==
    lk = Unlocked /\ ~ closed /\ cfg.enabled /\ Admissible # {} =>
        dispatchPending \/ (timer # 0 /\ timer <= now)

\* A policy of the other rule generation (version 3, or before) takes effect
\* only when no work admitted under the first one is running.
VersionSwitchDrained ==
    cfg.enabled => \A r \in active : r \in bornV3 <=> cfg.v3

\* Nobody waits for ever, even if no permit is ever returned. (A call waits at
\* most once, so every wait ends when the queue is empty in the end.)
WaitEnds == <>[](queue = {})
=============================================================================
