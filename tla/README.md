# A TLA+ model of the concurrency core of CPA-Core-LTS

CPA-Core-LTS is a proxy between API clients and model providers. It takes
requests in one protocol, picks a credential, translates the request, sends it
upstream and streams the answer back. Most of its lines convert formats or talk
HTTP. This project models the parts whose correctness depends on the order in
which goroutines, timers, messages and reloads meet:

* the bookkeeping of executions that a central *Home* has granted slots for,
* the reporting of freed slots back to Home,
* the subscriber loop that replaces connections to Home while requests use them,
* the local flow control engine, with its queue, windows and reloads,
* the websocket relay, which shares one connection between requests,
* the record of a credential in memory and in the token store,
* the automatic refresh of credentials.

Paths in this document are relative to the repository.

## 1. Inventory

### 1.1 Components, their state and their operations

| Component | State | Operations | Modelled by |
|---|---|---|---|
| Execution registry (`sdk/cliproxy/executionregistry`) | lifetime state, pending dispatches, scopes with a bound resource, release counts per group, release sink, observation barriers | BeginDispatch, Install, Bind, EndWithRelease, SetReleaseSink, Drain, Close, WaitPending, ObserveBarrier, FreezeInFlight | `ExecutionRegistry` |
| Release flusher (`internal/home/concurrency_release.go`) | latest and acknowledged count and tickets per group, wake and force channels, backoff | MarkDirty, SetSender, SetConfigProvider, Run, Flush | `ReleaseQueue` (promise), `ReleaseFlusher` |
| Home subscriber loop (`sdk/cliproxy/service_home.go`) | current client, registry, flusher, published dispatch bundle | runHomeSubscriber and its settle, take over, drain and shutdown paths | `HomeLifetime` |
| Home client (`internal/home/client.go`) | connection, dispatch fence, ambiguity mark | rPopAuth, FenceDispatch, AbortAmbiguousDispatch, Close | `HomeLifetime` (the fence) |
| Dispatch of a request through Home (`sdk/cliproxy/auth/conductor_home.go`) | its pending token, its scope | pickNextViaHome with its error paths | `HomeLifetime` |
| Flow control engine (`sdk/cliproxy/flowcontrol/engine.go`, `joint.go`) | active records, bucket counters and history, queue, operations, one timer, policy | Acquire, AcquireForRequest, CommitDispatch, Release, CancelBeforeDispatch, End, Update, Available, Close, timer | `FlowControl` |
| Credential store of the auth manager (`sdk/cliproxy/auth/conductor_lifecycle.go`, `conductor_persistence.go`, `conductor_lts.go`, `async_merge.go`) | published record with epoch, generation and credential version; gates, persist lock and watermark; the file | Register, Update, UpdateRefreshedAuth, UpdatePreparedAuth, MarkResult and ResetQuota, Remove, Load, PersistMetadataEntry, PruneExpiredAvailability, ClearQuotaState | `CredentialStore` |
| Credential refresh (`auth/auto_refresh_loop.go`, `conductor_refresh.go`) | heap and dirty set of the loop, bounded job channel, registered jobs, pending markers | StartAutoRefresh, StopAutoRefresh, the loop, its workers, refreshes by requests, schedule and unschedule calls | `RefreshLoop` |
| Auth scheduler and selector, cooldown, session cache, hedged retry (`sdk/cliproxy/auth`) | cursors and weights, cooldown per credential and model, alias groups | pick, mark result, bind, evict | not modelled |
| Websocket relay (`internal/wsrelay`) | session list, pending requests of a session with channel, mutex, flags and stop function | Send, NonStream, Stream, run, dispatch, deliver, cancel, cleanup, Stop | `WsRelay` |
| Usage manager, redis queue, watcher, plugin stream bridge, model registry | queues, subscribers, debounce timers, reference counts | publish, pop, subscribe, dispatch | not modelled |
| Translators, executors, API server, stores, login flows, access control, logging, configuration | mostly none | conversions and I/O | not modelled |

`PROJECT.json` lists the components one by one, with the files of each.

### 1.2 How they interact

```
  request goroutines ---- pickNextViaHome ----> Home client ----RPOP----> Home
        |                                        ^    ^                    ^
        | BeginDispatch / Install / End          |    | fence, close       | counts
        v                                        |    |                    |
  Execution registry <---- Drain, WaitPending -- Home subscriber loop      |
        |                                             | Run, Flush         |
        +--- release sink (MarkDirty) ---> Release flusher ---- send ------+

  request goroutines ---- Acquire / permit ----> Flow control engine <-- Update
```

Requests, the subscriber loop, the flusher's Run goroutine and the goroutines
that close resources share the registry. The release sink is a callback made
outside every lock. A client is used by requests that looked it up before the
loop detached it. The flow control engine is one mutex with one timer; its
callers and the configuration reload meet there. A relay session has one reader,
one goroutine per caller, one callback per ended context and one cleanup, which
meet at the map of pending requests and at the mutex of each request. The auth
manager is one mutex that is released for every save and every network call;
gates per credential order its mutations, and the refresh loop hears of them by a
call of its own afterwards.

### 1.3 What is hard, and what correctness means

* **Registry.** A stop (Drain, Close) races with Install, Bind and
  EndWithRelease. A sleeper waits on a channel that is replaced with every
  signal. The release is counted in one section, delivered outside it and the
  scope removed in a third. Correct means: nobody sleeps past the last signal;
  no resource escapes a stop; a release is counted once, never before its
  resource is closed, and is never lost by a change of sink.
* **Flusher.** A failed send may have reached Home, a frame may arrive late, and
  counts are marked while a batch is being sent. Correct means: a ticket is
  finished only when Home has the count; none is forgotten; a freed slot does
  not wait for an interval; Flush tells the truth.
* **Subscriber and requests.** The fence is checked before a request is sent,
  answers get lost, and deadlines end the waits. Correct means: when a new client
  takes over Home's membership, every slot Home counted is known to the registry;
  Home frees a slot only after the work has stopped; a clean shutdown has
  reported everything.
* **Flow control.** Counters are raised by calls and recomputed by reloads;
  refunds take records back; a dispatch stops after a batch; one timer serves
  every reason to wake up. Correct means: limits and windows hold, nothing leaks,
  newcomers do not overtake, nobody waits for what is there or for ever.
* **Relay.** Four parties may end a request: a terminal frame, its context, a
  failed write and the cleanup of the session; a caller may also stop reading.
  deliver blocks with the request's mutex held. Correct means: nobody sends on a
  closed channel, the reader is never stuck on a request that has ended, every
  caller is answered when the session ends, and a truncated response is not taken
  for a complete one.
* **Credential store.** The mutex is released between the preparation of a record,
  its save and its publication; metadata saves give way to everything else;
  pruners save without the gate. Correct means: the file is never older than what
  is published, unless the store reported an error; a late refresh overwrites
  nothing; an edit made during a save survives; nobody waits for ever.
* **Refresh.** A due credential is marked, registered and sent to a worker in three
  steps, while requests, callers and a second loop change it. Correct means: every
  job is finished by somebody, a marker is cleared by its own job only, no
  credential is refreshed twice at once, and one that needs a refresh gets it.

The list of hazards in `PROJECT.json` names the line where each one bites and
the properties that would catch it.

## 2. Modules

| Module | Role |
|---|---|
| `ExecutionRegistry` | the registry of one subscriber lifetime |
| `ExecutionRegistryProofs` | its theorems |
| `ReleaseQueue` | abstract: one cumulative count per group, registry to Home and back |
| `ReleaseFlusher` | the flusher, which implements `ReleaseQueue` |
| `ReleaseFlusherProofs` | its theorems and the refinement |
| `HomeLifetime` | composition: subscriber loop, requests, `ExecutionRegistry` and `ReleaseQueue` as instances |
| `HomeLifetimeProofs` | its theorems, over those of `ExecutionRegistryProofs`, and that it uses both components as specified |
| `FlowControl` | the flow control engine |
| `FlowControlProofs` | its theorems |
| `FlowTimerProofs` | that its timer comes in time, over `FlowControlProofs` |
| `WsRelay` | one session of the websocket relay |
| `WsRelayProofs` | its theorems |
| `CredentialStore` | one credential in the auth manager and in the token store |
| `CredentialStoreProofs` | its theorems |
| `RefreshLoop` | the refresh loops, their workers, and what changes a credential beside them |
| `RefreshLoopProofs` | its theorems |
| `MC*` | instances for TLC: model values, policies, symmetry |

Operators marked `fault` in a module are wrong variants of the definition that
follows them (a dropped guard, an off-by-one, a lost wake-up). They are not used
by the specification; put in the place of the right one, each makes TLC find a
violation of a property, which shows that the property depends on that code.

### 2.1 ExecutionRegistry

One action is one critical section of `Registry.mu` or `Scope.mu`, or one atomic
operation on `Registry.state`. `owner[i]` is the program counter of the goroutine
that owns dispatch *i*; the maps `pending` and `scopes` are derived from it,
because the sections that insert and delete their keys are the ones that move the
owner. EndWithRelease is five actions: deactivate, start the close, count the
release once `closeDone` is closed, call the sink outside the lock, remove the
scope. Drain is split into the swap of the state, the snapshot, one step per
resource, and the wait loop; a Drain that met its deadline may be called again.
Close runs its loop once and other callers join it. SetReleaseSink swaps and
copies under the lock and replays outside it.

The channel `changed`, which `signalLocked` closes and replaces, is modelled by
the goroutines blocked on it. Reads of the atomic state inside a `mu` section
happen with the section. Scopes have at most one resource, as in the code. A sink
is something that keeps the highest count it was given, which is what MarkDirty
does. `barrierNext` is a history variable.

### 2.2 ReleaseQueue and ReleaseFlusher

`ReleaseQueue` has three counts per group: marked (`latest`), received by Home
(`applied`), confirmed (`acked`). Counts may be skipped, never invented, never go
back, and none is confirmed before Home has it.

`ReleaseFlusher` adds what the code has: tickets, the two one-place channels, the
Run goroutine with its timer and backoff, the batch of a flush, the frames on the
wire, and one Flush call. Delays are kept as *now* or *later*: the code uses 0 in
the first case and the interval or the backoff in the second. A send may fail
before or after Home took the frame, and frames may be lost or arrive late.
MarkDirty and SetSender are merged with the non-blocking signal at their end; a
signal that came later would only add a wake-up, and SetConfigProvider produces
such wake-ups anyway.

### 2.3 HomeLifetime

A request is followed from the moment it has the dispatch bundle: begin, the last
look at the fence, the RPOP, Home's answer, and every way out (error before the
send, denied, installed, install refused, no answer, contradictory answer). The
order that matters is kept: an ambiguous call marks the client *before* it ends
its token. The loop is modelled step by step: attach the sink, publish, the end
of a lifetime with or without a rebalance, settling, detaching, take-over,
replacement, shutdown with Drain and Flush, failed exit. The registry's operations
are the actions of `ExecutionRegistry` (INSTANCE), and the flusher is its abstract
specification.

Home counts a slot when it hands out a credential with a concurrency tuple; this
is the variable `slot`. That the flusher of a fenced client sends nothing is left
out: frames may arrive at any time. The model ends where the loop replaces the
registry and the flusher.

### 2.4 FlowControl

Every method of the engine runs under one mutex and is one action, except the
loop of `dispatchLocked`, which is one action per waiter; `lk` holds the locals of
that loop and says who owns the mutex. A request with several attempts
(`joint.go`) is an operation with a record of its own. Buckets have a counter, a
retention and history events. The clock counts milliseconds and stands still
while the mutex is held.

Abstracted: payload bytes; the creation of buckets up to `max-buckets` and the
cap of 100000 records; a context's own deadline (a cancellation stands for it);
statistics, events and observers. `log` is a history variable: it keeps the
admissions that were not refunded even after the engine forgot them, so that the
rate windows can be judged independently of the engine's own history.
`bornV3` records the rule generation a record was admitted under.

### 2.5 WsRelay

One action is one operation on the map of pending requests, one section of a
request's mutex, or one channel operation; `mu` holds the requests whose mutex is
kept from one step to the next (deliver in its select, cancelWithError while it
makes room). `caller` follows a request from Manager.Send through registration,
the check of the session, the write and the frames NonStream or Stream reads;
`after` follows the function given to context.AfterFunc; `reader` and `cleaner`
are the goroutines of run and cleanup. The select of deliver is two actions that
are both enabled when the channel has room and the session or the context has
ended, as in Go.

Merged, because the steps commute with everything between them: LoadOrStore and
AfterFunc; the failure of a write and the LoadAndDelete that follows; the start of
an AfterFunc callback and its LoadAndDelete; Manager.Stop's emptying of the list
and the cleanup it calls. Frames for unknown ids change nothing and are no step.
stream_start is a chunk, http_response an end. Ids and session names are random,
so duplicates and replaced sessions are left out. `read` and `got` are history
variables.

### 2.6 CredentialStore

One action is one section of the manager's mutex, one call of the store, or one
step through a gate. A writer goes from *away* (the network call of a refresh or a
preparation, or the time a caller holds the copy it gives to Update) to *waiting*
(lockAuthMutation) to the preparation, the save and the publication. `base` is the
copy the call started from, `next` the record it saves, `before` the runtime fields
at the preparation; the last is what mergeAuthSaveDelta compares with.

Credentials are a token; the version counter tells a token that was replaced and
put back. The runtime fields (quota, cooldown, NextRefreshAfter) are the number of
their last edit, so that an edit is never equal to an older one. The three-way
merge of `async_merge.go` is modelled field by field for these two and for the
metadata entry: what changed since the copy wins, otherwise the result does. Meta
stands for the providers whose minted key may be used only when it is saved;
Antigravity for the ones with a metadata entry. A neighbour is the save of another
credential, which meets this one at the metadata save only. The wait for the load
gate, the gate and the persist lock can be ended by the caller's context where the
code selects on it. `unsaved` records that the store returned an error for a
record that was then published.

### 2.7 RefreshLoop

A loop goes through its select, popDue, drainDirty and, per credential, the
decision under the manager's mutex and the change of the heap under its own, which
are separate steps. markRefreshPending, the non-blocking send and the release of a
job that could not be sent are separate steps too. A loop that was cancelled runs on
until it notices, beside the one that replaced it; its workers may still take jobs,
and it releases those left in its channel.

Times are kept as what is compared: an entry of the heap is due or later, a
credential needs a refresh *now*, *later* or *never*, NextRefreshAfter is absent,
the marker of a job (ahead or passed), or a time to retry. The marker of a job that
has ended, which Update may bring back with an older copy, is a time to retry: no job
recognizes it. The times at which entries
and holds change are events without a clock. `seen` records for each refresh under
way whether the record it read was edited or its credentials replaced, which is
what the code finds out by comparing generations, versions and tokens. A caller
that has changed a credential still has to tell the loop (`tell`): between the two
anything may happen.

## 3. Runs

TLC checks these instances. Bounds are the CONSTANTS named `Max...`,
`LastArrival` and the sizes of the sets.

| Run | Instance | Checks | Shows |
|---|---|---|---|
| `registry` | 2 dispatches, 2 groups, 2 sinks, 2 barriers, 2 snapshots, 1 Drain (which may be called again), 2 Close, 1 WaitPending | `NoLostWakeup`, `DrainReachesEveryResource`, `DrainedMeansIdle`, `ClosedMeansResourcesClosed`, `NoEarlyRelease`, `ReleasesDelivered`, `BarrierSettled`, `DrainTerminates` | whatever the interleaving of stops and owners, no sleeper is left, no resource escapes, and Drain returns or meets its deadline; changing the sink during releases neither loses nor anticipates a count; a published barrier covers every dispatch begun before it |
| `flusher` | 1 group, counts to 3, 2 Run calls, 1 Flush | `TicketsHonest`, `NoStrandedTicket`, `NoLateFlush`, `FlushMeansReported`, `ImplementsReleaseQueue`, `TicketsFinish` | tickets tell the truth with lost and late frames, and finish |
| `home_lifetime` | 2 dispatches, 2 clients, 1 group | `TakeoverKeepsSlots`, `HomeFreesAfterClose`, `CleanShutdownReportsAll`, `ExitCancelsEverything` | the hand-over between clients loses no slot |
| `flow_reload` | 2 attempts of one request, 1 of another, 3 policies (strict, loose, off), clock 0..2 | `EngineConsistent`, `LimitKept`, `WindowKept`, `RefundOnlyUnsent` | admissions, refunds and releases stay consistent over reloads |
| `flow_queue` | 3 attempts of two requests with a small history, clock 0..5, or 5 calls and a batch of 1; no cancellation | `NoLeak`, `NoStrandedWaiter`, `NoQueueJump`, `WaitEnds` | nobody waits for what is there, or for ever, and a newcomer does not overtake when a dispatch stopped at its batch |
| `flow_stranded` | 3 calls, one cancelled | `NoStrandedWaiter` is violated | finding 1 |
| `flow_versions` | 1 call, three policies of two versions | `VersionSwitchDrained` is violated | finding 2 |
| `relay` | 2 requests (one streamed, one whose context may end), channels of 1 frame, 1 chunk | `SessionConsistent`, `SuccessMeansEnd`, `NobodyAbandoned`, `ReaderGoesOn`, `CallersAnswered` | a full channel, an ended context and a closing session never strand a caller or the reader |
| `relay_frame_loss` | 1 streamed request, 1 chunk | `NoSilentFrameLoss` is violated | finding 3 |
| `store` | 2 writers, 1 metadata saver, 1 pruner, 1 neighbour, 2 tokens, 3 calls, 1 edit | `GateHolds`, `NewestOnDisk`, `VersionsAdvance`, `EditsKept`, `ForegroundEnds` | what a writer decided at the gate still holds when it publishes, the file keeps up with what is published, edits survive saves, and every call ends unless a pruner and a metadata saver wait for each other |
| `store_overwritten` | 1 writer, 1 pruner, 2 edits | `NewestOnDisk` is violated | finding 4 |
| `refresh` | 2 loops with a worker each, 2 credentials, 1 request, 2 callers, a channel for 1 job, 2 changes | `JobsConsistent`, `NoPhantomJob`, `BackoffKept`, `DueIsAttempted` | no job is left behind or run twice when a loop is replaced, the queue is full or the credential changes, and a credential that needs a refresh gets one unless the loop was made to forget it too late, or it is turned away at a full queue again and again |

The invariants `EngineConsistent`, `SessionConsistent`, `GateHolds`,
`JobsConsistent` and `ReleasesDelivered` are conjunctions of named parts; the first
four have the type invariant of their module among them. The type invariants of
`ExecutionRegistry` and `ReleaseFlusher` are proved (section 5) and need no run.

### 3.1 Why the bounds are enough

* *Registry.* The operations of one scope meet at most one other scope (through
  the maps and the group count) and one caller of each kind; two Close calls are
  needed for the joining path, two sinks for a replacement that races with a
  delivery, two groups for a delivery that must not disturb the other group.
  Two dispatches put one before and one after a barrier. The safety properties that
  are proved, `BarrierSettled` and `NoEarlyRelease` among them, hold for every
  number of dispatches, barriers and callers. The run plays three scenes (stopping,
  releasing, observing) instead of their product. Stops and releases meet in
  `home_lifetime`, which has a Drain and the accounting together, and in the
  theorems, which have everything.
* *Flusher.* Groups meet only in a batch, and the theorems cover every set of
  groups; three counts are enough for one acknowledged, one in the batch and one
  marked meanwhile. Two Run calls give one restart.
* *Home lifetime.* A takeover needs two clients; two dispatches put one into the
  settling of the first client while another one is begun on a detached bundle.
* *Flow control.* Two attempts of one request plus one of another caller is the
  smallest instance with a shared request record, a second key and a queue. Time
  is bounded by the longest window plus the longest wait where the property is
  about the end of a wait (`flow_queue`), and by one window where it is not.
  `LastArrival` keeps arrivals early so that the clock reaches the end of every
  wait they start. The batch is 1 instead of the code's 64, so that stopping at
  the batch happens with few calls.
* *Relay.* Requests meet only through the reader and the cleanup, which handle one
  at a time: two requests let one hold up the other. Channels hold 1 frame instead
  of 64, so that one chunk fills them and the next frame blocks.
* *Credential store.* Two writers and three calls give a refresh that is away while
  another mutation goes through, and one more behind it; two tokens let a
  credential be replaced and put back. Four scenes: *minting* and *metadata* have
  the edits without the gate, *pruning* has the pruner, *crossing* the pruner beside
  a metadata saver. The first two have no pruner, *pruning* no edits of the refresh
  bookkeeping, and in *crossing* no metadata entry is published: with these
  `NewestOnDisk` is violated (finding 4). *metadata* has one writer, *crossing* two
  and a neighbour.
  In *crossing* a pruner and a metadata saver do come to wait for each other until a
  context ends: the pruner holds the persist lock in beginForegroundStoreSave, and
  the metadata saver, whose context it has cancelled, waits for that lock without
  looking at it (`conductor_persistence.go:139`, `:231`). `ForegroundEnds` says so:
  a foreground call ends, or these two wait for ever. Without the exception TLC
  finds it violated; with it, nothing else holds a call up.
* *Refresh.* Two loops are needed for a replacement, two credentials for a full
  channel of one job, two callers for a change that is made while the loop has not
  been told of the one before. Four scenes: *restart* (a loop is stopped or replaced,
  one credential), *changing* (one loop; one edit by a caller and the refreshes of a
  request), *relogin* (two changes by two callers, the second of which brings back
  what was removed or failed for good), *full* (two credentials, one worker). Final
  failures are in *changing* and *relogin*, registrations and removals in *relogin*.
  `DueIsAttempted` has two exceptions, and TLC finds a violation without either.
  `LateForget`: Remove, a refresh that failed for good and the loop itself take an
  entry away after they have released the manager's mutex; if the credential was
  given new tokens meanwhile and the loop has been told, the late removal takes the
  new entry, and the credential is not refreshed until it changes again
  (`conductor_refresh.go:1141`, `conductor_lifecycle.go:639`,
  `auto_refresh_loop.go:386`). `TurnedAway` again and again: the heap is ordered by
  time, which the model does not keep, so that one credential that is always retried
  first can keep the other out of the channel. (The channel of the code has room for
  64 jobs or more.)

### 3.2 Symmetry and deadlock

No run uses TLC's symmetry sets, since most of them check liveness. Where values
are interchangeable the MC module picks a representative: idle writers and the
first token in `MCCredentialStore`, the order of arrival in `MCFlowQueue`.
Deadlock is checked in the registry and flusher runs. It is not in
`home_lifetime`, whose loop ends, in the flow control runs, where the clock ends
and callers may stop calling, and in the relay runs, where the session ends, and in `store` and `refresh`, whose
callers may stop calling.

### 3.3 Fairness

* `ExecutionRegistry`: weak fairness of the owners' ending steps, of the resource
  closers and of Drain's own steps. Owners end because an executor returns or its
  context is cancelled by the close that Drain starts; goroutines that can run are
  scheduled. Nothing is assumed of Install, Bind, new dispatches, or of deadlines,
  which may never come.
* `ReleaseFlusher`: weak fairness of Run's steps and of its timer, and of the
  subscriber that starts Run again and sets a sender; strong fairness of receiving
  and confirming a frame, that is, a Home that is reached again and again is
  reached at last. `TicketsFinish` excepts a Run that was stopped for the last
  time, after which the code sends nothing either.
* `FlowControl`: weak fairness of the mutex holder, of a due timer and of the
  clock. Nothing is assumed of callers: permits may be kept for ever, and every
  wait still ends.
* `WsRelay`: one weak fairness condition for all goroutines together: while one can
  run, one does. This is less than the Go scheduler gives and is enough because a
  request takes finitely many steps. The peer may fall silent, contexts may never
  end, and the session may stay open for ever.
* `CredentialStore`: weak fairness of each writer, metadata saver and save, and of
  the end of a Load: goroutines run on, the store answers with or without an error.
  The gates hand over in order of arrival. Nothing is assumed of contexts, so no
  wait may depend on one.
* `RefreshLoop`: weak fairness of loops, workers, refreshes and callers that owe the
  loop a call; providers answer, and times that were set come. New calls, expiry
  and cancellations are not assumed.

## 4. Findings

1. **A cancellation can strand another waiter** (`engine.go:300`, run
   `flow_stranded`). When a waiter's context ends, acquireWork dispatches and
   schedules without cleanupLocked. If a history event has just expired and the
   timer for it has not run yet, the dispatch still finds the history full,
   scheduleLocked skips the event because its expiry is not in the future, and the
   new timer generation makes the due timer do nothing. The other waiter sleeps
   until its deadline although it could be admitted. The comment at
   `engine.go:673` says "If history capacity is the blocker, expiration must also
   wake the queue." The same property holds in `flow_queue`, where no context is
   cancelled, and section 5.6 proves that such a cancellation is the only cause.
2. **A version switch over running work** (`engine.go:790`, run `flow_versions`).
   The refusal compares with the policy applied last and only if the new one is
   enabled; a disabled policy of the other version first, then an enabled one,
   goes through while old work runs. `docs/lts/flow-control.md:162` says that
   this switch is refused while work is active or waiting.
3. **A closing session can shorten a response silently** (`session.go:80` in
   `internal/wsrelay`, run `relay_frame_loss`). Between the close of
   `session.closed` and the moment cleanup reaches the request, the reader still
   dispatches. The select of deliver may choose the closed session although there
   is room, and dispatch ignores that (`session.go:321`); the select of
   deliverTerminal may choose the channel. The caller then sees stream_end and
   success, without the chunk. The test `TestSession_Dispatch_NoSilentFrameLoss`
   (`session_test.go:163`) asks that a stream that was ended is complete: "frame
   loss: expected 11 frames, got %d". What does hold is `SuccessMeansEnd`: without
   the frame that ends it no response is taken for complete.
4. **A pruner can write old credentials over new ones** (`conductor_lts.go:123`, run
   `store_overwritten`). PruneExpiredAvailability and ClearQuotaState save through
   persist, without the credential's gate. While an update has saved its record and
   not yet published it, the published record is still the old one;
   markRefreshPending and finishRefreshJob raise its generation to the one the update
   was given, the watermark then lets it pass, and the file has the old credentials
   when the update is published. A restart loads them. The comment at
   `conductor_lifecycle.go:789` says "Save the latest snapshot for this lifecycle
   rather than overwriting it with an old copy." A metadata entry is lost from the
   file in the same way: the pruner takes its snapshot before PersistMetadataEntry has
   published the entry, waits for that save in beginForegroundStoreSave, and then
   writes the file without it. In `store`, which has neither case, the property holds.

## 5. Proofs

TLAPS checks the theorems for every value of the constants; the only assumptions
are the ASSUMEs of the modules (bounds are natural numbers, the nil values are not
members of their sets, the kinds of callers do not overlap, there is a token, a
policy is well formed) and, in `WindowsAreKept`, `StoreKeepsUp`, `NobodyIsStranded`
and `UncancelledAreServed`, the hypothesis each states. Every strengthened invariant below was first checked by TLC on the
instances of section 3 (`DiskInv` on one with two writers, a metadata saver, no pruner,
two edits and no scenes).

### 5.1 ExecutionRegistryProofs

* `TypeCorrect`: `TypeOK`, by one lemma per part of the state.
* `WakeupsKept`: `NoLostWakeup` is inductive given types. Every section that takes
  something out of the maps for good signals (`SignalWakes`); every other step
  leaves the maps at least as full (`StaysAwake`); Install moves an element from
  one map to the other and signals.
* `DrainComplete`: `DrainReachesEveryResource` is not inductive: it says nothing of
  a Drain between its snapshot and its last close. The strengthening has two
  parts. `DrainStops`: once a Drain call is past its swap the registry is not
  accepting, so Bind is refused. `DrainListsBound`: behind the snapshot every
  bound resource is still on the call's list. With `BoundLive` (a bound resource
  belongs to a scope in the map) the snapshot establishes the second.
* `DrainLeavesIdle`: `Drained` (a Drain that returned nil left an empty, closed
  registry) is inductive; that the resources are closed follows from
  `ReleasedSettled` and `NoScopeNoResource` of `LifeInv`.
* `CountedOnce`: the release sequence of a group is the number of its scopes behind
  the counting section, by cardinality lemmas of the library.
* `NeverEarly`: `DeliveriesCounted` (what a sink was told, is being told or will be
  told is at most the sequence) with `CountedOnce` and `ReleasedSettled`.

* `BarriersSettled`: `BarrierSettled` with three facts that make it inductive
  (`BarrierInv`): the published barrier is not ahead of the observed one, the
  sequence kept for the observed barrier is the one recorded when it came, and no
  recorded sequence is beyond `next`, so that a new dispatch is behind no barrier.

* `CloseSettlesResources`: `ClosedMeansResourcesClosed` says nothing of a Close call
  that is on its way. `CloseInv` adds that the closing loop has every unsettled
  resource on its list (`CloseListsUnsettled`), that the registry is closed before
  the list is made, so no resource is bound behind it (`CloseStops`), and that a
  registry closed by Drain is empty (`ClosedByDrain`), for the Close call that
  returns at once.
* `ReleasesReachSink`: `SinkInv` says where a count is while the sink does not have
  it: with the owner that captured it and has yet to call the sink, or on the replay
  list of the SetReleaseSink that attached the sink (`Known`). A new count is
  captured in the section that makes it; a replaced sink gets the counts of the
  section that swapped it; removal comes after the call (`RemovedAfterDelivery`).

`LifeInv` relates owner, resource and `next`: dispatches not yet begun have no
state, a bound resource has a live scope, a counted scope's resource is closed, and
a dispatch that never became a scope has no resource.

### 5.2 ReleaseFlusherProofs

`FlushInv` is the inductive invariant: everything sent, batched or received was
marked (`Marked`, `TargetMarked`), `acked <= applied <= latest` (`Ordered`), and the
three properties `TicketsHonest`, `NoStrandedTicket`, `FlushMeansReported`.
`NoLateFlush` needs `Covered`: during a flush a group that is dirty beyond the
batch has its token in the wake channel, or the send of its batch has failed. The
theorem `Refinement` shows that every step of the flusher is a step of
`ReleaseQueue` or leaves its variables alone; `Marked` is needed for the step that
delivers a frame, `Ordered` for the others.

### 5.3 CredentialStoreProofs

`GateIsExclusive` (`GateHolds`), `VersionsOnlyAdvance` (`VersionsAdvance`) and
`EditsSurvive` (`EditsKept`) rest on one inductive invariant, `StoreInv`. What a
writer read at the gate could be undone by any step that publishes, so the
properties alone are not inductive; `StoreInv` adds:

* `GateInv`: a call is between its entry and its end exactly when it holds the gate.
  No other writer and no metadata saver publishes in between.
* `LoadInv`: while Load publishes, nobody has come as far as the gate. Load replaces
  the record without taking it, so this excludes the other way to lose a registration.
* `RecordsThere`: a call past its first section has the copy or the record it works
  with, and pruners and neighbours, which edit and save without the gate, stay in
  their own program points.
* `EpochInv`: the published registration is the last one given out, except for a
  Register that has drawn its epoch and not published yet. A Remove followed by a
  Register therefore always shows as another epoch.
* `VersionInv`: the record in the hands of the gate's holder is not behind the
  published one, and is ahead of it when the tokens differ. Pruners and results
  change the published record during the save, but neither its version nor tokens.

The proof first says what record each operation makes (`RegisteredRecord`,
`UpdatedRecord`, `PublishedRecord`, ...); the invariance of each part of `StoreInv`
then goes by actions and cites these lemmas. The two action properties follow from
`StoreInv`, the record lemmas and `AuthChanges`, which names the steps that touch the
published record. `Tokens # {}` is assumed because a record not yet published has
some token.

`StoreKeepsUp` (`NewestOnDisk`) has the hypothesis `Pruners = {}`: with a pruner the
property is violated (finding 4). The theorem therefore says that the pruner, the one
save that does not hold the gate, is what that finding needs: writers, metadata savers,
edits without the gate, failed saves and loads cannot leave an older token in the
store, in any number and order. It needs a second inductive invariant, `DiskInv`:

* `MarkInv`: the watermark never makes the holder of the gate skip its save (`NoSkip`);
  a skipped save reports no error, and its record is published all the same. A failed
  save of a minted Meta key leaves the watermark one generation ahead of the record
  (`Slack`), which the next mutation makes up for. A metadata saver raises no
  generation and would skip its save there, but no credential has both: only Meta's
  keys are minted, and only Antigravity's records get the entry.
* `CopyInv`: a refresh, whose copy is older than its turn at the gate, still makes a
  record just one generation ahead.
* `HolderInv`: a result or a metadata saver holds what is published, and what a holder
  has saved is in the store.
* `FileInv`: outside the span from a save to its publication the store has the
  published credentials, and what Load has listed is what the store has.

### 5.4 HomeLifetimeProofs

The composition is proved over its components. `UsesRegistry` shows that every step
of `HomeLifetime` is a step of `ExecutionRegistry` for the subscriber's constants
(one sink, one Drain caller, one WaitPending caller, no Close) or leaves the
registry alone, and `UsesQueue` the same of `ReleaseQueue`. So the registry's
inductive invariants (`RegInv`) hold without being proved again; `RestInv` is what
connects it to the loop and the requests:

* `CallInv`, `GroupInv`: which state a request's token has in the registry at each
  point of the request, and that only scopes have release groups.
* `LoopInv`: while dispatches are served the registry accepts them and reports to the
  flusher, and every end of the loop is behind a Drain call.
* `QueueInv`: Home has received at most what was marked, which is what the registry
  delivered. With `NeverEarly`'s lemmas this gives `FreedAfterClose`; at a clean
  shutdown all are equal, and with `CountedOnce` this gives `CleanShutdown`.
* `FenceInv`, `SettledInv`: every client before the current one is fenced, and behind
  WaitPending a pending token of it is one that will not be sent.
* `MarkInv`, `AbortedMarked`: a slot the registry may not know of has its token still
  pending, or its client marked ambiguous, or the registry is past takeovers. This is
  the strengthening that `NoSlotLeaked` needs: at a takeover the first is excluded by
  `SettledInv`, the second by the look at the mark, the third by `LoopInv`. It holds
  because a request marks the client before it ends its token.
* `ExitCancels` follows from `DrainReachesEveryResource` of the registry and `LoopInv`.

### 5.5 FlowControlProofs

`FlowInv` is the inductive invariant. `RecInv` are the books: types, a finite
history, `CountersMatch` and `HistoryBounded`. The other parts say that the holder of
the mutex acts at one instant and that an acquiring call has no record yet
(`LockInv`), that the queue is the set of waiting calls (`QueueInv`), that an
operation has one waiter at most (`SoleWaiter`), that what was sent has started its
operation (`StartedInv`), and that no waiter behind the cursor of `dispatchLocked`
can be admitted (`TriedInv`).

* `BooksAreRight` (`EngineConsistent`): an admission adds each of its new records to
  the counters once and has room for as many events as `checkWorkLocked` counted
  (`GrantKeeps`); a release takes each leaving record out once (`ReleaseKeeps`);
  Update counts anew. That the records are new needs `SlotsFollowWork`.
* `SlotsFollowWork` (`NoLeak`) goes by who holds a permit; the request of the last
  attempt leaves with it, or has started and is open (`ReleaseLeak`).
* `LimitsAreKept`: an admission raises a counter by one at most, because a rule counts
  requests or attempts and not both, and `checkWorkLocked` found it below the limit
  (`GrantMeans`: what the verdict *grant* means).
* `RefundsAreUnsent`: from `StartedInv`.
* `QueueIsServedFirst` (`NoQueueJump`): the comment at engine.go:606 says that earlier
  grants only consume capacity. `CapacityOnlyTaken` proves it: with more events, higher
  counters and the same records to create, a call that was not admissible is not.
  That a waiter still needs the same records is `SoleWaiter`: otherwise the grant of
  another attempt of its operation would save it the request's record.
* `WindowsAreKept` (`WindowKept`) has the hypothesis `HistoryKeptForAll`: a policy that
  limits the rate of a bucket keeps its history for as long as any other policy asks.
  Without it the property is false, because events an earlier policy dropped cannot
  be counted (engine.go:704 says so of events that have expired). Reloads that change
  limits, counts, members, shorter windows of a rule or the switch are covered.
  `WindowInv` is the strengthening: every admission that a window of some policy may
  still count is in the history, and every bucket with history has that retention.

The lemmas before them give types to `Max` and `Min` of the sets the code takes them
of; that a finite set of numbers has a greatest element is proved by a least
counterexample, since induction is not available.

### 5.6 FlowTimerProofs

`NoStrandedWaiter` says that the one timer of the engine is due whenever a waiter
could be admitted. It is false in general (finding 1): a waiter that gives up calls
dispatchLocked and scheduleLocked without cleaning up the history (engine.go:300), so
an event that has expired still takes room there, every waiter is found blocked, and
the timer that was due for that event is set again for a later one.
`NobodyIsStranded` proves that this is the only way:

    Spec /\ LeavesClean => []NoStrandedWaiter

where `LeavesClean` says that a CancelWait step happens only when no event of the
history has expired. `UncancelledAreServed` is the case without cancelled contexts,
with no hypothesis on the behaviour. Behaviours of the instance of `flow_stranded`
that satisfy `LeavesClean` do contain CancelWait steps, so the hypothesis leaves
cancellation in.

`TimerInv` is the inductive invariant, beside `FlowInv`.

* `FreeInv`, the mutex free: with somebody in the queue the timer is set, and it is due,
  or the rest of a batch is, or the engine is `Quiet` until just before it: no event
  expires and `checkWorkLocked` refuses every waiter at every such time. It is about
  times to come because Tick changes nothing but the clock.
* `HeldInv`, the mutex held: the history is clean (`Fresh`), every waiter behind the
  cursor of dispatchLocked is refused up to its `nextCheck`, and for good if it has
  none (`RefusedUntilCheck`); and the timer still stands for the queue when Acquire
  turns a newcomer away, which does not set it again.
* `QueueOpen` and `RequestEvents`: no waiter's request has ended, and the event of a
  request that has no record belongs to one that ended. A call that creates a request's
  record therefore creates its event too, and a full history keeps refusing it.

The argument starts with what the code computes. `FreeAtMeans`: an exhausted window
stays exhausted up to the time checkLocked computes from its newest events.
`CheckMeans`: a call refused now is refused at every time before its next check;
if the history is full there is no next check, and the expiry of an event is what
wakes the engine. `DueBounds`: scheduleLocked sets the timer no later than any next
check or expiry. `GrantUntil`: an admission takes capacity only, so
what was refused until then still is. `DispatchTimer` and `ScheduledTimer` put these
together for the loop and for its end, and `TimerStep` goes by actions.

TLC checked `TimerInv`, with times bounded, on the instance of `flow_queue`, on one
with reloads, and on that of `flow_stranded` restricted to `LeavesClean`.

### 5.7 WsRelayProofs

`RelayInv` is about who may close a request: the ones that can take it out of the map
of pending requests, and the one that did. `OwnerInv` says there is never more than
one and none once it is closed; that is `SessionSafe`'s *closed once*. `MutexInv` says
who holds a request's mutex between two steps and that nobody sends to a closed
channel. `SomebodyCloses` (`NobodyAbandoned`) needs `LiveInv`: a request in use is
pending, closed or in one of those hands, and one sent before the session closed is on
cleanup's list; and `StopInv`: the stop function is stored before the request is sent.
`SuccessIsComplete` needs `EndInv`: the frames of a request that has ended end with the
frame that says so, because the buffer drops its oldest frame to make room for the
cause and never its last.

### 5.8 RefreshLoopProofs

A job is held as a token: by the loop that has just marked it, in the loop's queue, or
by a worker. `JobInv` says that every token of a running loop stands for the registered
job with its epoch (`TokensValid`) and that a loop has one token for a credential at
most (`TokensUnique`); `JobsAreConsistent` and `JobsAreOwned` (`NoPhantomJob`: every
registered job has its token) are parts of it. Neither property is inductive alone: a
job could be ended by the token of an earlier one. `RetryIsKept` (`BackoffKept`) follows
from what `finishRefreshJob` does to the record (`FinishEffect`).

### 5.9 What is only model-checked

* Liveness (`DrainTerminates`, `TicketsFinish`, `WaitEnds`, `ReaderGoesOn`,
  `CallersAnswered`, `ForegroundEnds`, `DueIsAttempted`) is out of the prover's reach.
* `NewestOnDisk` does not hold of `CredentialStore` in general either (finding of
  `store_overwritten`). `StoreKeepsUp` proves it without pruners; with a pruner and no
  other edit behind a writer it is model-checked, in the run `store`.

## 6. What is not modelled

* *Translators, executors, API server, file and database stores, login flows,
  logging, configuration*: conversions and I/O without shared state worth a model.
  They are the bulk of the repository. Of its 356,000 lines of Go without tests,
  the translators, the executors and the management API alone are about 150,000, and
  the package `sdk/cliproxy`, which holds most of what is modelled, is 53,000. The
  modules stand for about 4,700 lines. A map of a large share of the repository
  would be a map of format conversions, which tests with examples check better than
  a model checker does.
* *Auth scheduler and selector, cooldown, session cache, hedged retry*: a pick reads
  and changes its state under one mutex; what is hard is the arithmetic of
  weights and times. `CredentialStore` has the edits of the cooldown state that meet
  saves, without their values.
* *Watcher*: turns file events into Register, Update and Remove calls, which
  `CredentialStore` and `RefreshLoop` take from any caller in any order. The order
  in which the watcher makes them is not modelled.
* *Usage manager, redis queue, plugin stream bridge, model registry, in-flight
  publisher*: see `PROJECT.json`.
* *Of the modelled components*: max-buckets and the creation of buckets, the refusal
  of version 3 reloads that change what a rule with rate history covers (the model
  lets them through, so its safety properties hold of the fewer reloads too), payload
  bytes, WaitForProducer and HoldChannel in flow control; TLS, key-value calls and
  the config stream of the Home client; the selection built from a dispatch answer;
  the packing of in-flight frames; the upgrade of relay connections, pings and
  payload coding; the fields of a credential other than its token, its runtime fields
  and one metadata entry; the deletion of files by the management API; the absence
  of an executor for a provider, with which a refresh job ends at once; the order
  of times in the refresh heap.

## 7. Plan

1. Done: `ExecutionRegistry`, `ReleaseQueue`/`ReleaseFlusher`, `HomeLifetime`,
   `FlowControl`, `WsRelay`, `CredentialStore`, `RefreshLoop`, the theorems of
   section 5.
2. `AuthWatcher`: the full scan of the auth directory beside file events, revisions
   with tombstones and the conflating dispatch to the service. Properties: a deleted
   credential does not come back, revisions arrive in order, and the manager ends up
   with what the files say.
3. Pure algorithms: frame packing of the in-flight publisher and the session cache's
   alias groups, against reference definitions.

## 8. Running the checks

In this directory, with the TLA+ tools and TLAPS installed:

```
tlc -workers 2 -config ExecutionRegistry.cfg MCExecutionRegistry
tlapm ExecutionRegistryProofs.tla
```

`PROJECT.json` names module and configuration of every run, the lines each
definition models, and the faults that violate each property.
