----------------------------- MODULE RefreshLoop -----------------------------
(* The automatic refresh of credentials (sdk/cliproxy/auth:                 *)
(* auto_refresh_loop.go, conductor_refresh.go).                             *)
(*                                                                          *)
(* A loop keeps a heap of the times at which credentials are looked at and  *)
(* a set of dirty ones whose time changed. A due credential is marked as    *)
(* pending, registered as a job and handed to the loop's workers through a  *)
(* bounded queue. Requests refresh credentials too, and the manager         *)
(* registers, updates and removes them: each such change is followed by a   *)
(* separate call that tells the loop. Starting a loop cancels the one       *)
(* before, which runs on beside it until it notices.                        *)
(*                                                                          *)
(* Times are abstracted to what is compared: an entry of the heap is due or *)
(* later, a credential needs a refresh or not, NextRefreshAfter lies ahead  *)
(* or has passed.                                                           *)
EXTENDS Naturals, Sequences

CONSTANTS
    Creds, Loops,
    Workers,        \* goroutines of the loops
    LoopOf,         \* the loop of each worker
    Requests,       \* requests that refresh after a 401
    Callers,        \* callers of Register, Update and Remove
    QueueCap,       \* capacity of the channel jobs
    MaxChanges,     \* bound: registrations, updates, removals and changes
    NoLoop, NoCred, NoJob

Refreshers == Workers \cup Requests

\* A caller that owes the loop nothing.
Nothing == [how |-> "none", cred |-> NoCred]
Jobs == [loop : Loops, epoch : Nat, running : BOOLEAN]

ASSUME RefreshAssumption ==
    /\ LoopOf \in [Workers -> Loops]
    /\ Workers \cap Requests = {}
    /\ QueueCap \in Nat /\ MaxChanges \in Nat
    /\ NoLoop \notin Loops /\ NoCred \notin Creds /\ NoJob \notin Jobs

VARIABLES
    cred,           \* m.auths: registration, need of a refresh, NextRefreshAfter
    job,            \* m.refreshJobs
    current,        \* m.refreshLoop
    cancelled,      \* loops whose context was cancelled
    heap, dirty, wake,          \* of each loop: queue and index, dirty, wakeCh
    queue,          \* of each loop: the channel jobs
    lpc, phase, work, item, aim, asked,     \* of each loop: where its goroutine is
    rpc, rcred, repoch, seen,   \* of each worker and request: its refresh
    tell,           \* of each caller and refresh: what it has to tell the loop
    changes

mgrVars == <<cred, job, current>>
schedVars == <<heap, dirty, wake, queue>>
loopVars == <<lpc, phase, work, item, aim, asked>>
refVars == <<rpc, rcred, repoch, seen>>
refreshVars == <<mgrVars, schedVars, loopVars, refVars, cancelled, tell, changes>>

-----------------------------------------------------------------------------
(* The manager's view of a credential.                                      *)

\* nextRefreshCheckAt finds a time for it.
Schedulable(c) == cred[c].there /\ cred[c].need # "never"

\* NextRefreshAfter lies ahead: a job's marker, or a time to retry.
Held(c) == cred[c].hold \in {"pending", "backoff"}

\* shouldRefresh.
ShouldRefresh(c) == Schedulable(c) /\ cred[c].need = "now" /\ ~Held(c)

NextCheck(c) ==
    IF ~Schedulable(c) THEN "none" ELSE IF ShouldRefresh(c) THEN "due" ELSE "later"

\* Refreshes under way learn that the generation, or the credential itself,
\* is no longer the one they read.
TouchedFor(r, c, how) ==
    IF rpc[r] \in {"refresh", "call"} /\ rcred[r] = c /\ seen[r] # "replaced"
    THEN how ELSE seen[r]

Touch(c, how) == seen' = [r \in Refreshers |-> TouchedFor(r, c, how)]

\* queueRefreshReschedule and queueRefreshUnschedule, on the current loop.
Reschedule(c) ==
    IF current = NoLoop THEN UNCHANGED <<dirty, wake>>
    ELSE /\ dirty' = [dirty EXCEPT ![current] = @ \cup {c}]
         /\ wake' = [wake EXCEPT ![current] = TRUE]

Unschedule(c) ==
    IF current = NoLoop THEN UNCHANGED <<heap, dirty>>
    ELSE /\ heap' = [heap EXCEPT ![current][c] = "none"]
         /\ dirty' = [dirty EXCEPT ![current] = @ \ {c}]

\* finishRefreshJob: the entry goes, and with it its own marker but no other
\* time to retry.
AnyMarker(c) == cred[c].there /\ cred[c].epoch = job[c].epoch

StillPending(c) == AnyMarker(c) /\ cred[c].hold = "pending"

OwnMarker(c) ==
    /\ cred[c].there /\ cred[c].epoch = job[c].epoch
    /\ cred[c].hold \in {"pending", "passed"}

FinishJob(c, retry) ==
    /\ job' = [job EXCEPT ![c] = NoJob]
    /\ IF OwnMarker(c) THEN cred' = [cred EXCEPT ![c].hold = retry] /\ Touch(c, "edited")
       ELSE UNCHANGED <<cred, seen>>
    /\ Reschedule(c)

\* The registered job of c is the one of loop l for registration e.
IsJob(c, l, e) == job[c] # NoJob /\ job[c].loop = l /\ job[c].epoch = e

RefreshInit ==
    /\ cred \in [Creds -> [there : BOOLEAN, epoch : {1}, need : {"now", "later"},
                           hold : {"none"}]]
    /\ \A c \in Creds : ~cred[c].there => cred[c].need = "later"
    /\ job = [c \in Creds |-> NoJob]
    /\ current = NoLoop /\ cancelled = {}
    /\ heap = [l \in Loops |-> [c \in Creds |-> "none"]]
    /\ dirty = [l \in Loops |-> {}] /\ wake = [l \in Loops |-> FALSE]
    /\ queue = [l \in Loops |-> <<>>]
    /\ lpc = [l \in Loops |-> "unborn"] /\ phase = [l \in Loops |-> "due"]
    /\ work = [l \in Loops |-> {}] /\ item = [l \in Loops |-> NoCred]
    /\ asked = [l \in Loops |-> 0]
    /\ aim = [l \in Loops |-> [c \in Creds |-> "none"]]
    /\ rpc = [r \in Refreshers |-> "idle"] /\ rcred = [r \in Refreshers |-> NoCred]
    /\ repoch = [r \in Refreshers |-> 0] /\ seen = [r \in Refreshers |-> "same"]
    /\ tell = [a \in Refreshers \cup Callers |-> Nothing]
    /\ changes = 0

-----------------------------------------------------------------------------
(* StartAutoRefresh and StopAutoRefresh.                                    *)

\* The previous loop is forgotten and cancelled; the new one is not known yet.
Start(l) ==
    /\ lpc[l] = "unborn"
    /\ \A k \in Loops : lpc[k] \notin {"swap", "read", "write"}
    /\ cancelled' = cancelled \cup ({current} \cap Loops)
    /\ current' = NoLoop
    /\ lpc' = [lpc EXCEPT ![l] = "swap"]
    /\ UNCHANGED <<cred, job, schedVars, phase, work, item, aim, asked, refVars, tell, changes>>

Stop ==
    /\ current # NoLoop
    /\ cancelled' = cancelled \cup {current} /\ current' = NoLoop
    /\ UNCHANGED <<cred, job, schedVars, loopVars, refVars, tell, changes>>

StartSwap(l) ==
    /\ lpc[l] = "swap"
    /\ current' = l
    /\ lpc' = [lpc EXCEPT ![l] = "read"]
    /\ UNCHANGED <<cred, job, schedVars, phase, work, item, aim, asked, refVars, cancelled,
                   tell, changes>>

\* rebuild: what is read under the manager's mutex is written under the loop's.
RebuildRead(l) ==
    /\ lpc[l] = "read"
    /\ aim' = [aim EXCEPT ![l] = [c \in Creds |-> NextCheck(c)]]
    /\ lpc' = [lpc EXCEPT ![l] = "write"]
    /\ UNCHANGED <<mgrVars, schedVars, phase, work, item, asked, refVars, cancelled, tell,
                   changes>>

RebuildWrite(l) ==
    /\ lpc[l] = "write"
    /\ heap' = [heap EXCEPT ![l] = aim[l]]
    /\ aim' = [aim EXCEPT ![l] = [c \in Creds |-> "none"]]
    /\ lpc' = [lpc EXCEPT ![l] = "select"]
    /\ UNCHANGED <<mgrVars, dirty, wake, queue, phase, work, item, asked, refVars, cancelled,
                   tell, changes>>

-----------------------------------------------------------------------------
(* The goroutine of the loop.                                               *)

\* The timer fires: popDue.
PopDue(l) ==
    /\ lpc[l] = "select" /\ \E c \in Creds : heap[l][c] = "due"
    /\ work' = [work EXCEPT ![l] = {c \in Creds : heap[l][c] = "due"}]
    /\ heap' = [heap EXCEPT ![l] =
            [c \in Creds |-> IF heap[l][c] = "due" THEN "none" ELSE heap[l][c]]]
    /\ phase' = [phase EXCEPT ![l] = "due"]
    /\ lpc' = [lpc EXCEPT ![l] = "pick"]
    /\ UNCHANGED <<mgrVars, dirty, wake, queue, item, aim, asked, refVars, cancelled, tell,
                   changes>>

\* drainDirty.
Drain(l) ==
    /\ work' = [work EXCEPT ![l] = dirty[l]]
    /\ dirty' = [dirty EXCEPT ![l] = {}]
    /\ phase' = [phase EXCEPT ![l] = IF dirty[l] = {} THEN "due" ELSE "dirty"]
    /\ lpc' = [lpc EXCEPT ![l] = IF dirty[l] = {} THEN "select" ELSE "pick"]
    /\ UNCHANGED <<mgrVars, heap, queue, item, aim, asked, refVars, cancelled, tell, changes>>

\* A token in wakeCh.
Awake(l) ==
    /\ lpc[l] = "select" /\ wake[l]
    /\ wake' = [wake EXCEPT ![l] = FALSE]
    /\ Drain(l)

\* After the due credentials come the dirty ones.
DueOver(l) ==
    /\ lpc[l] = "pick" /\ work[l] = {}
    /\ Drain(l)
    /\ UNCHANGED wake

\* The loop is done with a credential; after the last dirty one it waits.
Onward(l, left) ==
    /\ lpc' = [lpc EXCEPT ![l] = IF phase[l] = "dirty" /\ left = {} THEN "select" ELSE "pick"]
    /\ phase' = [phase EXCEPT ![l] = IF left = {} THEN "due" ELSE @]
    /\ item' = [item EXCEPT ![l] = NoCred]
    /\ asked' = [asked EXCEPT ![l] = 0]

\* What the decision about a credential leads to.
Decision(l, c) ==
    IF phase[l] = "due" /\ ~cred[c].there THEN "pick"
    ELSE IF ~Schedulable(c) THEN "drop"
    ELSE IF phase[l] = "due" /\ ShouldRefresh(c) THEN "mark" ELSE "keep"

\* handleDueAuth and applyDirty decide under the manager's mutex.
Decide(l, c) ==
    /\ lpc[l] = "pick" /\ c \in work[l]
    /\ work' = [work EXCEPT ![l] = @ \ {c}]
    /\ IF Decision(l, c) = "pick" THEN Onward(l, work[l] \ {c}) /\ UNCHANGED aim
       ELSE /\ lpc' = [lpc EXCEPT ![l] = Decision(l, c)]
            /\ item' = [item EXCEPT ![l] = c]
            /\ aim' = [aim EXCEPT ![l][c] =
                    IF Decision(l, c) = "keep" THEN NextCheck(c) ELSE "none"]
            /\ asked' = [asked EXCEPT ![l] =
                    IF Decision(l, c) = "mark" THEN cred[c].epoch ELSE 0]
            /\ UNCHANGED phase
    /\ UNCHANGED <<mgrVars, schedVars, refVars, cancelled, tell, changes>>

\* remove: the mark as dirty goes with the entry.
Drop(l) ==
    /\ lpc[l] = "drop"
    /\ heap' = [heap EXCEPT ![l][item[l]] = "none"]
    /\ dirty' = [dirty EXCEPT ![l] = @ \ {item[l]}]
    /\ Onward(l, work[l])
    /\ UNCHANGED <<mgrVars, wake, queue, work, aim, refVars, cancelled, tell,
                   changes>>

\* upsert.
Keep(l) ==
    /\ lpc[l] = "keep"
    /\ heap' = [heap EXCEPT ![l][item[l]] = aim[l][item[l]]]
    /\ aim' = [aim EXCEPT ![l][item[l]] = "none"]
    /\ Onward(l, work[l])
    /\ UNCHANGED <<mgrVars, dirty, wake, queue, work, refVars, cancelled, tell,
                   changes>>

\* markRefreshPending registers the job and holds the credential back, unless
\* the credential changed or has a job.
MarksTwice(l, c) == Schedulable(c) /\ cred[c].epoch = asked[l] /\ ~Held(c)

MayMark(l, c) ==
    Schedulable(c) /\ cred[c].epoch = asked[l] /\ job[c] = NoJob /\ ~Held(c)

Mark(l) ==
    /\ lpc[l] = "mark" /\ MayMark(l, item[l])
    /\ job' = [job EXCEPT ![item[l]] =
            [loop |-> l, epoch |-> cred[item[l]].epoch, running |-> FALSE]]
    /\ cred' = [cred EXCEPT ![item[l]].hold = "pending"]
    /\ Touch(item[l], "edited")
    /\ lpc' = [lpc EXCEPT ![l] = "marked"]
    /\ UNCHANGED <<current, schedVars, phase, work, item, aim, asked, rpc, rcred, repoch,
                   cancelled, tell, changes>>

\* Without a job the credential is looked at again, but not at once.
NotMarked(l) ==
    /\ lpc[l] = "mark" /\ ~MayMark(l, item[l])
    /\ lpc' = [lpc EXCEPT ![l] = IF Schedulable(item[l]) THEN "keep" ELSE "drop"]
    /\ aim' = [aim EXCEPT ![l][item[l]] = IF Schedulable(item[l]) THEN "later" ELSE "none"]
    /\ UNCHANGED <<mgrVars, schedVars, phase, work, item, asked, refVars, cancelled, tell,
                   changes>>

RoomForOneMore(l) == Len(queue[l]) <= QueueCap

Room(l) == Len(queue[l]) < QueueCap

\* The job is sent without waiting, or given up at a full queue or when the
\* loop is cancelled.
Send(l) ==
    /\ lpc[l] = "marked"
    /\ \/ /\ Room(l)
          /\ queue' = [queue EXCEPT ![l] = Append(@, [cred |-> item[l], epoch |-> job[item[l]].epoch])]
          /\ Onward(l, work[l])
       \/ /\ ~Room(l) \/ l \in cancelled
          /\ lpc' = [lpc EXCEPT ![l] = "unsent"]
          /\ UNCHANGED <<queue, item, asked, phase>>
    /\ Reschedule(item[l])
    /\ UNCHANGED <<mgrVars, heap, work, aim, refVars, cancelled, tell, changes>>

UnsentForgotten(l) ==
    /\ lpc[l] = "unsent"
    /\ lpc' = [lpc EXCEPT ![l] = "keep"]
    /\ aim' = [aim EXCEPT ![l][item[l]] = "later"]
    /\ UNCHANGED <<mgrVars, schedVars, phase, work, item, asked, refVars, cancelled, tell,
                   changes>>

\* A job that could not be sent is finished with a time to retry.
Unsent(l) ==
    /\ lpc[l] = "unsent"
    /\ FinishJob(item[l], "backoff")
    /\ lpc' = [lpc EXCEPT ![l] = "keep"]
    /\ aim' = [aim EXCEPT ![l][item[l]] = "later"]
    /\ UNCHANGED <<current, heap, queue, phase, work, item, asked, rpc, rcred, repoch,
                   cancelled, tell, changes>>

\* The loop notices its cancellation; what it had scheduled means nothing now.
\* Then it finishes the jobs nobody will run.
Exit(l) ==
    /\ lpc[l] = "select" /\ l \in cancelled
    /\ lpc' = [lpc EXCEPT ![l] = "release"]
    /\ heap' = [heap EXCEPT ![l] = [c \in Creds |-> "none"]]
    /\ dirty' = [dirty EXCEPT ![l] = {}] /\ wake' = [wake EXCEPT ![l] = FALSE]
    /\ UNCHANGED <<mgrVars, queue, phase, work, item, aim, asked, refVars, cancelled, tell,
                   changes>>

LeftNothing(l) == {}

Left(l) == {c \in Creds : job[c] # NoJob /\ job[c].loop = l /\ ~job[c].running}

ReleaseQueuedJobs(l) ==
    /\ lpc[l] = "release"
    /\ \/ /\ \E c \in Left(l) : FinishJob(c, "none")
          /\ UNCHANGED <<current, heap, queue, loopVars, rpc, rcred, repoch>>
       \/ /\ Left(l) = {}
          /\ lpc' = [lpc EXCEPT ![l] = "gone"]
          /\ UNCHANGED <<mgrVars, schedVars, phase, work, item, aim, asked, refVars>>
    /\ UNCHANGED <<cancelled, tell, changes>>

-----------------------------------------------------------------------------
(* Workers and requests.                                                    *)

\* A worker takes a job; a cancelled one may leave instead.
Take(w) ==
    LET l == LoopOf[w] IN
    /\ rpc[w] = "idle" /\ queue[l] # <<>>
    /\ rpc' = [rpc EXCEPT ![w] = "begin"]
    /\ rcred' = [rcred EXCEPT ![w] = Head(queue[l]).cred]
    /\ repoch' = [repoch EXCEPT ![w] = Head(queue[l]).epoch]
    /\ queue' = [queue EXCEPT ![l] = Tail(@)]
    /\ UNCHANGED <<mgrVars, heap, dirty, wake, loopVars, seen, cancelled, tell, changes>>

WorkerExit(w) ==
    /\ rpc[w] = "idle" /\ LoopOf[w] \in cancelled
    /\ rpc' = [rpc EXCEPT ![w] = "gone"]
    /\ UNCHANGED <<mgrVars, schedVars, loopVars, rcred, repoch, seen, cancelled, tell,
                   changes>>

\* beginRefreshJob.
MayBegin(w) ==
    LET c == rcred[w] IN
    /\ LoopOf[w] \notin cancelled /\ IsJob(c, LoopOf[w], repoch[w])
    /\ cred[c].there /\ cred[c].epoch = repoch[w]

BeginJob(w) ==
    /\ rpc[w] = "begin"
    /\ IF MayBegin(w)
       THEN /\ job' = [job EXCEPT ![rcred[w]].running = TRUE]
            /\ rpc' = [rpc EXCEPT ![w] = "refresh"]
       ELSE UNCHANGED job /\ rpc' = [rpc EXCEPT ![w] = "finish"]
    /\ UNCHANGED <<cred, current, schedVars, loopVars, rcred, repoch, seen, cancelled,
                   tell, changes>>

\* markRejectedAccessToken: an edit, unless the token is marked or not in use.
MarkRejected(q, c) ==
    \E marked \in BOOLEAN :
        seen' = [r \in Refreshers |->
            IF r = q THEN "same" ELSE IF marked THEN TouchedFor(r, c, "edited") ELSE seen[r]]

\* A request was refused with the token of c and refreshes it.
Rejected(q, c) ==
    /\ rpc[q] = "idle" /\ cred[c].there
    /\ rpc' = [rpc EXCEPT ![q] = "refresh"]
    /\ rcred' = [rcred EXCEPT ![q] = c]
    /\ repoch' = [repoch EXCEPT ![q] = cred[c].epoch]
    /\ MarkRejected(q, c)
    /\ UNCHANGED <<mgrVars, schedVars, loopVars, cancelled, tell, changes>>

\* refreshAuthForRequestAtEpoch returns; a worker has its job to finish.
Done(r) ==
    /\ rpc' = [rpc EXCEPT ![r] = IF r \in Workers THEN "finish" ELSE "idle"]
    /\ rcred' = IF r \in Workers THEN rcred ELSE [rcred EXCEPT ![r] = NoCred]
    /\ repoch' = IF r \in Workers THEN repoch ELSE [repoch EXCEPT ![r] = 0]
    /\ seen' = [seen EXCEPT ![r] = "same"]

\* The credential's refresh lock is held from the reading to the return.
Locked(c) == \E r \in Refreshers : rcred[r] = c /\ rpc[r] \in {"call", "tell"}

\* The registration it was asked for is gone, or, for a request, another
\* refresh has replaced the token that was refused.
NothingToRefresh(r) ==
    \/ ~Schedulable(rcred[r]) \/ cred[rcred[r]].epoch # repoch[r]
    \/ r \in Requests /\ seen[r] = "replaced"

RefreshRead(r) ==
    /\ rpc[r] = "refresh" /\ ~Locked(rcred[r])
    /\ IF NothingToRefresh(r) THEN Done(r)
       ELSE /\ rpc' = [rpc EXCEPT ![r] = "call"] /\ UNCHANGED <<rcred, repoch>>
            /\ seen' = [seen EXCEPT ![r] = "same"]
    /\ UNCHANGED <<mgrVars, schedVars, loopVars, cancelled, tell, changes>>

\* What the refresh read is still there: the whole record, or the credentials.
Unedited(r) ==
    cred[rcred[r]].there /\ cred[rcred[r]].epoch = repoch[r] /\ seen[r] = "same"
Unreplaced(r) ==
    cred[rcred[r]].there /\ cred[rcred[r]].epoch = repoch[r] /\ seen[r] # "replaced"

\* The refresh changes the record and will tell the loop.
Outcome(r, need, hold, how) ==
    /\ cred' = [cred EXCEPT ![rcred[r]].need = need, ![rcred[r]].hold = hold]
    /\ tell' = [tell EXCEPT ![r] = [how |-> how, cred |-> rcred[r]]]
    /\ rpc' = [rpc EXCEPT ![r] = "tell"]
    /\ UNCHANGED <<rcred, repoch>>

\* The provider has new tokens, which may need a refresh as much as the old
\* ones; NextRefreshAfter is left alone if it changed meanwhile.
Refreshed(r) ==
    /\ rpc[r] = "call"
    /\ IF Unreplaced(r)
       THEN /\ \E need \in {"now", "later"} :
                Outcome(r, need,
                        IF seen[r] # "same" THEN cred[rcred[r]].hold
                        ELSE IF need = "now" THEN "backoff" ELSE "none",
                        "reschedule")
            /\ seen' = [x \in Refreshers |->
                    IF x = r THEN "same" ELSE TouchedFor(x, rcred[r], "replaced")]
       ELSE Done(r) /\ UNCHANGED <<cred, tell>>
    /\ UNCHANGED <<job, current, schedVars, loopVars, cancelled, changes>>

\* A failure is recorded only if nothing changed: with a time to retry, or as
\* final, with or without telling the loop.
RefreshFailed(r) ==
    /\ rpc[r] = "call"
    /\ IF Unedited(r)
       THEN /\ \/ Outcome(r, cred[rcred[r]].need, "backoff", "reschedule")
               \/ \E how \in {"unschedule", "none"} : Outcome(r, "never", "none", how)
            /\ seen' = [x \in Refreshers |->
                    IF x = r THEN "same" ELSE TouchedFor(x, rcred[r], "edited")]
       ELSE Done(r) /\ UNCHANGED <<cred, tell>>
    /\ UNCHANGED <<job, current, schedVars, loopVars, cancelled, changes>>

\* The context ended during the call: it is tried again in a second.
RefreshCancelled(r) ==
    /\ rpc[r] = "call"
    /\ r \in Workers => LoopOf[r] \in cancelled
    /\ Outcome(r, cred[rcred[r]].need,
               IF Held(rcred[r]) \/ ~cred[rcred[r]].there THEN cred[rcred[r]].hold
               ELSE "backoff", "reschedule")
    /\ seen' = [seen EXCEPT ![r] = "same"]
    /\ UNCHANGED <<job, current, schedVars, loopVars, cancelled, changes>>

\* The loop is told what a refresh or a caller has changed.
TellLoop(a) ==
    /\ tell' = [tell EXCEPT ![a] = Nothing]
    /\ CASE tell[a].how = "reschedule" -> Reschedule(tell[a].cred) /\ UNCHANGED heap
         [] tell[a].how = "unschedule" -> Unschedule(tell[a].cred) /\ UNCHANGED wake
         [] OTHER -> UNCHANGED <<heap, dirty, wake>>

RefreshTells(r) ==
    /\ rpc[r] = "tell"
    /\ TellLoop(r)
    /\ Done(r)
    /\ UNCHANGED <<mgrVars, queue, loopVars, cancelled, changes>>

\* finishRefreshJob by the worker; a job that was released is not its own.
WorkerFinish(w) ==
    /\ rpc[w] = "finish"
    /\ IF IsJob(rcred[w], LoopOf[w], repoch[w]) THEN FinishJob(rcred[w], "none")
       ELSE UNCHANGED <<cred, job, dirty, wake, seen>>
    /\ rpc' = [rpc EXCEPT ![w] = "idle"]
    /\ rcred' = [rcred EXCEPT ![w] = NoCred] /\ repoch' = [repoch EXCEPT ![w] = 0]
    /\ UNCHANGED <<current, heap, queue, loopVars, cancelled, tell, changes>>

-----------------------------------------------------------------------------
(* The rest of the manager, and the clock.                                  *)

Change(u, c, record, effect, how) ==
    /\ tell[u] = Nothing /\ changes < MaxChanges
    /\ cred' = [cred EXCEPT ![c] = record]
    /\ tell' = [tell EXCEPT ![u] = [how |-> how, cred |-> c]]
    /\ changes' = changes + 1
    /\ Touch(c, effect)
    /\ UNCHANGED <<job, current, schedVars, loopVars, rpc, rcred, repoch, cancelled>>

RegisterCred(u, c) ==
    \E need \in {"now", "later"} :
        Change(u, c, [there |-> TRUE, epoch |-> cred[c].epoch + 1, need |-> need,
                      hold |-> "none"], "replaced", "reschedule")

\* The NextRefreshAfter a caller of Update brings was copied earlier: it may be
\* the present one, the marker of a registered job that was overwritten since, or
\* some time that has passed or lies ahead. The marker of a job that has ended is
\* such a time: nobody recognizes it as his own.
Brought(c) ==
    {cred[c].hold, "none", "backoff"}
        \cup {h \in {"pending"} : job[c] # NoJob /\ job[c].epoch = cred[c].epoch}

\* Update with the same credentials, or with new ones. New ones clear the time
\* that is brought if it is the present one and their token was not refused.
UpdateCred(u, c) ==
    /\ cred[c].there
    /\ \E hold \in Brought(c) :
        \/ Change(u, c, [cred[c] EXCEPT !.hold = hold], "edited", "reschedule")
        \/ \E need \in {"now", "later"} :
            Change(u, c, [cred[c] EXCEPT !.need = need, !.hold = hold], "replaced",
                   "reschedule")

\* MarkResult with a 401: a time to retry is set if there is none.
ResultUnauthorized(u, c) ==
    /\ Schedulable(c)
    /\ \E hold \in IF cred[c].hold = "none" THEN {"none", "backoff"} ELSE {cred[c].hold} :
        Change(u, c, [cred[c] EXCEPT !.hold = hold], "edited", "reschedule")

RemoveCred(u, c) ==
    /\ cred[c].there
    /\ Change(u, c, [there |-> FALSE, epoch |-> cred[c].epoch + 1, need |-> "later",
                     hold |-> "none"], "replaced", "unschedule")

CallerTells(u) ==
    /\ tell[u] # Nothing
    /\ TellLoop(u)
    /\ UNCHANGED <<mgrVars, queue, loopVars, refVars, cancelled, changes>>

\* The expiry comes near.
Expire(c) ==
    /\ cred[c].there /\ cred[c].need = "later" /\ changes < MaxChanges
    /\ cred' = [cred EXCEPT ![c].need = "now"]
    /\ changes' = changes + 1
    /\ UNCHANGED <<job, current, schedVars, loopVars, refVars, cancelled, tell>>

\* NextRefreshAfter passes; a job's marker stays recognizable.
HoldEnds(c) ==
    /\ Held(c)
    /\ cred' = [cred EXCEPT ![c].hold = IF @ = "pending" THEN "passed" ELSE "none"]
    /\ UNCHANGED <<job, current, schedVars, loopVars, refVars, cancelled, tell, changes>>

\* The time of an entry comes.
Ripen(l, c) ==
    /\ heap[l][c] = "later" /\ l \notin cancelled
    /\ heap' = [heap EXCEPT ![l][c] = "due"]
    /\ UNCHANGED <<mgrVars, dirty, wake, queue, loopVars, refVars, cancelled, tell,
                   changes>>

-----------------------------------------------------------------------------
LoopStep(l) ==
    \/ StartSwap(l) \/ RebuildRead(l) \/ RebuildWrite(l)
    \/ PopDue(l) \/ Awake(l) \/ DueOver(l) \/ (\E c \in Creds : Decide(l, c))
    \/ Drop(l) \/ Keep(l) \/ Mark(l) \/ NotMarked(l) \/ Send(l) \/ Unsent(l)
    \/ Exit(l) \/ ReleaseQueuedJobs(l)

RefreshStep(r) ==
    \/ RefreshRead(r) \/ Refreshed(r) \/ RefreshFailed(r) \/ RefreshCancelled(r)
    \/ RefreshTells(r)

WorkerStep(w) ==
    Take(w) \/ WorkerExit(w) \/ BeginJob(w) \/ RefreshStep(w) \/ WorkerFinish(w)

RefreshNext ==
    \/ \E l \in Loops : Start(l) \/ LoopStep(l)
    \/ Stop
    \/ \E w \in Workers : WorkerStep(w)
    \/ \E q \in Requests : RefreshStep(q) \/ (\E c \in Creds : Rejected(q, c))
    \/ \E u \in Callers, c \in Creds :
            \/ RegisterCred(u, c) \/ UpdateCred(u, c)
            \/ ResultUnauthorized(u, c) \/ RemoveCred(u, c)
    \/ \E u \in Callers : CallerTells(u)
    \/ \E c \in Creds : Expire(c) \/ HoldEnds(c)
    \/ \E l \in Loops, c \in Creds : Ripen(l, c)

\* Goroutines run on, providers answer, callers come to tell the loop, and the
\* times that were set come.
RefreshFairness ==
    /\ \A l \in Loops : WF_refreshVars(LoopStep(l))
    /\ \A w \in Workers : WF_refreshVars(WorkerStep(w))
    /\ \A q \in Requests : WF_refreshVars(RefreshStep(q))
    /\ \A u \in Callers : WF_refreshVars(CallerTells(u))
    /\ \A c \in Creds : WF_refreshVars(HoldEnds(c))
    /\ \A l \in Loops, c \in Creds : WF_refreshVars(Ripen(l, c))

RefreshSpec == RefreshInit /\ [][RefreshNext]_refreshVars
FairRefreshSpec == RefreshSpec /\ RefreshFairness

-----------------------------------------------------------------------------
(* Properties.                                                              *)

Times == {"none", "later", "due"}

CredRecords == [there : BOOLEAN, epoch : Nat, need : {"now", "later", "never"},
                hold : {"none", "pending", "passed", "backoff"}]

TypeManager ==
    /\ cred \in [Creds -> CredRecords]
    /\ job \in [Creds -> Jobs \cup {NoJob}]
    /\ current \in Loops \cup {NoLoop} /\ cancelled \subseteq Loops
    /\ changes \in Nat

TypeSchedule ==
    /\ heap \in [Loops -> [Creds -> Times]]
    /\ dirty \in [Loops -> SUBSET Creds] /\ wake \in [Loops -> BOOLEAN]
    /\ queue \in [Loops -> Seq([cred : Creds, epoch : Nat])]
    /\ \A l \in Loops : Len(queue[l]) <= QueueCap

TypeLoops ==
    /\ lpc \in [Loops -> {"unborn", "swap", "read", "write", "select", "pick", "drop",
                          "keep", "mark", "marked", "unsent", "release", "gone"}]
    /\ phase \in [Loops -> {"due", "dirty"}] /\ work \in [Loops -> SUBSET Creds]
    /\ item \in [Loops -> Creds \cup {NoCred}] /\ asked \in [Loops -> Nat]
    /\ aim \in [Loops -> [Creds -> Times]]

TypeRefreshes ==
    /\ rpc \in [Refreshers -> {"idle", "begin", "refresh", "call", "tell", "finish", "gone"}]
    /\ rcred \in [Refreshers -> Creds \cup {NoCred}] /\ repoch \in [Refreshers -> Nat]
    /\ seen \in [Refreshers -> {"same", "edited", "replaced"}]
    /\ tell \in [Refreshers \cup Callers ->
                    [how : {"none", "reschedule", "unschedule"}, cred : Creds \cup {NoCred}]]

\* Every variable of the manager, the loops and the refreshes is well typed,
\* and no channel holds more jobs than its capacity.
RefreshTypeOK == TypeManager /\ TypeSchedule /\ TypeLoops /\ TypeRefreshes

\* Somebody will finish the job of c: the loop that has just made it, a worker
\* that holds it, a worker that will take it from the queue, or the loop when
\* it ends.
JobOwner(c) ==
    LET l == job[c].loop IN
    \/ item[l] = c /\ lpc[l] \in {"marked", "unsent"}
    \/ \E w \in Workers : /\ LoopOf[w] = l /\ rcred[w] = c /\ repoch[w] = job[c].epoch
                           /\ rpc[w] \in {"begin", "refresh", "call", "tell", "finish"}
    \/ /\ \E i \in 1..Len(queue[l]) : queue[l][i] = [cred |-> c, epoch |-> job[c].epoch]
       /\ lpc[l] # "gone" /\ ~job[c].running

\* No job is a phantom that would keep its credential from being refreshed for
\* ever: at a full queue, when a loop is cancelled or replaced, when its
\* credential is registered again (handleDueAuth, releaseQueuedJobs, worker).
NoPhantomJob == \A c \in Creds : job[c] # NoJob => JobOwner(c)

\* The refresh a worker carries out is the registered job of its credential, so
\* no loop, not even a new one beside the cancelled one, refreshes it twice
\* (beginRefreshJob, markRefreshPending, finishRefreshJob).
RunningIsRegistered ==
    \A w \in Workers :
        rpc[w] \in {"refresh", "call", "tell"} =>
            IsJob(rcred[w], LoopOf[w], repoch[w]) /\ job[rcred[w]].running

\* A marker that some job would recognize as its own is that of the registered
\* job: no job ends and leaves the marker it set behind (markRefreshPending,
\* finishRefreshJob). A copy that brings the marker of an ended job back brings a
\* time to retry.
MarkerHasJob ==
    \A c \in Creds :
        (cred[c].there /\ cred[c].hold \in {"pending", "passed"}) =>
            job[c] # NoJob /\ job[c].epoch = cred[c].epoch

\* The registered jobs are what is going on: the refreshes of workers have one,
\* the markers of jobs have one, and no channel holds more than its capacity
\* (markRefreshPending, beginRefreshJob, finishRefreshJob, handleDueAuth).
JobsConsistent == RefreshTypeOK /\ RunningIsRegistered /\ MarkerHasJob

\* The end of a job leaves the time to retry alone that a refresh has set in
\* the meantime (finishRefreshJob).
BackoffKept ==
    [][\A c \in Creds :
        (job[c] # NoJob /\ job'[c] = NoJob /\ cred[c].hold = "backoff")
            => cred'[c].hold = "backoff"]_refreshVars

Attempted(c) == \E r \in Refreshers : rpc[r] = "call" /\ rcred[r] = c

Needed(c) == cred[c].there /\ cred[c].need = "now" /\ current # NoLoop

\* The loop is about to forget a credential that has a time again, and nobody is
\* about to remind it: Remove, a refresh that failed for good and the loop itself
\* act on what they saw before they released the manager's mutex.
LateForget(c) ==
    /\ Schedulable(c) /\ current # NoLoop
    /\ \/ \E a \in DOMAIN tell : tell[a] = [how |-> "unschedule", cred |-> c]
       \/ lpc[current] = "drop" /\ item[current] = c
    /\ \A a \in DOMAIN tell : tell[a] # [how |-> "reschedule", cred |-> c]

\* The job of c found the queue full.
TurnedAway(c) == \E l \in Loops : lpc[l] = "unsent" /\ item[l] = c

\* With a loop in place, a credential that needs a refresh gets one, unless it is
\* replaced, removed or the loop is stopped before. Two things may keep it from
\* one, and nothing else: that the loop was made to forget it too late, and that
\* it is turned away at a full queue again and again
\* (StartAutoRefresh: "triggers refresh operations when required").
DueIsAttempted ==
    \A c \in Creds :
        []~LateForget(c) /\ <>[]~TurnedAway(c) =>
            (Needed(c) ~> Attempted(c) \/ ~Needed(c))
=============================================================================
