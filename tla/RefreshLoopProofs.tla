-------------------------- MODULE RefreshLoopProofs --------------------------
(* Theorems about RefreshLoop, for every number of credentials, loops,      *)
(* workers, requests and callers and every capacity of the job queue.       *)
EXTENDS RefreshLoop, SequenceTheorems, TLAPS

Ending == {"release", "gone"}
Marked == {"marked", "unsent"}
Running == {"refresh", "call", "tell"}
Busy == Running \cup {"begin", "finish"}

\* Whoever works on a credential, or has to tell of one, knows which.
Placed ==
    /\ \A l \in Loops : lpc[l] \in {"drop", "keep", "mark"} \cup Marked => item[l] \in Creds
    /\ \A r \in Refreshers : rpc[r] \in Busy => rcred[r] \in Creds
    /\ \A a \in Refreshers \cup Callers : tell[a].how # "none" => tell[a].cred \in Creds
    /\ \A l \in Loops : lpc[l] \in Ending => l \in cancelled

(* A job is held as a token: by the loop that has just marked it, in the    *)
(* queue, or by a worker.                                                   *)

\* The token of a loop that has not ended stands for the registered job.
MarkedValid ==
    \A l \in Loops : lpc[l] \in Marked =>
        /\ job[item[l]] # NoJob /\ job[item[l]].loop = l /\ ~job[item[l]].running
QueueValid ==
    \A l \in Loops : lpc[l] \notin Ending => \A i \in 1..Len(queue[l]) :
        /\ IsJob(queue[l][i].cred, l, queue[l][i].epoch)
        /\ ~job[queue[l][i].cred].running
BusyValid ==
    \A w \in Workers : rpc[w] \in Busy /\ lpc[LoopOf[w]] \notin Ending =>
        IsJob(rcred[w], LoopOf[w], repoch[w])
TokensValid == MarkedValid /\ QueueValid /\ BusyValid

\* A loop has one token for a credential at most.
QueueDistinct ==
    \A l \in Loops : \A i, j \in 1..Len(queue[l]) :
        queue[l][i].cred = queue[l][j].cred => i = j
WorkersDistinct ==
    \A v, w \in Workers :
        rpc[v] \in Busy /\ rpc[w] \in Busy /\ LoopOf[v] = LoopOf[w] /\ rcred[v] = rcred[w] =>
            v = w
TakenNotQueued ==
    \A w \in Workers : rpc[w] \in Busy =>
        \A i \in 1..Len(queue[LoopOf[w]]) : queue[LoopOf[w]][i].cred # rcred[w]
MarkedNotSent ==
    \A l \in Loops : lpc[l] \in Marked =>
        /\ \A i \in 1..Len(queue[l]) : queue[l][i].cred # item[l]
        /\ \A w \in Workers : rpc[w] \in Busy /\ LoopOf[w] = l => rcred[w] # item[l]
TokensUnique == QueueDistinct /\ WorkersDistinct /\ TakenNotQueued /\ MarkedNotSent

\* The jobs and their tokens.
TokenInv == TokensValid /\ TokensUnique /\ RunningIsRegistered /\ NoPhantomJob

JobInv ==
    /\ RefreshTypeOK /\ Placed /\ TokensValid /\ TokensUnique
    /\ RunningIsRegistered /\ MarkerHasJob /\ NoPhantomJob

-----------------------------------------------------------------------------
(* What the parts of the steps do.                                          *)

\* The time a credential is looked at next.
LEMMA NextCheckType == \A c \in Creds : NextCheck(c) \in Times
BY DEF NextCheck, Times

\* Where the loop goes with a credential.
LEMMA DecisionType ==
    \A l \in Loops, c \in Creds : Decision(l, c) \in {"pick", "drop", "mark", "keep"}
BY DEF Decision

\* Refreshes learn of a change.
LEMMA TouchEffect ==
    ASSUME TypeRefreshes, NEW c, NEW how \in {"edited", "replaced"}, Touch(c, how)
    PROVE  seen' \in [Refreshers -> {"same", "edited", "replaced"}]
BY DEF TypeRefreshes, Touch, TouchedFor

\* The current loop gets a dirty credential.
LEMMA RescheduleEffect ==
    ASSUME TypeManager, TypeSchedule, NEW c \in Creds, Reschedule(c)
    PROVE  dirty' \in [Loops -> SUBSET Creds] /\ wake' \in [Loops -> BOOLEAN]
<1>1. CASE current = NoLoop
    BY <1>1 DEF TypeSchedule, Reschedule
<1>2. CASE current # NoLoop
    <2>1. /\ current \in Loops
          /\ dirty' = [dirty EXCEPT ![current] = dirty[current] \cup {c}]
          /\ wake' = [wake EXCEPT ![current] = TRUE]
        BY <1>2 DEF TypeManager, Reschedule
    <2>2. dirty[current] \cup {c} \in SUBSET Creds
        BY <2>1 DEF TypeSchedule
    <2> QED BY <2>1, <2>2 DEF TypeSchedule
<1> QED BY <1>1, <1>2

\* The end of a job: its marker goes, and nothing else of the record changes.
Finishes(c, retry) ==
    /\ job' = [job EXCEPT ![c] = NoJob]
    /\ cred' \in [Creds -> CredRecords]
    /\ \A x \in Creds : x # c => cred'[x] = cred[x]
    /\ cred'[c].there => cred'[c].hold \notin {"pending", "passed"}
    /\ cred[c].hold = "backoff" => cred'[c].hold = "backoff"
    /\ seen' \in [Refreshers -> {"same", "edited", "replaced"}]
    /\ dirty' \in [Loops -> SUBSET Creds] /\ wake' \in [Loops -> BOOLEAN]

\* finishRefreshJob does that.
LEMMA FinishEffect ==
    ASSUME JobInv, NEW c \in Creds, NEW retry \in {"none", "backoff"}, FinishJob(c, retry)
    PROVE  Finishes(c, retry)
<1>0. /\ TypeManager /\ TypeSchedule /\ TypeLoops /\ TypeRefreshes /\ Placed
      /\ TokensValid /\ MarkerHasJob
    BY DEF JobInv, RefreshTypeOK
<1> USE <1>0
<1> USE DEF Finishes
<1>1. dirty' \in [Loops -> SUBSET Creds] /\ wake' \in [Loops -> BOOLEAN]
    BY RescheduleEffect DEF FinishJob
<1>2. CASE OwnMarker(c)
    <2>1. /\ job' = [job EXCEPT ![c] = NoJob]
          /\ cred' = [cred EXCEPT ![c].hold = retry] /\ Touch(c, "edited")
        BY <1>2 DEF FinishJob
    <2>2. seen' \in [Refreshers -> {"same", "edited", "replaced"}]
        BY <2>1, TouchEffect
    <2>3. cred[c].hold \in {"pending", "passed"}
        BY <1>2 DEF OwnMarker
    <2>4. cred' = [cred EXCEPT ![c] = [cred[c] EXCEPT !.hold = retry]]
        BY <2>1
    <2>5. cred[c] \in CredRecords
        BY DEF TypeManager
    <2>6. [cred[c] EXCEPT !.hold = retry] \in CredRecords
          /\ [cred[c] EXCEPT !.hold = retry].hold = retry
        BY <2>5 DEF CredRecords
    <2> QED BY <1>1, <2>1, <2>2, <2>3, <2>4, <2>6 DEF TypeManager
<1>3. CASE ~ OwnMarker(c)
    BY <1>1, <1>3 DEF FinishJob, OwnMarker, TypeManager, TypeRefreshes, MarkerHasJob
<1> QED BY <1>2, <1>3

\* A worker takes the first job of its queue.
Takes(w) ==
    LET l == LoopOf[w] IN
    /\ l \in Loops
    /\ Head(queue[l]) = queue[l][1] /\ Len(queue[l]) \in Nat \ {0}
    /\ queue[l][1] \in [cred : Creds, epoch : Nat]
    /\ queue' \in [Loops -> Seq([cred : Creds, epoch : Nat])]
    /\ Len(queue'[l]) = Len(queue[l]) - 1
    /\ \A i \in 1..Len(queue'[l]) : queue'[l][i] = queue[l][i + 1]
    /\ \A k \in Loops : k # l => queue'[k] = queue[k]

\* Take does that.
LEMMA TakeEffect ==
    ASSUME JobInv, NEW w \in Workers, Take(w)
    PROVE  Takes(w)
<1>0. /\ TypeManager /\ TypeSchedule /\ TypeLoops /\ TypeRefreshes /\ Placed
      /\ TokensValid /\ MarkerHasJob
    BY DEF JobInv, RefreshTypeOK
<1> USE <1>0
<1> USE DEF Takes
<1> DEFINE l == LoopOf[w]  T == [cred : Creds, epoch : Nat]
<1>1. l \in Loops
    BY RefreshAssumption
<1>2. queue[l] \in Seq(T) /\ queue[l] # <<>> /\ queue' = [queue EXCEPT ![l] = Tail(queue[l])]
    BY <1>1 DEF TypeSchedule, Take
<1> HIDE DEF l, T
<1>3. /\ Head(queue[l]) \in T /\ Tail(queue[l]) \in Seq(T)
      /\ Len(Tail(queue[l])) = Len(queue[l]) - 1
      /\ \A i \in 1..Len(Tail(queue[l])) : Tail(queue[l])[i] = queue[l][i + 1]
    BY <1>2, HeadTailProperties
<1>4. Head(queue[l]) = queue[l][1] /\ Len(queue[l]) \in Nat \ {0}
    BY <1>2
<1>5. queue \in [Loops -> Seq(T)]
    BY DEF TypeSchedule, T
<1>6. queue' \in [Loops -> Seq(T)] /\ queue'[l] = Tail(queue[l])
      /\ \A k \in Loops : k # l => queue'[k] = queue[k]
    BY <1>1, <1>2, <1>3, <1>5
<1> QED BY <1>1, <1>3, <1>4, <1>6 DEF l, T

\* A refresh returns.
Returns(r) ==
    /\ rpc' = [rpc EXCEPT ![r] = IF r \in Workers THEN "finish" ELSE "idle"]
    /\ rcred' \in [Refreshers -> Creds \cup {NoCred}]
    /\ repoch' \in [Refreshers -> Nat]
    /\ seen' \in [Refreshers -> {"same", "edited", "replaced"}]
    /\ \A x \in Refreshers : x \in Workers \/ x # r =>
         rcred'[x] = rcred[x] /\ repoch'[x] = repoch[x]

\* Done does that.
LEMMA DoneEffect ==
    ASSUME JobInv, NEW r \in Refreshers, Done(r)
    PROVE  Returns(r)
<1>0. /\ TypeManager /\ TypeSchedule /\ TypeLoops /\ TypeRefreshes /\ Placed
      /\ TokensValid /\ MarkerHasJob
    BY DEF JobInv, RefreshTypeOK
<1> USE <1>0
<1> QED BY DEF Returns, TypeRefreshes, Done

\* The loop is told.
Tells(a) ==
    /\ tell' = [tell EXCEPT ![a] = Nothing]
    /\ heap' \in [Loops -> [Creds -> Times]]
    /\ dirty' \in [Loops -> SUBSET Creds] /\ wake' \in [Loops -> BOOLEAN]

\* queueRefreshReschedule and queueRefreshUnschedule do that.
LEMMA TellEffect ==
    ASSUME JobInv, NEW a \in Refreshers \cup Callers, TellLoop(a)
    PROVE  Tells(a)
<1>0. /\ TypeManager /\ TypeSchedule /\ TypeLoops /\ TypeRefreshes /\ Placed
      /\ TokensValid /\ MarkerHasJob
    BY DEF JobInv, RefreshTypeOK
<1> USE <1>0
<1> USE DEF Tells
<1>1. CASE tell[a].how = "reschedule"
    BY <1>1, RescheduleEffect DEF TellLoop, TypeSchedule, Placed
<1>2. CASE tell[a].how = "unschedule"
    <2>1. tell[a].cred \in Creds /\ Unschedule(tell[a].cred) /\ UNCHANGED wake
        BY <1>2 DEF TellLoop, Placed
    <2>2. heap' \in [Loops -> [Creds -> Times]] /\ dirty' \in [Loops -> SUBSET Creds]
        <3>1. CASE current = NoLoop
            BY <2>1, <3>1 DEF Unschedule, TypeSchedule
        <3>2. CASE current # NoLoop
            <4>1. /\ current \in Loops
                  /\ heap' = [heap EXCEPT ![current] =
                                [heap[current] EXCEPT ![tell[a].cred] = "none"]]
                  /\ dirty' = [dirty EXCEPT ![current] = dirty[current] \ {tell[a].cred}]
                BY <2>1, <3>2 DEF Unschedule, TypeManager
            <4>2. [heap[current] EXCEPT ![tell[a].cred] = "none"] \in [Creds -> Times]
                BY <2>1, <4>1 DEF TypeSchedule, Times
            <4> QED BY <4>1, <4>2 DEF TypeSchedule
        <3> QED BY <3>1, <3>2
    <2> QED BY <2>1, <2>2 DEF TellLoop, TypeSchedule
<1>3. CASE tell[a].how \notin {"reschedule", "unschedule"}
    BY <1>3 DEF TellLoop, TypeSchedule
<1> QED BY <1>1, <1>2, <1>3

\* The answer to a refresh is recorded, or not; the registration stays, and no
\* marker is set.
Answered(r) == Refreshed(r) \/ RefreshFailed(r) \/ RefreshCancelled(r)

Answers(r) ==
    /\ rpc[r] = "call"
    /\ cred' \in [Creds -> CredRecords]
    /\ \A x \in Creds : /\ cred'[x].there = cred[x].there /\ cred'[x].epoch = cred[x].epoch
                        /\ cred'[x].hold \in {cred[x].hold, "none", "backoff"}
    /\ rpc' = [rpc EXCEPT ![r] = rpc'[r]]
    /\ rpc'[r] \in {"tell"} \cup (IF r \in Workers THEN {"finish"} ELSE {"idle"})
    /\ rcred' \in [Refreshers -> Creds \cup {NoCred}] /\ repoch' \in [Refreshers -> Nat]
    /\ \A x \in Refreshers : x \in Workers \/ x # r \/ rpc'[x] = "tell" =>
            rcred'[x] = rcred[x] /\ repoch'[x] = repoch[x]
    /\ seen' \in [Refreshers -> {"same", "edited", "replaced"}]
    /\ tell' \in [Refreshers \cup Callers ->
            [how : {"none", "reschedule", "unschedule"}, cred : Creds \cup {NoCred}]]
    /\ \A a \in Refreshers \cup Callers : tell'[a] = tell[a] \/ tell'[a].cred \in Creds
    /\ UNCHANGED <<job, current, schedVars, loopVars, cancelled, changes>>

\* An answer that is recorded.
LEMMA OutcomeEffect ==
    ASSUME TypeManager, TypeRefreshes, NEW r \in Refreshers, rcred[r] \in Creds,
           NEW need \in {"now", "later", "never"},
           NEW hold \in {"none", "pending", "passed", "backoff"},
           hold \in {cred[rcred[r]].hold, "none", "backoff"},
           NEW how \in {"none", "reschedule", "unschedule"},
           Outcome(r, need, hold, how), rpc[r] = "call",
           seen' \in [Refreshers -> {"same", "edited", "replaced"}],
           UNCHANGED <<job, current, schedVars, loopVars, cancelled, changes>>
    PROVE  Answers(r)
<1> DEFINE c == rcred[r]
           edited == [cred[c] EXCEPT !.need = need, !.hold = hold]
           told == [how |-> how, cred |-> c]
<1>1. /\ cred' = [cred EXCEPT ![c] = edited]
      /\ tell' = [tell EXCEPT ![r] = told]
      /\ rpc' = [rpc EXCEPT ![r] = "tell"] /\ rcred' = rcred /\ repoch' = repoch
    BY DEF Outcome, TypeManager
<1>2. cred \in [Creds -> CredRecords] /\ cred[c] \in CredRecords
    BY DEF TypeManager
<1>3. /\ edited \in CredRecords /\ edited.there = cred[c].there
      /\ edited.epoch = cred[c].epoch /\ edited.hold = hold
    BY <1>2 DEF CredRecords
<1>4. /\ told \in [how : {"none", "reschedule", "unschedule"}, cred : Creds \cup {NoCred}]
      /\ told.cred \in Creds
    OBVIOUS
<1> HIDE DEF edited, told
<1>5. cred' \in [Creds -> CredRecords]
    BY <1>1, <1>2, <1>3
<1>6. \A x \in Creds : /\ cred'[x].there = cred[x].there /\ cred'[x].epoch = cred[x].epoch
                       /\ cred'[x].hold \in {cred[x].hold, "none", "backoff"}
    BY <1>1, <1>2, <1>3
<1>7. /\ tell' \in [Refreshers \cup Callers ->
            [how : {"none", "reschedule", "unschedule"}, cred : Creds \cup {NoCred}]]
      /\ \A a \in Refreshers \cup Callers : tell'[a] = tell[a] \/ tell'[a].cred \in Creds
    BY <1>1, <1>4 DEF TypeRefreshes
<1>8. rpc' = [rpc EXCEPT ![r] = rpc'[r]] /\ rpc'[r] = "tell"
    BY <1>1 DEF TypeRefreshes
<1> QED BY <1>1, <1>5, <1>6, <1>7, <1>8 DEF TypeRefreshes, Answers

\* The refresh returns without recording anything.
LEMMA UnrecordedEffect ==
    ASSUME JobInv, NEW r \in Refreshers, Done(r), rpc[r] = "call",
           UNCHANGED <<cred, tell, job, current, schedVars, loopVars, cancelled, changes>>
    PROVE  Answers(r)
<1>0. /\ TypeManager /\ TypeSchedule /\ TypeLoops /\ TypeRefreshes /\ Placed
      /\ TokensValid /\ MarkerHasJob
    BY DEF JobInv, RefreshTypeOK
<1> USE <1>0
<1>1. /\ rpc' = [rpc EXCEPT ![r] = rpc'[r]]
      /\ rpc'[r] = IF r \in Workers THEN "finish" ELSE "idle"
    BY DoneEffect DEF TypeRefreshes, Returns
<1> QED BY <1>1, DoneEffect DEF Answers, Returns, TypeManager, TypeRefreshes

\* Whatever the provider answers.
LEMMA AnsweredEffect ==
    ASSUME JobInv, NEW r \in Refreshers, Answered(r)
    PROVE  Answers(r)
<1>0. /\ TypeManager /\ TypeSchedule /\ TypeLoops /\ TypeRefreshes /\ Placed
      /\ TokensValid /\ MarkerHasJob
    BY DEF JobInv, RefreshTypeOK
<1> USE <1>0
<1>1. rpc[r] = "call" /\ rcred[r] \in Creds
      /\ UNCHANGED <<job, current, schedVars, loopVars, cancelled, changes>>
    BY DEF Answered, Refreshed, RefreshFailed, RefreshCancelled, Placed, Busy, Running
<1>2. cred[rcred[r]] \in CredRecords
    BY <1>1 DEF TypeManager
<1>3. /\ cred[rcred[r]].need \in {"now", "later", "never"}
      /\ cred[rcred[r]].hold \in {"none", "pending", "passed", "backoff"}
    BY <1>2 DEF CredRecords
<1>4. CASE Done(r) /\ UNCHANGED <<cred, tell>>
    BY <1>1, <1>4, UnrecordedEffect
<1>5. CASE Refreshed(r) /\ Unreplaced(r)
    <2>1. PICK need \in {"now", "later"} :
            Outcome(r, need, IF seen[r] # "same" THEN cred[rcred[r]].hold
                             ELSE IF need = "now" THEN "backoff" ELSE "none", "reschedule")
        BY <1>5 DEF Refreshed
    <2>2. seen' \in [Refreshers -> {"same", "edited", "replaced"}]
        BY <1>5 DEF Refreshed, TouchedFor, TypeRefreshes
    <2> QED BY <1>1, <1>3, <2>1, <2>2, OutcomeEffect
<1>6. CASE RefreshFailed(r) /\ Unedited(r)
    <2>1. seen' \in [Refreshers -> {"same", "edited", "replaced"}]
        BY <1>6 DEF RefreshFailed, TouchedFor, TypeRefreshes
    <2>2. \/ Outcome(r, cred[rcred[r]].need, "backoff", "reschedule")
          \/ \E how \in {"unschedule", "none"} : Outcome(r, "never", "none", how)
        BY <1>6 DEF RefreshFailed
    <2> QED BY <1>1, <1>3, <2>1, <2>2, OutcomeEffect
<1>7. CASE RefreshCancelled(r)
    <2>1. seen' \in [Refreshers -> {"same", "edited", "replaced"}]
        BY <1>7 DEF RefreshCancelled, TypeRefreshes
    <2>2. Outcome(r, cred[rcred[r]].need,
                  IF Held(rcred[r]) \/ ~cred[rcred[r]].there THEN cred[rcred[r]].hold
                  ELSE "backoff", "reschedule")
        BY <1>7 DEF RefreshCancelled
    <2> QED BY <1>1, <1>3, <2>1, <2>2, OutcomeEffect
<1> QED BY <1>4, <1>5, <1>6, <1>7 DEF Answered, Refreshed, RefreshFailed

\* A caller changes the record of c, its registration forward only, and brings
\* no marker but that of the registered job.
Changed(u, c) ==
    RegisterCred(u, c) \/ UpdateCred(u, c) \/ ResultUnauthorized(u, c) \/ RemoveCred(u, c)

ChangedTo(u, c, record) ==
    /\ record \in CredRecords
    /\ record.there /\ record.hold \in {"pending", "passed"} =>
            job[c] # NoJob /\ job[c].epoch = record.epoch
    /\ cred' = [cred EXCEPT ![c] = record]
    /\ tell' \in [Refreshers \cup Callers ->
            [how : {"none", "reschedule", "unschedule"}, cred : Creds \cup {NoCred}]]
    /\ \A a \in Refreshers \cup Callers : tell'[a] = tell[a] \/ tell'[a].cred \in Creds
    /\ seen' \in [Refreshers -> {"same", "edited", "replaced"}]
    /\ changes' = changes + 1
    /\ UNCHANGED <<job, current, schedVars, loopVars, rpc, rcred, repoch, cancelled>>

\* One change.
LEMMA ChangeEffect ==
    ASSUME TypeRefreshes, NEW u \in Callers, NEW c \in Creds, NEW record \in CredRecords,
           record.there /\ record.hold \in {"pending", "passed"} =>
                job[c] # NoJob /\ job[c].epoch = record.epoch,
           NEW effect \in {"edited", "replaced"}, NEW how \in {"reschedule", "unschedule"},
           Change(u, c, record, effect, how)
    PROVE  ChangedTo(u, c, record)
<1>1. seen' \in [Refreshers -> {"same", "edited", "replaced"}]
    BY TouchEffect DEF Change
<1>2. /\ tell' \in [Refreshers \cup Callers ->
            [how : {"none", "reschedule", "unschedule"}, cred : Creds \cup {NoCred}]]
      /\ \A a \in Refreshers \cup Callers : tell'[a] = tell[a] \/ tell'[a].cred \in Creds
    BY DEF Change, TypeRefreshes
<1> QED BY <1>1, <1>2 DEF Change, ChangedTo

\* Every call of Register, Update, MarkResult and Remove is such a change.
LEMMA ChangedEffect ==
    ASSUME JobInv, NEW u \in Callers, NEW c \in Creds, Changed(u, c)
    PROVE  \E record \in CredRecords : ChangedTo(u, c, record)
<1>0. /\ TypeManager /\ TypeSchedule /\ TypeLoops /\ TypeRefreshes /\ Placed
      /\ TokensValid /\ MarkerHasJob
    BY DEF JobInv, RefreshTypeOK
<1> USE <1>0
<1>1. cred[c] \in CredRecords
    BY DEF TypeManager
<1>3. CASE RegisterCred(u, c)
    <2>1. PICK need \in {"now", "later"} :
            Change(u, c, [there |-> TRUE, epoch |-> cred[c].epoch + 1, need |-> need,
                          hold |-> "none"], "replaced", "reschedule")
        BY <1>3 DEF RegisterCred
    <2> DEFINE a == [there |-> TRUE, epoch |-> cred[c].epoch + 1, need |-> need,
                     hold |-> "none"]
    <2>2. a \in CredRecords /\ a.hold = "none"
        BY <1>1 DEF CredRecords
    <2> HIDE DEF a
    <2> QED BY <2>1, <2>2, ChangeEffect DEF a
<1>4. CASE RemoveCred(u, c)
    <2> DEFINE a == [there |-> FALSE, epoch |-> cred[c].epoch + 1, need |-> "later",
                     hold |-> "none"]
    <2>1. Change(u, c, a, "replaced", "unschedule")
        BY <1>4 DEF RemoveCred
    <2>2. a \in CredRecords /\ a.hold = "none"
        BY <1>1 DEF CredRecords
    <2> HIDE DEF a
    <2> QED BY <2>1, <2>2, ChangeEffect
<1>5. ASSUME NEW hold \in {cred[c].hold, "none", "backoff", "pending"}, cred[c].there,
             hold = "pending" => hold = cred[c].hold \/ IsJob(c, job[c].loop, cred[c].epoch),
             Change(u, c, [cred[c] EXCEPT !.hold = hold], "edited", "reschedule")
      PROVE  \E record \in CredRecords : ChangedTo(u, c, record)
    <2> DEFINE a == [cred[c] EXCEPT !.hold = hold]
    <2>1. a \in CredRecords /\ a.hold = hold /\ a.there = cred[c].there
          /\ a.epoch = cred[c].epoch
        BY <1>1, <1>5 DEF CredRecords
    <2>2. a.there /\ a.hold \in {"pending", "passed"} =>
            job[c] # NoJob /\ job[c].epoch = a.epoch
        BY <1>5, <2>1 DEF MarkerHasJob, IsJob
    <2>3. Change(u, c, a, "edited", "reschedule")
        BY <1>5
    <2> HIDE DEF a
    <2> QED BY <2>1, <2>2, <2>3, ChangeEffect
<1>6. CASE UpdateCred(u, c)
    <2>1. PICK hold \in Brought(c) :
            \/ Change(u, c, [cred[c] EXCEPT !.hold = hold], "edited", "reschedule")
            \/ \E need \in {"now", "later"} :
                Change(u, c, [cred[c] EXCEPT !.need = need, !.hold = hold], "replaced",
                       "reschedule")
        BY <1>6 DEF UpdateCred
    <2>2. /\ cred[c].there /\ hold \in {cred[c].hold, "none", "backoff", "pending"}
          /\ hold = "pending" => hold = cred[c].hold \/ IsJob(c, job[c].loop, cred[c].epoch)
        BY <1>6 DEF UpdateCred, Brought, IsJob
    <2>3. CASE Change(u, c, [cred[c] EXCEPT !.hold = hold], "edited", "reschedule")
        BY <1>5, <2>2, <2>3
    <2>4. ASSUME NEW need \in {"now", "later"},
                 Change(u, c, [cred[c] EXCEPT !.need = need, !.hold = hold], "replaced",
                        "reschedule")
          PROVE  \E record \in CredRecords : ChangedTo(u, c, record)
        <3> DEFINE a == [cred[c] EXCEPT !.need = need, !.hold = hold]
        <3>1. a \in CredRecords /\ a.hold = hold /\ a.there = cred[c].there
              /\ a.epoch = cred[c].epoch
            BY <1>1, <2>2 DEF CredRecords
        <3>2. a.there /\ a.hold \in {"pending", "passed"} =>
                job[c] # NoJob /\ job[c].epoch = a.epoch
            BY <2>2, <3>1 DEF MarkerHasJob, IsJob
        <3>3. Change(u, c, a, "replaced", "reschedule")
            BY <2>4
        <3> HIDE DEF a
        <3> QED BY <3>1, <3>2, <3>3, ChangeEffect
    <2> QED BY <2>1, <2>3, <2>4
<1>7. CASE ResultUnauthorized(u, c)
    <2>1. PICK hold \in IF cred[c].hold = "none" THEN {"none", "backoff"}
                         ELSE {cred[c].hold} :
            Change(u, c, [cred[c] EXCEPT !.hold = hold], "edited", "reschedule")
        BY <1>7 DEF ResultUnauthorized
    <2> QED BY <1>5, <1>7, <2>1 DEF ResultUnauthorized, Schedulable
<1> QED BY <1>3, <1>4, <1>6, <1>7 DEF Changed

\* handleDueAuth and applyDirty have decided about c.
Decides(l, c) ==
    /\ lpc[l] = "pick"
    /\ lpc' = [lpc EXCEPT ![l] = lpc'[l]]
    /\ lpc'[l] \in {"pick", "select", "drop", "mark", "keep"}
    /\ item' = [item EXCEPT ![l] = item'[l]] /\ item'[l] \in {c, NoCred}
    /\ lpc'[l] \in {"drop", "mark", "keep"} => item'[l] = c
    /\ phase' \in [Loops -> {"due", "dirty"}] /\ work' \in [Loops -> SUBSET Creds]
    /\ aim' \in [Loops -> [Creds -> Times]] /\ asked' \in [Loops -> Nat]
    /\ UNCHANGED <<mgrVars, schedVars, refVars, cancelled, tell, changes>>

\* handleDueAuth and applyDirty do that.
LEMMA DecideEffect ==
    ASSUME JobInv, NEW l \in Loops, NEW c \in Creds, Decide(l, c)
    PROVE  Decides(l, c)
<1>0. /\ TypeManager /\ TypeSchedule /\ TypeLoops /\ TypeRefreshes /\ Placed
      /\ TokensValid /\ MarkerHasJob
    BY DEF JobInv, RefreshTypeOK
<1> USE <1>0
<1> USE DEF Decides
<1>1. lpc[l] = "pick" /\ work' \in [Loops -> SUBSET Creds]
    BY DEF Decide, TypeLoops
<1>2. CASE Decision(l, c) = "pick"
    <2>1. Onward(l, work[l] \ {c}) /\ aim' = aim
        BY <1>2 DEF Decide
    <2>2. /\ lpc' = [lpc EXCEPT ![l] = lpc'[l]] /\ lpc'[l] \in {"pick", "select"}
          /\ item' = [item EXCEPT ![l] = item'[l]] /\ item'[l] = NoCred
          /\ phase' \in [Loops -> {"due", "dirty"}] /\ asked' \in [Loops -> Nat]
        BY <2>1 DEF Onward, TypeLoops
    <2> QED BY <1>1, <2>1, <2>2 DEF Decide, TypeLoops
<1>3. CASE Decision(l, c) # "pick"
    <2> DEFINE next == IF Decision(l, c) = "keep" THEN NextCheck(c) ELSE "none"
               e == IF Decision(l, c) = "mark" THEN cred[c].epoch ELSE 0
    <2>1. /\ lpc' = [lpc EXCEPT ![l] = Decision(l, c)] /\ item' = [item EXCEPT ![l] = c]
          /\ aim' = [aim EXCEPT ![l] = [aim[l] EXCEPT ![c] = next]]
          /\ asked' = [asked EXCEPT ![l] = e] /\ phase' = phase
        BY <1>3 DEF Decide
    <2>2. next \in Times /\ e \in Nat
        BY NextCheckType DEF TypeManager, CredRecords, Times
    <2>3. [aim[l] EXCEPT ![c] = next] \in [Creds -> Times]
        BY <2>2 DEF TypeLoops
    <2>4. /\ aim' \in [Loops -> [Creds -> Times]] /\ asked' \in [Loops -> Nat]
          /\ phase' \in [Loops -> {"due", "dirty"}]
        BY <2>1, <2>2, <2>3 DEF TypeLoops
    <2>5. Decision(l, c) \in {"drop", "mark", "keep"}
        BY <1>3, DecisionType
    <2> HIDE DEF next, e
    <2> QED BY <1>1, <2>1, <2>4, <2>5 DEF Decide, TypeLoops
<1> QED BY <1>2, <1>3

\* The marked job goes to the end of the queue, or stays with the loop.
Sends(l) ==
    /\ lpc[l] = "marked" /\ item[l] \in Creds /\ job[item[l]].epoch \in Nat
    /\ lpc' = [lpc EXCEPT ![l] = lpc'[l]]
    /\ item' \in [Loops -> Creds \cup {NoCred}]
    /\ \A k \in Loops : k # l => item'[k] = item[k]
    /\ phase' \in [Loops -> {"due", "dirty"}] /\ asked' \in [Loops -> Nat]
    /\ dirty' \in [Loops -> SUBSET Creds] /\ wake' \in [Loops -> BOOLEAN]
    /\ \/ /\ lpc'[l] \in {"select", "pick"}
          /\ queue' = [queue EXCEPT ![l] =
                 Append(queue[l], [cred |-> item[l], epoch |-> job[item[l]].epoch])]
          /\ Len(queue[l]) < QueueCap
       \/ lpc'[l] = "unsent" /\ queue' = queue /\ item' = item
    /\ UNCHANGED <<mgrVars, heap, work, aim, refVars, cancelled, tell, changes>>

\* handleDueAuth does that.
LEMMA SendEffect ==
    ASSUME JobInv, NEW l \in Loops, Send(l)
    PROVE  Sends(l)
<1>0. /\ TypeManager /\ TypeSchedule /\ TypeLoops /\ TypeRefreshes /\ Placed
      /\ TokensValid /\ MarkerHasJob
    BY DEF JobInv, RefreshTypeOK
<1> USE <1>0
<1> USE DEF Sends
<1>1. lpc[l] = "marked" /\ item[l] \in Creds /\ job[item[l]].epoch \in Nat
    BY DEF Send, Placed, TokensValid, MarkedValid, TypeManager, Jobs, Marked
<1>2. dirty' \in [Loops -> SUBSET Creds] /\ wake' \in [Loops -> BOOLEAN]
    BY <1>1, RescheduleEffect DEF Send
<1>3. CASE /\ Room(l)
           /\ queue' = [queue EXCEPT ![l] =
                    Append(queue[l], [cred |-> item[l], epoch |-> job[item[l]].epoch])]
           /\ Onward(l, work[l])
    BY <1>1, <1>2, <1>3 DEF Send, Onward, Room, TypeLoops
<1>4. CASE lpc' = [lpc EXCEPT ![l] = "unsent"] /\ UNCHANGED <<queue, item, asked, phase>>
    BY <1>1, <1>2, <1>4 DEF Send, TypeLoops
<1> QED BY <1>3, <1>4 DEF Send

\* beginRefreshJob marks the registered job as running, or gives up.
Begins(w) ==
    /\ w \in Refreshers /\ rpc[w] = "begin" /\ rcred[w] \in Creds
    /\ \/ /\ MayBegin(w) /\ rpc' = [rpc EXCEPT ![w] = "refresh"]
          /\ job' \in [Creds -> Jobs \cup {NoJob}]
          /\ \A x \in Creds : x # rcred[w] => job'[x] = job[x]
          /\ job'[rcred[w]] \in Jobs /\ job'[rcred[w]].running
          /\ job'[rcred[w]].loop = job[rcred[w]].loop
          /\ job'[rcred[w]].epoch = job[rcred[w]].epoch
       \/ job' = job /\ rpc' = [rpc EXCEPT ![w] = "finish"]
    /\ UNCHANGED <<cred, current, schedVars, loopVars, rcred, repoch, seen, cancelled,
                   tell, changes>>

\* beginRefreshJob does that.
LEMMA BeginEffect ==
    ASSUME JobInv, NEW w \in Workers, BeginJob(w)
    PROVE  Begins(w)
<1>0. /\ TypeManager /\ TypeSchedule /\ TypeLoops /\ TypeRefreshes /\ Placed
      /\ TokensValid /\ MarkerHasJob
    BY DEF JobInv, RefreshTypeOK
<1> USE <1>0
<1> USE DEF Begins
<1>1. w \in Refreshers /\ rpc[w] = "begin" /\ rcred[w] \in Creds
    BY DEF BeginJob, Refreshers, Placed, Busy
<1>2. CASE MayBegin(w)
    <2>1. /\ job' = [job EXCEPT ![rcred[w]] = [job[rcred[w]] EXCEPT !.running = TRUE]]
          /\ rpc' = [rpc EXCEPT ![w] = "refresh"]
        BY <1>2 DEF BeginJob
    <2>2. job[rcred[w]] \in Jobs
        BY <1>1, <1>2 DEF MayBegin, IsJob, TypeManager
    <2>3. PICK j : j = [job[rcred[w]] EXCEPT !.running = TRUE]
        OBVIOUS
    <2>4. /\ j \in Jobs /\ j.running /\ j.loop = job[rcred[w]].loop
          /\ j.epoch = job[rcred[w]].epoch
        BY <2>2, <2>3 DEF Jobs
    <2>5. job' = [job EXCEPT ![rcred[w]] = j]
        BY <2>1, <2>3
    <2> QED BY <1>1, <1>2, <2>1, <2>4, <2>5 DEF BeginJob, TypeManager
<1>3. CASE ~ MayBegin(w)
    BY <1>1, <1>3 DEF BeginJob
<1> QED BY <1>2, <1>3

\* markRefreshPending.
Marks(l) ==
    LET c == item[l] IN
    /\ c \in Creds /\ job[c] = NoJob /\ lpc[l] = "mark"
    /\ lpc' = [lpc EXCEPT ![l] = "marked"]
    /\ cred[c].epoch \in Nat
    /\ job' = [job EXCEPT ![c] =
             [loop |-> l, epoch |-> cred[c].epoch, running |-> FALSE]]
    /\ [loop |-> l, epoch |-> cred[c].epoch, running |-> FALSE] \in Jobs
    /\ cred' \in [Creds -> CredRecords]
    /\ \A x \in Creds : x # c => cred'[x] = cred[x]
    /\ cred'[c].epoch = cred[c].epoch
    /\ seen' \in [Refreshers -> {"same", "edited", "replaced"}]
    /\ UNCHANGED <<current, schedVars, phase, work, item, aim, asked, rpc, rcred,
                   repoch, cancelled, tell, changes>>

\* markRefreshPending does that.
LEMMA MarkEffect ==
    ASSUME JobInv, NEW l \in Loops, Mark(l)
    PROVE  Marks(l)
<1>0. /\ TypeManager /\ TypeSchedule /\ TypeLoops /\ TypeRefreshes /\ Placed
      /\ TokensValid /\ MarkerHasJob
    BY DEF JobInv, RefreshTypeOK
<1> USE <1>0
<1> USE DEF Marks
<1> DEFINE c == item[l]
<1>1. c \in Creds /\ job[c] = NoJob /\ lpc[l] = "mark"
    BY DEF Mark, Placed, MayMark
<1>2. seen' \in [Refreshers -> {"same", "edited", "replaced"}]
    BY TouchEffect DEF Mark
<1>3. cred \in [Creds -> CredRecords] /\ cred[c] \in CredRecords
    BY <1>1 DEF TypeManager
<1>4. PICK a : a = [cred[c] EXCEPT !.hold = "pending"]
    OBVIOUS
<1>5. a \in CredRecords /\ a.epoch = cred[c].epoch
    BY <1>3, <1>4 DEF CredRecords
<1>6. cred' = [cred EXCEPT ![c] = a]
    BY <1>4 DEF Mark
<1>7. [loop |-> l, epoch |-> cred[c].epoch, running |-> FALSE] \in Jobs /\ cred[c].epoch \in Nat
    BY <1>3 DEF CredRecords, Jobs
<1>8. /\ cred' \in [Creds -> CredRecords]
      /\ \A x \in Creds : x # c => cred'[x] = cred[x]
      /\ cred'[c].epoch = cred[c].epoch
    BY <1>1, <1>3, <1>5, <1>6
<1> QED BY <1>1, <1>2, <1>7, <1>8 DEF Mark

\* The clock changes needs and holds, and sets no marker.
Ticks(c) ==
    /\ cred' \in [Creds -> CredRecords] /\ changes' \in Nat
    /\ \A x \in Creds :
         /\ cred'[x].there = cred[x].there /\ cred'[x].epoch = cred[x].epoch
         /\ cred'[x].hold # cred[x].hold =>
             cred[x].hold = "pending" \/ cred'[x].hold = "none"
    /\ UNCHANGED <<job, current, schedVars, loopVars, refVars, cancelled, tell>>

\* Expiry and the end of a hold do that.
LEMMA ClockEffect ==
    ASSUME JobInv, NEW c \in Creds, Expire(c) \/ HoldEnds(c)
    PROVE  Ticks(c)
<1>0. /\ TypeManager /\ TypeSchedule /\ TypeLoops /\ TypeRefreshes /\ Placed
      /\ TokensValid /\ MarkerHasJob
    BY DEF JobInv, RefreshTypeOK
<1> USE <1>0
<1> USE DEF Ticks
<1>1. cred \in [Creds -> CredRecords] /\ cred[c] \in CredRecords
    BY DEF TypeManager
<1>2. CASE Expire(c)
    <2>1. PICK a : a = [cred[c] EXCEPT !.need = "now"]
        OBVIOUS
    <2>2. /\ a \in CredRecords /\ a.there = cred[c].there /\ a.epoch = cred[c].epoch
          /\ a.hold = cred[c].hold
        BY <1>1, <2>1 DEF CredRecords
    <2>3. cred' = [cred EXCEPT ![c] = a]
        BY <1>2, <2>1 DEF Expire
    <2> QED BY <1>1, <1>2, <2>2, <2>3 DEF Expire, TypeManager
<1>3. CASE HoldEnds(c)
    <2> DEFINE h == IF cred[c].hold = "pending" THEN "passed" ELSE "none"
    <2>1. PICK a : a = [cred[c] EXCEPT !.hold = h]
        OBVIOUS
    <2>2. /\ a \in CredRecords /\ a.there = cred[c].there /\ a.epoch = cred[c].epoch
          /\ a.hold = h
        BY <1>1, <2>1 DEF CredRecords
    <2>3. cred' = [cred EXCEPT ![c] = a]
        BY <1>3, <2>1 DEF HoldEnds
    <2> QED BY <1>1, <1>3, <2>2, <2>3 DEF HoldEnds, TypeManager
<1> QED BY <1>2, <1>3

\* Records, jobs and loops keep their types.
LEMMA TypeManagerNext == JobInv /\ RefreshNext => TypeManager'
<1> SUFFICES ASSUME JobInv, RefreshNext PROVE TypeManager'
    OBVIOUS
<1>0. /\ TypeManager /\ TypeSchedule /\ TypeLoops /\ TypeRefreshes /\ Placed
      /\ TokensValid /\ TokensUnique /\ RunningIsRegistered /\ MarkerHasJob /\ NoPhantomJob
    BY DEF JobInv, RefreshTypeOK
<1> USE <1>0, RefreshAssumption DEF TypeManager, mgrVars, schedVars, loopVars, refVars
<1>1. ASSUME NEW l \in Loops, Start(l) PROVE TypeManager'
    BY <1>1 DEF Start
<1>2. ASSUME Stop PROVE TypeManager'
    BY <1>2 DEF Stop
<1>3. ASSUME NEW l \in Loops, StartSwap(l) PROVE TypeManager'
    BY <1>3 DEF StartSwap
<1>4. ASSUME NEW l \in Loops, RebuildRead(l) PROVE TypeManager'
    BY <1>4, NextCheckType DEF RebuildRead
<1>5. ASSUME NEW l \in Loops, RebuildWrite(l) PROVE TypeManager'
    BY <1>5 DEF RebuildWrite
<1>6. ASSUME NEW l \in Loops, PopDue(l) PROVE TypeManager'
    BY <1>6 DEF PopDue
<1>7. ASSUME NEW l \in Loops, Awake(l) PROVE TypeManager'
    BY <1>7 DEF Awake, Drain
<1>8. ASSUME NEW l \in Loops, DueOver(l) PROVE TypeManager'
    BY <1>8 DEF DueOver, Drain
<1>9. ASSUME NEW l \in Loops, NEW c \in Creds, Decide(l, c) PROVE TypeManager'
    <2>1. Decides(l, c)
        BY <1>9, DecideEffect
    <2> QED BY <2>1 DEF Decides
<1>10. ASSUME NEW l \in Loops, Drop(l) PROVE TypeManager'
    BY <1>10 DEF Drop, Onward
<1>11. ASSUME NEW l \in Loops, Keep(l) PROVE TypeManager'
    BY <1>11 DEF Keep, Onward
<1>12. ASSUME NEW l \in Loops, Mark(l) PROVE TypeManager'
    <2>1. Marks(l)
        BY <1>12, MarkEffect
    <2> QED BY <2>1 DEF Marks
<1>13. ASSUME NEW l \in Loops, NotMarked(l) PROVE TypeManager'
    BY <1>13 DEF NotMarked
<1>14. ASSUME NEW l \in Loops, Send(l) PROVE TypeManager'
    <2>1. Sends(l)
        BY <1>14, SendEffect
    <2> QED BY <2>1 DEF Sends
<1>15. ASSUME NEW l \in Loops, Unsent(l) PROVE TypeManager'
    <2>1. item[l] \in Creds /\ Finishes(item[l], "backoff")
        BY <1>15, FinishEffect DEF Unsent, Placed, Marked
    <2> QED BY <1>15, <2>1 DEF Unsent, Finishes
<1>16. ASSUME NEW l \in Loops, Exit(l) PROVE TypeManager'
    BY <1>16 DEF Exit
<1>17. ASSUME NEW l \in Loops, ReleaseQueuedJobs(l) PROVE TypeManager'
    <2>1. CASE \E c \in Left(l) : FinishJob(c, "none")
        <3>1. PICK c \in Creds : Finishes(c, "none")
            BY <2>1, FinishEffect DEF Left
        <3> QED BY <1>17, <2>1, <3>1 DEF ReleaseQueuedJobs, Finishes
    <2>2. CASE UNCHANGED <<mgrVars, schedVars, refVars>>
        BY <1>17, <2>2 DEF ReleaseQueuedJobs
    <2> QED BY <1>17, <2>1, <2>2 DEF ReleaseQueuedJobs
<1>18. ASSUME NEW w \in Workers, Take(w) PROVE TypeManager'
    BY <1>18, TakeEffect DEF Take, Takes
<1>19. ASSUME NEW w \in Workers, WorkerExit(w) PROVE TypeManager'
    BY <1>19 DEF WorkerExit
<1>20. ASSUME NEW w \in Workers, BeginJob(w) PROVE TypeManager'
    <2>1. Begins(w)
        BY <1>20, BeginEffect
    <2> QED BY <2>1 DEF Begins
<1>21. ASSUME NEW w \in Workers, WorkerFinish(w) PROVE TypeManager'
    <2>1. CASE IsJob(rcred[w], LoopOf[w], repoch[w])
        <3>1. rcred[w] \in Creds /\ Finishes(rcred[w], "none")
            BY <1>21, <2>1, FinishEffect DEF WorkerFinish, Placed, Busy, Refreshers
        <3> QED BY <1>21, <3>1 DEF WorkerFinish, Finishes
    <2>2. CASE ~ IsJob(rcred[w], LoopOf[w], repoch[w])
        BY <1>21, <2>2 DEF WorkerFinish
    <2> QED BY <2>1, <2>2
<1>22. ASSUME NEW r \in Refreshers, RefreshRead(r) PROVE TypeManager'
    BY <1>22, DoneEffect DEF RefreshRead, Returns
<1>23. ASSUME NEW r \in Refreshers, Answered(r) PROVE TypeManager'
    <2>1. Answers(r)
        BY <1>23, AnsweredEffect
    <2> QED BY <2>1 DEF Answers
<1>24. ASSUME NEW r \in Refreshers, RefreshTells(r) PROVE TypeManager'
    <2>1. Tells(r) /\ Returns(r) /\ rpc[r] = "tell"
          /\ UNCHANGED <<mgrVars, queue, loopVars, cancelled, changes>>
        BY <1>24, TellEffect, DoneEffect DEF RefreshTells
    <2> QED BY <2>1 DEF Tells, Returns, Nothing
<1>25. ASSUME NEW q \in Requests, NEW c \in Creds, Rejected(q, c) PROVE TypeManager'
    BY <1>25 DEF Rejected
<1>26. ASSUME NEW u \in Callers, NEW c \in Creds, Changed(u, c) PROVE TypeManager'
    <2>1. \E record \in CredRecords : ChangedTo(u, c, record)
        BY <1>26, ChangedEffect
    <2> QED BY <2>1 DEF ChangedTo
<1>27. ASSUME NEW u \in Callers, CallerTells(u) PROVE TypeManager'
    <2>1. Tells(u) /\ UNCHANGED <<mgrVars, queue, loopVars, refVars, cancelled, changes>>
        BY <1>27, TellEffect DEF CallerTells
    <2> QED BY <2>1 DEF Tells, Nothing
<1>28. ASSUME NEW c \in Creds, Expire(c) \/ HoldEnds(c) PROVE TypeManager'
    <2>1. Ticks(c)
        BY <1>28, ClockEffect
    <2> QED BY <2>1 DEF Ticks
<1>29. ASSUME NEW l \in Loops, NEW c \in Creds, Ripen(l, c) PROVE TypeManager'
    BY <1>29 DEF Ripen
<1> QED BY <1>1, <1>2, <1>3, <1>4, <1>5, <1>6, <1>7, <1>8, <1>9, <1>10, <1>11, <1>12,
    <1>13, <1>14, <1>15, <1>16, <1>17, <1>18, <1>19, <1>20, <1>21, <1>22, <1>23, <1>24,
    <1>25, <1>26, <1>27, <1>28, <1>29 DEF Answered, Changed, RefreshNext, LoopStep,
    WorkerStep, RefreshStep, Refreshers

\* Heaps, dirty sets and queues keep their types, queues within their capacity.
LEMMA TypeScheduleNext == JobInv /\ RefreshNext => TypeSchedule'
<1> SUFFICES ASSUME JobInv, RefreshNext PROVE TypeSchedule'
    OBVIOUS
<1>0. /\ TypeManager /\ TypeSchedule /\ TypeLoops /\ TypeRefreshes /\ Placed
      /\ TokensValid /\ TokensUnique /\ RunningIsRegistered /\ MarkerHasJob /\ NoPhantomJob
    BY DEF JobInv, RefreshTypeOK
<1> USE <1>0, RefreshAssumption DEF TypeSchedule, TypeLoops, Times, Placed, Marked,
    mgrVars, schedVars, loopVars, refVars
<1>1. ASSUME NEW l \in Loops, Start(l) PROVE TypeSchedule'
    BY <1>1 DEF Start
<1>2. ASSUME Stop PROVE TypeSchedule'
    BY <1>2 DEF Stop
<1>3. ASSUME NEW l \in Loops, StartSwap(l) PROVE TypeSchedule'
    BY <1>3 DEF StartSwap
<1>4. ASSUME NEW l \in Loops, RebuildRead(l) PROVE TypeSchedule'
    BY <1>4, NextCheckType DEF RebuildRead
<1>5. ASSUME NEW l \in Loops, RebuildWrite(l) PROVE TypeSchedule'
    BY <1>5 DEF RebuildWrite
<1>6. ASSUME NEW l \in Loops, PopDue(l) PROVE TypeSchedule'
    <2> DEFINE rest == [c \in Creds |-> IF heap[l][c] = "due" THEN "none" ELSE heap[l][c]]
    <2>1. heap' = [heap EXCEPT ![l] = rest] /\ rest \in [Creds -> Times]
        BY <1>6 DEF PopDue
    <2> HIDE DEF rest
    <2>2. UNCHANGED <<dirty, wake, queue>>
        BY <1>6 DEF PopDue
    <2> QED BY <2>1, <2>2
<1>7. ASSUME NEW l \in Loops, Awake(l) PROVE TypeSchedule'
    BY <1>7 DEF Awake, Drain
<1>8. ASSUME NEW l \in Loops, DueOver(l) PROVE TypeSchedule'
    BY <1>8 DEF DueOver, Drain
<1>9. ASSUME NEW l \in Loops, NEW c \in Creds, Decide(l, c) PROVE TypeSchedule'
    <2>1. Decides(l, c)
        BY <1>9, DecideEffect
    <2> QED BY <2>1 DEF Decides
<1>10. ASSUME NEW l \in Loops, Drop(l) PROVE TypeSchedule'
    BY <1>10 DEF Drop, Onward
<1>11. ASSUME NEW l \in Loops, Keep(l) PROVE TypeSchedule'
    BY <1>11 DEF Keep, Onward
<1>12. ASSUME NEW l \in Loops, Mark(l) PROVE TypeSchedule'
    <2>1. Marks(l)
        BY <1>12, MarkEffect
    <2> QED BY <2>1 DEF Marks
<1>13. ASSUME NEW l \in Loops, NotMarked(l) PROVE TypeSchedule'
    BY <1>13 DEF NotMarked
<1>14. ASSUME NEW l \in Loops, Send(l) PROVE TypeSchedule'
    <2>1. Sends(l)
        BY <1>14, SendEffect
    <2>2. CASE queue' = queue
        BY <2>1, <2>2 DEF Sends
    <2>3. CASE queue' # queue
        <3> DEFINE j == [cred |-> item[l], epoch |-> job[item[l]].epoch]
        <3>1. /\ queue' = [queue EXCEPT ![l] = Append(queue[l], j)]
              /\ Len(queue[l]) < QueueCap /\ j \in [cred : Creds, epoch : Nat]
            BY <2>1, <2>3 DEF Sends
        <3> HIDE DEF j
        <3>4. queue[l] \in Seq([cred : Creds, epoch : Nat])
            OBVIOUS
        <3>2. /\ Append(queue[l], j) \in Seq([cred : Creds, epoch : Nat])
              /\ Len(Append(queue[l], j)) = Len(queue[l]) + 1 /\ Len(queue[l]) \in Nat
            BY <3>1, <3>4, AppendProperties
        <3>3. Len(Append(queue[l], j)) <= QueueCap
            BY <3>1, <3>2
        <3> QED BY <2>1, <3>1, <3>2, <3>3 DEF Sends
    <2> QED BY <2>2, <2>3
<1>15. ASSUME NEW l \in Loops, Unsent(l) PROVE TypeSchedule'
    <2>1. item[l] \in Creds /\ Finishes(item[l], "backoff")
        BY <1>15, FinishEffect DEF Unsent, Placed, Marked
    <2> QED BY <1>15, <2>1 DEF Unsent, Finishes
<1>16. ASSUME NEW l \in Loops, Exit(l) PROVE TypeSchedule'
    BY <1>16 DEF Exit
<1>17. ASSUME NEW l \in Loops, ReleaseQueuedJobs(l) PROVE TypeSchedule'
    <2>1. CASE \E c \in Left(l) : FinishJob(c, "none")
        <3>1. PICK c \in Creds : Finishes(c, "none")
            BY <2>1, FinishEffect DEF Left
        <3> QED BY <1>17, <2>1, <3>1 DEF ReleaseQueuedJobs, Finishes
    <2>2. CASE UNCHANGED <<mgrVars, schedVars, refVars>>
        BY <1>17, <2>2 DEF ReleaseQueuedJobs
    <2> QED BY <1>17, <2>1, <2>2 DEF ReleaseQueuedJobs
<1>18. ASSUME NEW w \in Workers, Take(w) PROVE TypeSchedule'
    <2>1. Takes(w)
        BY <1>18, TakeEffect
    <2>2. \A k \in Loops : Len(queue'[k]) <= QueueCap
        BY <2>1 DEF Takes
    <2> QED BY <1>18, <2>1, <2>2 DEF Take, Takes
<1>19. ASSUME NEW w \in Workers, WorkerExit(w) PROVE TypeSchedule'
    BY <1>19 DEF WorkerExit
<1>20. ASSUME NEW w \in Workers, BeginJob(w) PROVE TypeSchedule'
    <2>1. Begins(w)
        BY <1>20, BeginEffect
    <2> QED BY <2>1 DEF Begins
<1>21. ASSUME NEW w \in Workers, WorkerFinish(w) PROVE TypeSchedule'
    <2>1. CASE IsJob(rcred[w], LoopOf[w], repoch[w])
        <3>1. rcred[w] \in Creds /\ Finishes(rcred[w], "none")
            BY <1>21, <2>1, FinishEffect DEF WorkerFinish, Placed, Busy, Refreshers
        <3> QED BY <1>21, <3>1 DEF WorkerFinish, Finishes
    <2>2. CASE ~ IsJob(rcred[w], LoopOf[w], repoch[w])
        BY <1>21, <2>2 DEF WorkerFinish
    <2> QED BY <2>1, <2>2
<1>22. ASSUME NEW r \in Refreshers, RefreshRead(r) PROVE TypeSchedule'
    BY <1>22, DoneEffect DEF RefreshRead, Returns
<1>23. ASSUME NEW r \in Refreshers, Answered(r) PROVE TypeSchedule'
    <2>1. Answers(r)
        BY <1>23, AnsweredEffect
    <2> QED BY <2>1 DEF Answers
<1>24. ASSUME NEW r \in Refreshers, RefreshTells(r) PROVE TypeSchedule'
    <2>1. Tells(r) /\ Returns(r) /\ rpc[r] = "tell"
          /\ UNCHANGED <<mgrVars, queue, loopVars, cancelled, changes>>
        BY <1>24, TellEffect, DoneEffect DEF RefreshTells
    <2> QED BY <2>1 DEF Tells, Returns, Nothing
<1>25. ASSUME NEW q \in Requests, NEW c \in Creds, Rejected(q, c) PROVE TypeSchedule'
    BY <1>25 DEF Rejected
<1>26. ASSUME NEW u \in Callers, NEW c \in Creds, Changed(u, c) PROVE TypeSchedule'
    <2>1. \E record \in CredRecords : ChangedTo(u, c, record)
        BY <1>26, ChangedEffect
    <2> QED BY <2>1 DEF ChangedTo
<1>27. ASSUME NEW u \in Callers, CallerTells(u) PROVE TypeSchedule'
    <2>1. Tells(u) /\ UNCHANGED <<mgrVars, queue, loopVars, refVars, cancelled, changes>>
        BY <1>27, TellEffect DEF CallerTells
    <2> QED BY <2>1 DEF Tells, Nothing
<1>28. ASSUME NEW c \in Creds, Expire(c) \/ HoldEnds(c) PROVE TypeSchedule'
    <2>1. Ticks(c)
        BY <1>28, ClockEffect
    <2> QED BY <2>1 DEF Ticks
<1>29. ASSUME NEW l \in Loops, NEW c \in Creds, Ripen(l, c) PROVE TypeSchedule'
    BY <1>29 DEF Ripen
<1> QED BY <1>1, <1>2, <1>3, <1>4, <1>5, <1>6, <1>7, <1>8, <1>9, <1>10, <1>11, <1>12,
    <1>13, <1>14, <1>15, <1>16, <1>17, <1>18, <1>19, <1>20, <1>21, <1>22, <1>23, <1>24,
    <1>25, <1>26, <1>27, <1>28, <1>29 DEF Answered, Changed, RefreshNext, LoopStep,
    WorkerStep, RefreshStep, Refreshers

\* The loops keep their types.
LEMMA TypeLoopsNext == JobInv /\ RefreshNext => TypeLoops'
<1> SUFFICES ASSUME JobInv, RefreshNext PROVE TypeLoops'
    OBVIOUS
<1>0. /\ TypeManager /\ TypeSchedule /\ TypeLoops /\ TypeRefreshes /\ Placed
      /\ TokensValid /\ TokensUnique /\ RunningIsRegistered /\ MarkerHasJob /\ NoPhantomJob
    BY DEF JobInv, RefreshTypeOK
<1> USE <1>0, RefreshAssumption DEF TypeSchedule, TypeLoops, Times, Placed, Marked,
    mgrVars, schedVars, loopVars, refVars
<1>1. ASSUME NEW l \in Loops, Start(l) PROVE TypeLoops'
    BY <1>1 DEF Start
<1>2. ASSUME Stop PROVE TypeLoops'
    BY <1>2 DEF Stop
<1>3. ASSUME NEW l \in Loops, StartSwap(l) PROVE TypeLoops'
    BY <1>3 DEF StartSwap
<1>4. ASSUME NEW l \in Loops, RebuildRead(l) PROVE TypeLoops'
    BY <1>4, NextCheckType DEF RebuildRead
<1>5. ASSUME NEW l \in Loops, RebuildWrite(l) PROVE TypeLoops'
    BY <1>5 DEF RebuildWrite
<1>6. ASSUME NEW l \in Loops, PopDue(l) PROVE TypeLoops'
    BY <1>6 DEF PopDue
<1>7. ASSUME NEW l \in Loops, Awake(l) PROVE TypeLoops'
    BY <1>7 DEF Awake, Drain
<1>8. ASSUME NEW l \in Loops, DueOver(l) PROVE TypeLoops'
    BY <1>8 DEF DueOver, Drain
<1>9. ASSUME NEW l \in Loops, NEW c \in Creds, Decide(l, c) PROVE TypeLoops'
    <2>1. Decides(l, c)
        BY <1>9, DecideEffect
    <2>2. lpc' \in [Loops -> {"unborn", "swap", "read", "write", "select", "pick", "drop",
                        "keep", "mark", "marked", "unsent", "release", "gone"}]
        <3>1. lpc' = [lpc EXCEPT ![l] = lpc'[l]]
              /\ lpc'[l] \in {"pick", "select", "drop", "mark", "keep"}
            BY <2>1 DEF Decides
        <3> QED BY <3>1
    <2>3. item' \in [Loops -> Creds \cup {NoCred}]
        <3>1. item' = [item EXCEPT ![l] = item'[l]] /\ item'[l] \in {c, NoCred}
            BY <2>1 DEF Decides
        <3> QED BY <3>1
    <2> QED BY <2>1, <2>2, <2>3 DEF Decides
<1>10. ASSUME NEW l \in Loops, Drop(l) PROVE TypeLoops'
    BY <1>10 DEF Drop, Onward
<1>11. ASSUME NEW l \in Loops, Keep(l) PROVE TypeLoops'
    BY <1>11 DEF Keep, Onward
<1>12. ASSUME NEW l \in Loops, Mark(l) PROVE TypeLoops'
    <2>1. Marks(l)
        BY <1>12, MarkEffect
    <2> QED BY <2>1 DEF Marks
<1>13. ASSUME NEW l \in Loops, NotMarked(l) PROVE TypeLoops'
    BY <1>13 DEF NotMarked
<1>14. ASSUME NEW l \in Loops, Send(l) PROVE TypeLoops'
    <2>1. Sends(l)
        BY <1>14, SendEffect
    <2>2. lpc' = [lpc EXCEPT ![l] = lpc'[l]] /\ lpc'[l] \in {"select", "pick", "unsent"}
        BY <2>1 DEF Sends
    <2>3. lpc' \in [Loops -> {"unborn", "swap", "read", "write", "select", "pick", "drop",
                        "keep", "mark", "marked", "unsent", "release", "gone"}]
        BY <2>2
    <2> QED BY <2>1, <2>3 DEF Sends
<1>15. ASSUME NEW l \in Loops, Unsent(l) PROVE TypeLoops'
    BY <1>15 DEF Unsent
<1>16. ASSUME NEW l \in Loops, Exit(l) PROVE TypeLoops'
    BY <1>16 DEF Exit
<1>17. ASSUME NEW l \in Loops, ReleaseQueuedJobs(l) PROVE TypeLoops'
    BY <1>17, FinishEffect DEF ReleaseQueuedJobs, Left, Finishes
<1>18. ASSUME NEW w \in Workers, Take(w) PROVE TypeLoops'
    BY <1>18, TakeEffect DEF Take, Takes
<1>19. ASSUME NEW w \in Workers, WorkerExit(w) PROVE TypeLoops'
    BY <1>19 DEF WorkerExit
<1>20. ASSUME NEW w \in Workers, BeginJob(w) PROVE TypeLoops'
    <2>1. Begins(w)
        BY <1>20, BeginEffect
    <2> QED BY <2>1 DEF Begins
<1>21. ASSUME NEW w \in Workers, WorkerFinish(w) PROVE TypeLoops'
    BY <1>21, FinishEffect DEF WorkerFinish, Finishes
<1>22. ASSUME NEW r \in Refreshers, RefreshRead(r) PROVE TypeLoops'
    BY <1>22, DoneEffect DEF RefreshRead, Returns
<1>23. ASSUME NEW r \in Refreshers, Answered(r) PROVE TypeLoops'
    <2>1. Answers(r)
        BY <1>23, AnsweredEffect
    <2> QED BY <2>1 DEF Answers
<1>24. ASSUME NEW r \in Refreshers, RefreshTells(r) PROVE TypeLoops'
    <2>1. Tells(r) /\ Returns(r) /\ rpc[r] = "tell"
          /\ UNCHANGED <<mgrVars, queue, loopVars, cancelled, changes>>
        BY <1>24, TellEffect, DoneEffect DEF RefreshTells
    <2> QED BY <2>1 DEF Tells, Returns, Nothing
<1>25. ASSUME NEW q \in Requests, NEW c \in Creds, Rejected(q, c) PROVE TypeLoops'
    BY <1>25 DEF Rejected
<1>26. ASSUME NEW u \in Callers, NEW c \in Creds, Changed(u, c) PROVE TypeLoops'
    <2>1. \E record \in CredRecords : ChangedTo(u, c, record)
        BY <1>26, ChangedEffect
    <2> QED BY <2>1 DEF ChangedTo
<1>27. ASSUME NEW u \in Callers, CallerTells(u) PROVE TypeLoops'
    <2>1. Tells(u) /\ UNCHANGED <<mgrVars, queue, loopVars, refVars, cancelled, changes>>
        BY <1>27, TellEffect DEF CallerTells
    <2> QED BY <2>1 DEF Tells, Nothing
<1>28. ASSUME NEW c \in Creds, Expire(c) \/ HoldEnds(c) PROVE TypeLoops'
    <2>1. Ticks(c)
        BY <1>28, ClockEffect
    <2> QED BY <2>1 DEF Ticks
<1>29. ASSUME NEW l \in Loops, NEW c \in Creds, Ripen(l, c) PROVE TypeLoops'
    BY <1>29 DEF Ripen
<1> QED BY <1>1, <1>2, <1>3, <1>4, <1>5, <1>6, <1>7, <1>8, <1>9, <1>10, <1>11, <1>12,
    <1>13, <1>14, <1>15, <1>16, <1>17, <1>18, <1>19, <1>20, <1>21, <1>22, <1>23, <1>24,
    <1>25, <1>26, <1>27, <1>28, <1>29 DEF Answered, Changed, RefreshNext, LoopStep,
    WorkerStep, RefreshStep, Refreshers

\* Refreshes and what is to be told keep their types.
LEMMA TypeRefreshesNext == JobInv /\ RefreshNext => TypeRefreshes'
<1> SUFFICES ASSUME JobInv, RefreshNext PROVE TypeRefreshes'
    OBVIOUS
<1>0. /\ TypeManager /\ TypeSchedule /\ TypeLoops /\ TypeRefreshes /\ Placed
      /\ TokensValid /\ TokensUnique /\ RunningIsRegistered /\ MarkerHasJob /\ NoPhantomJob
    BY DEF JobInv, RefreshTypeOK
<1> USE <1>0, RefreshAssumption DEF TypeRefreshes, Refreshers, mgrVars, schedVars,
    loopVars, refVars
<1>1. ASSUME NEW l \in Loops, Start(l) PROVE TypeRefreshes'
    BY <1>1 DEF Start
<1>2. ASSUME Stop PROVE TypeRefreshes'
    BY <1>2 DEF Stop
<1>3. ASSUME NEW l \in Loops, StartSwap(l) PROVE TypeRefreshes'
    BY <1>3 DEF StartSwap
<1>4. ASSUME NEW l \in Loops, RebuildRead(l) PROVE TypeRefreshes'
    BY <1>4, NextCheckType DEF RebuildRead
<1>5. ASSUME NEW l \in Loops, RebuildWrite(l) PROVE TypeRefreshes'
    BY <1>5 DEF RebuildWrite
<1>6. ASSUME NEW l \in Loops, PopDue(l) PROVE TypeRefreshes'
    BY <1>6 DEF PopDue
<1>7. ASSUME NEW l \in Loops, Awake(l) PROVE TypeRefreshes'
    BY <1>7 DEF Awake, Drain
<1>8. ASSUME NEW l \in Loops, DueOver(l) PROVE TypeRefreshes'
    BY <1>8 DEF DueOver, Drain
<1>9. ASSUME NEW l \in Loops, NEW c \in Creds, Decide(l, c) PROVE TypeRefreshes'
    <2>1. Decides(l, c)
        BY <1>9, DecideEffect
    <2> QED BY <2>1 DEF Decides
<1>10. ASSUME NEW l \in Loops, Drop(l) PROVE TypeRefreshes'
    BY <1>10 DEF Drop, Onward
<1>11. ASSUME NEW l \in Loops, Keep(l) PROVE TypeRefreshes'
    BY <1>11 DEF Keep, Onward
<1>12. ASSUME NEW l \in Loops, Mark(l) PROVE TypeRefreshes'
    <2>1. Marks(l)
        BY <1>12, MarkEffect
    <2> QED BY <2>1 DEF Marks
<1>13. ASSUME NEW l \in Loops, NotMarked(l) PROVE TypeRefreshes'
    BY <1>13 DEF NotMarked
<1>14. ASSUME NEW l \in Loops, Send(l) PROVE TypeRefreshes'
    <2>1. Sends(l)
        BY <1>14, SendEffect
    <2> QED BY <2>1 DEF Sends
<1>15. ASSUME NEW l \in Loops, Unsent(l) PROVE TypeRefreshes'
    <2>1. item[l] \in Creds /\ Finishes(item[l], "backoff")
        BY <1>15, FinishEffect DEF Unsent, Placed, Marked
    <2> QED BY <1>15, <2>1 DEF Unsent, Finishes
<1>16. ASSUME NEW l \in Loops, Exit(l) PROVE TypeRefreshes'
    BY <1>16 DEF Exit
<1>17. ASSUME NEW l \in Loops, ReleaseQueuedJobs(l) PROVE TypeRefreshes'
    <2>1. CASE \E c \in Left(l) : FinishJob(c, "none")
        <3>1. PICK c \in Creds : Finishes(c, "none")
            BY <2>1, FinishEffect DEF Left
        <3> QED BY <1>17, <2>1, <3>1 DEF ReleaseQueuedJobs, Finishes
    <2>2. CASE UNCHANGED <<mgrVars, schedVars, refVars>>
        BY <1>17, <2>2 DEF ReleaseQueuedJobs
    <2> QED BY <1>17, <2>1, <2>2 DEF ReleaseQueuedJobs
<1>18. ASSUME NEW w \in Workers, Take(w) PROVE TypeRefreshes'
    BY <1>18, TakeEffect DEF Take, Takes
<1>19. ASSUME NEW w \in Workers, WorkerExit(w) PROVE TypeRefreshes'
    BY <1>19 DEF WorkerExit
<1>20. ASSUME NEW w \in Workers, BeginJob(w) PROVE TypeRefreshes'
    <2>1. Begins(w)
        BY <1>20, BeginEffect
    <2> QED BY <2>1 DEF Begins
<1>21. ASSUME NEW w \in Workers, WorkerFinish(w) PROVE TypeRefreshes'
    <2>1. CASE IsJob(rcred[w], LoopOf[w], repoch[w])
        <3>1. rcred[w] \in Creds /\ Finishes(rcred[w], "none")
            BY <1>21, <2>1, FinishEffect DEF WorkerFinish, Placed, Busy, Refreshers
        <3> QED BY <1>21, <3>1 DEF WorkerFinish, Finishes
    <2>2. CASE ~ IsJob(rcred[w], LoopOf[w], repoch[w])
        BY <1>21, <2>2 DEF WorkerFinish
    <2> QED BY <2>1, <2>2
<1>22. ASSUME NEW r \in Refreshers, RefreshRead(r) PROVE TypeRefreshes'
    BY <1>22, DoneEffect DEF RefreshRead, Returns
<1>23. ASSUME NEW r \in Refreshers, Answered(r) PROVE TypeRefreshes'
    <2>1. Answers(r)
        BY <1>23, AnsweredEffect
    <2>2. rpc' = [rpc EXCEPT ![r] = rpc'[r]] /\ rpc'[r] \in {"tell", "finish", "idle"}
        BY <2>1 DEF Answers
    <2>3. rpc' \in [Refreshers ->
                    {"idle", "begin", "refresh", "call", "tell", "finish", "gone"}]
        BY <2>2
    <2> QED BY <2>1, <2>3 DEF Answers
<1>24. ASSUME NEW r \in Refreshers, RefreshTells(r) PROVE TypeRefreshes'
    <2>1. Tells(r) /\ Returns(r) /\ rpc[r] = "tell"
          /\ UNCHANGED <<mgrVars, queue, loopVars, cancelled, changes>>
        BY <1>24, TellEffect, DoneEffect DEF RefreshTells
    <2> QED BY <2>1 DEF Tells, Returns, Nothing
<1>25. ASSUME NEW q \in Requests, NEW c \in Creds, Rejected(q, c) PROVE TypeRefreshes'
    <2>1. cred[c].epoch \in Nat /\ q \in Refreshers
        BY DEF TypeManager, CredRecords
    <2>2. seen' \in [Refreshers -> {"same", "edited", "replaced"}]
        BY <1>25 DEF Rejected, MarkRejected, TouchedFor
    <2> QED BY <1>25, <2>1, <2>2 DEF Rejected
<1>26. ASSUME NEW u \in Callers, NEW c \in Creds, Changed(u, c) PROVE TypeRefreshes'
    <2>1. \E record \in CredRecords : ChangedTo(u, c, record)
        BY <1>26, ChangedEffect
    <2> QED BY <2>1 DEF ChangedTo
<1>27. ASSUME NEW u \in Callers, CallerTells(u) PROVE TypeRefreshes'
    <2>1. Tells(u) /\ UNCHANGED <<mgrVars, queue, loopVars, refVars, cancelled, changes>>
        BY <1>27, TellEffect DEF CallerTells
    <2> QED BY <2>1 DEF Tells, Nothing
<1>28. ASSUME NEW c \in Creds, Expire(c) \/ HoldEnds(c) PROVE TypeRefreshes'
    <2>1. Ticks(c)
        BY <1>28, ClockEffect
    <2> QED BY <2>1 DEF Ticks
<1>29. ASSUME NEW l \in Loops, NEW c \in Creds, Ripen(l, c) PROVE TypeRefreshes'
    BY <1>29 DEF Ripen
<1> QED BY <1>1, <1>2, <1>3, <1>4, <1>5, <1>6, <1>7, <1>8, <1>9, <1>10, <1>11, <1>12,
    <1>13, <1>14, <1>15, <1>16, <1>17, <1>18, <1>19, <1>20, <1>21, <1>22, <1>23, <1>24,
    <1>25, <1>26, <1>27, <1>28, <1>29 DEF Answered, Changed, RefreshNext, LoopStep,
    WorkerStep, RefreshStep, Refreshers

\* Who works on a credential knows which.
LEMMA PlacedNext == JobInv /\ RefreshNext => Placed'
<1> SUFFICES ASSUME JobInv, RefreshNext PROVE Placed'
    OBVIOUS
<1>0. /\ TypeManager /\ TypeSchedule /\ TypeLoops /\ TypeRefreshes /\ Placed
      /\ TokensValid /\ TokensUnique /\ RunningIsRegistered /\ MarkerHasJob /\ NoPhantomJob
    BY DEF JobInv, RefreshTypeOK
<1> USE <1>0, RefreshAssumption DEF TypeLoops, TypeRefreshes, Placed, Marked, Running,
    Busy, Ending, mgrVars, schedVars, loopVars, refVars
<1>1. ASSUME NEW l \in Loops, Start(l) PROVE Placed'
    BY <1>1 DEF Start
<1>2. ASSUME Stop PROVE Placed'
    BY <1>2 DEF Stop
<1>3. ASSUME NEW l \in Loops, StartSwap(l) PROVE Placed'
    BY <1>3 DEF StartSwap
<1>4. ASSUME NEW l \in Loops, RebuildRead(l) PROVE Placed'
    BY <1>4, NextCheckType DEF RebuildRead
<1>5. ASSUME NEW l \in Loops, RebuildWrite(l) PROVE Placed'
    BY <1>5 DEF RebuildWrite
<1>6. ASSUME NEW l \in Loops, PopDue(l) PROVE Placed'
    BY <1>6 DEF PopDue
<1>7. ASSUME NEW l \in Loops, Awake(l) PROVE Placed'
    BY <1>7 DEF Awake, Drain
<1>8. ASSUME NEW l \in Loops, DueOver(l) PROVE Placed'
    BY <1>8 DEF DueOver, Drain
<1>9. ASSUME NEW l \in Loops, NEW c \in Creds, Decide(l, c) PROVE Placed'
    <2>1. Decides(l, c)
        BY <1>9, DecideEffect
    <2>2. \A k \in Loops : k # l => lpc'[k] = lpc[k] /\ item'[k] = item[k]
        BY <2>1 DEF Decides
    <2>3. /\ lpc'[l] \in {"pick", "select", "drop", "mark", "keep"}
          /\ lpc'[l] \in {"drop", "mark", "keep"} => item'[l] = c
          /\ UNCHANGED <<rpc, rcred, tell, cancelled>>
        BY <2>1 DEF Decides
    <2> QED BY <2>2, <2>3
<1>10. ASSUME NEW l \in Loops, Drop(l) PROVE Placed'
    BY <1>10 DEF Drop, Onward
<1>11. ASSUME NEW l \in Loops, Keep(l) PROVE Placed'
    BY <1>11 DEF Keep, Onward
<1>12. ASSUME NEW l \in Loops, Mark(l) PROVE Placed'
    <2>1. Marks(l)
        BY <1>12, MarkEffect
    <2> QED BY <2>1 DEF Marks
<1>13. ASSUME NEW l \in Loops, NotMarked(l) PROVE Placed'
    BY <1>13 DEF NotMarked
<1>14. ASSUME NEW l \in Loops, Send(l) PROVE Placed'
    <2>1. Sends(l)
        BY <1>14, SendEffect
    <2> QED BY <2>1 DEF Sends
<1>15. ASSUME NEW l \in Loops, Unsent(l) PROVE Placed'
    BY <1>15, FinishEffect DEF Unsent, Finishes
<1>16. ASSUME NEW l \in Loops, Exit(l) PROVE Placed'
    BY <1>16 DEF Exit
<1>17. ASSUME NEW l \in Loops, ReleaseQueuedJobs(l) PROVE Placed'
    BY <1>17, FinishEffect DEF ReleaseQueuedJobs, Left, Finishes
<1>18. ASSUME NEW w \in Workers, Take(w) PROVE Placed'
    <2>1. Takes(w) /\ w \in Refreshers
        BY <1>18, TakeEffect DEF Refreshers
    <2>2. rcred' = [rcred EXCEPT ![w] = Head(queue[LoopOf[w]]).cred]
          /\ Head(queue[LoopOf[w]]).cred \in Creds
        BY <1>18, <2>1 DEF Take, Takes
    <2> QED BY <1>18, <2>1, <2>2 DEF Take
<1>19. ASSUME NEW w \in Workers, WorkerExit(w) PROVE Placed'
    BY <1>19 DEF WorkerExit
<1>20. ASSUME NEW w \in Workers, BeginJob(w) PROVE Placed'
    <2>1. Begins(w)
        BY <1>20, BeginEffect
    <2> QED BY <2>1 DEF Begins
<1>21. ASSUME NEW w \in Workers, WorkerFinish(w) PROVE Placed'
    BY <1>21, FinishEffect DEF WorkerFinish, Finishes
<1>22. ASSUME NEW r \in Refreshers, RefreshRead(r) PROVE Placed'
    BY <1>22, DoneEffect DEF RefreshRead, Returns
<1>23. ASSUME NEW r \in Refreshers, Answered(r) PROVE Placed'
    <2>1. Answers(r)
        BY <1>23, AnsweredEffect
    <2> QED BY <2>1 DEF Answers
<1>24. ASSUME NEW r \in Refreshers, RefreshTells(r) PROVE Placed'
    <2>1. Tells(r) /\ Returns(r) /\ rpc[r] = "tell"
          /\ UNCHANGED <<mgrVars, queue, loopVars, cancelled, changes>>
        BY <1>24, TellEffect, DoneEffect DEF RefreshTells
    <2> QED BY <2>1 DEF Tells, Returns, Nothing
<1>25. ASSUME NEW q \in Requests, NEW c \in Creds, Rejected(q, c) PROVE Placed'
    BY <1>25 DEF Rejected
<1>26. ASSUME NEW u \in Callers, NEW c \in Creds, Changed(u, c) PROVE Placed'
    <2>1. \E record \in CredRecords : ChangedTo(u, c, record)
        BY <1>26, ChangedEffect
    <2> QED BY <2>1 DEF ChangedTo
<1>27. ASSUME NEW u \in Callers, CallerTells(u) PROVE Placed'
    <2>1. Tells(u) /\ UNCHANGED <<mgrVars, queue, loopVars, refVars, cancelled, changes>>
        BY <1>27, TellEffect DEF CallerTells
    <2> QED BY <2>1 DEF Tells, Nothing
<1>28. ASSUME NEW c \in Creds, Expire(c) \/ HoldEnds(c) PROVE Placed'
    <2>1. Ticks(c)
        BY <1>28, ClockEffect
    <2> QED BY <2>1 DEF Ticks
<1>29. ASSUME NEW l \in Loops, NEW c \in Creds, Ripen(l, c) PROVE Placed'
    BY <1>29 DEF Ripen
<1> QED BY <1>1, <1>2, <1>3, <1>4, <1>5, <1>6, <1>7, <1>8, <1>9, <1>10, <1>11, <1>12,
    <1>13, <1>14, <1>15, <1>16, <1>17, <1>18, <1>19, <1>20, <1>21, <1>22, <1>23, <1>24,
    <1>25, <1>26, <1>27, <1>28, <1>29 DEF Answered, Changed, RefreshNext, LoopStep,
    WorkerStep, RefreshStep, Refreshers

\* Markers keep their jobs.
LEMMA MarkerHasJobNext == JobInv /\ RefreshNext => MarkerHasJob'
<1> SUFFICES ASSUME JobInv, RefreshNext PROVE MarkerHasJob'
    OBVIOUS
<1>0. /\ TypeManager /\ TypeSchedule /\ TypeLoops /\ TypeRefreshes /\ Placed
      /\ TokensValid /\ TokensUnique /\ RunningIsRegistered /\ MarkerHasJob /\ NoPhantomJob
    BY DEF JobInv, RefreshTypeOK
<1> USE <1>0, RefreshAssumption DEF MarkerHasJob, TypeManager, mgrVars, schedVars,
    loopVars, refVars
<1>1. ASSUME NEW l \in Loops, Start(l) PROVE MarkerHasJob'
    BY <1>1 DEF Start
<1>2. ASSUME Stop PROVE MarkerHasJob'
    BY <1>2 DEF Stop
<1>3. ASSUME NEW l \in Loops, StartSwap(l) PROVE MarkerHasJob'
    BY <1>3 DEF StartSwap
<1>4. ASSUME NEW l \in Loops, RebuildRead(l) PROVE MarkerHasJob'
    BY <1>4, NextCheckType DEF RebuildRead
<1>5. ASSUME NEW l \in Loops, RebuildWrite(l) PROVE MarkerHasJob'
    BY <1>5 DEF RebuildWrite
<1>6. ASSUME NEW l \in Loops, PopDue(l) PROVE MarkerHasJob'
    BY <1>6 DEF PopDue
<1>7. ASSUME NEW l \in Loops, Awake(l) PROVE MarkerHasJob'
    BY <1>7 DEF Awake, Drain
<1>8. ASSUME NEW l \in Loops, DueOver(l) PROVE MarkerHasJob'
    BY <1>8 DEF DueOver, Drain
<1>9. ASSUME NEW l \in Loops, NEW c \in Creds, Decide(l, c) PROVE MarkerHasJob'
    <2>1. Decides(l, c)
        BY <1>9, DecideEffect
    <2> QED BY <2>1 DEF Decides
<1>10. ASSUME NEW l \in Loops, Drop(l) PROVE MarkerHasJob'
    BY <1>10 DEF Drop, Onward
<1>11. ASSUME NEW l \in Loops, Keep(l) PROVE MarkerHasJob'
    BY <1>11 DEF Keep, Onward
<1>12. ASSUME NEW l \in Loops, Mark(l) PROVE MarkerHasJob'
    <2>1. Marks(l)
        BY <1>12, MarkEffect
    <2> QED BY <2>1 DEF Marks
<1>13. ASSUME NEW l \in Loops, NotMarked(l) PROVE MarkerHasJob'
    BY <1>13 DEF NotMarked
<1>14. ASSUME NEW l \in Loops, Send(l) PROVE MarkerHasJob'
    <2>1. Sends(l)
        BY <1>14, SendEffect
    <2> QED BY <2>1 DEF Sends
<1>15. ASSUME NEW l \in Loops, Unsent(l) PROVE MarkerHasJob'
    <2>1. item[l] \in Creds /\ Finishes(item[l], "backoff")
        BY <1>15, FinishEffect DEF Unsent, Placed, Marked
    <2> QED BY <1>15, <2>1 DEF Unsent, Finishes
<1>16. ASSUME NEW l \in Loops, Exit(l) PROVE MarkerHasJob'
    BY <1>16 DEF Exit
<1>17. ASSUME NEW l \in Loops, ReleaseQueuedJobs(l) PROVE MarkerHasJob'
    <2>1. CASE \E c \in Left(l) : FinishJob(c, "none")
        <3>1. PICK c \in Creds : Finishes(c, "none")
            BY <2>1, FinishEffect DEF Left
        <3> QED BY <1>17, <2>1, <3>1 DEF ReleaseQueuedJobs, Finishes
    <2>2. CASE UNCHANGED <<mgrVars, schedVars, refVars>>
        BY <1>17, <2>2 DEF ReleaseQueuedJobs
    <2> QED BY <1>17, <2>1, <2>2 DEF ReleaseQueuedJobs
<1>18. ASSUME NEW w \in Workers, Take(w) PROVE MarkerHasJob'
    BY <1>18, TakeEffect DEF Take, Takes
<1>19. ASSUME NEW w \in Workers, WorkerExit(w) PROVE MarkerHasJob'
    BY <1>19 DEF WorkerExit
<1>20. ASSUME NEW w \in Workers, BeginJob(w) PROVE MarkerHasJob'
    <2>1. Begins(w)
        BY <1>20, BeginEffect
    <2> QED BY <2>1 DEF Begins
<1>21. ASSUME NEW w \in Workers, WorkerFinish(w) PROVE MarkerHasJob'
    <2>1. CASE IsJob(rcred[w], LoopOf[w], repoch[w])
        <3>1. rcred[w] \in Creds /\ Finishes(rcred[w], "none")
            BY <1>21, <2>1, FinishEffect DEF WorkerFinish, Placed, Busy, Refreshers
        <3> QED BY <1>21, <3>1 DEF WorkerFinish, Finishes
    <2>2. CASE ~ IsJob(rcred[w], LoopOf[w], repoch[w])
        BY <1>21, <2>2 DEF WorkerFinish
    <2> QED BY <2>1, <2>2
<1>22. ASSUME NEW r \in Refreshers, RefreshRead(r) PROVE MarkerHasJob'
    BY <1>22, DoneEffect DEF RefreshRead, Returns
<1>23. ASSUME NEW r \in Refreshers, Answered(r) PROVE MarkerHasJob'
    <2>1. Answers(r)
        BY <1>23, AnsweredEffect
    <2> QED BY <2>1 DEF Answers
<1>24. ASSUME NEW r \in Refreshers, RefreshTells(r) PROVE MarkerHasJob'
    <2>1. Tells(r) /\ Returns(r) /\ rpc[r] = "tell"
          /\ UNCHANGED <<mgrVars, queue, loopVars, cancelled, changes>>
        BY <1>24, TellEffect, DoneEffect DEF RefreshTells
    <2> QED BY <2>1 DEF Tells, Returns, Nothing
<1>25. ASSUME NEW q \in Requests, NEW c \in Creds, Rejected(q, c) PROVE MarkerHasJob'
    BY <1>25 DEF Rejected
<1>26. ASSUME NEW u \in Callers, NEW c \in Creds, Changed(u, c) PROVE MarkerHasJob'
    <2>1. \E record \in CredRecords : ChangedTo(u, c, record)
        BY <1>26, ChangedEffect
    <2> QED BY <2>1 DEF ChangedTo
<1>27. ASSUME NEW u \in Callers, CallerTells(u) PROVE MarkerHasJob'
    <2>1. Tells(u) /\ UNCHANGED <<mgrVars, queue, loopVars, refVars, cancelled, changes>>
        BY <1>27, TellEffect DEF CallerTells
    <2> QED BY <2>1 DEF Tells, Nothing
<1>28. ASSUME NEW c \in Creds, Expire(c) \/ HoldEnds(c) PROVE MarkerHasJob'
    <2>1. Ticks(c)
        BY <1>28, ClockEffect
    <2> QED BY <2>1 DEF Ticks
<1>29. ASSUME NEW l \in Loops, NEW c \in Creds, Ripen(l, c) PROVE MarkerHasJob'
    BY <1>29 DEF Ripen
<1> QED BY <1>1, <1>2, <1>3, <1>4, <1>5, <1>6, <1>7, <1>8, <1>9, <1>10, <1>11, <1>12,
    <1>13, <1>14, <1>15, <1>16, <1>17, <1>18, <1>19, <1>20, <1>21, <1>22, <1>23, <1>24,
    <1>25, <1>26, <1>27, <1>28, <1>29 DEF Answered, Changed, RefreshNext, LoopStep,
    WorkerStep, RefreshStep, Refreshers


-----------------------------------------------------------------------------
(* The jobs and their tokens.                                               *)

\* A step that leaves the jobs and the tokens where they are.
Calm ==
    /\ job' = job /\ queue' = queue
    /\ \A l \in Loops :
        /\ lpc'[l] \in Marked <=> lpc[l] \in Marked
        /\ lpc[l] \in Marked => item'[l] = item[l]
        /\ lpc'[l] \in Ending <=> lpc[l] \in Ending
        /\ lpc'[l] = "gone" => lpc[l] = "gone"
    /\ \A w \in Workers :
        /\ rpc'[w] \in Busy <=> rpc[w] \in Busy
        /\ rpc[w] \in Busy => rcred'[w] = rcred[w] /\ repoch'[w] = repoch[w]
        /\ rpc'[w] \in Running => rpc[w] \in Running

\* A step that makes, hands on or ends a job, or ends a loop.
JobEvent ==
    \/ \E l \in Loops : Mark(l) \/ Send(l) \/ Unsent(l) \/ Exit(l) \/ ReleaseQueuedJobs(l)
    \/ \E w \in Workers : Take(w) \/ BeginJob(w) \/ WorkerFinish(w)

\* What a queue holds.
LEMMA QueuedType ==
    ASSUME TypeSchedule, NEW l \in Loops, NEW i \in 1..Len(queue[l])
    PROVE  queue[l][i] \in [cred : Creds, epoch : Nat] /\ queue[l][i].cred \in Creds
<1> DEFINE T == [cred : Creds, epoch : Nat]
<1>1. queue[l] \in Seq(T)
    BY DEF TypeSchedule
<1> HIDE DEF T
<1>2. queue[l][i] \in T
    BY <1>1, ElementOfSeq
<1> QED BY <1>2 DEF T

\* Nothing happens to the tokens.
LEMMA CalmKeeps == ASSUME JobInv, Calm PROVE TokenInv'
<1>0. /\ TypeManager /\ TypeSchedule /\ TypeLoops /\ TypeRefreshes /\ Placed
      /\ MarkedValid /\ QueueValid /\ BusyValid /\ RunningIsRegistered /\ NoPhantomJob
      /\ QueueDistinct /\ WorkersDistinct /\ TakenNotQueued /\ MarkedNotSent
    BY DEF JobInv, RefreshTypeOK, TokensValid, TokensUnique
<1>1. MarkedValid' /\ QueueValid' /\ BusyValid'
    BY <1>0, RefreshAssumption DEF Calm, MarkedValid, QueueValid, BusyValid, IsJob
<1>2. QueueDistinct' /\ WorkersDistinct' /\ TakenNotQueued' /\ MarkedNotSent'
    BY <1>0, RefreshAssumption
       DEF Calm, QueueDistinct, WorkersDistinct, TakenNotQueued, MarkedNotSent
<1>3. RunningIsRegistered'
    BY <1>0 DEF Calm, RunningIsRegistered, IsJob, Running, Busy
<1>4. NoPhantomJob'
    <2> SUFFICES ASSUME NEW c \in Creds, job[c] # NoJob PROVE JobOwner(c)'
        BY DEF NoPhantomJob, Calm
    <2>1. job[c].loop \in Loops /\ JobOwner(c)
        BY <1>0 DEF NoPhantomJob, TypeManager, Jobs
    <2> QED BY <2>1 DEF JobOwner, Calm, Marked, Busy, Running
<1> QED BY <1>1, <1>2, <1>3, <1>4 DEF TokenInv, TokensValid, TokensUnique

\* A new job replaces none: no valid token stood for the credential.
LEMMA MarkKeeps == ASSUME JobInv, NEW l \in Loops, Mark(l) PROVE TokenInv'
<1>0. /\ TypeManager /\ TypeSchedule /\ TypeLoops /\ TypeRefreshes /\ Placed
      /\ MarkedValid /\ QueueValid /\ BusyValid /\ RunningIsRegistered /\ NoPhantomJob
      /\ QueueDistinct /\ WorkersDistinct /\ TakenNotQueued /\ MarkedNotSent
    BY DEF JobInv, RefreshTypeOK, TokensValid, TokensUnique
<1> DEFINE c == item[l]
<1>1. /\ c \in Creds /\ job[c] = NoJob /\ lpc[l] = "mark" /\ lpc'[l] = "marked"
      /\ \A k \in Loops : k # l => lpc'[k] = lpc[k]
      /\ job'[c] # NoJob /\ job'[c].loop = l /\ ~job'[c].running
      /\ \A x \in Creds : x # c => job'[x] = job[x]
      /\ item' = item /\ queue' = queue /\ rpc' = rpc /\ rcred' = rcred /\ repoch' = repoch
    <2>1. Marks(l)
        BY MarkEffect
    <2> QED BY <1>0, <2>1, RefreshAssumption DEF Marks, TypeManager, TypeLoops, schedVars
<1> HIDE DEF c
<1>2. MarkedValid'
    BY <1>0, <1>1 DEF MarkedValid, Marked, Placed, c
<1>3. QueueValid'
    <2> SUFFICES ASSUME NEW k \in Loops, lpc'[k] \notin Ending, NEW i \in 1..Len(queue[k])
                 PROVE  /\ IsJob(queue[k][i].cred, k, queue[k][i].epoch)'
                        /\ ~job'[queue[k][i].cred].running
        BY <1>1 DEF QueueValid
    <2>1. IsJob(queue[k][i].cred, k, queue[k][i].epoch) /\ ~job[queue[k][i].cred].running
        BY <1>0, <1>1 DEF QueueValid, Ending
    <2>2. queue[k][i].cred \in Creds
        BY <1>0, QueuedType
    <2> QED BY <1>1, <2>1, <2>2 DEF IsJob
<1>4. BusyValid'
    BY <1>0, <1>1, RefreshAssumption DEF BusyValid, IsJob, Placed, Ending, Refreshers
<1>5. QueueDistinct' /\ WorkersDistinct' /\ TakenNotQueued'
    BY <1>0, <1>1 DEF QueueDistinct, WorkersDistinct, TakenNotQueued
<1>6. MarkedNotSent'
    <2>1. \A i \in 1..Len(queue[l]) : queue[l][i].cred # c
        BY <1>0, <1>1 DEF QueueValid, IsJob, Ending
    <2>2. \A w \in Workers : rpc[w] \in Busy /\ LoopOf[w] = l => rcred[w] # c
        BY <1>0, <1>1 DEF BusyValid, IsJob, Ending
    <2> QED BY <1>0, <1>1, <2>1, <2>2 DEF MarkedNotSent, Marked, c
<1>7. RunningIsRegistered'
    BY <1>0, <1>1 DEF RunningIsRegistered, IsJob, Placed, Busy, Running, Refreshers
<1>8. NoPhantomJob'
    <2> SUFFICES ASSUME NEW x \in Creds, job'[x] # NoJob PROVE JobOwner(x)'
        BY DEF NoPhantomJob
    <2>1. CASE x = c
        BY <1>1, <2>1 DEF JobOwner, c
    <2>2. CASE x # c
        <3>1. job'[x] = job[x] /\ job[x].loop \in Loops /\ JobOwner(x)
            BY <1>0, <1>1, <2>2 DEF NoPhantomJob, TypeManager, Jobs
        <3> QED BY <1>1, <2>2, <3>1 DEF JobOwner
    <2> QED BY <2>1, <2>2
<1> QED BY <1>2, <1>3, <1>4, <1>5, <1>6, <1>7, <1>8 DEF TokenInv, TokensValid, TokensUnique

\* The job that could not be sent is finished: no other token stood for it.
LEMMA UnsentKeeps == ASSUME JobInv, NEW l \in Loops, Unsent(l) PROVE TokenInv'
<1>0. /\ TypeManager /\ TypeSchedule /\ TypeLoops /\ TypeRefreshes /\ Placed
      /\ MarkedValid /\ QueueValid /\ BusyValid /\ RunningIsRegistered /\ NoPhantomJob
      /\ QueueDistinct /\ WorkersDistinct /\ TakenNotQueued /\ MarkedNotSent
    BY DEF JobInv, RefreshTypeOK, TokensValid, TokensUnique
<1> DEFINE c == item[l]
<1>1. /\ c \in Creds /\ lpc[l] = "unsent" /\ lpc'[l] = "keep"
      /\ \A k \in Loops : k # l => lpc'[k] = lpc[k]
      /\ job'[c] = NoJob
      /\ \A x \in Creds : x # c => job'[x] = job[x]
      /\ item' = item /\ queue' = queue /\ rpc' = rpc /\ rcred' = rcred /\ repoch' = repoch
    <2>1. c \in Creds /\ Finishes(c, "backoff")
        BY <1>0, FinishEffect DEF Unsent, Placed, Marked
    <2> QED BY <1>0, <2>1 DEF Finishes, Unsent, TypeManager, TypeLoops
<1>2. job[c] # NoJob /\ job[c].loop = l /\ ~job[c].running
    BY <1>0, <1>1 DEF MarkedValid, Marked
<1> HIDE DEF c
<1>3. MarkedValid'
    BY <1>0, <1>1, <1>2 DEF MarkedValid, Marked, Placed, c
<1>4. QueueValid'
    <2> SUFFICES ASSUME NEW k \in Loops, lpc'[k] \notin Ending, NEW i \in 1..Len(queue[k])
                 PROVE  /\ IsJob(queue[k][i].cred, k, queue[k][i].epoch)'
                        /\ ~job'[queue[k][i].cred].running
        BY <1>1 DEF QueueValid
    <2>1. IsJob(queue[k][i].cred, k, queue[k][i].epoch) /\ ~job[queue[k][i].cred].running
        BY <1>0, <1>1 DEF QueueValid, Ending
    <2>2. queue[k][i].cred \in Creds
        BY <1>0, QueuedType
    <2>3. queue[k][i].cred # c
        BY <1>0, <1>1, <1>2, <2>1 DEF MarkedNotSent, Marked, IsJob, c
    <2> QED BY <1>1, <2>1, <2>2, <2>3 DEF IsJob
<1>5. BusyValid'
    <2> SUFFICES ASSUME NEW w \in Workers, rpc[w] \in Busy, lpc'[LoopOf[w]] \notin Ending
                 PROVE  IsJob(rcred[w], LoopOf[w], repoch[w])'
        BY <1>1 DEF BusyValid
    <2>1. IsJob(rcred[w], LoopOf[w], repoch[w]) /\ rcred[w] \in Creds
        BY <1>0, <1>1, RefreshAssumption DEF BusyValid, Ending, Placed, Refreshers
    <2>2. rcred[w] # c
        BY <1>0, <1>1, <1>2, <2>1 DEF MarkedNotSent, Marked, IsJob, c
    <2> QED BY <1>1, <2>1, <2>2 DEF IsJob
<1>6. QueueDistinct' /\ WorkersDistinct' /\ TakenNotQueued'
    BY <1>0, <1>1 DEF QueueDistinct, WorkersDistinct, TakenNotQueued
<1>7. MarkedNotSent'
    BY <1>0, <1>1 DEF MarkedNotSent, Marked
<1>8. RunningIsRegistered'
    BY <1>0, <1>1, <1>2 DEF RunningIsRegistered, IsJob, Placed, Busy, Running, Refreshers
<1>9. NoPhantomJob'
    <2> SUFFICES ASSUME NEW x \in Creds, job'[x] # NoJob PROVE JobOwner(x)'
        BY DEF NoPhantomJob
    <2>1. x # c /\ job'[x] = job[x] /\ job[x].loop \in Loops /\ JobOwner(x)
        BY <1>0, <1>1 DEF NoPhantomJob, TypeManager, Jobs
    <2> QED BY <1>1, <2>1 DEF JobOwner, c
<1> QED BY <1>3, <1>4, <1>5, <1>6, <1>7, <1>8, <1>9
        DEF TokenInv, TokensValid, TokensUnique

\* A loop that ends makes no promise about its tokens any more.
LEMMA ExitKeeps == ASSUME JobInv, NEW l \in Loops, Exit(l) PROVE TokenInv'
<1>0. /\ TypeManager /\ TypeSchedule /\ TypeLoops /\ TypeRefreshes /\ Placed
      /\ MarkedValid /\ QueueValid /\ BusyValid /\ RunningIsRegistered /\ NoPhantomJob
      /\ QueueDistinct /\ WorkersDistinct /\ TakenNotQueued /\ MarkedNotSent
    BY DEF JobInv, RefreshTypeOK, TokensValid, TokensUnique
<1>1. /\ lpc[l] = "select" /\ lpc'[l] = "release"
      /\ \A k \in Loops : k # l => lpc'[k] = lpc[k]
      /\ job' = job
      /\ item' = item /\ queue' = queue /\ rpc' = rpc /\ rcred' = rcred /\ repoch' = repoch
    BY <1>0 DEF Exit, TypeLoops, mgrVars, refVars
<1>2. MarkedValid' /\ QueueValid' /\ BusyValid'
    BY <1>0, <1>1, RefreshAssumption DEF MarkedValid, QueueValid, BusyValid, IsJob, Marked, Ending
<1>3. QueueDistinct' /\ WorkersDistinct' /\ TakenNotQueued' /\ MarkedNotSent'
    BY <1>0, <1>1 DEF QueueDistinct, WorkersDistinct, TakenNotQueued, MarkedNotSent, Marked
<1>4. RunningIsRegistered'
    BY <1>0, <1>1 DEF RunningIsRegistered, IsJob
<1>5. NoPhantomJob'
    <2> SUFFICES ASSUME NEW x \in Creds, job[x] # NoJob PROVE JobOwner(x)'
        BY <1>1 DEF NoPhantomJob
    <2>1. job[x].loop \in Loops /\ JobOwner(x)
        BY <1>0 DEF NoPhantomJob, TypeManager, Jobs
    <2> QED BY <1>1, <2>1 DEF JobOwner
<1> QED BY <1>2, <1>3, <1>4, <1>5 DEF TokenInv, TokensValid, TokensUnique

\* The token goes from the loop to the end of its queue, or stays.
LEMMA SendKeeps == ASSUME JobInv, NEW l \in Loops, Send(l) PROVE TokenInv'
<1>0. /\ TypeManager /\ TypeSchedule /\ TypeLoops /\ TypeRefreshes /\ Placed
      /\ MarkedValid /\ QueueValid /\ BusyValid /\ RunningIsRegistered /\ NoPhantomJob
      /\ QueueDistinct /\ WorkersDistinct /\ TakenNotQueued /\ MarkedNotSent
    BY DEF JobInv, RefreshTypeOK, TokensValid, TokensUnique
<1>1. Sends(l)
    BY SendEffect
<1>2. CASE lpc'[l] = "unsent"
    <2>1. Calm
        BY <1>0, <1>1, <1>2 DEF Sends, Calm, TypeLoops, Marked, Ending, mgrVars, refVars
    <2> QED BY <2>1, CalmKeeps
<1>3. CASE lpc'[l] # "unsent"
    <2> DEFINE c == item[l]  n == Len(queue[l])
    <2>1. /\ c \in Creds /\ lpc[l] = "marked" /\ lpc'[l] \in {"select", "pick"}
          /\ \A k \in Loops : k # l => lpc'[k] = lpc[k] /\ item'[k] = item[k]
          /\ job' = job /\ rpc' = rpc /\ rcred' = rcred /\ repoch' = repoch
        BY <1>0, <1>1, <1>3 DEF Sends, TypeLoops, mgrVars, refVars
    <2>2. /\ \A k \in Loops : k # l => queue'[k] = queue[k]
          /\ n \in Nat /\ Len(queue'[l]) = n + 1
          /\ queue'[l][n + 1] = [cred |-> c, epoch |-> job[c].epoch]
          /\ \A i \in 1..n : queue'[l][i] = queue[l][i]
        <3> DEFINE T == [cred : Creds, epoch : Nat]
                   j == [cred |-> c, epoch |-> job[c].epoch]
        <3>1. queue \in [Loops -> Seq(T)] /\ queue[l] \in Seq(T)
            BY <1>0 DEF TypeSchedule
        <3>2. queue' = [queue EXCEPT ![l] = Append(queue[l], j)] /\ j \in T
            BY <1>1, <1>3 DEF Sends
        <3> HIDE DEF T, j
        <3>3. /\ Len(Append(queue[l], j)) = Len(queue[l]) + 1 /\ Len(queue[l]) \in Nat
              /\ Append(queue[l], j)[Len(queue[l]) + 1] = j
              /\ \A i \in 1..Len(queue[l]) : Append(queue[l], j)[i] = queue[l][i]
            BY <3>1, <3>2, AppendProperties
        <3>4. queue'[l] = Append(queue[l], j) /\ \A k \in Loops : k # l => queue'[k] = queue[k]
            BY <3>1, <3>2
        <3> QED BY <3>3, <3>4 DEF j
    <2>3. job[c] # NoJob /\ job[c].loop = l /\ ~job[c].running
        BY <1>0, <2>1 DEF MarkedValid, Marked
    <2>4. /\ \A i \in 1..n : queue[l][i].cred # c
          /\ \A w \in Workers : rpc[w] \in Busy /\ LoopOf[w] = l => rcred[w] # c
        BY <1>0, <2>1 DEF MarkedNotSent, Marked
    <2>5. \A i \in 1..Len(queue'[l]) : i \in 1..n \/ i = n + 1
        BY <2>2
    <2>6. queue'[l][n + 1].cred = c /\ queue'[l][n + 1].epoch = job[c].epoch
        BY <2>2
    <2> HIDE DEF c, n
    <2>7. MarkedValid'
        BY <1>0, <2>1 DEF MarkedValid, Marked
    <2>8. QueueValid'
        <3> SUFFICES ASSUME NEW k \in Loops, lpc'[k] \notin Ending, NEW i \in 1..Len(queue'[k])
                     PROVE  /\ IsJob(queue'[k][i].cred, k, queue'[k][i].epoch)
                            /\ ~job[queue'[k][i].cred].running
            BY <2>1 DEF QueueValid, IsJob
        <3>1. CASE k # l
            BY <1>0, <2>1, <2>2, <3>1 DEF QueueValid
        <3>2. CASE k = l /\ i \in 1..n
            BY <1>0, <2>1, <2>2, <3>2 DEF QueueValid, Ending, n
        <3>3. CASE k = l /\ i = n + 1
            BY <2>3, <2>6, <3>3 DEF IsJob
        <3> QED BY <2>5, <3>1, <3>2, <3>3
    <2>9. BusyValid'
        BY <1>0, <2>1, RefreshAssumption DEF BusyValid, IsJob, Ending
    <2>10. QueueDistinct'
        <3> SUFFICES ASSUME NEW k \in Loops, NEW i \in 1..Len(queue'[k]),
                            NEW m \in 1..Len(queue'[k]), queue'[k][i].cred = queue'[k][m].cred
                     PROVE  i = m
            BY DEF QueueDistinct
        <3>1. CASE k # l
            BY <1>0, <2>2, <3>1 DEF QueueDistinct
        <3>2. CASE k = l
            <4>1. CASE i \in 1..n /\ m \in 1..n
                BY <1>0, <2>2, <3>2, <4>1 DEF QueueDistinct, n
            <4>2. CASE i = n + 1 \/ m = n + 1
                BY <2>2, <2>4, <2>5, <2>6, <3>2, <4>2
            <4> QED BY <2>5, <3>2, <4>1, <4>2
        <3> QED BY <3>1, <3>2
    <2>11. WorkersDistinct'
        BY <1>0, <2>1 DEF WorkersDistinct
    <2>12. TakenNotQueued'
        <3> SUFFICES ASSUME NEW w \in Workers, rpc[w] \in Busy,
                            NEW i \in 1..Len(queue'[LoopOf[w]])
                     PROVE  queue'[LoopOf[w]][i].cred # rcred[w]
            BY <2>1 DEF TakenNotQueued
        <3>1. CASE LoopOf[w] # l
            BY <1>0, <2>2, <3>1, RefreshAssumption DEF TakenNotQueued
        <3>2. CASE LoopOf[w] = l
            BY <1>0, <2>2, <2>4, <2>5, <2>6, <3>2 DEF TakenNotQueued, n
        <3> QED BY <3>1, <3>2
    <2>13. MarkedNotSent'
        BY <1>0, <2>1, <2>2 DEF MarkedNotSent, Marked
    <2>14. RunningIsRegistered'
        BY <1>0, <2>1 DEF RunningIsRegistered, IsJob
    <2>15. NoPhantomJob'
        <3> SUFFICES ASSUME NEW x \in Creds, job[x] # NoJob PROVE JobOwner(x)'
            BY <2>1 DEF NoPhantomJob
        <3>1. job[x].loop \in Loops /\ JobOwner(x)
            BY <1>0 DEF NoPhantomJob, TypeManager, Jobs
        <3>2. CASE x = c
            <4>1. n + 1 \in 1..Len(queue'[l])
                BY <2>2
            <4> QED BY <2>1, <2>2, <2>3, <3>2, <4>1 DEF JobOwner
        <3>3. CASE x # c /\ job[x].loop = l
            <4>1. \A i \in 1..Len(queue[l]) :
                    i \in 1..Len(queue'[l]) /\ queue'[l][i] = queue[l][i]
                BY <2>2 DEF n
            <4> QED BY <2>1, <3>1, <3>3, <4>1 DEF JobOwner, c
        <3>4. CASE x # c /\ job[x].loop # l
            BY <2>1, <2>2, <3>1, <3>4 DEF JobOwner
        <3> QED BY <3>2, <3>3, <3>4
    <2> QED BY <2>7, <2>8, <2>9, <2>10, <2>11, <2>12, <2>13, <2>14, <2>15
            DEF TokenInv, TokensValid, TokensUnique
<1> QED BY <1>2, <1>3

\* A loop that ends finishes the jobs that no worker runs, and it is gone only
\* when there are none left.
LEMMA ReleaseKeeps == ASSUME JobInv, NEW l \in Loops, ReleaseQueuedJobs(l) PROVE TokenInv'
<1>0. /\ TypeManager /\ TypeSchedule /\ TypeLoops /\ TypeRefreshes /\ Placed
      /\ MarkedValid /\ QueueValid /\ BusyValid /\ RunningIsRegistered /\ NoPhantomJob
      /\ QueueDistinct /\ WorkersDistinct /\ TakenNotQueued /\ MarkedNotSent
    BY DEF JobInv, RefreshTypeOK, TokensValid, TokensUnique
<1>1. /\ lpc[l] = "release" /\ lpc'[l] \in Ending /\ lpc' = [lpc EXCEPT ![l] = lpc'[l]]
      /\ item' = item /\ queue' = queue /\ rpc' = rpc /\ rcred' = rcred /\ repoch' = repoch
    BY <1>0 DEF ReleaseQueuedJobs, TypeLoops, Ending, loopVars, refVars, schedVars
<1>2. \A k \in Loops : k # l => lpc'[k] = lpc[k]
    BY <1>0, <1>1 DEF TypeLoops
<1>3. QueueDistinct' /\ WorkersDistinct' /\ TakenNotQueued' /\ MarkedNotSent'
    BY <1>0, <1>1, <1>2
       DEF QueueDistinct, WorkersDistinct, TakenNotQueued, MarkedNotSent, Marked, Ending
<1>4. CASE \E c \in Left(l) : FinishJob(c, "none")
    <2>1. PICK c \in Left(l) : Finishes(c, "none")
        BY <1>4, FinishEffect DEF Left
    <2>2. /\ c \in Creds /\ job[c] # NoJob /\ job[c].loop = l /\ ~job[c].running
          /\ job'[c] = NoJob /\ \A x \in Creds : x # c => job'[x] = job[x]
        BY <1>0, <2>1 DEF Left, Finishes, TypeManager
    <2>3. MarkedValid'
        BY <1>0, <1>1, <1>2, <2>2 DEF MarkedValid, Marked, Ending, Placed
    <2>4. QueueValid'
        <3> SUFFICES ASSUME NEW k \in Loops, lpc'[k] \notin Ending, NEW i \in 1..Len(queue[k])
                     PROVE  /\ IsJob(queue[k][i].cred, k, queue[k][i].epoch)'
                            /\ ~job'[queue[k][i].cred].running
            BY <1>1 DEF QueueValid
        <3>1. /\ IsJob(queue[k][i].cred, k, queue[k][i].epoch) /\ k # l
              /\ ~job[queue[k][i].cred].running
            BY <1>0, <1>1, <1>2 DEF QueueValid
        <3>2. queue[k][i].cred \in Creds
            BY <1>0, QueuedType
        <3> QED BY <1>1, <2>2, <3>1, <3>2 DEF IsJob
    <2>5. BusyValid'
        BY <1>0, <1>1, <1>2, <2>2, RefreshAssumption DEF BusyValid, IsJob, Placed, Refreshers
    <2>6. RunningIsRegistered'
        BY <1>0, <1>1, <2>2 DEF RunningIsRegistered, IsJob, Placed, Busy, Running, Refreshers
    <2>7. lpc' = lpc
        BY <1>4, <2>2 DEF ReleaseQueuedJobs, loopVars
    <2>8. NoPhantomJob'
        <3> SUFFICES ASSUME NEW x \in Creds, job'[x] # NoJob PROVE JobOwner(x)'
            BY DEF NoPhantomJob
        <3>1. job'[x] = job[x] /\ JobOwner(x)
            BY <1>0, <2>2 DEF NoPhantomJob
        <3> QED BY <1>1, <2>7, <3>1 DEF JobOwner
    <2> QED BY <1>3, <2>3, <2>4, <2>5, <2>6, <2>8 DEF TokenInv, TokensValid, TokensUnique
<1>5. CASE Left(l) = {}
    <2>1. job' = job /\ \A x \in Creds : job[x] # NoJob /\ job[x].loop = l => job[x].running
        BY <1>5 DEF ReleaseQueuedJobs, Left, mgrVars
    <2>2. MarkedValid' /\ QueueValid' /\ BusyValid'
        BY <1>0, <1>1, <1>2, <2>1, RefreshAssumption
           DEF MarkedValid, QueueValid, BusyValid, IsJob, Marked, Ending
    <2>3. RunningIsRegistered'
        BY <1>0, <1>1, <2>1 DEF RunningIsRegistered, IsJob
    <2>4. NoPhantomJob'
        <3> SUFFICES ASSUME NEW x \in Creds, job[x] # NoJob PROVE JobOwner(x)'
            BY <2>1 DEF NoPhantomJob
        <3>1. job[x].loop \in Loops /\ JobOwner(x)
            BY <1>0 DEF NoPhantomJob, TypeManager, Jobs
        <3> QED BY <1>1, <1>2, <2>1, <3>1 DEF JobOwner, Ending
    <2> QED BY <1>3, <2>2, <2>3, <2>4 DEF TokenInv, TokensValid, TokensUnique
<1> QED BY <1>4, <1>5 DEF ReleaseQueuedJobs

\* The token goes from the head of the queue to a worker.
LEMMA TakeKeeps == ASSUME JobInv, NEW w \in Workers, Take(w) PROVE TokenInv'
<1>0. /\ TypeManager /\ TypeSchedule /\ TypeLoops /\ TypeRefreshes /\ Placed
      /\ MarkedValid /\ QueueValid /\ BusyValid /\ RunningIsRegistered /\ NoPhantomJob
      /\ QueueDistinct /\ WorkersDistinct /\ TakenNotQueued /\ MarkedNotSent
    BY DEF JobInv, RefreshTypeOK, TokensValid, TokensUnique
<1> DEFINE l == LoopOf[w]  first == queue[l][1]
<1>1. /\ l \in Loops /\ w \in Refreshers /\ rpc[w] = "idle" /\ rpc'[w] = "begin"
      /\ rcred'[w] = first.cred /\ repoch'[w] = first.epoch
      /\ \A v \in Workers : v # w =>
            rpc'[v] = rpc[v] /\ rcred'[v] = rcred[v] /\ repoch'[v] = repoch[v]
      /\ job' = job /\ lpc' = lpc /\ item' = item
    <2>1. Takes(w) /\ w \in Refreshers
        BY TakeEffect DEF Refreshers
    <2>2. Head(queue[l]) = first /\ l \in Loops
        BY <2>1 DEF Takes
    <2> QED BY <1>0, <2>1, <2>2 DEF Take, TypeRefreshes, Refreshers, mgrVars, loopVars
<1>2. /\ \A k \in Loops : k # l => queue'[k] = queue[k]
      /\ Len(queue[l]) \in Nat \ {0} /\ Len(queue'[l]) = Len(queue[l]) - 1
      /\ \A i \in 1..Len(queue'[l]) : queue'[l][i] = queue[l][i + 1]
      /\ first \in [cred : Creds, epoch : Nat]
    <2>1. Takes(w)
        BY TakeEffect
    <2> QED BY <2>1 DEF Takes
<1>3. 1 \in 1..Len(queue[l]) /\ \A i \in 1..Len(queue'[l]) : i + 1 \in 2..Len(queue[l])
    BY <1>2
<1>4. \A i \in 2..Len(queue[l]) : queue[l][i].cred # first.cred
    BY <1>0, <1>1, <1>2, <1>3 DEF QueueDistinct
<1> HIDE DEF l, first
<1>5. MarkedValid'
    BY <1>0, <1>1 DEF MarkedValid
<1>6. QueueValid'
    <2> SUFFICES ASSUME NEW k \in Loops, lpc[k] \notin Ending, NEW i \in 1..Len(queue'[k])
                 PROVE  /\ IsJob(queue'[k][i].cred, k, queue'[k][i].epoch)
                        /\ ~job[queue'[k][i].cred].running
        BY <1>1 DEF QueueValid, IsJob
    <2>1. CASE k # l
        BY <1>0, <1>2, <2>1 DEF QueueValid
    <2>2. CASE k = l
        <3>1. i + 1 \in 1..Len(queue[l]) /\ queue'[l][i] = queue[l][i + 1]
            BY <1>2, <1>3, <2>2
        <3> QED BY <1>0, <2>2, <3>1 DEF QueueValid
    <2> QED BY <2>1, <2>2
<1>7. BusyValid'
    <2>1. lpc[l] \notin Ending => IsJob(first.cred, l, first.epoch)
        BY <1>0, <1>1, <1>3 DEF QueueValid, first
    <2> QED BY <1>0, <1>1, <2>1 DEF BusyValid, IsJob, l
<1>8. QueueDistinct'
    <2> SUFFICES ASSUME NEW k \in Loops, NEW i \in 1..Len(queue'[k]),
                        NEW m \in 1..Len(queue'[k]), queue'[k][i].cred = queue'[k][m].cred
                 PROVE  i = m
        BY DEF QueueDistinct
    <2>1. CASE k # l
        BY <1>0, <1>2, <2>1 DEF QueueDistinct
    <2>2. CASE k = l
        <3>1. /\ i + 1 \in 1..Len(queue[l]) /\ queue'[l][i] = queue[l][i + 1]
              /\ m + 1 \in 1..Len(queue[l]) /\ queue'[l][m] = queue[l][m + 1]
            BY <1>2, <1>3, <2>2
        <3>2. i + 1 = m + 1
            BY <1>0, <1>1, <2>2, <3>1 DEF QueueDistinct
        <3> QED BY <3>2
    <2> QED BY <2>1, <2>2
<1>9. \A v \in Workers : rpc[v] \in Busy /\ LoopOf[v] = l => v # w /\ rcred[v] # first.cred
    BY <1>0, <1>1, <1>3 DEF TakenNotQueued, first, Busy, Running
<1>10. WorkersDistinct'
    BY <1>0, <1>1, <1>9 DEF WorkersDistinct, l
<1>11. TakenNotQueued'
    <2> SUFFICES ASSUME NEW v \in Workers, rpc'[v] \in Busy,
                        NEW i \in 1..Len(queue'[LoopOf[v]])
                 PROVE  queue'[LoopOf[v]][i].cred # rcred'[v]
        BY DEF TakenNotQueued
    <2>1. CASE LoopOf[v] # l
        BY <1>0, <1>1, <1>2, <2>1, RefreshAssumption DEF TakenNotQueued, l
    <2>2. CASE LoopOf[v] = l
        <3>1. i + 1 \in 1..Len(queue[l]) /\ i + 1 \in 2..Len(queue[l])
              /\ queue'[l][i] = queue[l][i + 1]
            BY <1>2, <1>3, <2>2
        <3>2. CASE v = w
            BY <1>1, <1>4, <2>2, <3>1, <3>2
        <3>3. CASE v # w
            BY <1>0, <1>1, <2>2, <3>1, <3>3 DEF TakenNotQueued
        <3> QED BY <3>2, <3>3
    <2> QED BY <2>1, <2>2
<1>12. MarkedNotSent'
    <2> SUFFICES ASSUME NEW k \in Loops, lpc[k] \in Marked
                 PROVE  /\ \A i \in 1..Len(queue'[k]) : queue'[k][i].cred # item[k]
                        /\ \A v \in Workers :
                              rpc'[v] \in Busy /\ LoopOf[v] = k => rcred'[v] # item[k]
        BY <1>1 DEF MarkedNotSent
    <2>1. /\ \A i \in 1..Len(queue[k]) : queue[k][i].cred # item[k]
          /\ \A v \in Workers : rpc[v] \in Busy /\ LoopOf[v] = k => rcred[v] # item[k]
        BY <1>0 DEF MarkedNotSent
    <2>2. \A i \in 1..Len(queue'[k]) : queue'[k][i].cred # item[k]
        <3>1. CASE k = l
            <4>1. \A i \in 1..Len(queue'[l]) :
                    i + 1 \in 1..Len(queue[l]) /\ queue'[l][i] = queue[l][i + 1]
                BY <1>2, <1>3
            <4> QED BY <2>1, <3>1, <4>1
        <3>2. CASE k # l
            BY <1>2, <2>1, <3>2
        <3> QED BY <3>1, <3>2
    <2>3. k = l => first.cred # item[k]
        BY <1>3, <2>1 DEF first
    <2> QED BY <1>1, <2>1, <2>2, <2>3 DEF l
<1>13. RunningIsRegistered'
    BY <1>0, <1>1 DEF RunningIsRegistered, IsJob
<1>14. NoPhantomJob'
    <2> SUFFICES ASSUME NEW x \in Creds, job[x] # NoJob PROVE JobOwner(x)'
        BY <1>1 DEF NoPhantomJob
    <2>1. job[x].loop \in Loops /\ JobOwner(x)
        BY <1>0 DEF NoPhantomJob, TypeManager, Jobs
    <2>2. CASE item[job[x].loop] = x /\ lpc[job[x].loop] \in {"marked", "unsent"}
        BY <1>1, <2>2 DEF JobOwner
    <2>3. CASE \E v \in Workers :
                /\ LoopOf[v] = job[x].loop /\ rcred[v] = x /\ repoch[v] = job[x].epoch
                /\ rpc[v] \in {"begin", "refresh", "call", "tell", "finish"}
        BY <1>1, <2>3 DEF JobOwner
    <2>4. CASE /\ \E i \in 1..Len(queue[job[x].loop]) :
                    queue[job[x].loop][i] = [cred |-> x, epoch |-> job[x].epoch]
               /\ lpc[job[x].loop] # "gone" /\ ~job[x].running
        <3>1. PICK i \in 1..Len(queue[job[x].loop]) :
                queue[job[x].loop][i] = [cred |-> x, epoch |-> job[x].epoch]
            BY <2>4
        <3>2. CASE job[x].loop # l
            BY <1>1, <1>2, <2>1, <2>4, <3>2 DEF JobOwner
        <3>3. CASE job[x].loop = l /\ i = 1
            <4>1. first.cred = x /\ first.epoch = job[x].epoch
                BY <3>1, <3>3 DEF first
            <4> QED BY <1>1, <3>3, <4>1 DEF JobOwner, l
        <3>4. CASE job[x].loop = l /\ i # 1
            <4>1. i - 1 \in 1..Len(queue'[l]) /\ queue'[l][i - 1] = queue[l][i]
                BY <1>2, <3>4
            <4> QED BY <1>1, <2>4, <3>1, <3>4, <4>1 DEF JobOwner
        <3> QED BY <3>2, <3>3, <3>4
    <2> QED BY <2>1, <2>2, <2>3, <2>4 DEF JobOwner
<1> QED BY <1>5, <1>6, <1>7, <1>8, <1>10, <1>11, <1>12, <1>13, <1>14
        DEF TokenInv, TokensValid, TokensUnique

\* A worker starts the registered job, to which no other token belongs, or
\* gives it up.
LEMMA BeginKeeps == ASSUME JobInv, NEW w \in Workers, BeginJob(w) PROVE TokenInv'
<1>0. /\ TypeManager /\ TypeSchedule /\ TypeLoops /\ TypeRefreshes /\ Placed
      /\ MarkedValid /\ QueueValid /\ BusyValid /\ RunningIsRegistered /\ NoPhantomJob
      /\ QueueDistinct /\ WorkersDistinct /\ TakenNotQueued /\ MarkedNotSent
    BY DEF JobInv, RefreshTypeOK, TokensValid, TokensUnique
<1>1. Begins(w)
    BY BeginEffect
<1>2. CASE job' = job /\ rpc' = [rpc EXCEPT ![w] = "finish"]
    <2>1. Calm
        BY <1>0, <1>1, <1>2
           DEF Begins, Calm, TypeRefreshes, Refreshers, Busy, Running, loopVars, schedVars
    <2> QED BY <2>1, CalmKeeps
<1>3. CASE MayBegin(w) /\ rpc' = [rpc EXCEPT ![w] = "refresh"] /\ job'[rcred[w]].running
           /\ job'[rcred[w]] \in Jobs /\ job'[rcred[w]].loop = job[rcred[w]].loop
           /\ job'[rcred[w]].epoch = job[rcred[w]].epoch
           /\ \A x \in Creds : x # rcred[w] => job'[x] = job[x]
    <2> DEFINE c == rcred[w]  l == LoopOf[w]
    <2>1. /\ c \in Creds /\ l \in Loops /\ IsJob(c, l, repoch[w])
          /\ rpc[w] \in Busy /\ rpc'[w] = "refresh"
          /\ \A v \in Workers : v # w => rpc'[v] = rpc[v]
          /\ rcred' = rcred /\ repoch' = repoch /\ lpc' = lpc /\ item' = item /\ queue' = queue
        BY <1>0, <1>1, <1>3, RefreshAssumption
           DEF Begins, MayBegin, TypeRefreshes, Refreshers, Busy, loopVars, schedVars
    <2>2. /\ job'[c] # NoJob /\ job'[c].running /\ IsJob(c, l, repoch[w])'
          /\ job'[c].loop = job[c].loop /\ job'[c].epoch = job[c].epoch
          /\ \A x \in Creds : x # c => job'[x] = job[x]
        BY <1>3, <2>1, RefreshAssumption DEF IsJob
    <2> HIDE DEF c, l
    <2>3. MarkedValid'
        BY <1>0, <2>1, <2>2 DEF MarkedValid, MarkedNotSent, Marked, IsJob, Placed, c, l
    <2>4. QueueValid'
        <3> SUFFICES ASSUME NEW k \in Loops, lpc[k] \notin Ending, NEW i \in 1..Len(queue[k])
                     PROVE  /\ IsJob(queue[k][i].cred, k, queue[k][i].epoch)'
                            /\ ~job'[queue[k][i].cred].running
            BY <2>1 DEF QueueValid
        <3>1. IsJob(queue[k][i].cred, k, queue[k][i].epoch) /\ ~job[queue[k][i].cred].running
            BY <1>0 DEF QueueValid
        <3>2. queue[k][i].cred \in Creds
            BY <1>0, QueuedType
        <3>3. queue[k][i].cred # c
            BY <1>0, <2>1, <3>1 DEF TakenNotQueued, IsJob, c, l
        <3> QED BY <2>1, <2>2, <3>1, <3>2, <3>3 DEF IsJob
    <2>5. BusyValid'
        BY <1>0, <2>1, <2>2, RefreshAssumption
           DEF BusyValid, IsJob, Placed, Refreshers, Busy, Running, c, l
    <2>6. QueueDistinct' /\ WorkersDistinct' /\ TakenNotQueued' /\ MarkedNotSent'
        BY <1>0, <2>1 DEF QueueDistinct, WorkersDistinct, TakenNotQueued, MarkedNotSent
    <2>7. RunningIsRegistered'
        BY <1>0, <2>1, <2>2
           DEF RunningIsRegistered, IsJob, Placed, Refreshers, Busy, Running, c, l
    <2>8. NoPhantomJob'
        <3> SUFFICES ASSUME NEW x \in Creds, job'[x] # NoJob PROVE JobOwner(x)'
            BY DEF NoPhantomJob
        <3>1. CASE x = c
            BY <2>1, <2>2, <3>1 DEF JobOwner, IsJob, c, l
        <3>2. CASE x # c
            <4>1. job'[x] = job[x] /\ JobOwner(x)
                BY <1>0, <2>2, <3>2 DEF NoPhantomJob
            <4> QED BY <2>1, <3>2, <4>1 DEF JobOwner, c
        <3> QED BY <3>1, <3>2
    <2> QED BY <2>3, <2>4, <2>5, <2>6, <2>7, <2>8 DEF TokenInv, TokensValid, TokensUnique
<1> QED BY <1>1, <1>2, <1>3 DEF Begins

\* A worker finishes the job it holds the only token of, or drops a token that
\* stands for none.
LEMMA WorkerFinishKeeps ==
    ASSUME JobInv, NEW w \in Workers, WorkerFinish(w) PROVE TokenInv'
<1>0. /\ TypeManager /\ TypeSchedule /\ TypeLoops /\ TypeRefreshes /\ Placed
      /\ MarkedValid /\ QueueValid /\ BusyValid /\ RunningIsRegistered /\ NoPhantomJob
      /\ QueueDistinct /\ WorkersDistinct /\ TakenNotQueued /\ MarkedNotSent
    BY DEF JobInv, RefreshTypeOK, TokensValid, TokensUnique
<1> DEFINE c == rcred[w]  l == LoopOf[w]
<1>1. /\ c \in Creds /\ l \in Loops /\ rpc[w] = "finish" /\ rpc'[w] = "idle"
      /\ \A v \in Workers : v # w =>
            rpc'[v] = rpc[v] /\ rcred'[v] = rcred[v] /\ repoch'[v] = repoch[v]
      /\ lpc' = lpc /\ item' = item /\ queue' = queue
    BY <1>0, RefreshAssumption
       DEF WorkerFinish, Placed, TypeRefreshes, Refreshers, Busy, loopVars
<1> HIDE DEF c, l
<1>2. QueueDistinct' /\ WorkersDistinct' /\ TakenNotQueued' /\ MarkedNotSent'
    BY <1>0, <1>1, RefreshAssumption
       DEF QueueDistinct, WorkersDistinct, TakenNotQueued, MarkedNotSent, Busy, Running
<1>3. CASE IsJob(c, l, repoch[w])
    <2>1. /\ job[c] # NoJob /\ job[c].loop = l /\ job'[c] = NoJob
          /\ \A x \in Creds : x # c => job'[x] = job[x]
        <3>1. Finishes(c, "none")
            BY <1>1, <1>3, FinishEffect DEF WorkerFinish, c, l
        <3> QED BY <1>0, <1>1, <1>3, <3>1 DEF Finishes, IsJob, TypeManager
    <2>2. MarkedValid'
        <3>1. \A k \in Loops : lpc[k] \in Marked => item[k] # c
            BY <1>0, <1>1, <2>1 DEF MarkedValid, MarkedNotSent, Busy, c, l
        <3> QED BY <1>0, <1>1, <2>1, <3>1 DEF MarkedValid, Placed
    <2>3. QueueValid'
        <3> SUFFICES ASSUME NEW k \in Loops, lpc[k] \notin Ending, NEW i \in 1..Len(queue[k])
                     PROVE  /\ IsJob(queue[k][i].cred, k, queue[k][i].epoch)'
                            /\ ~job'[queue[k][i].cred].running
            BY <1>1 DEF QueueValid
        <3>1. IsJob(queue[k][i].cred, k, queue[k][i].epoch) /\ ~job[queue[k][i].cred].running
            BY <1>0 DEF QueueValid
        <3>2. queue[k][i].cred \in Creds
            BY <1>0, QueuedType
        <3>3. queue[k][i].cred # c
            <4>1. CASE k = LoopOf[w]
                BY <1>0, <1>1, <4>1 DEF TakenNotQueued, Busy, c
            <4>2. CASE k # LoopOf[w]
                BY <2>1, <3>1, <4>2 DEF IsJob, l
            <4> QED BY <4>1, <4>2
        <3> QED BY <1>1, <2>1, <3>1, <3>2, <3>3 DEF IsJob
    <2>4. BusyValid'
        <3> SUFFICES ASSUME NEW v \in Workers, rpc'[v] \in Busy, lpc[LoopOf[v]] \notin Ending
                     PROVE  IsJob(rcred[v], LoopOf[v], repoch[v])' 
            BY <1>1 DEF BusyValid
        <3>1. v # w /\ rpc[v] \in Busy /\ IsJob(rcred[v], LoopOf[v], repoch[v])
              /\ rcred[v] \in Creds
            BY <1>0, <1>1 DEF BusyValid, Busy, Running, Placed, Refreshers
        <3>2. rcred[v] # c
            BY <1>0, <1>1, <2>1, <3>1 DEF WorkersDistinct, IsJob, Busy, c, l
        <3> QED BY <1>1, <2>1, <3>1, <3>2 DEF IsJob
    <2>5. RunningIsRegistered'
        <3> SUFFICES ASSUME NEW v \in Workers, rpc'[v] \in Running
                     PROVE  IsJob(rcred[v], LoopOf[v], repoch[v])' /\ job'[rcred'[v]].running
            BY DEF RunningIsRegistered, Running
        <3>1. v # w /\ rpc[v] \in Running /\ rcred[v] \in Creds
              /\ IsJob(rcred[v], LoopOf[v], repoch[v]) /\ job[rcred[v]].running
            BY <1>0, <1>1 DEF RunningIsRegistered, Busy, Running, Placed, Refreshers
        <3>2. rcred[v] # c
            BY <1>0, <1>1, <2>1, <3>1 DEF WorkersDistinct, IsJob, Busy, c, l
        <3> QED BY <1>1, <2>1, <3>1, <3>2 DEF IsJob
    <2>6. NoPhantomJob'
        <3> SUFFICES ASSUME NEW x \in Creds, job'[x] # NoJob PROVE JobOwner(x)'
            BY DEF NoPhantomJob
        <3>1. x # c /\ job'[x] = job[x] /\ JobOwner(x)
            BY <1>0, <2>1 DEF NoPhantomJob
        <3> QED BY <1>1, <3>1 DEF JobOwner, c
    <2> QED BY <1>2, <2>2, <2>3, <2>4, <2>5, <2>6 DEF TokenInv, TokensValid, TokensUnique
<1>4. CASE ~ IsJob(c, l, repoch[w])
    <2>1. job' = job
        BY <1>4 DEF WorkerFinish, c, l
    <2>2. MarkedValid' /\ QueueValid' /\ BusyValid'
        BY <1>0, <1>1, <2>1, RefreshAssumption
           DEF MarkedValid, QueueValid, BusyValid, IsJob, Busy, Running
    <2>3. RunningIsRegistered'
        BY <1>0, <1>1, <2>1 DEF RunningIsRegistered, IsJob
    <2>4. NoPhantomJob'
        <3> SUFFICES ASSUME NEW x \in Creds, job[x] # NoJob PROVE JobOwner(x)'
            BY <2>1 DEF NoPhantomJob
        <3>1. JobOwner(x)
            BY <1>0 DEF NoPhantomJob
        <3>2. ~(l = job[x].loop /\ c = x /\ repoch[w] = job[x].epoch)
            BY <1>4 DEF IsJob
        <3> QED BY <1>1, <2>1, <3>1, <3>2 DEF JobOwner, c, l
    <2> QED BY <1>2, <2>2, <2>3, <2>4 DEF TokenInv, TokensValid, TokensUnique
<1> QED BY <1>3, <1>4

\* Only the eight job events touch the tokens.
LEMMA CalmStep == JobInv /\ RefreshNext => (Calm \/ JobEvent)
<1> SUFFICES ASSUME JobInv, RefreshNext PROVE (Calm \/ JobEvent)
    OBVIOUS
<1>0. /\ TypeManager /\ TypeSchedule /\ TypeLoops /\ TypeRefreshes /\ Placed
      /\ TokensValid /\ TokensUnique /\ RunningIsRegistered /\ MarkerHasJob /\ NoPhantomJob
    BY DEF JobInv, RefreshTypeOK
<1> USE <1>0, RefreshAssumption DEF Calm, TypeLoops, TypeRefreshes, Refreshers, Marked,
    Ending, Running, Busy, mgrVars, schedVars, loopVars, refVars
<1>1. ASSUME NEW l \in Loops, Start(l) PROVE (Calm \/ JobEvent)
    BY <1>1 DEF Start
<1>2. ASSUME Stop PROVE (Calm \/ JobEvent)
    BY <1>2 DEF Stop
<1>3. ASSUME NEW l \in Loops, StartSwap(l) PROVE (Calm \/ JobEvent)
    BY <1>3 DEF StartSwap
<1>4. ASSUME NEW l \in Loops, RebuildRead(l) PROVE (Calm \/ JobEvent)
    BY <1>4, NextCheckType DEF RebuildRead
<1>5. ASSUME NEW l \in Loops, RebuildWrite(l) PROVE (Calm \/ JobEvent)
    BY <1>5 DEF RebuildWrite
<1>6. ASSUME NEW l \in Loops, PopDue(l) PROVE (Calm \/ JobEvent)
    BY <1>6 DEF PopDue
<1>7. ASSUME NEW l \in Loops, Awake(l) PROVE (Calm \/ JobEvent)
    BY <1>7 DEF Awake, Drain
<1>8. ASSUME NEW l \in Loops, DueOver(l) PROVE (Calm \/ JobEvent)
    BY <1>8 DEF DueOver, Drain
<1>9. ASSUME NEW l \in Loops, NEW c \in Creds, Decide(l, c) PROVE (Calm \/ JobEvent)
    <2>1. Decides(l, c)
        BY <1>9, DecideEffect
    <2> QED BY <2>1 DEF Decides
<1>10. ASSUME NEW l \in Loops, Drop(l) PROVE (Calm \/ JobEvent)
    BY <1>10 DEF Drop, Onward
<1>11. ASSUME NEW l \in Loops, Keep(l) PROVE (Calm \/ JobEvent)
    BY <1>11 DEF Keep, Onward
<1>12. ASSUME NEW l \in Loops, Mark(l) PROVE (Calm \/ JobEvent)
    BY <1>12 DEF JobEvent
<1>13. ASSUME NEW l \in Loops, NotMarked(l) PROVE (Calm \/ JobEvent)
    BY <1>13 DEF NotMarked
<1>14. ASSUME NEW l \in Loops, Send(l) PROVE (Calm \/ JobEvent)
    BY <1>14 DEF JobEvent
<1>15. ASSUME NEW l \in Loops, Unsent(l) PROVE (Calm \/ JobEvent)
    BY <1>15 DEF JobEvent
<1>16. ASSUME NEW l \in Loops, Exit(l) PROVE (Calm \/ JobEvent)
    BY <1>16 DEF JobEvent
<1>17. ASSUME NEW l \in Loops, ReleaseQueuedJobs(l) PROVE (Calm \/ JobEvent)
    BY <1>17 DEF JobEvent
<1>18. ASSUME NEW w \in Workers, Take(w) PROVE (Calm \/ JobEvent)
    BY <1>18 DEF JobEvent
<1>19. ASSUME NEW w \in Workers, WorkerExit(w) PROVE (Calm \/ JobEvent)
    BY <1>19 DEF WorkerExit
<1>20. ASSUME NEW w \in Workers, BeginJob(w) PROVE (Calm \/ JobEvent)
    BY <1>20 DEF JobEvent
<1>21. ASSUME NEW w \in Workers, WorkerFinish(w) PROVE (Calm \/ JobEvent)
    BY <1>21 DEF JobEvent
<1>22. ASSUME NEW r \in Refreshers, RefreshRead(r) PROVE (Calm \/ JobEvent)
    BY <1>22, DoneEffect DEF RefreshRead, Returns
<1>23. ASSUME NEW r \in Refreshers, Answered(r) PROVE (Calm \/ JobEvent)
    <2>1. Answers(r)
        BY <1>23, AnsweredEffect
    <2> QED BY <2>1 DEF Answers
<1>24. ASSUME NEW r \in Refreshers, RefreshTells(r) PROVE (Calm \/ JobEvent)
    <2>1. Tells(r) /\ Returns(r) /\ rpc[r] = "tell"
          /\ UNCHANGED <<mgrVars, queue, loopVars, cancelled, changes>>
        BY <1>24, TellEffect, DoneEffect DEF RefreshTells
    <2> QED BY <2>1 DEF Tells, Returns, Nothing
<1>25. ASSUME NEW q \in Requests, NEW c \in Creds, Rejected(q, c) PROVE (Calm \/ JobEvent)
    BY <1>25 DEF Rejected
<1>26. ASSUME NEW u \in Callers, NEW c \in Creds, Changed(u, c) PROVE (Calm \/ JobEvent)
    <2>1. \E record \in CredRecords : ChangedTo(u, c, record)
        BY <1>26, ChangedEffect
    <2> QED BY <2>1 DEF ChangedTo
<1>27. ASSUME NEW u \in Callers, CallerTells(u) PROVE (Calm \/ JobEvent)
    <2>1. Tells(u) /\ UNCHANGED <<mgrVars, queue, loopVars, refVars, cancelled, changes>>
        BY <1>27, TellEffect DEF CallerTells
    <2> QED BY <2>1 DEF Tells, Nothing
<1>28. ASSUME NEW c \in Creds, Expire(c) \/ HoldEnds(c) PROVE (Calm \/ JobEvent)
    <2>1. Ticks(c)
        BY <1>28, ClockEffect
    <2> QED BY <2>1 DEF Ticks
<1>29. ASSUME NEW l \in Loops, NEW c \in Creds, Ripen(l, c) PROVE (Calm \/ JobEvent)
    BY <1>29 DEF Ripen
<1> QED BY <1>1, <1>2, <1>3, <1>4, <1>5, <1>6, <1>7, <1>8, <1>9, <1>10, <1>11, <1>12,
    <1>13, <1>14, <1>15, <1>16, <1>17, <1>18, <1>19, <1>20, <1>21, <1>22, <1>23, <1>24,
    <1>25, <1>26, <1>27, <1>28, <1>29 DEF Answered, Changed, RefreshNext, LoopStep,
    WorkerStep, RefreshStep, Refreshers

\* The jobs and their tokens stay consistent.
LEMMA TokenInvNext == ASSUME JobInv, RefreshNext PROVE TokenInv'
<1>1. CASE Calm
    BY <1>1, CalmKeeps
<1>2. CASE JobEvent
    <2>1. ASSUME NEW l \in Loops,
                 Mark(l) \/ Send(l) \/ Unsent(l) \/ Exit(l) \/ ReleaseQueuedJobs(l)
          PROVE  TokenInv'
        BY <2>1, MarkKeeps, SendKeeps, UnsentKeeps, ExitKeeps, ReleaseKeeps
    <2>2. ASSUME NEW w \in Workers, Take(w) \/ BeginJob(w) \/ WorkerFinish(w)
          PROVE  TokenInv'
        BY <2>2, TakeKeeps, BeginKeeps, WorkerFinishKeeps
    <2> QED BY <1>2, <2>1, <2>2 DEF JobEvent
<1> QED BY <1>1, <1>2, CalmStep

-----------------------------------------------------------------------------
(* The invariant and the theorems.                                          *)

\* Nothing is registered at first.
LEMMA JobInvInit == RefreshInit => JobInv
<1> SUFFICES ASSUME RefreshInit PROVE JobInv
    OBVIOUS
<1> USE RefreshAssumption DEF RefreshInit
<1>1. \A c \in Creds : cred[c] \in CredRecords /\ cred[c].hold = "none"
    <2> TAKE c \in Creds
    <2>1. cred[c] \in [there : BOOLEAN, epoch : {1}, need : {"now", "later"}, hold : {"none"}]
        OBVIOUS
    <2> QED BY <2>1 DEF CredRecords
<1>2. cred \in [Creds -> CredRecords]
    BY <1>1
<1>3. TypeManager
    BY <1>2 DEF TypeManager
<1>4. TypeSchedule
    <2>1. \A l \in Loops : queue[l] = <<>> /\ Len(queue[l]) = 0
        OBVIOUS
    <2>2. queue \in [Loops -> Seq([cred : Creds, epoch : Nat])]
        OBVIOUS
    <2> QED BY <2>1, <2>2 DEF TypeSchedule, Times
<1>5. TypeLoops
    BY DEF TypeLoops, Times
<1>6. TypeRefreshes
    BY DEF TypeRefreshes, Nothing
<1>7. Placed
    BY DEF Placed, Marked, Ending, Busy, Running, Nothing, Refreshers
<1>8. TokensValid /\ TokensUnique
    <2>1. \A l \in Loops : lpc[l] \notin Marked /\ 1..Len(queue[l]) = {}
        BY DEF Marked
    <2>2. \A w \in Workers : rpc[w] \notin Busy
        BY DEF Busy, Running, Refreshers
    <2> QED BY <2>1, <2>2
            DEF TokensValid, MarkedValid, QueueValid, BusyValid, TokensUnique, QueueDistinct,
                WorkersDistinct, TakenNotQueued, MarkedNotSent
<1>9. RunningIsRegistered
    BY DEF RunningIsRegistered, Refreshers
<1>10. MarkerHasJob
    BY <1>1 DEF MarkerHasJob
<1>11. NoPhantomJob
    BY DEF NoPhantomJob
<1> QED BY <1>3, <1>4, <1>5, <1>6, <1>7, <1>8, <1>9, <1>10, <1>11 DEF JobInv, RefreshTypeOK

\* Every step keeps the invariant.
LEMMA JobInvNext == JobInv /\ [RefreshNext]_refreshVars => JobInv'
<1> SUFFICES ASSUME JobInv, [RefreshNext]_refreshVars PROVE JobInv'
    OBVIOUS
<1>1. CASE RefreshNext
    BY <1>1, TypeManagerNext, TypeScheduleNext, TypeLoopsNext, TypeRefreshesNext, PlacedNext,
       MarkerHasJobNext, TokenInvNext DEF JobInv, RefreshTypeOK, TokenInv
<1>2. CASE UNCHANGED refreshVars
    <2> USE <1>2 DEF refreshVars, mgrVars, schedVars, loopVars, refVars
    <2>1. RefreshTypeOK'
        BY DEF JobInv, RefreshTypeOK, TypeManager, TypeSchedule, TypeLoops, TypeRefreshes
    <2>2. Placed'
        BY DEF JobInv, Placed
    <2>3. TokenInv'
        BY CalmKeeps DEF Calm
    <2>4. MarkerHasJob'
        BY DEF JobInv, MarkerHasJob
    <2> QED BY <2>1, <2>2, <2>3, <2>4 DEF JobInv, TokenInv
<1> QED BY <1>1, <1>2

\* The invariant holds in every state the refresh machinery reaches.
THEOREM JobInvAlways == RefreshSpec => []JobInv
BY JobInvInit, JobInvNext, PTL DEF RefreshSpec

\* The registered jobs are what is going on, however loops are started, stopped
\* and replaced: every refresh a worker carries out is registered, every pending
\* marker belongs to a registered job of the same registration, and no channel
\* holds more than its capacity (markRefreshPending, beginRefreshJob,
\* finishRefreshJob, handleDueAuth).
THEOREM JobsAreConsistent == RefreshSpec => []JobsConsistent
<1>1. JobInv => JobsConsistent
    BY DEF JobInv, JobsConsistent
<1> QED BY <1>1, JobInvAlways, PTL

\* Every registered job has somebody who will finish it, so none keeps its
\* credential from being refreshed for ever (handleDueAuth, releaseQueuedJobs,
\* worker).
THEOREM JobsAreOwned == RefreshSpec => []NoPhantomJob
<1>1. JobInv => NoPhantomJob
    BY DEF JobInv
<1> QED BY <1>1, JobInvAlways, PTL

\* A step that ends a job leaves a time to retry alone.
LEMMA EndKeepsRetry ==
    ASSUME JobInv, RefreshNext, NEW c \in Creds, job[c] # NoJob, job'[c] = NoJob,
           cred[c].hold = "backoff"
    PROVE  cred'[c].hold = "backoff"
<1>0. TypeManager /\ Placed
    BY DEF JobInv, RefreshTypeOK
<1>1. ASSUME NEW x \in Creds, NEW retry, Finishes(x, retry) PROVE cred'[c].hold = "backoff"
    BY <1>0, <1>1 DEF Finishes, TypeManager
<1>2. JobEvent
    BY CalmStep DEF Calm
<1>3. ASSUME NEW l \in Loops, Mark(l) \/ Send(l) \/ Exit(l) PROVE FALSE
    <2>1. CASE Mark(l)
        <3>1. Marks(l)
            BY <2>1, MarkEffect
        <3> QED BY <1>0, <3>1, RefreshAssumption DEF Marks, TypeManager
    <2> QED BY <1>3, <2>1 DEF Send, Exit, mgrVars
<1>4. ASSUME NEW w \in Workers, Take(w) \/ BeginJob(w) PROVE FALSE
    <2>1. CASE BeginJob(w)
        <3>1. Begins(w)
            BY <2>1, BeginEffect
        <3> QED BY <3>1, RefreshAssumption DEF Begins
    <2> QED BY <1>4, <2>1 DEF Take, mgrVars
<1>5. ASSUME NEW l \in Loops, Unsent(l) PROVE cred'[c].hold = "backoff"
    BY <1>0, <1>1, <1>5, FinishEffect DEF Unsent, Placed, Marked
<1>6. ASSUME NEW l \in Loops, ReleaseQueuedJobs(l) PROVE cred'[c].hold = "backoff"
    <2>1. PICK x \in Left(l) : FinishJob(x, "none")
        BY <1>6 DEF ReleaseQueuedJobs, mgrVars
    <2> QED BY <1>1, <2>1, FinishEffect DEF Left
<1>7. ASSUME NEW w \in Workers, WorkerFinish(w) PROVE cred'[c].hold = "backoff"
    <2>1. rcred[w] \in Creds /\ FinishJob(rcred[w], "none")
        BY <1>0, <1>7 DEF WorkerFinish, Placed, Busy, Refreshers
    <2> QED BY <1>1, <2>1, FinishEffect
<1> QED BY <1>2, <1>3, <1>4, <1>5, <1>6, <1>7 DEF JobEvent

\* The end of a job leaves alone the time to retry that a refresh has set
\* meanwhile (finishRefreshJob).
THEOREM RetryIsKept == RefreshSpec => BackoffKept
<1> DEFINE Kept == \A c \in Creds :
                      (job[c] # NoJob /\ job'[c] = NoJob /\ cred[c].hold = "backoff")
                          => cred'[c].hold = "backoff"
<1>1. JobInv /\ [RefreshNext]_refreshVars => [Kept]_refreshVars
    BY EndKeepsRetry
<1> QED BY <1>1, JobInvAlways, PTL DEF RefreshSpec, BackoffKept
=============================================================================
