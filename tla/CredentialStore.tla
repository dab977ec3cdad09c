--------------------------- MODULE CredentialStore ---------------------------
(* How the auth manager keeps one credential: the published record, its     *)
(* registration epoch, and the copy in the token store                      *)
(* (sdk/cliproxy/auth/conductor_lifecycle.go, conductor_persistence.go,     *)
(* conductor_lts.go, async_merge.go).                                       *)
(*                                                                          *)
(* A mutation takes the credential's gate, prepares a record under the      *)
(* manager's mutex, saves it with the mutex released, and publishes it.     *)
(* Three kinds of actors meet there: writers hold the gate from preparation *)
(* to publication; metadata savers do too, but give way to anybody else;    *)
(* pruners edit the published record and save it without the gate, behind   *)
(* the persist lock and its watermark alone. The bookkeeping of refreshes   *)
(* edits the published record without saving it.                            *)
EXTENDS Naturals

CONSTANTS
    Writers,        \* calls of Register, Update, Refresh, Remove, MarkResult
    MetaSavers,     \* calls of PersistMetadataEntry
    Pruners,        \* calls of PruneExpiredAvailability and ClearQuotaState
    Neighbours,     \* foreground saves of other credentials
    Tokens,         \* credential material
    MaxOps,         \* bound: calls begun
    MaxEdits,       \* bound: edits of runtime fields without the gate
    NoAuth, Nobody

Actors == Writers \cup MetaSavers \cup Pruners \cup Neighbours
Foreground == Writers \cup Pruners \cup Neighbours

\* run numbers the last edit of the runtime fields (NextRefreshAfter, quota
\* and cooldown state); hinted says whether the metadata entry is there.
AuthRecords ==
    [epoch : Nat, gen : Nat, ver : Nat, tok : Tokens, run : Nat, hinted : BOOLEAN]
Files == [tok : Tokens, hinted : BOOLEAN]

ASSUME StoreAssumption ==
    /\ Writers \cap MetaSavers = {}
    /\ Pruners \cap (Writers \cup MetaSavers) = {}
    /\ Neighbours \cap (Writers \cup MetaSavers \cup Pruners) = {}
    /\ Nobody \notin Actors
    /\ NoAuth \notin AuthRecords \cup Files
    /\ Tokens # {}
    /\ MaxOps \in Nat /\ MaxEdits \in Nat

VARIABLES
    provider,       \* "meta" mints keys, "antigravity" has the metadata entry
    auth,           \* m.auths[id]
    epochs,         \* m.authEpochs[id]
    disk,           \* the credential in the token store
    gate,           \* holder of authMutationLocks[id]
    loading,        \* Load holds authLoadGate
    listed,         \* what Load read from the store
    persistLock,    \* holder of persistLocks[id]
    watermark,      \* its lastEpoch and lastGeneration
    saveGate,       \* the metadata saver that foreground saves wait for
    preempted,      \* metadata savers whose context was cancelled
    pc, op,         \* where each actor is, and what it does
    base,           \* the copy it works from
    next,           \* the record it saves and publishes
    before,         \* run of the published record when next was prepared
    ops, edits,     \* calls begun, edits made
    unsaved         \* history: the store reported that a publication is not saved

manVars == <<auth, epochs, edits>>
lockVars == <<gate, persistLock, watermark, saveGate, preempted>>
loadVars == <<loading, listed>>
callVars == <<pc, op, base, next, before>>
storeVars == <<manVars, lockVars, loadVars, callVars, disk, ops, unsaved, provider>>

\* Calls of a writer that start from a copy of the record, and the others.
CopyOps == {"replace", "refresh", "prepare"}
GateOps == {"register", "edit", "remove"}

Max(a, b) == IF a >= b THEN a ELSE b

-----------------------------------------------------------------------------
(* The gate and the actors at it.                                          *)

\* lockAuthMutation is waiting on the gate, with a share of the load gate.
Waiting == {w \in Writers : pc[w] = "waiting"}

\* Saves between beginForegroundStoreSave and its release: fgActive.
ForegroundSaves == {x \in Foreground : pc[x] \in {"yielding", "writing"}}

\* Everyone with a share of the load gate.
Inside == {x \in Writers \cup MetaSavers : pc[x] \notin {"idle", "away"}}

\* The call returns.
Return(x) ==
    /\ pc' = [pc EXCEPT ![x] = "idle"]
    /\ base' = [base EXCEPT ![x] = NoAuth]
    /\ next' = [next EXCEPT ![x] = NoAuth]
    /\ before' = [before EXCEPT ![x] = 0]
    /\ op' = [op EXCEPT ![x] = "none"]

Go(x, place) == pc' = [pc EXCEPT ![x] = place]

StoreInit ==
    /\ provider \in {"meta", "antigravity"}
    /\ disk \in Files \cup {NoAuth}
    /\ disk # NoAuth => ~disk.hinted
    /\ auth = IF disk = NoAuth THEN NoAuth
              ELSE [epoch |-> 1, gen |-> 1, ver |-> 1, tok |-> disk.tok,
                    run |-> 0, hinted |-> FALSE]
    /\ epochs = IF disk = NoAuth THEN 0 ELSE 1
    /\ gate = Nobody /\ persistLock = Nobody /\ saveGate = Nobody
    /\ loading = FALSE /\ listed = NoAuth
    /\ watermark = [epoch |-> 0, gen |-> 0]
    /\ preempted = {}
    /\ pc = [x \in Actors |-> "idle"]
    /\ op = [x \in Actors |-> "none"]
    /\ base = [x \in Actors |-> NoAuth]
    /\ next = [x \in Actors |-> NoAuth]
    /\ before = [x \in Actors |-> 0]
    /\ ops = 0 /\ edits = 0
    /\ unsaved = FALSE

\* A copy without epoch and generation, as built from configuration.
Unstamped ==
    [epoch |-> 0, gen |-> 0, ver |-> 0, tok |-> CHOOSE t \in Tokens : TRUE,
     run |-> 0, hinted |-> FALSE]

\* A refresh or a preparation takes a copy before its network call; the
\* caller of Update edits one.
Copy(w, o) ==
    /\ pc[w] = "idle" /\ ops < MaxOps
    /\ \E copy \in IF o = "replace" THEN {auth, Unstamped} \ {NoAuth} ELSE {auth} \ {NoAuth} :
        base' = [base EXCEPT ![w] = copy]
    /\ op' = [op EXCEPT ![w] = o]
    /\ Go(w, "away")
    /\ ops' = ops + 1
    /\ UNCHANGED <<manVars, lockVars, loadVars, next, before, disk, unsaved>>

PreemptedWhoever(holder) == {holder} \ {Nobody}

\* The context of a metadata saver found in the way is cancelled.
Preempted(holder) == {holder} \cap MetaSavers

\* lockAuthMutationContext up to the gate: a metadata saver behind it is told
\* to give way.
ToGate(w) ==
    /\ ~loading
    /\ Go(w, "waiting")
    /\ preempted' = preempted \cup Preempted(gate)
    /\ UNCHANGED <<manVars, gate, persistLock, watermark, saveGate, loadVars, base,
                   next, before, disk, unsaved>>

Arrive(w) ==
    /\ pc[w] = "away"
    /\ ToGate(w)
    /\ UNCHANGED <<op, ops>>

\* Calls that need no copy.
Call(w, o) ==
    /\ pc[w] = "idle" /\ ops < MaxOps
    /\ op' = [op EXCEPT ![w] = o]
    /\ ToGate(w)
    /\ ops' = ops + 1

\* The network call failed, or the context ended at the gate.
Withdraw(x) ==
    /\ pc[x] \in {"away", "waiting"}
    /\ Return(x)
    /\ UNCHANGED <<manVars, lockVars, loadVars, disk, ops, unsaved>>

-----------------------------------------------------------------------------
(* Writers, from the gate to the preparation of the record.                *)

\* Without the version, credentials that were replaced and put back go unnoticed.
TokenMoved(w) == auth.tok # base[w].tok

\* The credential changed since the copy: a refresh must not overwrite it.
CredentialsMoved(w) == auth.ver # base[w].ver \/ auth.tok # base[w].tok

\* The checks of updateInternalWithGenerationLocked, and those of the calls
\* that need a credential. (Left out: a refresh that carries a CodexRefreshPatch
\* is let through although the credentials moved.)
Refused(w) ==
    \/ op[w] # "register" /\ auth = NoAuth
    \/ /\ auth # NoAuth
       /\ \/ op[w] \in {"refresh", "prepare"} /\ auth.epoch # base[w].epoch
          \/ op[w] = "refresh" /\ CredentialsMoved(w)
          \/ op[w] = "replace" /\ base[w].epoch \in 1..(epochs - 1)

AnywhereAtGate(w) == pc[w] = "waiting"

AtGate(w) == pc[w] = "waiting" /\ gate = Nobody

\* An update that came too late leaves everything as it is.
Discard(w) ==
    /\ AtGate(w) /\ Refused(w)
    /\ Return(w)
    /\ UNCHANGED <<manVars, lockVars, loadVars, disk, ops, unsaved>>

Prepare(w, record) ==
    /\ next' = [next EXCEPT ![w] = record]
    /\ gate' = w
    /\ Go(w, "saving")
    /\ UNCHANGED <<op, base, edits, persistLock, watermark, saveGate, preempted,
                   loadVars, disk, ops, unsaved>>

EnterRegister(w) ==
    /\ AtGate(w) /\ op[w] = "register"
    /\ epochs' = epochs + 1
    /\ \E t \in Tokens :
        Prepare(w, [epoch |-> epochs + 1, gen |-> 1, tok |-> t,
                    ver |-> IF auth = NoAuth THEN 1 ELSE auth.ver + 1,
                    run |-> 0, hinted |-> FALSE])
    /\ UNCHANGED <<auth, before>>

\* The token an update brings: Update replaces; the three-way merge of
\* mergeAsyncAuth lets a credential that changed meanwhile win.
TokenOf(w, t) ==
    IF op[w] = "replace" \/ base[w].tok = auth.tok THEN t ELSE auth.tok

\* The runtime fields likewise: a refresh clears them unless they changed.
RunOf(w) ==
    IF op[w] = "replace" THEN base[w].run
    ELSE IF base[w].run = auth.run THEN 0 ELSE auth.run

GenerationAfter(g, existing) == IF g <= existing THEN existing + 1 ELSE g + 1

VersionAfter(w, t) ==
    IF t = auth.tok THEN auth.ver ELSE Max(base[w].ver, auth.ver) + 1

\* Update, UpdateRefreshedAuth and UpdatePreparedAuth under the mutex.
EnterUpdate(w) ==
    /\ AtGate(w) /\ op[w] \in CopyOps /\ ~Refused(w)
    /\ \E fresh \in Tokens :
        LET t == TokenOf(w, fresh)
        IN  Prepare(w, [epoch |-> epochs,
                        gen |-> GenerationAfter(base[w].gen, auth.gen),
                        ver |-> VersionAfter(w, t), tok |-> t,
                        run |-> RunOf(w), hinted |-> auth.hinted])
    /\ before' = [before EXCEPT ![w] = auth.run]
    /\ UNCHANGED <<auth, epochs>>

\* MarkResult and ResetQuota change the published record in place and save it.
EnterEdit(w) ==
    /\ AtGate(w) /\ op[w] = "edit" /\ ~Refused(w)
    /\ auth' = [auth EXCEPT !.gen = @ + 1]
    /\ Prepare(w, auth')
    /\ UNCHANGED <<epochs, before>>

\* Remove forgets the credential; its file is left to the caller.
Remove(w) ==
    /\ AtGate(w) /\ op[w] = "remove" /\ ~Refused(w)
    /\ auth' = NoAuth /\ epochs' = epochs + 1
    /\ Return(w)
    /\ UNCHANGED <<edits, lockVars, loadVars, disk, ops, unsaved>>

-----------------------------------------------------------------------------
(* Saving: persistLocked, persist and persistSnapshotWithLock.             *)

\* persist saves what is published now; persistLocked what it was given.
Snapshot(x) == IF x \in Pruners THEN auth ELSE next[x]

\* The registration an actor read is still the published one.
SameRegistration(x) == auth # NoAuth /\ auth.epoch = base[x].epoch

NeverOutdated(record) == FALSE

Outdated(record) ==
    \/ record.epoch < watermark.epoch
    \/ record.epoch = watermark.epoch /\ record.gen < watermark.gen

\* persist gives up when the credential was registered again or removed.
MaySave(x) ==
    /\ x \in Pruners => SameRegistration(x)
    /\ ~Outdated(Snapshot(x))

\* Nothing is saved and no error is reported.
SkipSave(x) ==
    /\ pc[x] = "saving" /\ persistLock = Nobody /\ ~MaySave(x)
    /\ IF x \in Pruners THEN Return(x)
       ELSE Go(x, "saved") /\ UNCHANGED <<op, base, next, before>>
    /\ UNCHANGED <<manVars, lockVars, loadVars, disk, ops, unsaved>>

\* beginForegroundStoreSave: the metadata save is preempted and waited for.
Preempt(x) ==
    /\ preempted' = preempted \cup Preempted(saveGate)
    /\ Go(x, IF saveGate = Nobody THEN "writing" ELSE "yielding")

\* The watermark rises and the save begins.
BeginSave(x) ==
    /\ pc[x] = "saving" /\ persistLock = Nobody /\ MaySave(x)
    /\ persistLock' = x
    /\ watermark' = [epoch |-> Snapshot(x).epoch, gen |-> Snapshot(x).gen]
    /\ next' = [next EXCEPT ![x] = Snapshot(x)]
    /\ IF x \in Foreground THEN Preempt(x) ELSE UNCHANGED preempted /\ Go(x, "writing")
    /\ UNCHANGED <<manVars, gate, saveGate, loadVars, op, base, before, disk, ops,
                   unsaved>>

\* Another credential is saved, behind a gate and a persist lock of its own.
NeighbourSave(n) ==
    /\ pc[n] = "idle" /\ ops < MaxOps
    /\ op' = [op EXCEPT ![n] = "neighbour"]
    /\ Preempt(n)
    /\ ops' = ops + 1
    /\ UNCHANGED <<manVars, gate, persistLock, watermark, saveGate, loadVars, base,
                   next, before, disk, unsaved>>

\* The metadata save that beginForegroundStoreSave waits for is over.
EndYield(x) ==
    /\ pc[x] = "yielding" /\ saveGate = Nobody
    /\ Go(x, "writing")
    /\ UNCHANGED <<manVars, lockVars, loadVars, op, base, next, before, disk, ops,
                   unsaved>>

SaveOver(x, place) ==
    /\ persistLock' = IF persistLock = x THEN Nobody ELSE persistLock
    /\ IF x \in Pruners \cup Neighbours THEN Return(x)
       ELSE Go(x, place) /\ UNCHANGED <<op, base, next, before>>
    /\ UNCHANGED <<manVars, gate, watermark, saveGate, preempted, loadVars, ops,
                   unsaved>>

\* store.Save returns without an error.
SaveDone(x) ==
    /\ pc[x] = "writing"
    /\ disk' = IF x \in Neighbours THEN disk
               ELSE [tok |-> next[x].tok, hinted |-> next[x].hinted]
    /\ SaveOver(x, "saved")

\* store.Save returns an error, or the caller's context ends while its save
\* waits for the metadata save.
SaveFailed(x) == pc[x] = "writing" /\ SaveOver(x, "failed") /\ UNCHANGED disk
AbandonSave(x) == pc[x] = "yielding" /\ SaveOver(x, "failed") /\ UNCHANGED disk

-----------------------------------------------------------------------------
(* Publication.                                                            *)

MergedBlindly(x) == next[x]

\* mergeAuthSaveDelta: what changed in the published record during the save
\* wins over the record that was saved.
Merged(x) ==
    [next[x] EXCEPT !.run = IF auth.run = before[x] THEN @ ELSE auth.run]

\* A key minted for Meta is used only after it was saved.
Transactional(w) == provider = "meta" /\ op[w] \in {"refresh", "prepare"}

\* Other records are published although their save failed; MarkResult has
\* published its edit before.
Published(w) ==
    /\ op[w] # "edit" /\ epochs = next[w].epoch
    /\ Transactional(w) => pc[w] = "saved"

\* The published generation is one above whatever the record reached.
PublishedAsSaved(w) == IF op[w] = "register" THEN next[w] ELSE Merged(w)

AuthAfter(w) ==
    IF op[w] = "register" THEN next[w]
    ELSE [Merged(w) EXCEPT !.gen = IF auth.gen >= @ THEN auth.gen + 1 ELSE @]

\* The mutex is taken again; the gate is given back.
Publish(w) ==
    /\ w \in Writers /\ pc[w] \in {"saved", "failed"}
    /\ auth' = IF Published(w) THEN AuthAfter(w) ELSE auth
    /\ unsaved' = IF Transactional(w) THEN unsaved /\ ~Published(w) ELSE pc[w] = "failed"
    /\ gate' = Nobody
    /\ Return(w)
    /\ UNCHANGED <<epochs, edits, persistLock, watermark, saveGate, preempted,
                   loadVars, disk, ops>>

-----------------------------------------------------------------------------
(* PersistMetadataEntry.                                                   *)

MetaBegin(x) ==
    /\ provider = "antigravity"
    /\ pc[x] = "idle" /\ ops < MaxOps /\ auth # NoAuth /\ ~loading
    /\ base' = [base EXCEPT ![x] = auth]
    /\ op' = [op EXCEPT ![x] = "metadata"]
    /\ Go(x, "waiting")
    /\ preempted' = preempted \ {x}
    /\ ops' = ops + 1
    /\ UNCHANGED <<manVars, gate, persistLock, watermark, saveGate, loadVars, next,
                   before, disk, unsaved>>

\* With others waiting at the gate it is preempted as soon as it has it.
MetaEnter(x) ==
    /\ pc[x] = "waiting" /\ gate = Nobody
    /\ gate' = x
    /\ preempted' = IF Waiting = {} THEN preempted ELSE preempted \cup {x}
    /\ Go(x, "gated")
    /\ UNCHANGED <<manVars, persistLock, watermark, saveGate, loadVars, op, base,
                   next, before, disk, ops, unsaved>>

\* acquireMetadataSaveGate waits for foreground saves, then the entry is added
\* to a copy of the published record.
MetaPrepare(x) ==
    /\ pc[x] = "gated" /\ x \notin preempted /\ ForegroundSaves = {}
    /\ SameRegistration(x)
    /\ saveGate' = x
    /\ next' = [next EXCEPT ![x] = [auth EXCEPT !.hinted = TRUE]]
    /\ before' = [before EXCEPT ![x] = auth.run]
    /\ Go(x, "saving")
    /\ UNCHANGED <<manVars, gate, persistLock, watermark, preempted, loadVars, op,
                   base, disk, ops, unsaved>>

MetaLeavesGateOnly(x) ==
    /\ gate' = Nobody
    /\ Return(x)
    /\ UNCHANGED <<epochs, edits, persistLock, watermark, saveGate, preempted, loadVars,
                   disk, ops, unsaved>>

MetaLeave(x) ==
    /\ gate' = Nobody /\ saveGate' = Nobody
    /\ Return(x)
    /\ UNCHANGED <<epochs, edits, persistLock, watermark, preempted, loadVars, disk,
                   ops, unsaved>>

\* It gives way before the save, the credential is another one, or the save
\* failed.
MetaGiveUp(x) ==
    /\ \/ pc[x] = "gated" /\ (x \in preempted \/ ~SameRegistration(x))
       \/ pc[x] = "failed"
    /\ MetaLeave(x)
    /\ UNCHANGED auth

\* The entry is published, or found invalid by now and taken back.
MetaPublish(x) ==
    /\ pc[x] = "saved"
    /\ \E valid \in BOOLEAN :
        auth' = IF auth = NoAuth \/ auth.epoch # next[x].epoch THEN auth
                ELSE IF ~valid THEN [auth EXCEPT !.hinted = FALSE]
                ELSE [Merged(x) EXCEPT !.gen = Max(@, auth.gen)]
    /\ MetaLeave(x)

-----------------------------------------------------------------------------
(* Edits without the gate, and Load.                                       *)

\* PruneExpiredAvailability and ClearQuotaState: the record is edited in
\* place, and saved afterwards.
Prune(p) ==
    /\ pc[p] = "idle" /\ ops < MaxOps /\ auth # NoAuth /\ edits < MaxEdits
    /\ auth' = [auth EXCEPT !.run = edits + 1]
    /\ edits' = edits + 1 /\ ops' = ops + 1
    /\ base' = [base EXCEPT ![p] = auth]
    /\ op' = [op EXCEPT ![p] = "prune"]
    /\ Go(p, "saving")
    /\ UNCHANGED <<epochs, lockVars, loadVars, next, before, disk, unsaved>>

\* markRefreshPending, finishRefreshJob and a failed refresh.
RuntimeEdit ==
    /\ auth # NoAuth /\ edits < MaxEdits
    /\ auth' = [auth EXCEPT !.run = edits + 1, !.gen = @ + 1]
    /\ edits' = edits + 1
    /\ UNCHANGED <<epochs, lockVars, loadVars, callVars, disk, ops, unsaved>>

\* Load shuts every mutation out, then lists the store.
LoadBegin ==
    /\ ~loading /\ Inside = {} /\ ops < MaxOps
    /\ loading' = TRUE /\ listed' = disk
    /\ ops' = ops + 1
    /\ UNCHANGED <<manVars, lockVars, callVars, disk, unsaved>>

LoadVersion ==
    IF auth = NoAuth THEN 1
    ELSE IF auth.tok = listed.tok THEN auth.ver ELSE auth.ver + 1

\* What was listed is published as a new registration; what was not is gone.
LoadEnd ==
    /\ loading
    /\ auth' = IF listed = NoAuth THEN NoAuth
               ELSE [epoch |-> epochs + 1, gen |-> 1, ver |-> LoadVersion,
                     tok |-> listed.tok, run |-> 0, hinted |-> listed.hinted]
    /\ epochs' = IF auth = NoAuth /\ listed = NoAuth THEN epochs ELSE epochs + 1
    /\ loading' = FALSE /\ listed' = NoAuth
    /\ UNCHANGED <<edits, lockVars, callVars, disk, ops, unsaved>>

-----------------------------------------------------------------------------
\* What a writer does by itself once its call has begun.
WriterStep(w) ==
    \/ Arrive(w) \/ Discard(w) \/ EnterRegister(w) \/ EnterUpdate(w)
    \/ EnterEdit(w) \/ Remove(w) \/ Publish(w)

MetaStep(x) ==
    \/ MetaEnter(x) \/ MetaPrepare(x) \/ MetaGiveUp(x) \/ MetaPublish(x)

SaveStep(x) ==
    \/ SkipSave(x) \/ BeginSave(x) \/ EndYield(x) \/ SaveDone(x) \/ SaveFailed(x)

StoreNext ==
    /\ UNCHANGED provider
    /\ \/ \E w \in Writers : WriterStep(w)
       \/ \E w \in Writers, o \in CopyOps : Copy(w, o)
       \/ \E w \in Writers, o \in GateOps : Call(w, o)
       \/ \E x \in MetaSavers : MetaBegin(x) \/ MetaStep(x)
       \/ \E p \in Pruners : Prune(p)
       \/ \E n \in Neighbours : NeighbourSave(n)
       \/ \E x \in Actors : Withdraw(x) \/ SaveStep(x) \/ AbandonSave(x)
       \/ RuntimeEdit \/ LoadBegin \/ LoadEnd

\* The goroutines run on, the store answers, and the waits for the gate and
\* the persist lock are first come, first served. Nothing obliges the context
\* of a caller to end.
StoreFairness ==
    /\ \A w \in Writers : WF_storeVars(WriterStep(w) /\ UNCHANGED provider)
    /\ \A x \in MetaSavers : WF_storeVars(MetaStep(x) /\ UNCHANGED provider)
    /\ \A x \in Actors : WF_storeVars(SaveStep(x) /\ UNCHANGED provider)
    /\ WF_storeVars(LoadEnd /\ UNCHANGED provider)

StoreSpec == StoreInit /\ [][StoreNext]_storeVars
FairStoreSpec == StoreSpec /\ StoreFairness

-----------------------------------------------------------------------------
(* Properties.                                                             *)

Places == {"idle", "away", "waiting", "gated", "saving", "yielding", "writing",
           "saved", "failed"}

TypeRecords ==
    /\ auth \in AuthRecords \cup {NoAuth}
    /\ disk \in Files \cup {NoAuth} /\ listed \in Files \cup {NoAuth}
    /\ epochs \in Nat /\ edits \in Nat /\ ops \in Nat
    /\ watermark \in [epoch : Nat, gen : Nat]

TypeFlags ==
    /\ provider \in {"meta", "antigravity"}
    /\ loading \in BOOLEAN /\ unsaved \in BOOLEAN

TypeLocks ==
    /\ gate \in Writers \cup MetaSavers \cup {Nobody}
    /\ persistLock \in Actors \cup {Nobody}
    /\ saveGate \in MetaSavers \cup {Nobody}
    /\ preempted \subseteq MetaSavers

TypeCalls ==
    /\ pc \in [Actors -> Places]
    /\ op \in [Actors -> CopyOps \cup GateOps \cup {"none", "metadata", "prune", "neighbour"}]
    /\ base \in [Actors -> AuthRecords \cup {NoAuth}]
    /\ next \in [Actors -> AuthRecords \cup {NoAuth}]
    /\ before \in [Actors -> Nat]

\* Every variable of the manager and of its callers is well typed.
StoreTypeOK == TypeRecords /\ TypeFlags /\ TypeLocks /\ TypeCalls

\* Between two mutations the store holds the published credentials and the
\* metadata entry, unless it reported an error when they were saved: a restart
\* does not go back to credentials that were replaced
\* (conductor_lifecycle.go, persist; conductor_persistence.go, persistLocked).
\* It is false where a pruner took its snapshot after that save and before the
\* publication, and the generation does not tell the two apart.
NewestOnDisk ==
    (gate = Nobody /\ auth # NoAuth /\ ~unsaved) =>
        /\ disk # NoAuth
        /\ disk.tok = auth.tok
        /\ auth.hinted => disk.hinted

\* While a refresh saves and publishes, the credential is the one it read
\* before its network call: no credential committed since is overwritten
\* (updateInternalWithGenerationLocked).
NoStaleRefresh ==
    \A w \in Writers :
        (op[w] = "refresh" /\ gate = w) =>
            /\ auth # NoAuth /\ auth.epoch = base[w].epoch
            /\ auth.ver = base[w].ver /\ auth.tok = base[w].tok

\* The registration cannot change between the preparation of a record and its
\* publication: the error "changed registration during persistence" is never
\* met (Register, updateInternalWithGenerationLocked).
RegistrationHeld ==
    \A w \in Writers :
        (gate = w /\ pc[w] \notin {"idle", "away", "waiting"}) =>
            /\ next[w].epoch = epochs
            /\ op[w] # "register" => auth # NoAuth /\ auth.epoch = epochs

\* What a writer decided when it got the credential's gate is still true when
\* it publishes, although the manager's mutex was released for the save, and
\* Load and edits without the gate went on (lockAuthMutation, Register,
\* updateInternalWithGenerationLocked).
GateHolds == StoreTypeOK /\ NoStaleRefresh /\ RegistrationHeld

\* Within a registration new credentials come with a higher generation and a
\* higher credential version, whatever is edited during their save; and no
\* step goes back (the fences of refreshes, results and the scheduler).
VersionsAdvance ==
    [][(auth # NoAuth /\ auth' # NoAuth /\ auth'.epoch = auth.epoch) =>
        /\ auth'.gen >= auth.gen /\ auth'.ver >= auth.ver
        /\ auth'.tok # auth.tok => auth'.gen > auth.gen /\ auth'.ver > auth.ver]_storeVars

\* An edit of the runtime fields made during a save survives the publication
\* of the saved record (mergeAuthSaveDelta).
EditsKept ==
    [][\A x \in Writers \cup MetaSavers :
        (/\ gate = x /\ gate' = Nobody /\ op[x] # "register"
         /\ auth # NoAuth /\ auth.run > before[x])
            => auth'.run = auth.run]_storeVars

\* A pruner holds the persist lock and waits in beginForegroundStoreSave for the
\* metadata save, which waits for that lock and does not notice that it was
\* cancelled. Only the end of the pruner's context would part them.
WaitForEachOther ==
    \E p \in Pruners, x \in MetaSavers :
        /\ persistLock = p /\ pc[p] = "yielding"
        /\ saveGate = x /\ pc[x] = "saving"

\* A foreground call that has come to the gate, or saves without it or for
\* another credential, ends although nobody's context does, unless a pruner and
\* a metadata saver wait for each other for ever: nothing else can hold it up
\* (beginForegroundStoreSave, PersistMetadataEntry, persist).
ForegroundEnds ==
    \A x \in Foreground :
        pc[x] \notin {"idle", "away"} ~> (pc[x] = "idle" \/ []WaitForEachOther)
=============================================================================
