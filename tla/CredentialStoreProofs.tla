------------------------ MODULE CredentialStoreProofs ------------------------
(* Theorems about CredentialStore, for every number of writers, metadata    *)
(* savers, pruners and neighbours, every set of tokens and every bound.     *)
EXTENDS CredentialStore, TLAPS

Gated == Writers \cup MetaSavers
Holding == {"gated", "saving", "yielding", "writing", "saved", "failed"}
Saving == Holding \ {"gated"}

\* The gate has one holder, the call that is between its entry and its end.
GateInv == \A x \in Gated : pc[x] \in Holding <=> gate = x

\* While Load publishes, no mutation has come as far as the gate.
LoadInv == loading => \A x \in Gated : pc[x] \in {"idle", "away"}

\* Who works from a copy has one, who saves has a record; pruners and
\* neighbours never come to the gate.
RecordsThere ==
    /\ \A w \in Writers : op[w] \in CopyOps => base[w] \in AuthRecords
    /\ \A x \in Gated : pc[x] \in Saving => next[x] \in AuthRecords
    /\ \A x \in MetaSavers : op[x] \in {"none", "metadata"}
    /\ \A p \in Pruners : /\ pc[p] \in {"idle", "saving", "yielding", "writing"}
                          /\ pc[p] \in {"yielding", "writing"} => next[p] \in AuthRecords
    /\ \A n \in Neighbours : pc[n] \in {"idle", "yielding", "writing"}

\* The published registration is the last one given out, but for a Register
\* that has still to publish it.
EpochInv ==
    auth # NoAuth =>
        IF gate \in Writers /\ op[gate] = "register" THEN auth.epoch < epochs
        ELSE auth.epoch = epochs

\* The record in the hands of the gate's holder is not behind the published one.
VersionInv ==
    \A x \in Gated :
        (pc[x] \in Saving /\ op[x] # "register" /\ auth # NoAuth) =>
            /\ next[x].ver >= auth.ver
            /\ next[x].tok # auth.tok => op[x] \in CopyOps /\ next[x].ver > auth.ver

StoreInv ==
    /\ StoreTypeOK /\ GateInv /\ LoadInv /\ RecordsThere /\ EpochInv
    /\ RegistrationHeld /\ NoStaleRefresh /\ VersionInv

-----------------------------------------------------------------------------
(* Records: an edit leaves a record, with its other fields as they were.   *)

\* An edit of the runtime fields.
LEMMA RunEdited ==
    ASSUME NEW r \in AuthRecords, NEW n \in Nat, NEW s, s = [r EXCEPT !.run = n]
    PROVE  /\ s \in AuthRecords
           /\ s.epoch = r.epoch /\ s.gen = r.gen /\ s.ver = r.ver
           /\ s.tok = r.tok /\ s.hinted = r.hinted /\ s.run = n
BY DEF AuthRecords

\* A new generation.
LEMMA GenerationEdited ==
    ASSUME NEW r \in AuthRecords, NEW g \in Nat, NEW s, s = [r EXCEPT !.gen = g]
    PROVE  /\ s \in AuthRecords
           /\ s.epoch = r.epoch /\ s.ver = r.ver /\ s.tok = r.tok
           /\ s.run = r.run /\ s.hinted = r.hinted /\ s.gen = g
BY DEF AuthRecords

\* The metadata entry comes or goes.
LEMMA EntryEdited ==
    ASSUME NEW r \in AuthRecords, NEW b \in BOOLEAN, NEW s, s = [r EXCEPT !.hinted = b]
    PROVE  /\ s \in AuthRecords
           /\ s.epoch = r.epoch /\ s.gen = r.gen /\ s.ver = r.ver
           /\ s.tok = r.tok /\ s.run = r.run /\ s.hinted = b
BY DEF AuthRecords

\* What is not yet published is a record.
LEMMA UnstampedRecord == Unstamped \in AuthRecords
BY StoreAssumption DEF Unstamped, AuthRecords

\* w has taken the gate with a record to save.
Entered(w) ==
    /\ pc[w] = "waiting" /\ gate = Nobody /\ gate' = w
    /\ pc' = [pc EXCEPT ![w] = "saving"]
    /\ next' = [next EXCEPT ![w] = next'[w]] /\ next'[w] \in AuthRecords
    /\ UNCHANGED <<op, base, edits, persistLock, watermark, saveGate, preempted,
                   loading, listed, disk, ops, unsaved>>

\* Register makes a record of the registration it has given out.
LEMMA RegisteredRecord ==
    ASSUME StoreInv, NEW w \in Writers, EnterRegister(w)
    PROVE  /\ Entered(w) /\ op[w] = "register"
           /\ epochs' = epochs + 1 /\ next'[w].epoch = epochs + 1
           /\ UNCHANGED <<auth, before>>
<1> USE DEF StoreInv, StoreTypeOK, TypeRecords, TypeCalls, Actors
<1>1. PICK t \in Tokens :
        next' = [next EXCEPT ![w] =
            [epoch |-> epochs + 1, gen |-> 1, tok |-> t,
             ver |-> IF auth = NoAuth THEN 1 ELSE auth.ver + 1,
             run |-> 0, hinted |-> FALSE]]
    BY DEF EnterRegister, Prepare
<1>2. next'[w] = [epoch |-> epochs + 1, gen |-> 1, tok |-> t,
             ver |-> IF auth = NoAuth THEN 1 ELSE auth.ver + 1,
             run |-> 0, hinted |-> FALSE]
    BY <1>1
<1>3. (IF auth = NoAuth THEN 1 ELSE auth.ver + 1) \in Nat
    BY DEF AuthRecords
<1>4. next'[w] \in AuthRecords /\ next'[w].epoch = epochs + 1
    BY <1>2, <1>3 DEF AuthRecords
<1>5. next' = [next EXCEPT ![w] = next'[w]]
    BY <1>1
<1> HIDE DEF StoreInv
<1> QED BY <1>4, <1>5 DEF EnterRegister, AtGate, Prepare, Go, Entered, loadVars

\* An update makes a record of the published registration that is not behind
\* the published record.
LEMMA UpdatedRecord ==
    ASSUME StoreInv, NEW w \in Writers, EnterUpdate(w)
    PROVE  /\ Entered(w) /\ op[w] \in CopyOps /\ ~Refused(w)
           /\ auth \in AuthRecords /\ auth.run \in Nat /\ next'[w].epoch = epochs
           /\ next'[w].ver >= auth.ver
           /\ next'[w].tok # auth.tok => next'[w].ver > auth.ver
           /\ next'[w].gen > auth.gen
           /\ base[w].gen <= auth.gen => next'[w].gen = auth.gen + 1
           /\ before' = [before EXCEPT ![w] = auth.run]
           /\ UNCHANGED <<auth, epochs>>
<1> USE DEF StoreInv, StoreTypeOK, TypeRecords, TypeCalls, Actors
<1>1. auth \in AuthRecords /\ base[w] \in AuthRecords
    BY DEF EnterUpdate, Refused, AtGate, CopyOps, RecordsThere
<1>2. PICK fresh \in Tokens :
        next' = [next EXCEPT ![w] =
            [epoch |-> epochs, gen |-> GenerationAfter(base[w].gen, auth.gen),
             ver |-> VersionAfter(w, TokenOf(w, fresh)), tok |-> TokenOf(w, fresh),
             run |-> RunOf(w), hinted |-> auth.hinted]]
    BY DEF EnterUpdate, Prepare
<1> DEFINE t == TokenOf(w, fresh)
<1>3. next'[w] = [epoch |-> epochs, gen |-> GenerationAfter(base[w].gen, auth.gen),
             ver |-> VersionAfter(w, t), tok |-> t,
             run |-> RunOf(w), hinted |-> auth.hinted]
    BY <1>2
<1>4. t \in Tokens /\ RunOf(w) \in Nat
    BY <1>1 DEF TokenOf, RunOf, AuthRecords
<1>5. /\ VersionAfter(w, t) \in Nat /\ VersionAfter(w, t) >= auth.ver
      /\ t # auth.tok => VersionAfter(w, t) > auth.ver
    BY <1>1 DEF VersionAfter, Max, AuthRecords
<1>6. LET g == GenerationAfter(base[w].gen, auth.gen)
      IN  g \in Nat /\ g > auth.gen /\ (base[w].gen <= auth.gen => g = auth.gen + 1)
    BY <1>1 DEF GenerationAfter, AuthRecords
<1>7. epochs \in Nat /\ auth.hinted \in BOOLEAN /\ auth.run \in Nat
    BY <1>1 DEF AuthRecords
<1> HIDE DEF t
<1>8. /\ next'[w] \in AuthRecords /\ next'[w].epoch = epochs
      /\ next'[w].ver >= auth.ver
      /\ next'[w].tok # auth.tok => next'[w].ver > auth.ver
      /\ next'[w].gen > auth.gen
      /\ base[w].gen <= auth.gen => next'[w].gen = auth.gen + 1
    BY <1>3, <1>4, <1>5, <1>6, <1>7 DEF AuthRecords
<1>9. next' = [next EXCEPT ![w] = next'[w]]
    BY <1>2
<1> HIDE DEF StoreInv
<1> QED BY <1>1, <1>7, <1>8, <1>9 DEF EnterUpdate, AtGate, Prepare, Go, Entered, loadVars

\* An edit without the gate keeps registration, version, token and entry.
LEMMA RuntimeRecord ==
    ASSUME StoreInv, RuntimeEdit \/ (\E p \in Pruners : Prune(p))
    PROVE  /\ auth \in AuthRecords /\ auth' \in AuthRecords
           /\ auth'.epoch = auth.epoch /\ auth'.ver = auth.ver
           /\ auth'.tok = auth.tok /\ auth'.gen >= auth.gen
           /\ auth'.hinted = auth.hinted
<1>1. /\ auth \in AuthRecords /\ edits + 1 \in Nat
      /\ auth.gen \in Nat /\ auth.gen + 1 \in Nat
    BY DEF RuntimeEdit, Prune, StoreInv, StoreTypeOK, TypeRecords, AuthRecords
<1>2. CASE RuntimeEdit
    <2>1. auth' = [auth EXCEPT !.run = edits + 1, !.gen = auth.gen + 1]
        BY <1>2 DEF RuntimeEdit
    <2>2. /\ auth' \in AuthRecords /\ auth'.gen = auth.gen + 1
          /\ auth'.epoch = auth.epoch /\ auth'.ver = auth.ver /\ auth'.tok = auth.tok
          /\ auth'.hinted = auth.hinted
        BY <1>1, <2>1 DEF AuthRecords
    <2> QED BY <1>1, <2>2
<1>3. CASE \E p \in Pruners : Prune(p)
    <2>1. auth' = [auth EXCEPT !.run = edits + 1]
        BY <1>3 DEF Prune
    <2> QED BY <1>1, <2>1, RunEdited
<1> QED BY <1>2, <1>3

\* MarkResult raises the generation of the published record and saves it.
LEMMA MarkedRecord ==
    ASSUME StoreInv, NEW w \in Writers, EnterEdit(w)
    PROVE  /\ auth \in AuthRecords /\ auth' \in AuthRecords
           /\ auth'.epoch = auth.epoch /\ auth'.ver = auth.ver
           /\ auth'.tok = auth.tok /\ auth'.gen > auth.gen
           /\ auth'.gen = auth.gen + 1 /\ auth'.hinted = auth.hinted
           /\ Entered(w) /\ op[w] = "edit" /\ next'[w] = auth' /\ auth'.ver \in Nat
           /\ UNCHANGED <<epochs, before>>
<1>1. auth \in AuthRecords /\ auth.gen + 1 \in Nat /\ auth.gen + 1 > auth.gen
    BY DEF EnterEdit, Refused, StoreInv, StoreTypeOK, TypeRecords, AuthRecords
<1>2. auth' = [auth EXCEPT !.gen = auth.gen + 1]
    BY DEF EnterEdit
<1>3. next'[w] = auth'
    BY DEF EnterEdit, Prepare, StoreInv, StoreTypeOK, TypeCalls, Actors
<1>4. /\ auth' \in AuthRecords /\ auth'.epoch = auth.epoch /\ auth'.ver = auth.ver
      /\ auth'.tok = auth.tok /\ auth'.gen > auth.gen
      /\ auth'.gen = auth.gen + 1 /\ auth'.hinted = auth.hinted
    BY <1>1, <1>2, GenerationEdited
<1>5. next' = [next EXCEPT ![w] = next'[w]]
    BY <1>3 DEF EnterEdit, Prepare
<1>6. Entered(w) /\ op[w] = "edit" /\ UNCHANGED <<epochs, before>>
    BY <1>3, <1>4, <1>5 DEF EnterEdit, AtGate, Prepare, Go, Entered, loadVars
<1> QED BY <1>1, <1>3, <1>4, <1>6 DEF AuthRecords

\* The merge with what changed during the save touches the runtime fields only.
LEMMA MergedRecord ==
    ASSUME StoreInv, NEW x \in Gated, pc[x] \in Saving, auth # NoAuth
    PROVE  /\ Merged(x) \in AuthRecords
           /\ Merged(x).epoch = next[x].epoch /\ Merged(x).gen = next[x].gen
           /\ Merged(x).ver = next[x].ver /\ Merged(x).tok = next[x].tok
           /\ Merged(x).hinted = next[x].hinted
           /\ auth.run # before[x] => Merged(x).run = auth.run
<1>1. auth \in AuthRecords /\ next[x] \in AuthRecords
    BY DEF StoreInv, StoreTypeOK, TypeRecords, RecordsThere
<1>2. (IF auth.run = before[x] THEN next[x].run ELSE auth.run) \in Nat
    BY <1>1 DEF AuthRecords
<1>3. Merged(x) = [next[x] EXCEPT !.run =
                    IF auth.run = before[x] THEN next[x].run ELSE auth.run]
    BY DEF Merged
<1> QED BY <1>1, <1>2, <1>3, RunEdited

\* What Publish publishes is the record of the registration that is current.
LEMMA PublishedRecord ==
    ASSUME StoreInv, NEW w \in Writers, Publish(w), auth' # auth \/ Published(w)
    PROVE  /\ gate = w /\ auth' \in AuthRecords /\ auth'.epoch = epochs
           /\ op[w] # "register" =>
                /\ auth \in AuthRecords /\ auth.epoch = epochs
                /\ auth'.gen > auth.gen
                /\ auth'.ver = next[w].ver /\ auth'.tok = next[w].tok
                /\ auth'.gen >= next[w].gen /\ auth'.hinted = next[w].hinted
                /\ auth.run # before[w] => auth'.run = auth.run
<1> USE DEF Gated, Saving, Holding
<1>1. gate = w /\ next[w] \in AuthRecords /\ Published(w) /\ auth' = AuthAfter(w)
    BY DEF Publish, StoreInv, GateInv, RecordsThere
<1>2. next[w].epoch = epochs
    BY DEF Published, Publish, StoreInv, RegistrationHeld, GateInv
<1>3. CASE op[w] = "register"
    BY <1>1, <1>2, <1>3 DEF AuthAfter
<1>4. CASE op[w] # "register"
    <2>1. auth \in AuthRecords /\ auth.epoch = epochs
        BY <1>1, <1>4 DEF Publish, StoreInv, RegistrationHeld, StoreTypeOK, TypeRecords
    <2>2. auth # NoAuth
        BY <2>1, StoreAssumption
    <2> DEFINE g == IF auth.gen >= next[w].gen THEN auth.gen + 1 ELSE next[w].gen
    <2>3. /\ Merged(w) \in AuthRecords
          /\ Merged(w).epoch = next[w].epoch /\ Merged(w).gen = next[w].gen
          /\ Merged(w).ver = next[w].ver /\ Merged(w).tok = next[w].tok
          /\ Merged(w).hinted = next[w].hinted
          /\ auth.run # before[w] => Merged(w).run = auth.run
        BY <2>2, MergedRecord DEF Publish
    <2>4. auth' = [Merged(w) EXCEPT !.gen = g]
        BY <1>1, <1>4, <2>3 DEF AuthAfter
    <2>5. g \in Nat /\ g > auth.gen /\ g >= next[w].gen
        BY <1>1, <2>1 DEF AuthRecords
    <2> HIDE DEF g
    <2>6. /\ auth' \in AuthRecords /\ auth'.gen = g
          /\ auth'.epoch = Merged(w).epoch /\ auth'.ver = Merged(w).ver
          /\ auth'.tok = Merged(w).tok /\ auth'.run = Merged(w).run
          /\ auth'.hinted = Merged(w).hinted
        BY <2>3, <2>4, <2>5 DEF AuthRecords
    <2> QED BY <1>1, <1>2, <1>4, <2>1, <2>3, <2>5, <2>6
<1> QED BY <1>1, <1>3, <1>4

\* A registration that was prepared is always published.
LEMMA PublishedRegistration ==
    ASSUME StoreInv, NEW w \in Writers, Publish(w), op[w] = "register"
    PROVE  auth' = next[w] /\ auth'.epoch = epochs
BY DEF Publish, Published, Transactional, AuthAfter, StoreInv, GateInv, RegistrationHeld,
       Gated, Holding

\* What a metadata saver publishes is the published record with its entry.
LEMMA MetaRecord ==
    ASSUME StoreInv, NEW x \in MetaSavers, MetaPublish(x), auth' # auth
    PROVE  /\ gate = x /\ auth \in AuthRecords /\ auth' \in AuthRecords
           /\ auth'.epoch = auth.epoch /\ auth'.gen >= auth.gen
           /\ auth'.ver >= auth.ver /\ auth'.tok = auth.tok
           /\ auth'.hinted => next[x].hinted
           /\ auth.run # before[x] => auth'.run = auth.run
<1> USE DEF Gated, Saving, Holding
<1>1. gate = x /\ next[x] \in AuthRecords
    BY DEF MetaPublish, StoreInv, GateInv, RecordsThere
<1>2. auth \in AuthRecords /\ auth # NoAuth /\ auth.epoch = next[x].epoch
    BY DEF MetaPublish, StoreInv, StoreTypeOK, TypeRecords
<1>3. next[x].ver >= auth.ver /\ next[x].tok = auth.tok
    BY <1>2 DEF MetaPublish, StoreInv, VersionInv, RecordsThere, CopyOps
<1> DEFINE g == Max(next[x].gen, auth.gen)
<1>4. /\ Merged(x) \in AuthRecords
      /\ Merged(x).epoch = next[x].epoch /\ Merged(x).gen = next[x].gen
      /\ Merged(x).ver = next[x].ver /\ Merged(x).tok = next[x].tok
      /\ Merged(x).hinted = next[x].hinted
      /\ auth.run # before[x] => Merged(x).run = auth.run
    BY <1>2, MergedRecord DEF MetaPublish
<1>5. g \in Nat /\ g >= auth.gen
    BY <1>1, <1>2 DEF Max, AuthRecords
<1>6. auth' = [auth EXCEPT !.hinted = FALSE] \/ auth' = [Merged(x) EXCEPT !.gen = g]
    BY <1>2, <1>4 DEF MetaPublish
<1> HIDE DEF g
<1>7. auth.gen \in Nat /\ auth.ver \in Nat
    BY <1>2 DEF AuthRecords
<1>8. CASE auth' = [auth EXCEPT !.hinted = FALSE]
    <2>1. /\ auth' \in AuthRecords /\ auth'.gen = auth.gen
          /\ auth'.epoch = auth.epoch /\ auth'.ver = auth.ver
          /\ auth'.tok = auth.tok /\ auth'.run = auth.run /\ auth'.hinted = FALSE
        BY <1>2, <1>8, EntryEdited, Zenon
    <2> QED BY <1>1, <1>2, <1>7, <2>1
<1>9. CASE auth' = [Merged(x) EXCEPT !.gen = g]
    BY <1>1, <1>2, <1>3, <1>4, <1>5, <1>9, <1>7, GenerationEdited
<1> QED BY <1>6, <1>8, <1>9

\* A metadata saver works on a copy of the published record.
LEMMA MetaPrepared ==
    ASSUME StoreInv, NEW x \in MetaSavers, MetaPrepare(x)
    PROVE  /\ auth \in AuthRecords /\ auth.run \in Nat /\ auth.ver \in Nat
           /\ next'[x] \in AuthRecords /\ next'[x].ver = auth.ver /\ next'[x].tok = auth.tok
           /\ next'[x].epoch = auth.epoch /\ next'[x].gen = auth.gen /\ next'[x].hinted
           /\ next' = [next EXCEPT ![x] = next'[x]]
           /\ before' = [before EXCEPT ![x] = auth.run]
           /\ pc[x] = "gated" /\ pc' = [pc EXCEPT ![x] = "saving"]
           /\ saveGate' = x
           /\ UNCHANGED <<auth, epochs, edits, gate, persistLock, watermark, preempted,
                          loading, listed, op, base, disk, ops, unsaved>>
<1>1. auth \in AuthRecords /\ auth.run \in Nat /\ auth.ver \in Nat
    BY DEF MetaPrepare, SameRegistration, StoreInv, StoreTypeOK, TypeRecords, AuthRecords
<1>2. next' = [next EXCEPT ![x] = [auth EXCEPT !.hinted = TRUE]]
    BY DEF MetaPrepare
<1>3. next'[x] = [auth EXCEPT !.hinted = TRUE] /\ next' = [next EXCEPT ![x] = next'[x]]
    BY <1>2 DEF StoreInv, StoreTypeOK, TypeCalls, Actors
<1>4. /\ next'[x] \in AuthRecords /\ next'[x].ver = auth.ver /\ next'[x].tok = auth.tok
      /\ next'[x].epoch = auth.epoch /\ next'[x].gen = auth.gen /\ next'[x].hinted
    BY <1>1, <1>3, EntryEdited
<1> QED BY <1>1, <1>3, <1>4 DEF MetaPrepare, Go, manVars, loadVars

\* The save that begins is of a record; that of a holder of the gate is its own.
LEMMA SaveBegun ==
    ASSUME StoreInv, NEW x \in Actors, BeginSave(x)
    PROVE  /\ pc[x] = "saving" /\ Snapshot(x) \in AuthRecords
           /\ x \in Gated => next' = next
           /\ next' = [next EXCEPT ![x] = Snapshot(x)]
           /\ pc' = [pc EXCEPT ![x] = pc'[x]] /\ pc'[x] \in {"yielding", "writing"}
           /\ persistLock' = x
           /\ watermark' = [epoch |-> Snapshot(x).epoch, gen |-> Snapshot(x).gen]
           /\ watermark' \in [epoch : Nat, gen : Nat]
           /\ x \notin Neighbours
           /\ UNCHANGED <<auth, epochs, edits, gate, saveGate, loading, listed, op, base,
                          before, disk, ops, unsaved>>
<1> USE StoreAssumption DEF StoreInv, StoreTypeOK, TypeRecords, TypeCalls
<1>1. pc[x] = "saving" /\ x \notin Neighbours
    BY DEF BeginSave, RecordsThere
<1>2. Snapshot(x) \in AuthRecords
    BY <1>1 DEF BeginSave, MaySave, SameRegistration, Snapshot, RecordsThere, Gated,
                Saving, Holding, Actors
<1>3. x \in Gated => Snapshot(x) = next[x]
    BY DEF Snapshot, Gated
<1>4. next' = [next EXCEPT ![x] = Snapshot(x)]
    BY DEF BeginSave
<1>5. x \in Gated => next' = next
    BY <1>3, <1>4
<1>6. pc' = [pc EXCEPT ![x] = pc'[x]] /\ pc'[x] \in {"yielding", "writing"}
    BY DEF BeginSave, Preempt, Go
<1>7. watermark' \in [epoch : Nat, gen : Nat]
    BY <1>2 DEF BeginSave, AuthRecords
<1> QED BY <1>1, <1>2, <1>4, <1>5, <1>6, <1>7 DEF BeginSave, manVars, loadVars

\* What Load has read becomes a new registration.
LEMMA LoadedRecord ==
    ASSUME StoreInv, LoadEnd
    PROVE  /\ auth' \in AuthRecords \cup {NoAuth} /\ epochs' \in Nat
           /\ auth' # NoAuth =>
                /\ auth'.epoch = epochs + 1 /\ epochs' = epochs + 1 /\ listed # NoAuth
                /\ auth'.tok = listed.tok /\ auth'.hinted = listed.hinted
           /\ epochs' \in {epochs, epochs + 1}
           /\ listed' = NoAuth /\ loading /\ loading' = FALSE
           /\ UNCHANGED <<edits, gate, persistLock, watermark, saveGate, preempted, pc, op,
                          base, next, before, disk, ops, unsaved>>
<1> USE DEF StoreInv, StoreTypeOK, TypeRecords
<1>1. CASE listed = NoAuth
    BY <1>1 DEF LoadEnd, lockVars, callVars
<1>2. CASE listed # NoAuth
    <2>1. LoadVersion \in Nat /\ listed.tok \in Tokens /\ listed.hinted \in BOOLEAN
        BY <1>2 DEF LoadVersion, AuthRecords, Files
    <2>2. /\ auth' = [epoch |-> epochs + 1, gen |-> 1, ver |-> LoadVersion,
                      tok |-> listed.tok, run |-> 0, hinted |-> listed.hinted]
          /\ epochs' = epochs + 1
        BY <1>2 DEF LoadEnd
    <2>3. /\ auth' \in AuthRecords /\ auth'.epoch = epochs + 1
          /\ auth'.tok = listed.tok /\ auth'.hinted = listed.hinted
        BY <2>1, <2>2 DEF AuthRecords
    <2> QED BY <1>2, <2>2, <2>3 DEF LoadEnd, lockVars, callVars
<1> QED BY <1>1, <1>2

\* The store gets a file, or is left alone.
LEMMA SavedFile ==
    ASSUME StoreInv, NEW x \in Actors, SaveDone(x)
    PROVE  disk' \in Files \cup {NoAuth}
<1> USE DEF StoreInv, StoreTypeOK, TypeRecords
<1>1. CASE x \in Neighbours
    BY <1>1 DEF SaveDone
<1>2. CASE x \notin Neighbours
    <2>1. next[x] \in AuthRecords
        BY <1>2 DEF SaveDone, RecordsThere, Actors, Gated, Saving, Holding
    <2> QED BY <1>2, <2>1 DEF SaveDone, AuthRecords, Files
<1> QED BY <1>1, <1>2

-----------------------------------------------------------------------------
(* Every step keeps each part of the invariant.                            *)

\* A save goes on, or ends.
SaveMoves(x) ==
    SkipSave(x) \/ EndYield(x) \/ SaveDone(x) \/ SaveFailed(x) \/ AbandonSave(x)

\* Published record, files, counters and watermark stay well typed.
LEMMA TypeRecordsNext == StoreInv /\ StoreNext => TypeRecords'
<1> SUFFICES ASSUME StoreInv, StoreNext PROVE TypeRecords'
    OBVIOUS
<1> USE StoreAssumption DEF StoreInv, StoreTypeOK, TypeRecords, Actors, manVars,
    lockVars, loadVars, callVars
<1>1. ASSUME NEW w \in Writers, Arrive(w) \/ Discard(w) \/ (\E o \in GateOps : Call(w, o))
      PROVE TypeRecords'
    BY <1>1 DEF Arrive, Discard, Call, ToGate, AtGate, Return, Go
<1>2. ASSUME NEW w \in Writers, NEW o \in CopyOps, Copy(w, o) PROVE TypeRecords'
    BY <1>2, UnstampedRecord DEF Copy, Go
<1>3. ASSUME NEW w \in Writers, EnterRegister(w) PROVE TypeRecords'
    BY <1>3, RegisteredRecord DEF Entered
<1>4. ASSUME NEW w \in Writers, EnterUpdate(w) PROVE TypeRecords'
    BY <1>4, UpdatedRecord DEF Entered
<1>5. ASSUME NEW w \in Writers, EnterEdit(w) PROVE TypeRecords'
    BY <1>5, MarkedRecord DEF Entered
<1>6. ASSUME NEW w \in Writers, Remove(w) PROVE TypeRecords'
    BY <1>6 DEF Remove, AtGate, Return
<1>7. ASSUME NEW w \in Writers, Publish(w) PROVE TypeRecords'
    BY <1>7, PublishedRecord DEF Publish, Return
<1>8. ASSUME NEW x \in MetaSavers, MetaBegin(x) \/ MetaEnter(x) \/ MetaGiveUp(x)
      PROVE TypeRecords'
    BY <1>8 DEF MetaBegin, MetaEnter, MetaGiveUp, MetaLeave, Return, Go
<1>9. ASSUME NEW x \in MetaSavers, MetaPrepare(x) PROVE TypeRecords'
    BY <1>9, MetaPrepared
<1>10. ASSUME NEW x \in MetaSavers, MetaPublish(x) PROVE TypeRecords'
    BY <1>10, MetaRecord DEF MetaPublish, MetaLeave, Return
<1>11. ASSUME NEW p \in Pruners, Prune(p) PROVE TypeRecords'
    <2>1. auth' \in AuthRecords
        BY <1>11, RuntimeRecord
    <2> QED BY <1>11, <2>1 DEF Prune, Go
<1>12. ASSUME NEW n \in Neighbours, NeighbourSave(n) PROVE TypeRecords'
    BY <1>12 DEF NeighbourSave, Preempt, Go
<1>13. ASSUME NEW x \in Actors, BeginSave(x) PROVE TypeRecords'
    BY <1>13, SaveBegun
<1>14. ASSUME NEW x \in Actors, SaveMoves(x) PROVE TypeRecords'
    <2>1. disk' \in Files \cup {NoAuth}
        BY <1>14, SavedFile DEF SaveMoves, SkipSave, EndYield, SaveFailed, AbandonSave
    <2> QED BY <1>14, <2>1 DEF SaveMoves, SkipSave, EndYield, SaveDone, SaveFailed,
                        AbandonSave, SaveOver
<1>15. ASSUME NEW x \in Actors, Withdraw(x) PROVE TypeRecords'
    BY <1>15 DEF Withdraw, Return
<1>16. ASSUME RuntimeEdit PROVE TypeRecords'
    BY <1>16, RuntimeRecord DEF RuntimeEdit
<1>17. ASSUME LoadBegin PROVE TypeRecords'
    BY <1>17 DEF LoadBegin
<1>18. ASSUME LoadEnd PROVE TypeRecords'
    BY <1>18, LoadedRecord
<1> QED BY <1>1, <1>2, <1>3, <1>4, <1>5, <1>6, <1>7, <1>8, <1>9, <1>10, <1>11, <1>12,
       <1>13, <1>14, <1>15, <1>16, <1>17, <1>18 DEF StoreNext, WriterStep, MetaStep,
       SaveStep, SaveMoves

\* The flags stay Boolean.
LEMMA TypeFlagsNext == StoreInv /\ StoreNext => TypeFlags'
<1> SUFFICES ASSUME StoreInv, StoreNext PROVE TypeFlags'
    OBVIOUS
<1>1. provider' \in {"meta", "antigravity"}
    BY DEF StoreNext, StoreInv, StoreTypeOK, TypeFlags
<1>2. unsaved \in BOOLEAN /\ loading \in BOOLEAN
    BY DEF StoreInv, StoreTypeOK, TypeFlags
<1>3. ASSUME NEW w \in Writers, Publish(w)
      PROVE  loading' \in BOOLEAN /\ unsaved' \in BOOLEAN
    BY <1>2, <1>3 DEF Publish, Published, Transactional, loadVars
<1>4. ASSUME LoadBegin \/ LoadEnd
      PROVE  loading' \in BOOLEAN /\ unsaved' \in BOOLEAN
    BY <1>2, <1>4 DEF LoadBegin, LoadEnd
<1>5. \/ \E w \in Writers : Publish(w)
      \/ LoadBegin \/ LoadEnd
      \/ loading' = loading /\ unsaved' = unsaved
    BY DEF StoreNext, WriterStep, MetaStep, SaveStep, Arrive, Discard, EnterRegister,
           EnterUpdate, EnterEdit, Remove, Copy, Call, ToGate, Prepare, MetaBegin, MetaEnter,
           MetaPrepare, MetaGiveUp, MetaPublish, MetaLeave, Prune, NeighbourSave, Withdraw,
           SkipSave, BeginSave, EndYield, SaveDone, SaveFailed, AbandonSave, SaveOver,
           RuntimeEdit, loadVars
<1> QED BY <1>1, <1>2, <1>3, <1>4, <1>5 DEF TypeFlags

\* The locks are held by those who may hold them.
LEMMA TypeLocksNext == StoreInv /\ StoreNext => TypeLocks'
<1> SUFFICES ASSUME StoreInv, StoreNext PROVE TypeLocks'
    OBVIOUS
<1> USE StoreAssumption DEF StoreInv, StoreTypeOK, TypeLocks, Preempted,
    Foreground, Actors, manVars, lockVars, loadVars, callVars
<1>1. ASSUME NEW w \in Writers, Arrive(w) \/ Discard(w) \/ (\E o \in GateOps : Call(w, o))
      PROVE TypeLocks'
    BY <1>1 DEF Arrive, Discard, Call, ToGate, AtGate, Return, Go
<1>2. ASSUME NEW w \in Writers, NEW o \in CopyOps, Copy(w, o) PROVE TypeLocks'
    BY <1>2 DEF Copy, Go
<1>3. ASSUME NEW w \in Writers, EnterRegister(w) PROVE TypeLocks'
    BY <1>3 DEF EnterRegister, AtGate, Prepare, Go
<1>4. ASSUME NEW w \in Writers, EnterUpdate(w) PROVE TypeLocks'
    BY <1>4 DEF EnterUpdate, AtGate, Prepare, Go
<1>5. ASSUME NEW w \in Writers, EnterEdit(w) PROVE TypeLocks'
    BY <1>5 DEF EnterEdit, AtGate, Prepare, Go
<1>6. ASSUME NEW w \in Writers, Remove(w) PROVE TypeLocks'
    BY <1>6 DEF Remove, AtGate, Return
<1>7. ASSUME NEW w \in Writers, Publish(w) PROVE TypeLocks'
    BY <1>7 DEF Publish, Return
<1>8. ASSUME NEW x \in MetaSavers, MetaBegin(x) \/ MetaEnter(x) \/ MetaGiveUp(x)
      PROVE TypeLocks'
    BY <1>8 DEF MetaBegin, MetaEnter, MetaGiveUp, MetaLeave, Return, Go
<1>9. ASSUME NEW x \in MetaSavers, MetaPrepare(x) PROVE TypeLocks'
    BY <1>9 DEF MetaPrepare, Go
<1>10. ASSUME NEW x \in MetaSavers, MetaPublish(x) PROVE TypeLocks'
    BY <1>10 DEF MetaPublish, MetaLeave, Return
<1>11. ASSUME NEW p \in Pruners, Prune(p) PROVE TypeLocks'
    BY <1>11 DEF Prune, Go
<1>12. ASSUME NEW n \in Neighbours, NeighbourSave(n) PROVE TypeLocks'
    BY <1>12 DEF NeighbourSave, Preempt, Go
<1>13. ASSUME NEW x \in Actors, BeginSave(x) PROVE TypeLocks'
    BY <1>13 DEF BeginSave, Preempt, Go
<1>14. ASSUME NEW x \in Actors, SaveMoves(x) PROVE TypeLocks'
    BY <1>14 DEF SaveMoves, SkipSave, EndYield, SaveDone, SaveFailed, AbandonSave,
       SaveOver, Return, Go
<1>15. ASSUME NEW x \in Actors, Withdraw(x) PROVE TypeLocks'
    BY <1>15 DEF Withdraw, Return
<1>16. ASSUME RuntimeEdit PROVE TypeLocks'
    BY <1>16 DEF RuntimeEdit
<1>17. ASSUME LoadBegin PROVE TypeLocks'
    BY <1>17 DEF LoadBegin
<1>18. ASSUME LoadEnd PROVE TypeLocks'
    BY <1>18 DEF LoadEnd
<1> QED BY <1>1, <1>2, <1>3, <1>4, <1>5, <1>6, <1>7, <1>8, <1>9, <1>10, <1>11, <1>12,
       <1>13, <1>14, <1>15, <1>16, <1>17, <1>18 DEF StoreNext, WriterStep, MetaStep,
       SaveStep, SaveMoves

\* The variables of the calls stay well typed.
LEMMA TypeCallsNext == StoreInv /\ StoreNext => TypeCalls'
<1> SUFFICES ASSUME StoreInv, StoreNext PROVE TypeCalls'
    OBVIOUS
<1> USE StoreAssumption DEF StoreInv, StoreTypeOK, TypeLocks, TypeCalls,
    TypeRecords, Places, CopyOps, GateOps, Actors, manVars, lockVars, loadVars,
    callVars
<1>1. ASSUME NEW w \in Writers, Arrive(w) \/ Discard(w) \/ (\E o \in GateOps : Call(w, o))
      PROVE TypeCalls'
    BY <1>1 DEF Arrive, Discard, Call, ToGate, AtGate, Return, Go
<1>2. ASSUME NEW w \in Writers, NEW o \in CopyOps, Copy(w, o) PROVE TypeCalls'
    BY <1>2, UnstampedRecord DEF Copy, Go
<1>3. ASSUME NEW w \in Writers, EnterRegister(w) PROVE TypeCalls'
    BY <1>3, RegisteredRecord DEF Entered
<1>4. ASSUME NEW w \in Writers, EnterUpdate(w) PROVE TypeCalls'
    BY <1>4, UpdatedRecord DEF Entered
<1>5. ASSUME NEW w \in Writers, EnterEdit(w) PROVE TypeCalls'
    BY <1>5, MarkedRecord DEF Entered
<1>6. ASSUME NEW w \in Writers, Remove(w) PROVE TypeCalls'
    BY <1>6 DEF Remove, AtGate, Return
<1>7. ASSUME NEW w \in Writers, Publish(w) PROVE TypeCalls'
    BY <1>7 DEF Publish, Return
<1>8. ASSUME NEW x \in MetaSavers, MetaBegin(x) \/ MetaEnter(x) \/ MetaGiveUp(x)
      PROVE TypeCalls'
    BY <1>8 DEF MetaBegin, MetaEnter, MetaGiveUp, MetaLeave, Return, Go
<1>9. ASSUME NEW x \in MetaSavers, MetaPrepare(x) PROVE TypeCalls'
    BY <1>9, MetaPrepared
<1>10. ASSUME NEW x \in MetaSavers, MetaPublish(x) PROVE TypeCalls'
    BY <1>10 DEF MetaPublish, MetaLeave, Return
<1>11. ASSUME NEW p \in Pruners, Prune(p) PROVE TypeCalls'
    BY <1>11 DEF Prune, Go
<1>12. ASSUME NEW n \in Neighbours, NeighbourSave(n) PROVE TypeCalls'
    BY <1>12 DEF NeighbourSave, Preempt, Go
<1>13. ASSUME NEW x \in Actors, BeginSave(x) PROVE TypeCalls'
    BY <1>13, SaveBegun
<1>14. ASSUME NEW x \in Actors, SaveMoves(x) PROVE TypeCalls'
    BY <1>14 DEF SaveMoves, SkipSave, EndYield, SaveDone, SaveFailed, AbandonSave,
       SaveOver, Return, Go
<1>15. ASSUME NEW x \in Actors, Withdraw(x) PROVE TypeCalls'
    BY <1>15 DEF Withdraw, Return
<1>16. ASSUME RuntimeEdit PROVE TypeCalls'
    BY <1>16 DEF RuntimeEdit
<1>17. ASSUME LoadBegin PROVE TypeCalls'
    BY <1>17 DEF LoadBegin
<1>18. ASSUME LoadEnd PROVE TypeCalls'
    BY <1>18, LoadedRecord
<1> QED BY <1>1, <1>2, <1>3, <1>4, <1>5, <1>6, <1>7, <1>8, <1>9, <1>10, <1>11, <1>12,
       <1>13, <1>14, <1>15, <1>16, <1>17, <1>18 DEF StoreNext, WriterStep, MetaStep,
       SaveStep, SaveMoves

\* The gate is taken when nobody has it and given back by its holder.
LEMMA GateNext == StoreInv /\ StoreNext => GateInv'
<1> SUFFICES ASSUME StoreInv, StoreNext PROVE GateInv'
    OBVIOUS
<1> USE StoreAssumption DEF StoreInv, StoreTypeOK, TypeLocks, TypeCalls, GateInv,
    Gated, Holding, Saving, Places, Actors, manVars, lockVars, loadVars, callVars
<1>1. ASSUME NEW w \in Writers, Arrive(w) \/ Discard(w) \/ (\E o \in GateOps : Call(w, o))
      PROVE GateInv'
    BY <1>1 DEF Arrive, Discard, Call, ToGate, AtGate, Return, Go
<1>2. ASSUME NEW w \in Writers, NEW o \in CopyOps, Copy(w, o) PROVE GateInv'
    BY <1>2 DEF Copy, Go
<1>3. ASSUME NEW w \in Writers, EnterRegister(w) PROVE GateInv'
    BY <1>3, RegisteredRecord DEF Entered
<1>4. ASSUME NEW w \in Writers, EnterUpdate(w) PROVE GateInv'
    BY <1>4, UpdatedRecord DEF Entered
<1>5. ASSUME NEW w \in Writers, EnterEdit(w) PROVE GateInv'
    BY <1>5, MarkedRecord DEF Entered
<1>6. ASSUME NEW w \in Writers, Remove(w) PROVE GateInv'
    BY <1>6 DEF Remove, AtGate, Return
<1>7. ASSUME NEW w \in Writers, Publish(w) PROVE GateInv'
    BY <1>7 DEF Publish, Return
<1>8. ASSUME NEW x \in MetaSavers, MetaBegin(x) \/ MetaEnter(x) \/ MetaGiveUp(x)
      PROVE GateInv'
    BY <1>8 DEF MetaBegin, MetaEnter, MetaGiveUp, MetaLeave, Return, Go
<1>9. ASSUME NEW x \in MetaSavers, MetaPrepare(x) PROVE GateInv'
    BY <1>9, MetaPrepared
<1>10. ASSUME NEW x \in MetaSavers, MetaPublish(x) PROVE GateInv'
    BY <1>10 DEF MetaPublish, MetaLeave, Return
<1>11. ASSUME NEW p \in Pruners, Prune(p) PROVE GateInv'
    BY <1>11 DEF Prune, Go
<1>12. ASSUME NEW n \in Neighbours, NeighbourSave(n) PROVE GateInv'
    BY <1>12 DEF NeighbourSave, Preempt, Go
<1>13. ASSUME NEW x \in Actors, BeginSave(x) PROVE GateInv'
    BY <1>13, SaveBegun
<1>14. ASSUME NEW x \in Actors, SaveMoves(x) PROVE GateInv'
    BY <1>14 DEF SaveMoves, SkipSave, EndYield, SaveDone, SaveFailed, AbandonSave,
       SaveOver, Return, Go
<1>15. ASSUME NEW x \in Actors, Withdraw(x) PROVE GateInv'
    BY <1>15 DEF Withdraw, Return
<1>16. ASSUME RuntimeEdit PROVE GateInv'
    BY <1>16 DEF RuntimeEdit
<1>17. ASSUME LoadBegin PROVE GateInv'
    BY <1>17 DEF LoadBegin
<1>18. ASSUME LoadEnd PROVE GateInv'
    BY <1>18, LoadedRecord
<1> QED BY <1>1, <1>2, <1>3, <1>4, <1>5, <1>6, <1>7, <1>8, <1>9, <1>10, <1>11, <1>12,
       <1>13, <1>14, <1>15, <1>16, <1>17, <1>18 DEF StoreNext, WriterStep, MetaStep,
       SaveStep, SaveMoves

\* Load begins when nobody is inside, and keeps everybody out.
LEMMA LoadNext == StoreInv /\ StoreNext => LoadInv'
<1> SUFFICES ASSUME StoreInv, StoreNext PROVE LoadInv'
    OBVIOUS
<1> USE StoreAssumption DEF StoreInv, StoreTypeOK, TypeLocks, TypeCalls, TypeFlags,
    LoadInv, Inside, Gated, Holding, Saving, Places, Actors, manVars, lockVars,
    loadVars, callVars
<1>1. ASSUME NEW w \in Writers, Arrive(w) \/ Discard(w) \/ (\E o \in GateOps : Call(w, o))
      PROVE LoadInv'
    BY <1>1 DEF Arrive, Discard, Call, ToGate, AtGate, Return, Go
<1>2. ASSUME NEW w \in Writers, NEW o \in CopyOps, Copy(w, o) PROVE LoadInv'
    BY <1>2 DEF Copy, Go
<1>3. ASSUME NEW w \in Writers, EnterRegister(w) PROVE LoadInv'
    BY <1>3, RegisteredRecord DEF Entered
<1>4. ASSUME NEW w \in Writers, EnterUpdate(w) PROVE LoadInv'
    BY <1>4, UpdatedRecord DEF Entered
<1>5. ASSUME NEW w \in Writers, EnterEdit(w) PROVE LoadInv'
    BY <1>5, MarkedRecord DEF Entered
<1>6. ASSUME NEW w \in Writers, Remove(w) PROVE LoadInv'
    BY <1>6 DEF Remove, AtGate, Return
<1>7. ASSUME NEW w \in Writers, Publish(w) PROVE LoadInv'
    BY <1>7 DEF Publish, Return
<1>8. ASSUME NEW x \in MetaSavers, MetaBegin(x) \/ MetaEnter(x) \/ MetaGiveUp(x)
      PROVE LoadInv'
    BY <1>8 DEF MetaBegin, MetaEnter, MetaGiveUp, MetaLeave, Return, Go
<1>9. ASSUME NEW x \in MetaSavers, MetaPrepare(x) PROVE LoadInv'
    BY <1>9, MetaPrepared
<1>10. ASSUME NEW x \in MetaSavers, MetaPublish(x) PROVE LoadInv'
    BY <1>10 DEF MetaPublish, MetaLeave, Return
<1>11. ASSUME NEW p \in Pruners, Prune(p) PROVE LoadInv'
    BY <1>11 DEF Prune, Go
<1>12. ASSUME NEW n \in Neighbours, NeighbourSave(n) PROVE LoadInv'
    BY <1>12 DEF NeighbourSave, Preempt, Go
<1>13. ASSUME NEW x \in Actors, BeginSave(x) PROVE LoadInv'
    BY <1>13, SaveBegun
<1>14. ASSUME NEW x \in Actors, SaveMoves(x) PROVE LoadInv'
    BY <1>14 DEF SaveMoves, SkipSave, EndYield, SaveDone, SaveFailed, AbandonSave,
       SaveOver, Return, Go
<1>15. ASSUME NEW x \in Actors, Withdraw(x) PROVE LoadInv'
    BY <1>15 DEF Withdraw, Return
<1>16. ASSUME RuntimeEdit PROVE LoadInv'
    BY <1>16 DEF RuntimeEdit
<1>17. ASSUME LoadBegin PROVE LoadInv'
    BY <1>17 DEF LoadBegin
<1>18. ASSUME LoadEnd PROVE LoadInv'
    BY <1>18, LoadedRecord
<1> QED BY <1>1, <1>2, <1>3, <1>4, <1>5, <1>6, <1>7, <1>8, <1>9, <1>10, <1>11, <1>12,
       <1>13, <1>14, <1>15, <1>16, <1>17, <1>18 DEF StoreNext, WriterStep, MetaStep,
       SaveStep, SaveMoves

\* Copies and records are there when they are needed.
LEMMA RecordsThereNext == StoreInv /\ StoreNext => RecordsThere'
<1> SUFFICES ASSUME StoreInv, StoreNext PROVE RecordsThere'
    OBVIOUS
<1> USE StoreAssumption DEF StoreInv, StoreTypeOK, TypeLocks, TypeCalls,
    TypeRecords, RecordsThere, CopyOps, GateOps, Gated, Holding, Saving, Places,
    Actors, manVars, lockVars, loadVars, callVars
<1>1. ASSUME NEW w \in Writers, Arrive(w) \/ Discard(w) \/ (\E o \in GateOps : Call(w, o))
      PROVE RecordsThere'
    BY <1>1 DEF Arrive, Discard, Call, ToGate, AtGate, Return, Go
<1>2. ASSUME NEW w \in Writers, NEW o \in CopyOps, Copy(w, o) PROVE RecordsThere'
    BY <1>2, UnstampedRecord DEF Copy, Go
<1>3. ASSUME NEW w \in Writers, EnterRegister(w) PROVE RecordsThere'
    BY <1>3, RegisteredRecord DEF Entered
<1>4. ASSUME NEW w \in Writers, EnterUpdate(w) PROVE RecordsThere'
    BY <1>4, UpdatedRecord DEF Entered
<1>5. ASSUME NEW w \in Writers, EnterEdit(w) PROVE RecordsThere'
    BY <1>5, MarkedRecord DEF Entered
<1>6. ASSUME NEW w \in Writers, Remove(w) PROVE RecordsThere'
    BY <1>6 DEF Remove, AtGate, Return
<1>7. ASSUME NEW w \in Writers, Publish(w) PROVE RecordsThere'
    BY <1>7 DEF Publish, Return
<1>8. ASSUME NEW x \in MetaSavers, MetaBegin(x) \/ MetaEnter(x) \/ MetaGiveUp(x)
      PROVE RecordsThere'
    BY <1>8 DEF MetaBegin, MetaEnter, MetaGiveUp, MetaLeave, Return, Go
<1>9. ASSUME NEW x \in MetaSavers, MetaPrepare(x) PROVE RecordsThere'
    BY <1>9, MetaPrepared
<1>10. ASSUME NEW x \in MetaSavers, MetaPublish(x) PROVE RecordsThere'
    BY <1>10 DEF MetaPublish, MetaLeave, Return
<1>11. ASSUME NEW p \in Pruners, Prune(p) PROVE RecordsThere'
    BY <1>11 DEF Prune, Go
<1>12. ASSUME NEW n \in Neighbours, NeighbourSave(n) PROVE RecordsThere'
    BY <1>12 DEF NeighbourSave, Preempt, Go
<1>13. ASSUME NEW x \in Actors, BeginSave(x) PROVE RecordsThere'
    BY <1>13, SaveBegun
<1>14. ASSUME NEW x \in Actors, SaveMoves(x) PROVE RecordsThere'
    BY <1>14 DEF SaveMoves, SkipSave, EndYield, SaveDone, SaveFailed, AbandonSave,
       SaveOver, Return, Go
<1>15. ASSUME NEW x \in Actors, Withdraw(x) PROVE RecordsThere'
    BY <1>15 DEF Withdraw, Return
<1>16. ASSUME RuntimeEdit PROVE RecordsThere'
    BY <1>16 DEF RuntimeEdit
<1>17. ASSUME LoadBegin PROVE RecordsThere'
    BY <1>17 DEF LoadBegin
<1>18. ASSUME LoadEnd PROVE RecordsThere'
    BY <1>18, LoadedRecord
<1> QED BY <1>1, <1>2, <1>3, <1>4, <1>5, <1>6, <1>7, <1>8, <1>9, <1>10, <1>11, <1>12,
       <1>13, <1>14, <1>15, <1>16, <1>17, <1>18 DEF StoreNext, WriterStep, MetaStep,
       SaveStep, SaveMoves

\* Registrations are given out under the gate or behind the load gate.
LEMMA EpochNext == StoreInv /\ StoreNext => EpochInv'
<1> SUFFICES ASSUME StoreInv, StoreNext PROVE EpochInv'
    OBVIOUS
<1> USE StoreAssumption DEF StoreInv, StoreTypeOK, TypeLocks, TypeCalls,
    TypeRecords, GateInv, LoadInv, EpochInv, Gated, Holding, Saving, Places, Actors,
    manVars, lockVars, loadVars, callVars
<1>1. ASSUME NEW w \in Writers, Arrive(w) \/ Discard(w) \/ (\E o \in GateOps : Call(w, o))
      PROVE EpochInv'
    BY <1>1 DEF Arrive, Discard, Call, ToGate, AtGate, Return, Go
<1>2. ASSUME NEW w \in Writers, NEW o \in CopyOps, Copy(w, o) PROVE EpochInv'
    BY <1>2, UnstampedRecord DEF Copy, Go
<1>3. ASSUME NEW w \in Writers, EnterRegister(w) PROVE EpochInv'
    BY <1>3, RegisteredRecord DEF Entered
<1>4. ASSUME NEW w \in Writers, EnterUpdate(w) PROVE EpochInv'
    BY <1>4, UpdatedRecord DEF Entered, CopyOps
<1>5. ASSUME NEW w \in Writers, EnterEdit(w) PROVE EpochInv'
    BY <1>5, MarkedRecord DEF Entered
<1>6. ASSUME NEW w \in Writers, Remove(w) PROVE EpochInv'
    BY <1>6 DEF Remove, AtGate, Return
<1>7. ASSUME NEW w \in Writers, Publish(w) PROVE EpochInv'
    <2>1. CASE op[w] = "register"
        BY <1>7, <2>1, PublishedRegistration DEF Publish
    <2>2. CASE op[w] # "register"
        BY <1>7, <2>2, PublishedRecord DEF Publish
    <2> QED BY <2>1, <2>2
<1>8. ASSUME NEW x \in MetaSavers, MetaBegin(x) \/ MetaEnter(x) \/ MetaGiveUp(x)
      PROVE EpochInv'
    BY <1>8 DEF MetaBegin, MetaEnter, MetaGiveUp, MetaLeave, Return, Go
<1>9. ASSUME NEW x \in MetaSavers, MetaPrepare(x) PROVE EpochInv'
    BY <1>9, MetaPrepared
<1>10. ASSUME NEW x \in MetaSavers, MetaPublish(x) PROVE EpochInv'
    <2>1. gate \notin Writers /\ epochs' = epochs /\ gate' = Nobody
        BY <1>10 DEF MetaPublish, MetaLeave
    <2>2. auth' # NoAuth => auth # NoAuth /\ auth'.epoch = auth.epoch
        BY <1>10, MetaRecord
    <2> QED BY <2>1, <2>2
<1>11. ASSUME NEW p \in Pruners, Prune(p) PROVE EpochInv'
    BY <1>11, RuntimeRecord DEF Prune, Go
<1>12. ASSUME NEW n \in Neighbours, NeighbourSave(n) PROVE EpochInv'
    BY <1>12 DEF NeighbourSave, Preempt, Go
<1>13. ASSUME NEW x \in Actors, BeginSave(x) PROVE EpochInv'
    BY <1>13, SaveBegun
<1>14. ASSUME NEW x \in Actors, SaveMoves(x) PROVE EpochInv'
    BY <1>14 DEF SaveMoves, SkipSave, EndYield, SaveDone, SaveFailed, AbandonSave,
       SaveOver, Return, Go
<1>15. ASSUME NEW x \in Actors, Withdraw(x) PROVE EpochInv'
    BY <1>15 DEF Withdraw, Return
<1>16. ASSUME RuntimeEdit PROVE EpochInv'
    BY <1>16, RuntimeRecord DEF RuntimeEdit
<1>17. ASSUME LoadBegin PROVE EpochInv'
    BY <1>17 DEF LoadBegin
<1>18. ASSUME LoadEnd PROVE EpochInv'
    BY <1>18, LoadedRecord
<1> QED BY <1>1, <1>2, <1>3, <1>4, <1>5, <1>6, <1>7, <1>8, <1>9, <1>10, <1>11, <1>12,
       <1>13, <1>14, <1>15, <1>16, <1>17, <1>18 DEF StoreNext, WriterStep, MetaStep,
       SaveStep, SaveMoves

\* Nobody changes the registration under the holder of the gate.
LEMMA RegistrationNext == StoreInv /\ StoreNext => RegistrationHeld'
<1> SUFFICES ASSUME StoreInv, StoreNext PROVE RegistrationHeld'
    OBVIOUS
<1> USE StoreAssumption DEF StoreInv, StoreTypeOK, TypeLocks, TypeCalls, GateInv,
    LoadInv, EpochInv, RegistrationHeld, Gated, Holding, Saving, Places, Actors,
    manVars, lockVars, loadVars, callVars
<1>1. ASSUME NEW w \in Writers, Arrive(w) \/ Discard(w) \/ (\E o \in GateOps : Call(w, o))
      PROVE RegistrationHeld'
    BY <1>1 DEF Arrive, Discard, Call, ToGate, AtGate, Return, Go
<1>2. ASSUME NEW w \in Writers, NEW o \in CopyOps, Copy(w, o) PROVE RegistrationHeld'
    BY <1>2, UnstampedRecord DEF Copy, Go
<1>3. ASSUME NEW w \in Writers, EnterRegister(w) PROVE RegistrationHeld'
    BY <1>3, RegisteredRecord DEF Entered
<1>4. ASSUME NEW w \in Writers, EnterUpdate(w) PROVE RegistrationHeld'
    BY <1>4, UpdatedRecord DEF Entered
<1>5. ASSUME NEW w \in Writers, EnterEdit(w) PROVE RegistrationHeld'
    BY <1>5, MarkedRecord DEF Entered
<1>6. ASSUME NEW w \in Writers, Remove(w) PROVE RegistrationHeld'
    BY <1>6 DEF Remove, AtGate, Return
<1>7. ASSUME NEW w \in Writers, Publish(w) PROVE RegistrationHeld'
    BY <1>7, PublishedRecord DEF Publish, Return
<1>8. ASSUME NEW x \in MetaSavers, MetaBegin(x) \/ MetaEnter(x) \/ MetaGiveUp(x)
      PROVE RegistrationHeld'
    BY <1>8 DEF MetaBegin, MetaEnter, MetaGiveUp, MetaLeave, Return, Go
<1>9. ASSUME NEW x \in MetaSavers, MetaPrepare(x) PROVE RegistrationHeld'
    BY <1>9, MetaPrepared
<1>10. ASSUME NEW x \in MetaSavers, MetaPublish(x) PROVE RegistrationHeld'
    BY <1>10, MetaRecord DEF MetaPublish, MetaLeave, Return
<1>11. ASSUME NEW p \in Pruners, Prune(p) PROVE RegistrationHeld'
    BY <1>11, RuntimeRecord DEF Prune, Go
<1>12. ASSUME NEW n \in Neighbours, NeighbourSave(n) PROVE RegistrationHeld'
    BY <1>12 DEF NeighbourSave, Preempt, Go
<1>13. ASSUME NEW x \in Actors, BeginSave(x) PROVE RegistrationHeld'
    BY <1>13, SaveBegun
<1>14. ASSUME NEW x \in Actors, SaveMoves(x) PROVE RegistrationHeld'
    BY <1>14 DEF SaveMoves, SkipSave, EndYield, SaveDone, SaveFailed, AbandonSave,
       SaveOver, Return, Go
<1>15. ASSUME NEW x \in Actors, Withdraw(x) PROVE RegistrationHeld'
    BY <1>15 DEF Withdraw, Return
<1>16. ASSUME RuntimeEdit PROVE RegistrationHeld'
    BY <1>16, RuntimeRecord DEF RuntimeEdit
<1>17. ASSUME LoadBegin PROVE RegistrationHeld'
    BY <1>17 DEF LoadBegin
<1>18. ASSUME LoadEnd PROVE RegistrationHeld'
    BY <1>18, LoadedRecord
<1> QED BY <1>1, <1>2, <1>3, <1>4, <1>5, <1>6, <1>7, <1>8, <1>9, <1>10, <1>11, <1>12,
       <1>13, <1>14, <1>15, <1>16, <1>17, <1>18 DEF StoreNext, WriterStep, MetaStep,
       SaveStep, SaveMoves

\* Nobody changes the credentials under a refresh that has the gate.
LEMMA StaleNext == StoreInv /\ StoreNext => NoStaleRefresh'
<1> SUFFICES ASSUME StoreInv, StoreNext PROVE NoStaleRefresh'
    OBVIOUS
<1> USE StoreAssumption DEF StoreInv, StoreTypeOK, TypeLocks, TypeCalls, GateInv,
    LoadInv, NoStaleRefresh, Gated, Holding, Saving, Places, Actors, manVars, lockVars,
    loadVars, callVars
<1>1. ASSUME NEW w \in Writers, Arrive(w) \/ Discard(w) \/ (\E o \in GateOps : Call(w, o))
      PROVE NoStaleRefresh'
    BY <1>1 DEF Arrive, Discard, Call, ToGate, AtGate, Return, Go
<1>2. ASSUME NEW w \in Writers, NEW o \in CopyOps, Copy(w, o) PROVE NoStaleRefresh'
    BY <1>2, UnstampedRecord DEF Copy, Go
<1>3. ASSUME NEW w \in Writers, EnterRegister(w) PROVE NoStaleRefresh'
    BY <1>3, RegisteredRecord DEF Entered
<1>4. ASSUME NEW w \in Writers, EnterUpdate(w) PROVE NoStaleRefresh'
    BY <1>4, UpdatedRecord DEF Entered, Refused, CredentialsMoved
<1>5. ASSUME NEW w \in Writers, EnterEdit(w) PROVE NoStaleRefresh'
    BY <1>5, MarkedRecord DEF Entered
<1>6. ASSUME NEW w \in Writers, Remove(w) PROVE NoStaleRefresh'
    BY <1>6 DEF Remove, AtGate, Return
<1>7. ASSUME NEW w \in Writers, Publish(w) PROVE NoStaleRefresh'
    BY <1>7, PublishedRecord DEF Publish, Return
<1>8. ASSUME NEW x \in MetaSavers, MetaBegin(x) \/ MetaEnter(x) \/ MetaGiveUp(x)
      PROVE NoStaleRefresh'
    BY <1>8 DEF MetaBegin, MetaEnter, MetaGiveUp, MetaLeave, Return, Go
<1>9. ASSUME NEW x \in MetaSavers, MetaPrepare(x) PROVE NoStaleRefresh'
    BY <1>9, MetaPrepared
<1>10. ASSUME NEW x \in MetaSavers, MetaPublish(x) PROVE NoStaleRefresh'
    BY <1>10, MetaRecord DEF MetaPublish, MetaLeave, Return
<1>11. ASSUME NEW p \in Pruners, Prune(p) PROVE NoStaleRefresh'
    BY <1>11, RuntimeRecord DEF Prune, Go
<1>12. ASSUME NEW n \in Neighbours, NeighbourSave(n) PROVE NoStaleRefresh'
    BY <1>12 DEF NeighbourSave, Preempt, Go
<1>13. ASSUME NEW x \in Actors, BeginSave(x) PROVE NoStaleRefresh'
    BY <1>13, SaveBegun
<1>14. ASSUME NEW x \in Actors, SaveMoves(x) PROVE NoStaleRefresh'
    BY <1>14 DEF SaveMoves, SkipSave, EndYield, SaveDone, SaveFailed, AbandonSave,
       SaveOver, Return, Go
<1>15. ASSUME NEW x \in Actors, Withdraw(x) PROVE NoStaleRefresh'
    BY <1>15 DEF Withdraw, Return
<1>16. ASSUME RuntimeEdit PROVE NoStaleRefresh'
    BY <1>16, RuntimeRecord DEF RuntimeEdit
<1>17. ASSUME LoadBegin PROVE NoStaleRefresh'
    BY <1>17 DEF LoadBegin
<1>18. ASSUME LoadEnd PROVE NoStaleRefresh'
    BY <1>18, LoadedRecord
<1> QED BY <1>1, <1>2, <1>3, <1>4, <1>5, <1>6, <1>7, <1>8, <1>9, <1>10, <1>11, <1>12,
       <1>13, <1>14, <1>15, <1>16, <1>17, <1>18 DEF StoreNext, WriterStep, MetaStep,
       SaveStep, SaveMoves

\* The published version does not overtake the record of the holder.
LEMMA VersionNext == StoreInv /\ StoreNext => VersionInv'
<1> SUFFICES ASSUME StoreInv, StoreNext PROVE VersionInv'
    OBVIOUS
<1> USE StoreAssumption DEF StoreInv, StoreTypeOK, TypeLocks, TypeCalls, GateInv,
    LoadInv, VersionInv, RecordsThere, Gated, Holding, Saving, Places, Actors, manVars,
    lockVars, loadVars, callVars
<1>1. ASSUME NEW w \in Writers, Arrive(w) \/ Discard(w) \/ (\E o \in GateOps : Call(w, o))
      PROVE VersionInv'
    BY <1>1 DEF Arrive, Discard, Call, ToGate, AtGate, Return, Go
<1>2. ASSUME NEW w \in Writers, NEW o \in CopyOps, Copy(w, o) PROVE VersionInv'
    BY <1>2, UnstampedRecord DEF Copy, Go
<1>3. ASSUME NEW w \in Writers, EnterRegister(w) PROVE VersionInv'
    BY <1>3, RegisteredRecord DEF Entered
<1>4. ASSUME NEW w \in Writers, EnterUpdate(w) PROVE VersionInv'
    BY <1>4, UpdatedRecord DEF Entered
<1>5. ASSUME NEW w \in Writers, EnterEdit(w) PROVE VersionInv'
    BY <1>5, MarkedRecord DEF Entered
<1>6. ASSUME NEW w \in Writers, Remove(w) PROVE VersionInv'
    BY <1>6 DEF Remove, AtGate, Return
<1>7. ASSUME NEW w \in Writers, Publish(w) PROVE VersionInv'
    BY <1>7, PublishedRecord DEF Publish, Return
<1>8. ASSUME NEW x \in MetaSavers, MetaBegin(x) \/ MetaEnter(x) \/ MetaGiveUp(x)
      PROVE VersionInv'
    BY <1>8 DEF MetaBegin, MetaEnter, MetaGiveUp, MetaLeave, Return, Go
<1>9. ASSUME NEW x \in MetaSavers, MetaPrepare(x) PROVE VersionInv'
    BY <1>9, MetaPrepared
<1>10. ASSUME NEW x \in MetaSavers, MetaPublish(x) PROVE VersionInv'
    BY <1>10, MetaRecord DEF MetaPublish, MetaLeave, Return
<1>11. ASSUME NEW p \in Pruners, Prune(p) PROVE VersionInv'
    BY <1>11, RuntimeRecord DEF Prune, Go
<1>12. ASSUME NEW n \in Neighbours, NeighbourSave(n) PROVE VersionInv'
    BY <1>12 DEF NeighbourSave, Preempt, Go
<1>13. ASSUME NEW x \in Actors, BeginSave(x) PROVE VersionInv'
    BY <1>13, SaveBegun
<1>14. ASSUME NEW x \in Actors, SaveMoves(x) PROVE VersionInv'
    BY <1>14 DEF SaveMoves, SkipSave, EndYield, SaveDone, SaveFailed, AbandonSave,
       SaveOver, Return, Go
<1>15. ASSUME NEW x \in Actors, Withdraw(x) PROVE VersionInv'
    BY <1>15 DEF Withdraw, Return
<1>16. ASSUME RuntimeEdit PROVE VersionInv'
    BY <1>16, RuntimeRecord DEF RuntimeEdit
<1>17. ASSUME LoadBegin PROVE VersionInv'
    BY <1>17 DEF LoadBegin
<1>18. ASSUME LoadEnd PROVE VersionInv'
    BY <1>18, LoadedRecord
<1> QED BY <1>1, <1>2, <1>3, <1>4, <1>5, <1>6, <1>7, <1>8, <1>9, <1>10, <1>11, <1>12,
       <1>13, <1>14, <1>15, <1>16, <1>17, <1>18 DEF StoreNext, WriterStep, MetaStep,
       SaveStep, SaveMoves

-----------------------------------------------------------------------------
(* The invariant.                                                          *)

\* It holds when the manager has loaded what the store has, or nothing.
LEMMA StoreInvInit == StoreInit => StoreInv
<1> SUFFICES ASSUME StoreInit PROVE StoreInv
    OBVIOUS
<1> USE StoreAssumption DEF StoreInit
<1>1. auth \in AuthRecords \cup {NoAuth} /\ (auth # NoAuth => auth.epoch = epochs)
    BY DEF AuthRecords, Files
<1>2. TypeRecords
    BY <1>1 DEF TypeRecords
<1>3. TypeFlags /\ TypeLocks /\ TypeCalls
    BY DEF TypeFlags, TypeLocks, TypeCalls, Places
<1>4. GateInv /\ LoadInv
    BY DEF GateInv, LoadInv, Gated, Holding, Actors
<1>5. RecordsThere
    BY DEF RecordsThere, Gated, Saving, Holding, Actors, CopyOps
<1>6. EpochInv
    BY <1>1 DEF EpochInv, Actors
<1>7. RegistrationHeld /\ NoStaleRefresh /\ VersionInv
    BY DEF RegistrationHeld, NoStaleRefresh, VersionInv, Gated, Saving, Holding, Actors
<1> QED BY <1>2, <1>3, <1>4, <1>5, <1>6, <1>7 DEF StoreInv, StoreTypeOK

\* Every step keeps it.
LEMMA StoreInvNext == StoreInv /\ [StoreNext]_storeVars => StoreInv'
<1>1. CASE StoreNext
    BY <1>1, TypeRecordsNext, TypeFlagsNext, TypeLocksNext, TypeCallsNext, GateNext,
       LoadNext, RecordsThereNext, EpochNext, RegistrationNext, StaleNext, VersionNext
       DEF StoreInv, StoreTypeOK
<1>2. CASE UNCHANGED storeVars
    BY <1>2 DEF storeVars, manVars, lockVars, loadVars, callVars, StoreInv, StoreTypeOK,
       TypeRecords, TypeFlags, TypeLocks, TypeCalls, GateInv, LoadInv, RecordsThere,
       EpochInv, RegistrationHeld, NoStaleRefresh, VersionInv
<1> QED BY <1>1, <1>2

\* It holds in every state of every behaviour.
LEMMA StoreInvAlways == StoreSpec => []StoreInv
BY StoreInvInit, StoreInvNext, PTL DEF StoreSpec

\* However many writers, metadata savers and pruners meet, what a writer decided
\* at the gate is true until it has published: the registration is its own, and
\* a refresh overwrites only the credentials it has read
\* (updateInternalWithGenerationLocked, Register, Load).
THEOREM GateIsExclusive == StoreSpec => []GateHolds
<1>1. StoreInv => GateHolds
    BY DEF StoreInv, GateHolds
<1> QED BY <1>1, StoreInvAlways, PTL

-----------------------------------------------------------------------------
(* What a step does to the published record.                               *)

\* The steps that change it.
LEMMA AuthChanges ==
    StoreNext =>
        \/ auth' = auth \/ auth' = NoAuth
        \/ \E w \in Writers : EnterEdit(w) \/ Publish(w)
        \/ \E x \in MetaSavers : MetaPublish(x)
        \/ RuntimeEdit \/ (\E p \in Pruners : Prune(p)) \/ LoadEnd
BY DEF StoreNext, WriterStep, MetaStep, SaveStep, Arrive, Discard, EnterRegister,
       EnterUpdate, Remove, Copy, Call, ToGate, Prepare, MetaBegin, MetaEnter, MetaPrepare,
       MetaGiveUp, NeighbourSave, Withdraw, SkipSave, BeginSave, EndYield, SaveDone,
       SaveFailed, AbandonSave, SaveOver, LoadBegin, manVars

\* The action VersionsAdvance is about.
Advances ==
    (auth # NoAuth /\ auth' # NoAuth /\ auth'.epoch = auth.epoch) =>
        /\ auth'.gen >= auth.gen /\ auth'.ver >= auth.ver
        /\ auth'.tok # auth.tok => auth'.gen > auth.gen /\ auth'.ver > auth.ver

\* Generation and version never go back, and rise with new credentials.
LEMMA StepAdvances == StoreInv /\ [StoreNext]_storeVars => Advances
<1> SUFFICES ASSUME StoreInv, [StoreNext]_storeVars,
                    auth # NoAuth, auth' # NoAuth, auth'.epoch = auth.epoch
             PROVE  /\ auth'.gen >= auth.gen /\ auth'.ver >= auth.ver
                    /\ auth'.tok # auth.tok => auth'.gen > auth.gen /\ auth'.ver > auth.ver
    BY DEF Advances
<1>1. auth \in AuthRecords /\ auth.gen \in Nat /\ auth.ver \in Nat
    BY DEF StoreInv, StoreTypeOK, TypeRecords, AuthRecords
<1>2. auth' \in AuthRecords /\ auth'.gen \in Nat /\ auth'.ver \in Nat
    BY StoreInvNext DEF StoreInv, StoreTypeOK, TypeRecords, AuthRecords
<1>3. ASSUME NEW w \in Writers, EnterEdit(w)
      PROVE  auth'.gen > auth.gen /\ auth'.ver = auth.ver /\ auth'.tok = auth.tok
    BY <1>3, MarkedRecord
<1>4. ASSUME NEW w \in Writers, Publish(w), auth' # auth
      PROVE  /\ auth'.gen > auth.gen /\ auth'.ver >= auth.ver
             /\ auth'.tok # auth.tok => auth'.ver > auth.ver
    <2>1. op[w] # "register"
        BY <1>1, <1>4, PublishedRecord DEF StoreInv, EpochInv, StoreTypeOK, TypeRecords, AuthRecords
    <2>2. next[w].ver >= auth.ver /\ (next[w].tok # auth.tok => next[w].ver > auth.ver)
        BY <1>4, <2>1 DEF Publish, StoreInv, VersionInv, Gated, Saving, Holding
    <2> QED BY <1>4, <2>1, <2>2, PublishedRecord
<1>5. ASSUME NEW x \in MetaSavers, MetaPublish(x), auth' # auth
      PROVE  auth'.gen >= auth.gen /\ auth'.ver >= auth.ver /\ auth'.tok = auth.tok
    BY <1>5, MetaRecord
<1>6. ASSUME RuntimeEdit \/ (\E p \in Pruners : Prune(p))
      PROVE  auth'.gen >= auth.gen /\ auth'.ver = auth.ver /\ auth'.tok = auth.tok
    BY <1>6, RuntimeRecord
<1>7. ASSUME LoadEnd PROVE FALSE
    <2>1. auth'.epoch = epochs + 1
        BY <1>7, LoadedRecord
    <2>2. gate \notin Writers
        BY <1>7 DEF LoadEnd, StoreInv, LoadInv, GateInv, Gated, Holding
    <2>3. auth.epoch = epochs /\ epochs \in Nat
        BY <2>2 DEF StoreInv, EpochInv, StoreTypeOK, TypeRecords
    <2>4. epochs + 1 = epochs
        BY <2>1, <2>3, Zenon
    <2> QED BY <2>3, <2>4
<1>8. CASE UNCHANGED storeVars
    BY <1>1, <1>8 DEF storeVars, manVars
<1> QED BY <1>1, <1>2, <1>3, <1>4, <1>5, <1>6, <1>7, <1>8, AuthChanges

\* Within a registration no step sets the generation or the credential version
\* back, and new credentials raise both, whatever was edited during their save:
\* the fences of refreshes and results can rely on them.
THEOREM VersionsOnlyAdvance == StoreSpec => VersionsAdvance
<1>1. StoreInv /\ [StoreNext]_storeVars => [Advances]_storeVars
    BY StepAdvances
<1> QED BY <1>1, StoreInvAlways, PTL DEF StoreSpec, VersionsAdvance, Advances

-----------------------------------------------------------------------------
(* Edits made during a save.                                               *)

\* The steps that give the gate back, to whom it belonged.
LEMMA GateGivenBack ==
    ASSUME StoreInv, StoreNext, NEW x \in Gated, gate = x, gate' = Nobody
    PROVE  (x \in Writers /\ Publish(x)) \/ (x \in MetaSavers /\ MetaPublish(x)) \/ auth' = auth
<1>1. \/ gate' = gate
      \/ \E w \in Writers : Publish(w) \/ EnterRegister(w) \/ EnterUpdate(w) \/ EnterEdit(w)
      \/ \E y \in MetaSavers : MetaEnter(y) \/ MetaGiveUp(y) \/ MetaPublish(y)
    BY DEF StoreNext, WriterStep, MetaStep, SaveStep, Arrive, Discard, Remove, Copy, Call,
       ToGate, MetaBegin, MetaPrepare, Prune, NeighbourSave, Withdraw, SkipSave, BeginSave,
       EndYield, SaveDone, SaveFailed, AbandonSave, SaveOver, RuntimeEdit, LoadBegin,
       LoadEnd, lockVars
<1>2. x # Nobody
    BY StoreAssumption DEF Gated, Actors
<1>3. ASSUME NEW w \in Writers, Publish(w) PROVE w = x
    BY <1>3 DEF Publish, StoreInv, GateInv, Gated, Holding
<1>4. ASSUME NEW w \in Writers, EnterRegister(w) \/ EnterUpdate(w) \/ EnterEdit(w)
      PROVE  FALSE
    BY <1>2, <1>4 DEF EnterRegister, EnterUpdate, EnterEdit, AtGate
<1>5. ASSUME NEW y \in MetaSavers, MetaEnter(y) PROVE FALSE
    BY <1>2, <1>5 DEF MetaEnter
<1>6. ASSUME NEW y \in MetaSavers, MetaGiveUp(y) PROVE auth' = auth
    BY <1>6 DEF MetaGiveUp
<1>7. ASSUME NEW y \in MetaSavers, MetaPublish(y) PROVE y = x
    BY <1>7 DEF MetaPublish, StoreInv, GateInv, Gated, Holding
<1> QED BY <1>1, <1>2, <1>3, <1>4, <1>5, <1>6, <1>7

\* The action EditsKept is about.
Keeps ==
    \A x \in Writers \cup MetaSavers :
        (/\ gate = x /\ gate' = Nobody /\ op[x] # "register"
         /\ auth # NoAuth /\ auth.run > before[x])
            => auth'.run = auth.run

\* A step that gives the gate back keeps them.
LEMMA StepKeeps == StoreInv /\ [StoreNext]_storeVars => Keeps
<1> SUFFICES ASSUME StoreInv, [StoreNext]_storeVars, NEW x \in Gated,
                    gate = x, gate' = Nobody, op[x] # "register",
                    auth # NoAuth, auth.run > before[x]
             PROVE  auth'.run = auth.run
    BY DEF Keeps, Gated
<1>1. auth.run # before[x]
    BY DEF StoreInv, StoreTypeOK, TypeRecords, TypeCalls, AuthRecords, Gated, Actors
<1>2. CASE UNCHANGED storeVars
    BY <1>2 DEF storeVars, manVars
<1>3. CASE StoreNext
    <2>1. CASE auth' = auth
        BY <2>1
    <2>2. CASE x \in Writers /\ Publish(x) /\ auth' # auth
        BY <1>1, <2>2, PublishedRecord
    <2>3. CASE x \in MetaSavers /\ MetaPublish(x) /\ auth' # auth
        BY <1>1, <2>3, MetaRecord
    <2> QED BY <1>3, <2>1, <2>2, <2>3, GateGivenBack
<1> QED BY <1>2, <1>3

\* What refreshes, results and pruners edit while a record is being saved is
\* there when the saved record is published (mergeAuthSaveDelta).
THEOREM EditsSurvive == StoreSpec => EditsKept
<1>1. StoreInv /\ [StoreNext]_storeVars => [Keeps]_storeVars
    BY StepKeeps
<1> QED BY <1>1, StoreInvAlways, PTL DEF StoreSpec, EditsKept, Keeps
-----------------------------------------------------------------------------
(* The file in the token store.                                            *)

\* A refresh works from a copy of a registration given out before, whose
\* generation the published record has reached.
CopyInv ==
    \A w \in Writers : op[w] \in {"refresh", "prepare"} =>
        /\ base[w].epoch <= epochs
        /\ gate \in Writers /\ op[gate] = "register" => base[w].epoch < epochs
        /\ auth # NoAuth /\ auth.epoch = base[w].epoch => base[w].gen <= auth.gen

\* The save of a holder of the gate has begun.
Begun == Saving \ {"saving"}

\* How far a save that failed, of a key that is not used then, leaves the
\* watermark ahead of the published record.
Slack == IF provider = "meta" THEN 1 ELSE 0

\* The watermark never keeps the holder of the gate from its save.
MarkInv ==
    /\ watermark.epoch <= epochs
    /\ (auth # NoAuth /\ watermark.epoch = auth.epoch /\ \A x \in Gated : pc[x] \notin Begun)
            => watermark.gen <= auth.gen + Slack
    /\ \A x \in Gated :
        /\ pc[x] = "saving" => ~Outdated(next[x])
        /\ pc[x] \in Begun => watermark.epoch = next[x].epoch /\ watermark.gen = next[x].gen

\* The record in the hands of x is the published one, with an entry perhaps.
CopyOfPublished(x) ==
    /\ auth # NoAuth /\ next[x].epoch = auth.epoch /\ next[x].gen <= auth.gen
    /\ next[x].tok = auth.tok /\ (auth.hinted => next[x].hinted)

\* The record of the gate's holder: not far ahead of the published one, the
\* published one itself, or in the store.
HolderInv ==
    /\ \A w \in Writers :
        /\ pc[w] \in Saving /\ Transactional(w) => next[w].gen <= auth.gen + 1
        /\ pc[w] \in Saving /\ op[w] = "edit" => CopyOfPublished(w)
    /\ \A x \in MetaSavers :
        /\ pc[x] # "idle" => provider = "antigravity"
        /\ pc[x] \in Saving => CopyOfPublished(x)
    /\ \A x \in Gated : pc[x] = "saved" =>
        disk # NoAuth /\ disk.tok = next[x].tok /\ disk.hinted = next[x].hinted

\* The store has the published credentials unless a record that is saved is
\* still to be published.
FileInv ==
    /\ (auth # NoAuth /\ ~unsaved /\ \A x \in Gated : pc[x] # "saved") =>
        disk # NoAuth /\ disk.tok = auth.tok /\ (auth.hinted => disk.hinted)
    /\ loading => listed = disk

DiskInv == CopyInv /\ MarkInv /\ HolderInv /\ FileInv

\* No save is skipped: its record is never found outdated.
LEMMA NoSkip ==
    ASSUME Pruners = {}, StoreInv, MarkInv, NEW x \in Actors PROVE ~SkipSave(x)
BY DEF SkipSave, MaySave, Snapshot, MarkInv, StoreInv, RecordsThere, Gated, Actors

\* The numbers these invariants compare.
LEMMA Stamps ==
    ASSUME StoreInv
    PROVE  /\ epochs \in Nat /\ watermark.epoch \in Nat /\ watermark.gen \in Nat
           /\ auth # NoAuth => auth \in AuthRecords /\ auth.epoch \in Nat /\ auth.gen \in Nat
           /\ \A x \in Gated : pc[x] \in Saving => next[x].epoch \in Nat /\ next[x].gen \in Nat
           /\ \A w \in Writers : op[w] \in CopyOps => base[w].epoch \in Nat /\ base[w].gen \in Nat
BY DEF StoreInv, StoreTypeOK, TypeRecords, RecordsThere, AuthRecords

\* With the gate free nobody is behind it, and its holder is alone there.
LEMMA OneHolder ==
    ASSUME StoreInv
    PROVE  /\ gate = Nobody => \A x \in Gated : pc[x] \notin Holding
           /\ \A x \in Gated : pc[x] \in Holding =>
                gate = x /\ x # Nobody /\ \A y \in Gated \ {x} : pc[y] \notin Holding
BY StoreAssumption DEF StoreInv, GateInv, Gated, Actors

\* The published record never falls behind a copy of its registration.
LEMMA CopyNext ==
    ASSUME Pruners = {}, StoreInv, DiskInv, StoreNext PROVE CopyInv'
<1> USE StoreAssumption DEF StoreInv, StoreTypeOK, TypeLocks, TypeCalls,
    TypeRecords, GateInv, LoadInv, EpochInv, DiskInv, CopyInv,
    AuthRecords, RecordsThere, CopyOps, Gated, Holding, Saving, Places, Actors,
    manVars, lockVars, loadVars, callVars
<1>0. provider' = provider
    BY DEF StoreNext
<1>1. ASSUME NEW w \in Writers, Arrive(w) \/ Discard(w) \/ (\E o \in GateOps : Call(w, o))
      PROVE CopyInv'
    BY <1>0, <1>1 DEF Arrive, Discard, Call, ToGate, AtGate, Return, Go, GateOps
<1>2. ASSUME NEW w \in Writers, NEW o \in CopyOps, Copy(w, o) PROVE CopyInv'
    BY <1>0, <1>2 DEF Copy, Go
<1>3. ASSUME NEW w \in Writers, EnterRegister(w) PROVE CopyInv'
    BY <1>0, <1>3, RegisteredRecord DEF Entered
<1>4. ASSUME NEW w \in Writers, EnterUpdate(w) PROVE CopyInv'
    BY <1>0, <1>4, UpdatedRecord DEF Entered
<1>5. ASSUME NEW w \in Writers, EnterEdit(w) PROVE CopyInv'
    BY <1>0, <1>5, MarkedRecord DEF Entered
<1>6. ASSUME NEW w \in Writers, Remove(w) PROVE CopyInv'
    BY <1>0, <1>6 DEF Remove, AtGate, Return
<1>7. ASSUME NEW w \in Writers, Publish(w) PROVE CopyInv'
    <2>1. CASE auth' = auth
        BY <1>7, <2>1 DEF Publish, Return
    <2>2. CASE auth' # auth
        <3>1. /\ gate = w /\ gate' = Nobody /\ op' = [op EXCEPT ![w] = "none"]
              /\ base' = [base EXCEPT ![w] = NoAuth] /\ epochs' = epochs
            BY <1>7, <2>2, PublishedRecord DEF Publish, Return
        <3>2. CASE op[w] = "register"
            <4>1. auth'.epoch = epochs
                BY <1>7, <3>2, PublishedRegistration
            <4>2. \A v \in Writers : op[v] \in {"refresh", "prepare"} => base[v].epoch < epochs
                BY <3>1, <3>2
            <4> QED BY <3>1, <4>1, <4>2, Stamps
        <3>3. CASE op[w] # "register"
            <4>1. /\ auth # NoAuth /\ auth'.epoch = auth.epoch
                  /\ auth'.gen \in Nat /\ auth'.gen > auth.gen
                BY <1>7, <2>2, <3>3, PublishedRecord
            <4> QED BY <3>1, <4>1, Stamps
        <3> QED BY <3>2, <3>3
    <2> QED BY <2>1, <2>2
<1>8. ASSUME NEW x \in MetaSavers, MetaBegin(x) \/ MetaEnter(x) \/ MetaGiveUp(x)
      PROVE CopyInv'
    BY <1>0, <1>8 DEF MetaBegin, MetaEnter, MetaGiveUp, MetaLeave, Return, Go
<1>9. ASSUME NEW x \in MetaSavers, MetaPrepare(x) PROVE CopyInv'
    BY <1>0, <1>9, MetaPrepared
<1>10. ASSUME NEW x \in MetaSavers, MetaPublish(x) PROVE CopyInv'
    <2>1. auth' # NoAuth => /\ auth # NoAuth /\ auth'.epoch = auth.epoch /\ auth'.gen \in Nat
                            /\ auth'.gen >= auth.gen
        BY <1>10, MetaRecord, Stamps
    <2> QED BY <1>10, <2>1, Stamps DEF MetaPublish, MetaLeave, Return
<1>12. ASSUME NEW n \in Neighbours, NeighbourSave(n) PROVE CopyInv'
    BY <1>0, <1>12 DEF NeighbourSave, Preempt, Go
<1>13. ASSUME NEW x \in Actors, BeginSave(x) PROVE CopyInv'
    BY <1>0, <1>13, SaveBegun
<1>14. ASSUME NEW x \in Actors, SaveMoves(x) PROVE CopyInv'
    BY <1>0, <1>14 DEF SaveMoves, SkipSave, EndYield, SaveDone, SaveFailed, AbandonSave,
           SaveOver, Return, Go
<1>15. ASSUME NEW x \in Actors, Withdraw(x) PROVE CopyInv'
    BY <1>0, <1>15 DEF Withdraw, Return
<1>16. ASSUME RuntimeEdit PROVE CopyInv'
    BY <1>0, <1>16, RuntimeRecord DEF RuntimeEdit
<1>17. ASSUME LoadBegin PROVE CopyInv'
    BY <1>0, <1>17 DEF LoadBegin
<1>18. ASSUME LoadEnd PROVE CopyInv'
    <2>1. gate' \notin Writers /\ op' = op /\ base' = base /\ epochs' \in {epochs, epochs + 1}
        BY <1>18, LoadedRecord
    <2>2. auth' # NoAuth => auth'.epoch = epochs + 1
        BY <1>18, LoadedRecord
    <2> QED BY <2>1, <2>2, Stamps
<1> QED BY <1>1, <1>2, <1>3, <1>4, <1>5, <1>6, <1>7, <1>8, <1>9, <1>10, <1>12,
       <1>13, <1>14, <1>15, <1>16, <1>17, <1>18 DEF StoreNext, WriterStep, MetaStep,
       SaveStep, SaveMoves

\* The watermark stays behind what is saved next.
LEMMA MarkNext ==
    ASSUME Pruners = {}, StoreInv, DiskInv, StoreNext PROVE MarkInv'
<1> USE StoreAssumption DEF StoreInv, StoreTypeOK, TypeLocks, TypeCalls,
    TypeRecords, GateInv, LoadInv, EpochInv, DiskInv, MarkInv,
    Outdated, Slack, RecordsThere, Gated, Holding, Saving, Begun, Places, Actors,
    manVars, lockVars, loadVars, callVars
<1>0. provider' = provider
    BY DEF StoreNext
<1>1. ASSUME NEW w \in Writers, Arrive(w) \/ Discard(w) \/ (\E o \in GateOps : Call(w, o))
      PROVE MarkInv'
    BY <1>0, <1>1 DEF Arrive, Discard, Call, ToGate, AtGate, Return, Go, GateOps
<1>2. ASSUME NEW w \in Writers, NEW o \in CopyOps, Copy(w, o) PROVE MarkInv'
    BY <1>0, <1>2 DEF Copy, Go
<1>3. ASSUME NEW w \in Writers, EnterRegister(w) PROVE MarkInv'
    BY <1>0, <1>3, RegisteredRecord DEF Entered
<1>4. ASSUME NEW w \in Writers, EnterUpdate(w) PROVE MarkInv'
    <2>1. auth \in AuthRecords /\ auth.epoch = epochs /\ \A x \in Gated : pc[x] \notin Holding
        BY <1>4, UpdatedRecord, OneHolder DEF Entered
    <2>2. watermark.epoch = epochs => watermark.gen <= auth.gen + 1
        BY <2>1, Stamps
    <2>3. /\ next'[w].epoch = epochs /\ next'[w].gen > auth.gen /\ next'[w].gen \in Nat
          /\ next' = [next EXCEPT ![w] = next'[w]] /\ pc' = [pc EXCEPT ![w] = "saving"]
          /\ UNCHANGED <<auth, epochs, watermark>>
        BY <1>4, UpdatedRecord DEF Entered, AuthRecords
    <2>4. ~Outdated(next[w])'
        BY <2>1, <2>2, <2>3, Stamps
    <2> QED BY <1>0, <2>1, <2>3, <2>4
<1>5. ASSUME NEW w \in Writers, EnterEdit(w) PROVE MarkInv'
    <2>1. auth.epoch = epochs /\ \A x \in Gated : pc[x] \notin Holding
        BY <1>5, MarkedRecord, OneHolder DEF Entered
    <2>2. watermark.epoch = epochs => watermark.gen <= auth.gen + 1
        BY <1>5, <2>1, MarkedRecord, Stamps
    <2>3. /\ next'[w] = auth' /\ auth'.epoch = epochs /\ auth'.gen = auth.gen + 1
          /\ next' = [next EXCEPT ![w] = next'[w]] /\ pc' = [pc EXCEPT ![w] = "saving"]
          /\ UNCHANGED <<epochs, watermark>> /\ auth # NoAuth
        BY <1>5, <2>1, MarkedRecord DEF Entered
    <2>4. ~Outdated(next[w])'
        BY <2>2, <2>3, Stamps
    <2>5. (watermark.epoch = auth.epoch => watermark.gen <= auth.gen + Slack)'
        BY <1>0, <2>1, <2>2, <2>3, Stamps
    <2> QED BY <1>0, <2>1, <2>3, <2>4, <2>5
<1>6. ASSUME NEW w \in Writers, Remove(w) PROVE MarkInv'
    BY <1>0, <1>6 DEF Remove, AtGate, Return
<1>7. ASSUME NEW w \in Writers, Publish(w) PROVE MarkInv'
    <2>1. /\ gate = w /\ pc' = [pc EXCEPT ![w] = "idle"] /\ pc[w] \in Begun
          /\ next' = [next EXCEPT ![w] = NoAuth] /\ UNCHANGED <<epochs, watermark>>
        BY <1>7, OneHolder DEF Publish, Return
    <2>2. /\ watermark.epoch = next[w].epoch /\ watermark.gen = next[w].gen
          /\ \A x \in Gated \ {w} : pc[x] \notin Holding
        BY <2>1, OneHolder
    <2>3. auth' # NoAuth => next[w].gen <= auth'.gen + Slack
        <3>1. CASE op[w] = "register"
            BY <1>7, <2>1, <3>1, PublishedRegistration, Stamps
        <3>2. CASE op[w] # "register" /\ Published(w)
            BY <1>7, <2>1, <3>2, PublishedRecord, Stamps DEF AuthRecords
        <3>3. CASE op[w] = "edit"
            BY <1>7, <2>1, <3>3, Stamps DEF Publish, Published, HolderInv, CopyOfPublished
        <3>4. CASE op[w] # "register" /\ op[w] # "edit" /\ ~Published(w)
            BY <1>7, <2>1, <3>4, Stamps DEF Publish, Published, Transactional, HolderInv,
               RegistrationHeld
        <3> QED BY <3>1, <3>2, <3>3, <3>4
    <2> QED BY <1>0, <2>1, <2>2, <2>3
<1>8. ASSUME NEW x \in MetaSavers, MetaBegin(x) \/ MetaEnter(x) \/ MetaGiveUp(x)
      PROVE MarkInv'
    <2>1. /\ UNCHANGED <<auth, epochs, watermark>>
          /\ pc[x] \in Saving => next' = [next EXCEPT ![x] = NoAuth]
        BY <1>8 DEF MetaBegin, MetaEnter, MetaGiveUp, MetaLeave, Return
    <2>2. \E p \in {"idle", "waiting", "gated"} : pc' = [pc EXCEPT ![x] = p]
        BY <1>8 DEF MetaBegin, MetaEnter, MetaGiveUp, MetaLeave, Return, Go
    <2>3. \A y \in Gated \ {x} : next'[y] = next[y]
        BY <1>8 DEF MetaBegin, MetaEnter, MetaGiveUp, MetaLeave, Return
    <2>4. (auth # NoAuth /\ watermark.epoch = auth.epoch /\ pc[x] \in Begun)
            => watermark.gen <= auth.gen + Slack
        BY Stamps DEF HolderInv, CopyOfPublished
    <2> QED BY <1>0, <2>1, <2>2, <2>3, <2>4
<1>9. ASSUME NEW x \in MetaSavers, MetaPrepare(x) PROVE MarkInv'
    <2>1. /\ pc[x] = "gated" /\ pc' = [pc EXCEPT ![x] = "saving"]
          /\ next' = [next EXCEPT ![x] = next'[x]] /\ UNCHANGED <<auth, epochs, watermark>>
          /\ auth \in AuthRecords /\ next'[x].epoch = auth.epoch /\ next'[x].gen = auth.gen
        BY <1>9, MetaPrepared
    <2>2. gate = x /\ \A y \in Gated \ {x} : pc[y] \notin Holding
        BY <2>1, OneHolder
    <2>3. auth.epoch = epochs /\ Slack = 0
        BY <2>1, <2>2 DEF HolderInv
    <2>4. ~Outdated(next[x])'
        BY <2>1, <2>2, <2>3, Stamps
    <2> QED BY <1>0, <2>1, <2>2, <2>4
<1>10. ASSUME NEW x \in MetaSavers, MetaPublish(x) PROVE MarkInv'
    <2>1. /\ pc[x] = "saved" /\ pc' = [pc EXCEPT ![x] = "idle"]
          /\ next' = [next EXCEPT ![x] = NoAuth] /\ UNCHANGED <<epochs, watermark>>
        BY <1>10 DEF MetaPublish, MetaLeave, Return
    <2>2. /\ watermark.epoch = next[x].epoch /\ watermark.gen = next[x].gen
          /\ \A y \in Gated \ {x} : pc[y] \notin Holding
        BY <2>1, OneHolder
    <2>3. auth' \in AuthRecords /\ auth'.gen >= auth.gen /\ next[x].gen <= auth.gen
        BY <1>10, <2>1, MetaRecord, Stamps DEF HolderInv, CopyOfPublished
    <2>4. auth # NoAuth /\ watermark'.gen <= auth'.gen + Slack'
        BY <1>0, <2>1, <2>2, <2>3, Stamps DEF AuthRecords, HolderInv, CopyOfPublished
    <2> QED BY <1>0, <2>1, <2>2, <2>4
<1>12. ASSUME NEW n \in Neighbours, NeighbourSave(n) PROVE MarkInv'
    BY <1>0, <1>12 DEF NeighbourSave, Preempt, Go
<1>13. ASSUME NEW x \in Actors, BeginSave(x) PROVE MarkInv'
    <2>1. /\ x \in Gated /\ pc[x] = "saving" /\ next' = next
          /\ pc' = [pc EXCEPT ![x] = pc'[x]] /\ pc'[x] \in Begun
          /\ UNCHANGED <<auth, epochs>>
        BY <1>13, SaveBegun DEF Gated
    <2>2. watermark'.epoch = next[x].epoch /\ watermark'.gen = next[x].gen
        BY <1>13, <2>1, SaveBegun DEF Snapshot, Gated
    <2>3. next[x].epoch <= epochs /\ \A y \in Gated \ {x} : pc[y] \notin Holding
        <3>1. CASE x \in Writers
            BY <2>1, <3>1, OneHolder, Stamps DEF RegistrationHeld
        <3>2. CASE x \in MetaSavers
            BY <2>1, <3>2, OneHolder, Stamps DEF HolderInv, CopyOfPublished
        <3> QED BY <2>1, <3>1, <3>2
    <2> QED BY <1>0, <2>1, <2>2, <2>3
<1>14. ASSUME NEW x \in Actors, SaveMoves(x) PROVE MarkInv'
    <2>1. ~SkipSave(x)
        BY NoSkip
    <2>2. /\ UNCHANGED <<auth, epochs, watermark>>
          /\ x \in Gated => /\ pc[x] \in {"yielding", "writing"} /\ next' = next
                            /\ \E p \in Begun : pc' = [pc EXCEPT ![x] = p]
        BY <1>14, <2>1 DEF SaveMoves, EndYield, SaveDone, SaveFailed, AbandonSave, SaveOver, Go
    <2>3. x \in Neighbours => \A y \in Gated : pc'[y] = pc[y] /\ next'[y] = next[y]
        BY <1>14, <2>1 DEF SaveMoves, EndYield, SaveDone, SaveFailed, AbandonSave, SaveOver,
           Return, Go
    <2> QED BY <1>0, <2>2, <2>3
<1>15. ASSUME NEW x \in Actors, Withdraw(x) PROVE MarkInv'
    BY <1>0, <1>15 DEF Withdraw, Return
<1>16. ASSUME RuntimeEdit PROVE MarkInv'
    <2>1. auth' \in AuthRecords /\ auth'.epoch = auth.epoch /\ auth'.gen >= auth.gen
        BY <1>16, RuntimeRecord
    <2>2. UNCHANGED <<pc, next, epochs, watermark>> /\ auth # NoAuth
        BY <1>16 DEF RuntimeEdit
    <2> QED BY <1>0, <2>1, <2>2, Stamps DEF AuthRecords
<1>17. ASSUME LoadBegin PROVE MarkInv'
    BY <1>0, <1>17 DEF LoadBegin
<1>18. ASSUME LoadEnd PROVE MarkInv'
    <2>1. /\ UNCHANGED <<pc, next, watermark>> /\ epochs' \in {epochs, epochs + 1}
          /\ auth' # NoAuth => auth'.epoch = epochs + 1
        BY <1>18, LoadedRecord
    <2>2. \A x \in Gated : pc[x] \notin Saving
        BY <1>18, LoadedRecord
    <2> QED BY <1>0, <2>1, <2>2, Stamps
<1> QED BY <1>1, <1>2, <1>3, <1>4, <1>5, <1>6, <1>7, <1>8, <1>9, <1>10, <1>12,
       <1>13, <1>14, <1>15, <1>16, <1>17, <1>18 DEF StoreNext, WriterStep, MetaStep,
       SaveStep, SaveMoves

\* What the holder has in its hands stays what it was.
LEMMA HolderNext ==
    ASSUME Pruners = {}, StoreInv, DiskInv, StoreNext PROVE HolderInv'
<1> USE StoreAssumption DEF StoreInv, StoreTypeOK, TypeLocks, TypeCalls,
    TypeRecords, GateInv, LoadInv, DiskInv, HolderInv,
    CopyOfPublished, Transactional, RecordsThere, Gated, Holding, Saving, Begun, Places, Actors,
    manVars, lockVars, loadVars, callVars
<1>0. provider' = provider
    BY DEF StoreNext
<1>1. ASSUME NEW w \in Writers, Arrive(w) \/ Discard(w) \/ (\E o \in GateOps : Call(w, o))
      PROVE HolderInv'
    BY <1>0, <1>1 DEF Arrive, Discard, Call, ToGate, AtGate, Return, Go, GateOps
<1>2. ASSUME NEW w \in Writers, NEW o \in CopyOps, Copy(w, o) PROVE HolderInv'
    BY <1>0, <1>2 DEF Copy, Go
<1>3. ASSUME NEW w \in Writers, EnterRegister(w) PROVE HolderInv'
    BY <1>0, <1>3, RegisteredRecord DEF Entered
<1>4. ASSUME NEW w \in Writers, EnterUpdate(w) PROVE HolderInv'
    <2>1. /\ \A x \in Gated : pc[x] \notin Holding
          /\ pc' = [pc EXCEPT ![w] = "saving"] /\ op' = op /\ next'[w].gen \in Nat
          /\ op[w] \in CopyOps /\ auth' = auth
        BY <1>4, UpdatedRecord, OneHolder DEF Entered, AuthRecords
    <2>2. op[w] \in {"refresh", "prepare"} => next'[w].gen = auth.gen + 1
        BY <1>4, UpdatedRecord, Stamps DEF CopyInv, Refused
    <2> QED BY <1>0, <2>1, <2>2 DEF CopyOps
<1>5. ASSUME NEW w \in Writers, EnterEdit(w) PROVE HolderInv'
    <2>1. /\ \A x \in Gated : pc[x] \notin Holding
          /\ pc' = [pc EXCEPT ![w] = "saving"] /\ op' = op /\ op[w] = "edit"
          /\ next'[w] = auth' /\ auth' \in AuthRecords
        BY <1>5, MarkedRecord, OneHolder DEF Entered
    <2>2. CopyOfPublished(w)'
        BY <2>1 DEF AuthRecords
    <2> QED BY <1>0, <2>1, <2>2
<1>6. ASSUME NEW w \in Writers, Remove(w) PROVE HolderInv'
    BY <1>0, <1>6 DEF Remove, AtGate, Return
<1>7. ASSUME NEW w \in Writers, Publish(w) PROVE HolderInv'
    BY <1>0, <1>7, PublishedRecord DEF Publish, Return
<1>8. ASSUME NEW x \in MetaSavers, MetaBegin(x) \/ MetaEnter(x) \/ MetaGiveUp(x)
      PROVE HolderInv'
    BY <1>0, <1>8 DEF MetaBegin, MetaEnter, MetaGiveUp, MetaLeave, Return, Go
<1>9. ASSUME NEW x \in MetaSavers, MetaPrepare(x) PROVE HolderInv'
    <2>1. /\ pc[x] = "gated" /\ pc' = [pc EXCEPT ![x] = "saving"]
          /\ UNCHANGED <<auth, op, disk>>
          /\ auth \in AuthRecords /\ next'[x].epoch = auth.epoch /\ next'[x].gen = auth.gen
          /\ next'[x].tok = auth.tok /\ next'[x].hinted
        BY <1>9, MetaPrepared
    <2>2. \A y \in Gated \ {x} : pc[y] \notin Holding
        BY <2>1, OneHolder
    <2>3. CopyOfPublished(x)'
        BY <2>1 DEF AuthRecords
    <2> QED BY <1>0, <2>1, <2>2, <2>3
<1>10. ASSUME NEW x \in MetaSavers, MetaPublish(x) PROVE HolderInv'
    BY <1>0, <1>10, MetaRecord DEF MetaPublish, MetaLeave, Return
<1>12. ASSUME NEW n \in Neighbours, NeighbourSave(n) PROVE HolderInv'
    BY <1>0, <1>12 DEF NeighbourSave, Preempt, Go
<1>13. ASSUME NEW x \in Actors, BeginSave(x) PROVE HolderInv'
    BY <1>0, <1>13, SaveBegun
<1>14. ASSUME NEW x \in Actors, SaveMoves(x) PROVE HolderInv'
    <2>1. ~SkipSave(x)
        BY NoSkip
    <2>2. CASE x \in Neighbours
        BY <1>0, <1>14, <2>1, <2>2 DEF SaveMoves, EndYield, SaveDone, SaveFailed, AbandonSave,
           SaveOver, Return, Go
    <2>3. CASE x \in Gated
        <3>1. /\ pc[x] \in {"yielding", "writing"} /\ UNCHANGED <<auth, next, op>>
              /\ \E p \in Begun : pc' = [pc EXCEPT ![x] = p]
            BY <1>14, <2>1, <2>3 DEF SaveMoves, EndYield, SaveDone, SaveFailed, AbandonSave,
               SaveOver, Go
        <3>2. \A y \in Gated \ {x} : pc[y] \notin Holding
            BY <2>3, <3>1, OneHolder
        <3>3. pc'[x] = "saved" => disk' = [tok |-> next[x].tok, hinted |-> next[x].hinted]
            BY <1>14, <2>1, <2>3 DEF SaveMoves, EndYield, SaveDone, SaveFailed, AbandonSave,
               SaveOver, Go
        <3>4. pc'[x] = "saved" =>
                disk' # NoAuth /\ disk'.tok = next[x].tok /\ disk'.hinted = next[x].hinted
            BY <2>3, <3>1, <3>3 DEF AuthRecords, Files
        <3> QED BY <1>0, <2>3, <3>1, <3>2, <3>4
    <2> QED BY <2>2, <2>3
<1>15. ASSUME NEW x \in Actors, Withdraw(x) PROVE HolderInv'
    BY <1>0, <1>15 DEF Withdraw, Return
<1>16. ASSUME RuntimeEdit PROVE HolderInv'
    <2>1. /\ auth \in AuthRecords /\ auth' \in AuthRecords /\ auth'.epoch = auth.epoch
          /\ auth'.gen >= auth.gen /\ auth'.tok = auth.tok /\ auth'.hinted = auth.hinted
        BY <1>16, RuntimeRecord
    <2>2. UNCHANGED <<pc, next, op, disk>> /\ auth # NoAuth
        BY <1>16 DEF RuntimeEdit
    <2>3. \A x \in Gated : pc[x] \in Saving /\ next[x].gen <= auth.gen => next[x].gen <= auth'.gen
        BY <2>1, Stamps DEF AuthRecords
    <2>4. \A x \in Gated : pc[x] \in Saving /\ next[x].gen <= auth.gen + 1
                                => next[x].gen <= auth'.gen + 1
        BY <2>1, Stamps DEF AuthRecords
    <2> QED BY <1>0, <2>1, <2>2, <2>3, <2>4
<1>17. ASSUME LoadBegin PROVE HolderInv'
    BY <1>0, <1>17 DEF LoadBegin
<1>18. ASSUME LoadEnd PROVE HolderInv'
    BY <1>0, <1>18, LoadedRecord
<1> QED BY <1>1, <1>2, <1>3, <1>4, <1>5, <1>6, <1>7, <1>8, <1>9, <1>10, <1>12,
       <1>13, <1>14, <1>15, <1>16, <1>17, <1>18 DEF StoreNext, WriterStep, MetaStep,
       SaveStep, SaveMoves

\* The store keeps up with what is published.
LEMMA FileNext ==
    ASSUME Pruners = {}, StoreInv, DiskInv, StoreNext PROVE FileInv'
<1> USE StoreAssumption DEF StoreInv, StoreTypeOK, TypeLocks, TypeCalls,
    TypeRecords, GateInv, LoadInv, DiskInv, FileInv,
    RecordsThere, Gated, Holding, Saving, Begun, Places, Actors,
    manVars, lockVars, loadVars, callVars
<1>0. provider' = provider
    BY DEF StoreNext
<1>1. ASSUME NEW w \in Writers, Arrive(w) \/ Discard(w) \/ (\E o \in GateOps : Call(w, o))
      PROVE FileInv'
    BY <1>0, <1>1 DEF Arrive, Discard, Call, ToGate, AtGate, Return, Go, GateOps
<1>2. ASSUME NEW w \in Writers, NEW o \in CopyOps, Copy(w, o) PROVE FileInv'
    BY <1>0, <1>2 DEF Copy, Go
<1>3. ASSUME NEW w \in Writers, EnterRegister(w) PROVE FileInv'
    BY <1>0, <1>3, RegisteredRecord DEF Entered
<1>4. ASSUME NEW w \in Writers, EnterUpdate(w) PROVE FileInv'
    BY <1>0, <1>4, UpdatedRecord DEF Entered
<1>5. ASSUME NEW w \in Writers, EnterEdit(w) PROVE FileInv'
    BY <1>0, <1>5, MarkedRecord DEF Entered
<1>6. ASSUME NEW w \in Writers, Remove(w) PROVE FileInv'
    BY <1>0, <1>6 DEF Remove, AtGate, Return
<1>7. ASSUME NEW w \in Writers, Publish(w) PROVE FileInv'
    <2>1. /\ pc' = [pc EXCEPT ![w] = "idle"] /\ pc[w] \in {"saved", "failed"}
          /\ gate = w /\ \A y \in Gated \ {w} : pc[y] \notin Holding
          /\ UNCHANGED <<disk, loading, listed>>
        BY <1>7, OneHolder DEF Publish, Return
    <2>2. ASSUME pc[w] = "saved", auth' # NoAuth
          PROVE  disk # NoAuth /\ disk.tok = auth'.tok /\ (auth'.hinted => disk.hinted)
        <3>1. disk # NoAuth /\ disk.tok = next[w].tok /\ disk.hinted = next[w].hinted
            BY <2>2 DEF HolderInv
        <3>2. CASE op[w] = "register"
            BY <1>7, <3>1, <3>2, PublishedRegistration
        <3>3. CASE op[w] # "register" /\ Published(w)
            BY <1>7, <3>1, <3>3, PublishedRecord
        <3>4. CASE op[w] = "edit"
            BY <1>7, <2>2, <3>1, <3>4 DEF Publish, Published, HolderInv, CopyOfPublished
        <3> QED BY <2>1, <2>2, <3>2, <3>3, <3>4 DEF Published, RegistrationHeld
    <2>3. ASSUME pc[w] = "failed", ~unsaved' PROVE auth' = auth /\ ~unsaved
        BY <1>7, <2>3 DEF Publish, Published
    <2> QED BY <2>1, <2>2, <2>3
<1>8. ASSUME NEW x \in MetaSavers, MetaBegin(x) \/ MetaEnter(x) \/ MetaGiveUp(x)
      PROVE FileInv'
    BY <1>0, <1>8 DEF MetaBegin, MetaEnter, MetaGiveUp, MetaLeave, Return, Go
<1>9. ASSUME NEW x \in MetaSavers, MetaPrepare(x) PROVE FileInv'
    BY <1>0, <1>9, MetaPrepared
<1>10. ASSUME NEW x \in MetaSavers, MetaPublish(x) PROVE FileInv'
    <2>1. /\ pc' = [pc EXCEPT ![x] = "idle"] /\ pc[x] = "saved"
          /\ \A y \in Gated \ {x} : pc[y] \notin Holding
          /\ UNCHANGED <<disk, loading, listed>>
        BY <1>10, OneHolder DEF MetaPublish, MetaLeave, Return
    <2>2. /\ disk # NoAuth /\ disk.tok = next[x].tok /\ disk.hinted = next[x].hinted
          /\ CopyOfPublished(x)
        BY <2>1 DEF HolderInv
    <2>3. auth'.tok = auth.tok /\ (auth'.hinted => next[x].hinted)
        BY <1>10, <2>2, MetaRecord DEF CopyOfPublished
    <2> QED BY <2>1, <2>2, <2>3 DEF CopyOfPublished
<1>12. ASSUME NEW n \in Neighbours, NeighbourSave(n) PROVE FileInv'
    BY <1>0, <1>12 DEF NeighbourSave, Preempt, Go
<1>13. ASSUME NEW x \in Actors, BeginSave(x) PROVE FileInv'
    BY <1>0, <1>13, SaveBegun
<1>14. ASSUME NEW x \in Actors, SaveMoves(x) PROVE FileInv'
    BY <1>0, <1>14 DEF SaveMoves, SkipSave, EndYield, SaveDone, SaveFailed, AbandonSave,
           SaveOver, Return, Go
<1>15. ASSUME NEW x \in Actors, Withdraw(x) PROVE FileInv'
    BY <1>0, <1>15 DEF Withdraw, Return
<1>16. ASSUME RuntimeEdit PROVE FileInv'
    BY <1>0, <1>16, RuntimeRecord DEF RuntimeEdit
<1>17. ASSUME LoadBegin PROVE FileInv'
    BY <1>0, <1>17 DEF LoadBegin
<1>18. ASSUME LoadEnd PROVE FileInv'
    BY <1>0, <1>18, LoadedRecord
<1> QED BY <1>1, <1>2, <1>3, <1>4, <1>5, <1>6, <1>7, <1>8, <1>9, <1>10, <1>12,
       <1>13, <1>14, <1>15, <1>16, <1>17, <1>18 DEF StoreNext, WriterStep, MetaStep,
       SaveStep, SaveMoves

\* It holds at first: what is published comes from the store.
LEMMA DiskInvInit == StoreInit => DiskInv
<1> SUFFICES ASSUME StoreInit PROVE DiskInv
    OBVIOUS
<1> USE StoreAssumption DEF StoreInit
<1>1. CopyInv /\ HolderInv
    BY DEF CopyInv, HolderInv, Gated, Saving, Holding, Actors
<1>2. MarkInv
    BY StoreInvInit, Stamps DEF MarkInv, Slack, Gated, Begun, Saving, Holding, Actors
<1>3. FileInv
    BY DEF FileInv
<1> QED BY <1>1, <1>2, <1>3 DEF DiskInv

\* Every step keeps it.
LEMMA DiskInvNext ==
    ASSUME Pruners = {} PROVE StoreInv /\ DiskInv /\ [StoreNext]_storeVars => DiskInv'
<1>1. CASE StoreNext
    BY <1>1, CopyNext, MarkNext, HolderNext, FileNext DEF DiskInv
<1>2. CASE UNCHANGED storeVars
    BY <1>2 DEF storeVars, manVars, lockVars, loadVars, callVars, DiskInv, CopyInv,
       MarkInv, HolderInv, FileInv, CopyOfPublished, Transactional, Outdated, Slack
<1> QED BY <1>1, <1>2

\* As long as no pruner is called, the store has, between any two mutations, the
\* credentials and the metadata entry that are published, unless it reported an
\* error: what replaces them, refreshes, edits and metadata saves in any order,
\* and loads, cannot leave an older token behind. Saves without the gate are the
\* one way to lose an update (persist; persistLocked, persistSnapshotWithLock).
THEOREM StoreKeepsUp ==
    ASSUME Pruners = {} PROVE StoreSpec => []NewestOnDisk
<1>1. StoreInv /\ DiskInv => NewestOnDisk
    BY StoreAssumption DEF StoreInv, DiskInv, FileInv, NewestOnDisk, GateInv, Gated, Holding,
       Actors
<1> QED BY <1>1, StoreInvAlways, DiskInvInit, DiskInvNext, PTL DEF StoreSpec
=============================================================================
