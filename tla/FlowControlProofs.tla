------------------------- MODULE FlowControlProofs -------------------------
(***************************************************************************)
(* Proofs about FlowControl, for every set of calls, operations, keys,     *)
(* buckets and policies.                                                   *)
(***************************************************************************)
EXTENDS FlowControl, FiniteSetTheorems, TLAPS

Holders == {"granted", "held", "sent"}

Statuses == Holders \cup {"idle", "waiting", "finished", "refused", "free"}

Waiters == [id : Nat, enqueued : Nat, deadline : Nat, nextCheck : Nat]

Lks == [kind : {"unlocked", "dispatch", "acquire"}, call : Calls \cup {NoOp},
        at : Nat, todo : SUBSET Calls, key : Keys \cup {NoKey}, grants : Nat]

\* The books: records, counters and history.
RecInv ==
    /\ now \in 0..MaxTime /\ cfg \in Policies
    /\ active \subseteq Recs /\ mem \in [Recs -> SUBSET Buckets]
    /\ conc \in [Buckets -> Nat] /\ sequence \in Nat
    /\ hist \subseteq HistoryEvents /\ log \subseteq HistoryEvents
    /\ bornV3 \subseteq Recs
    /\ IsFiniteSet(hist) /\ CountersMatch /\ HistoryBounded

RetType == ret \in [Buckets -> Nat] /\ lastServed \in [Keys -> Nat]

RestType ==
    /\ closed \in BOOLEAN /\ dispatchPending \in BOOLEAN /\ activity \in Nat
    /\ started \in [Ops -> BOOLEAN] /\ opClosed \in [Ops -> BOOLEAN]
    /\ ctxDone \subseteq Calls /\ timer \in Nat

WaitType ==
    /\ waitUsed \in [Ops -> Nat] /\ queue \subseteq Calls
    /\ waiter \in [Calls -> Waiters] /\ call \in [Calls -> Statuses]

\* The mutex: whoever holds it does so at one instant, the waiters it has yet
\* to try are queued, and a call that acquires has no record yet.
LockInv ==
    /\ lk \in Lks /\ lk.todo \subseteq queue
    /\ lk.kind = "unlocked" => lk = Unlocked
    /\ lk.kind # "unlocked" => lk.at = now
    /\ lk.kind = "acquire" =>
        lk.call \in Calls /\ call[lk.call] = "idle" /\ cfg.enabled

\* The queue holds the calls that wait, since some time in the past.
QueueInv ==
    /\ \A c \in Calls : c \in queue <=> call[c] = "waiting"
    /\ \A c \in queue : waiter[c].enqueued <= now

\* An operation has at most one waiter.
SoleWaiter ==
    \A v, w \in queue : OpOf[v] \in Ops /\ OpOf[v] = OpOf[w] => v = w

\* Whatever was sent has started its operation.
StartedInv ==
    \A c \in Calls :
        call[c] \in {"sent", "finished"} /\ OpOf[c] \in Ops => started[OpOf[c]]

\* Behind the cursor of dispatchLocked no waiter can be admitted: the grants
\* since it was tried have only taken capacity.
TriedInv ==
    lk.kind # "unlocked" /\ cfg.enabled =>
        \A w \in queue \ lk.todo : checkWorkLocked(w, lk.at).verdict # "grant"

\* The inductive invariant.
FlowInv ==
    /\ RecInv /\ RetType /\ RestType /\ WaitType
    /\ LockInv /\ QueueInv /\ SoleWaiter
    /\ NoLeak /\ StartedInv /\ TriedInv
-----------------------------------------------------------------------------
(* Least and greatest elements.                                            *)

\* A set of naturals has a least element.
LEMMA NatMin ==
    ASSUME NEW S, S \subseteq Nat, S # {}
    PROVE  Min(S) \in S /\ \A y \in S : Min(S) <= y
<1>1. PICK x \in S : \A y \in S : ~ (<<y, x>> \in OpToRel(<, Nat))
    BY WFMin, NatLessThanWellFounded
<1>2. ASSUME NEW y \in S PROVE x <= y
  <2>1. <<y, x>> \notin {ss \in Nat \X Nat : ss[1] < ss[2]}
    BY <1>1 DEF OpToRel
  <2>2. x \in Nat /\ y \in Nat /\ <<y, x>> \in Nat \X Nat
    OBVIOUS
  <2>3. ~ (y < x)
    BY <2>1, <2>2
  <2> QED BY <2>2, <2>3
<1> QED BY <1>2 DEF Min

\* A finite set of naturals has a greatest element: otherwise there would be a
\* least set that has none.
LEMMA NatMax ==
    ASSUME NEW S, S \subseteq Nat, S # {}, IsFiniteSet(S)
    PROVE  Max(S) \in S /\ \A y \in S : y <= Max(S)
<1> DEFINE Top(T) == \E x \in T : \A y \in T : x >= y
           Bad == {T \in SUBSET S : T # {} /\ ~ Top(T)}
<1>1. Bad = {}
  <2> SUFFICES ASSUME Bad # {} PROVE FALSE
    OBVIOUS
  <2>1. Bad \subseteq FiniteSubsetsOf(S)
    BY FS_FiniteSubsetsOfFinite
  <2>2. PICK T \in Bad : \A U \in Bad : ~ (<<U, T>> \in StrictSubsetOrdering(S))
    <3> HIDE DEF Bad
    <3> QED BY <2>1, WFMin, FS_StrictSubsetOrderingWellFounded
  <2>3. PICK x \in T : TRUE
    OBVIOUS
  <2>4. T \ {x} \notin Bad
    BY <2>2, <2>3 DEF StrictSubsetOrdering
  <2>5. CASE T = {x}
    BY <2>5
  <2>6. CASE Top(T \ {x})
    <3>1. PICK m \in T \ {x} : \A y \in T \ {x} : m >= y
      BY <2>6
    <3>2. CASE m >= x
      BY <3>1, <3>2
    <3>3. CASE ~ (m >= x)
      BY <2>3, <3>1, <3>3
    <3> QED BY <3>2, <3>3
  <2> QED BY <2>3, <2>4, <2>5, <2>6
<1>2. Top(S)
    BY <1>1
<1> QED BY <1>2 DEF Max

-----------------------------------------------------------------------------
(* Operators of the model.                                                 *)

\* The image of a finite set under a function is finite.
LEMMA ImageFinite ==
    ASSUME NEW S, IsFiniteSet(S), NEW f
    PROVE  IsFiniteSet({f[x] : x \in S})
<1> DEFINE T == {f[x] : x \in S}
           g == [x \in S |-> f[x]]
<1>1. g \in Surjection(S, T)
    BY DEF Surjection
<1> QED BY <1>1, FS_Surjection

\* What a policy is made of.
LEMMA PolicyFacts ==
    ASSUME NEW p \in Policies
    PROVE  /\ p.enabled \in BOOLEAN /\ p.v3 \in BOOLEAN
           /\ p.limit \in [Buckets -> Nat]
           /\ p.maxWait \in Nat /\ p.maxHistory \in Nat
           /\ \A b \in Buckets : IsFiniteSet(p.windows[b])
                /\ \A w \in p.windows[b] : w.requests \in Nat \ {0}
                                           /\ w.period \in Nat \ {0}
           /\ \A r \in Recs : p.members[r] \subseteq Buckets
                              /\ IsFiniteSet(p.members[r])
                              /\ Members(p, r) \subseteq Buckets
                              /\ IsFiniteSet(Members(p, r))
           /\ \A c \in Calls, o \in Ops : Members(p, c) \cap Members(p, o) = {}
<1>1. \A b \in Buckets : \A w \in p.windows[b] :
            w.requests \in Nat \ {0} /\ w.period \in Nat \ {0}
    BY FlowAssumption DEF Windows
<1>2. \A r \in Recs : p.members[r] \in SUBSET Buckets /\ IsFiniteSet(p.members[r])
    BY FlowAssumption
<1>3. \A r \in Recs : Members(p, r) \subseteq Buckets /\ IsFiniteSet(Members(p, r))
    BY <1>2, FS_EmptySet DEF Members
<1>4. \A c \in Calls, o \in Ops : Members(p, c) \cap Members(p, o) = {}
    BY FlowAssumption DEF Members
<1> QED BY <1>1, <1>2, <1>3, <1>4, FlowAssumption

\* The retention of a bucket is the longest of its periods.
LEMMA RetentionType ==
    ASSUME NEW p \in Policies, NEW b \in Buckets
    PROVE  /\ retention(p, b) \in Nat
           /\ \A w \in p.windows[b] : w.period <= retention(p, b)
<1> DEFINE f == [w \in p.windows[b] |-> w.period]
           S == {0} \cup Periods(p, b)
<1>1. Periods(p, b) = {f[w] : w \in p.windows[b]}
    BY DEF Periods
<1>2. IsFiniteSet(Periods(p, b))
  <2>1. IsFiniteSet(p.windows[b])
    BY PolicyFacts
  <2> HIDE DEF f
  <2> QED BY <1>1, <2>1, ImageFinite
<1>3. IsFiniteSet(S)
    BY <1>2, FS_Union, FS_Singleton
<1>4. S \subseteq Nat
    BY PolicyFacts DEF Periods
<1>5. Max(S) \in S /\ \A x \in S : x <= Max(S)
    BY <1>3, <1>4, NatMax
<1>6. \A w \in p.windows[b] : w.period \in S
    BY DEF Periods
<1> QED BY <1>4, <1>5, <1>6 DEF retention

\* The larger of two naturals.
LEMMA PairMax ==
    ASSUME NEW x \in Nat, NEW y \in Nat
    PROVE  Max({x, y}) \in {x, y} /\ x <= Max({x, y}) /\ y <= Max({x, y})
           /\ Max({x, y}) \in Nat
<1>1. IsFiniteSet({x, y})
  <2>1. {x, y} = {x} \cup {y}
    OBVIOUS
  <2>2. IsFiniteSet({x}) /\ IsFiniteSet({y})
    BY FS_Singleton
  <2>3. IsFiniteSet({x} \cup {y})
    BY <2>2, FS_Union
  <2> QED BY <2>1, <2>3
<1> QED BY <1>1, NatMax

\* A check leaves every bucket with a retention, and shortens none.
LEMMA TouchedType ==
    ASSUME RecInv, RetType, NEW c, NEW t
    PROVE  /\ Touched(c, t) \in [Buckets -> Nat]
           /\ \A b \in Buckets : ret[b] <= Touched(c, t)[b]
<1>1. \A b \in Buckets : ret[b] \in Nat /\ Max({ret[b], retention(cfg, b)}) \in Nat
                         /\ ret[b] <= Max({ret[b], retention(cfg, b)})
    BY RetentionType, PairMax DEF RecInv, RetType
<1> QED BY <1>1 DEF Touched

\* An exhausted window has room again at some time: when the oldest of its last
\* `requests` events has left it.
LEMMA FreeAtType ==
    ASSUME RecInv, NEW b, NEW w, NEW t \in Nat,
           w.requests \in Nat \ {0}, w.period \in Nat,
           Cardinality(Recent(b, t, w.period)) >= w.requests
    PROVE  /\ FreeAt(b, w, t) \in Nat
           /\ \E d \in Recent(b, t, w.period) :
                /\ FreeAt(b, w, t) = w.period + d.at
                /\ Cardinality({x \in Recent(b, t, w.period) : x.at >= d.at})
                        >= w.requests
<1> DEFINE R == Recent(b, t, w.period)
           Full == {d \in R : Cardinality({x \in R : x.at >= d.at}) >= w.requests}
           ats == [e \in R |-> e.at]
           A == {ats[e] : e \in R}
           F == {e.at : e \in Full}
<1>1. R \subseteq hist /\ \A e \in R : e.at \in Nat
    BY DEF RecInv, HistoryEvents, Recent
<1>2. IsFiniteSet(R)
    BY <1>1, FS_Subset DEF RecInv
<1>3. R # {}
  <2>1. SUFFICES ASSUME R = {} PROVE FALSE
    OBVIOUS
  <2>2. Cardinality(R) = 0
    BY <2>1, FS_EmptySet
  <2> QED BY <2>2
<1>4. A \subseteq Nat /\ A # {}
    BY <1>1, <1>3
<1>5. IsFiniteSet(A)
  <2> HIDE DEF ats, R
  <2> QED BY <1>2, ImageFinite
<1>6. PICK d \in R : \A x \in R : x.at >= d.at
  <2>1. Min(A) \in A /\ \A y \in A : Min(A) <= y
    <3> HIDE DEF A
    <3> QED BY <1>4, NatMin
  <2> QED BY <2>1
<1>7. {x \in R : x.at >= d.at} = R
    BY <1>6
<1>8. d \in Full
    BY <1>7
<1>9. F \subseteq A /\ F # {}
    BY <1>8
<1>10. IsFiniteSet(F) /\ F \subseteq Nat
  <2> HIDE DEF F, A
  <2> QED BY <1>4, <1>5, <1>9, FS_Subset
<1>11. Max(F) \in Nat /\ Max(F) \in F
  <2> HIDE DEF F
  <2> QED BY <1>9, <1>10, NatMax
<1>12. FreeAt(b, w, t) = w.period + Max(F)
    BY DEF FreeAt
<1>13. PICK e \in Full : e.at = Max(F)
    BY <1>11
<1>14. e \in R /\ Cardinality({x \in R : x.at >= e.at}) >= w.requests
    BY <1>13
<1>15. FreeAt(b, w, t) \in Nat /\ FreeAt(b, w, t) = w.period + e.at
  <2> HIDE DEF F
  <2> QED BY <1>11, <1>12, <1>13
<1> HIDE DEF Full, F
<1> QED BY <1>14, <1>15

\* The windows that refuse a record are finitely many.
LEMMA ExhaustedFacts ==
    ASSUME RecInv, NEW r \in Recs, NEW t \in Nat
    PROVE  /\ IsFiniteSet(Exhausted(r, t))
           /\ \A x \in Exhausted(r, t) : FreeAt(x[1], x[2], t) \in Nat
<1> DEFINE M == Members(cfg, r)
           prod == [b \in M |-> {b} \X cfg.windows[b]]
           P == {prod[b] : b \in M}
<1>1. IsFiniteSet(M) /\ M \subseteq Buckets
    BY PolicyFacts DEF RecInv
<1>2. IsFiniteSet(P)
  <2> HIDE DEF prod, M
  <2> QED BY <1>1, ImageFinite
<1>3. ASSUME NEW b \in M PROVE IsFiniteSet({b} \X cfg.windows[b])
    BY <1>1, FS_Product, FS_Singleton, PolicyFacts DEF RecInv
<1>4. \A T \in P : IsFiniteSet(T)
    BY <1>3
<1>5. IsFiniteSet(UNION P)
  <2> HIDE DEF P
  <2> QED BY <1>2, <1>4, FS_UNION
<1>6. Exhausted(r, t) \subseteq UNION P
    BY DEF Exhausted
<1>7. IsFiniteSet(Exhausted(r, t))
  <2> HIDE DEF P
  <2> QED BY <1>5, <1>6, FS_Subset
<1>8. ASSUME NEW x \in Exhausted(r, t) PROVE FreeAt(x[1], x[2], t) \in Nat
  <2>1. PICK b \in M : x \in {b} \X cfg.windows[b]
    BY DEF Exhausted
  <2>2. x[1] = b /\ x[2] \in cfg.windows[b]
    BY <2>1
  <2>3. x[2].requests \in Nat \ {0} /\ x[2].period \in Nat
    BY <1>1, <2>2, PolicyFacts DEF RecInv
  <2>4. Cardinality(Recent(x[1], t, x[2].period)) >= x[2].requests
    BY DEF Exhausted
  <2> QED BY <2>3, <2>4, FreeAtType
<1> QED BY <1>7, <1>8

\* A refused waiter is given a time for its next check, or 0.
LEMMA NextCheckType ==
    ASSUME RecInv, NEW r \in Recs, NEW t \in Nat
    PROVE  /\ NextCheck(r, t) \in Nat
           /\ NextCheck(r, t) \in {0} \cup {FreeAt(x[1], x[2], t) : x \in Exhausted(r, t)}
           /\ \A x \in Exhausted(r, t) : FreeAt(x[1], x[2], t) <= NextCheck(r, t)
<1> DEFINE X == Exhausted(r, t)
           f == [x \in X |-> FreeAt(x[1], x[2], t)]
           A == {f[x] : x \in X}
           S == {0} \cup A
<1>1. IsFiniteSet(X) /\ \A x \in X : FreeAt(x[1], x[2], t) \in Nat
    BY ExhaustedFacts
<1>2. IsFiniteSet(A)
  <2> HIDE DEF f, X
  <2> QED BY <1>1, ImageFinite
<1>3. IsFiniteSet(S)
  <2> HIDE DEF A
  <2> QED BY <1>2, FS_Union, FS_Singleton
<1>4. S \subseteq Nat
    BY <1>1
<1>5. Max(S) \in S /\ \A y \in S : y <= Max(S)
  <2> HIDE DEF A
  <2> QED BY <1>3, <1>4, NatMax
<1>6. S = {0} \cup {FreeAt(x[1], x[2], t) : x \in X}
    OBVIOUS
<1>7. NextCheck(r, t) = Max(S)
    BY <1>6 DEF NextCheck
<1>8. \A x \in X : FreeAt(x[1], x[2], t) \in S
    BY <1>6
<1> HIDE DEF S, X
<1> QED BY <1>4, <1>5, <1>6, <1>7, <1>8 DEF X

\* The answer of checkWorkLocked.
LEMMA CheckType ==
    ASSUME RecInv, NEW c \in Calls, NEW t \in Nat
    PROVE  /\ checkWorkLocked(c, t).verdict \in {"grant", "blocked", "error"}
           /\ checkWorkLocked(c, t).next \in Nat
<1> DEFINE r == IF RequestRefuses(c, t) THEN OpOf[c] ELSE c
<1>1. r \in Recs
  <2>1. CASE RequestRefuses(c, t)
    BY <2>1, FlowAssumption DEF RequestRefuses, Needed, Recs
  <2>2. CASE ~ RequestRefuses(c, t)
    BY <2>2 DEF Recs
  <2> QED BY <2>1, <2>2
<1>2. NextCheck(r, t) \in Nat
  <2> HIDE DEF r
  <2> QED BY <1>1, NextCheckType
<1> QED BY <1>2 DEF checkWorkLocked

\* A timer is due at some time, or not set: not before the next millisecond and
\* not after an expiry or a check that is still to come.
LEMMA DueType ==
    ASSUME RecInv, NEW q \in SUBSET Calls, NEW wt \in [Calls -> Waiters],
           NEW h \in SUBSET HistoryEvents, NEW rt \in [Buckets -> Nat],
           NEW pending, NEW t \in Nat
    PROVE  /\ DueAt(q, wt, h, rt, pending, t) \in Nat
           /\ ~ closed /\ q # {} =>
                LET due == DueAt(q, wt, h, rt, pending, t)
                IN  /\ t < due /\ (pending => due = t + 1)
                    /\ \A x \in Expiries(h, rt, t) : due <= x
                    /\ cfg.enabled => \A w \in q :
                            t < wt[w].nextCheck => due <= wt[w].nextCheck
<1> DEFINE E == Expiries(h, rt, t)
           D == {wt[w].deadline : w \in q}
           N == IF cfg.enabled THEN {wt[w].nextCheck : w \in q} \ 0..t ELSE {}
           P == IF pending THEN {t + 1} ELSE {}
           S == D \cup E \cup N \cup P
<1>1. CASE closed \/ q = {}
    BY <1>1 DEF DueAt
<1>2. CASE ~ (closed \/ q = {})
  <2>1. D \subseteq Nat /\ D # {} /\ N \subseteq Nat /\ P \subseteq Nat
    BY <1>2 DEF Waiters
  <2>2. ASSUME NEW b \in Buckets, HasEvent(h, b)
        PROVE  Min({e.at : e \in {d \in h : d.bucket = b}}) + rt[b] \in Nat
    <3> DEFINE A == {e.at : e \in {d \in h : d.bucket = b}}
    <3>1. A \subseteq Nat /\ A # {}
      BY <2>2 DEF HasEvent, HistoryEvents
    <3>2. Min(A) \in Nat
      <4> HIDE DEF A
      <4> QED BY <3>1, NatMin
    <3> QED BY <3>2
  <2>3. E \subseteq Nat
    BY <2>2 DEF Expiries
  <2>4. S \subseteq Nat /\ S # {}
    <3> HIDE DEF D, E, N, P
    <3> QED BY <2>1, <2>3
  <2>5. Min(S) \in Nat /\ \A x \in S : Min(S) <= x
    <3> HIDE DEF S
    <3> QED BY <2>4, NatMin
  <2> DEFINE due == DueAt(q, wt, h, rt, pending, t)
  <2>6. due = Max({t + 1, Min(S)})
    BY <1>2 DEF DueAt
  <2>7. due \in {t + 1, Min(S)} /\ t + 1 <= due /\ Min(S) <= due /\ due \in Nat
    <3> HIDE DEF S, due
    <3> QED BY <2>5, <2>6, PairMax
  <2>8. ASSUME NEW x \in S, t < x PROVE due <= x
    <3> HIDE DEF S, due
    <3> QED BY <2>4, <2>5, <2>7, <2>8
  <2>9. pending => due = t + 1
    <3>1. pending => t + 1 \in S
      OBVIOUS
    <3> HIDE DEF S, due
    <3> QED BY <2>7, <2>8, <3>1
  <2>10. ASSUME NEW x \in Expiries(h, rt, t) PROVE due <= x
    <3>1. x \in S /\ t < x
      BY <2>3 DEF Expiries
    <3> HIDE DEF S, due
    <3> QED BY <2>8, <3>1
  <2>11. ASSUME cfg.enabled, NEW w \in q, t < wt[w].nextCheck
         PROVE  due <= wt[w].nextCheck
    <3>1. wt[w].nextCheck \in S
      BY <2>11
    <3> HIDE DEF S, due
    <3> QED BY <2>8, <2>11, <3>1
  <2> HIDE DEF S
  <2> QED BY <2>7, <2>9, <2>10, <2>11
<1> QED BY <1>1, <1>2

\* The records an admission creates are new and finitely many, and no bucket
\* counts two of them.
LEMMA NeededFacts ==
    ASSUME RecInv, NEW c \in Calls
    PROVE  /\ c \in Needed(c) /\ Needed(c) \subseteq Recs /\ IsFiniteSet(Needed(c))
           /\ Needed(c) \subseteq {c, OpOf[c]}
           /\ c \notin active => Needed(c) \cap active = {}
           /\ \A b : \A r, s \in Needed(c) :
                b \in Members(cfg, r) /\ b \in Members(cfg, s) => r = s
<1>1. c \in Needed(c) /\ Needed(c) \subseteq Recs /\ Needed(c) \subseteq {c, OpOf[c]}
    BY DEF Needed, Recs
<1>2. IsFiniteSet(Needed(c))
    BY <1>1, FS_Subset, FlowAssumption
<1>3. c \notin active => Needed(c) \cap active = {}
    BY DEF Needed
<1>4. ASSUME NEW b, NEW r \in Needed(c), NEW s \in Needed(c),
             b \in Members(cfg, r), b \in Members(cfg, s)
      PROVE  r = s
  <2>1. CASE OpOf[c] \in Ops \ active
    <3>1. Members(cfg, c) \cap Members(cfg, OpOf[c]) = {}
      BY <2>1, PolicyFacts DEF RecInv
    <3>2. r \in {c, OpOf[c]} /\ s \in {c, OpOf[c]}
      BY <1>1
    <3> QED BY <1>4, <3>1, <3>2
  <2>2. CASE ~ (OpOf[c] \in Ops \ active)
    BY <2>2 DEF Needed
  <2> QED BY <2>1, <2>2
<1> QED BY <1>1, <1>2, <1>3, <1>4

\* An admission adds as many events as checkWorkLocked counted.
LEMMA EventsFacts ==
    ASSUME RecInv, NEW rs \in SUBSET Recs, IsFiniteSet(rs), NEW t \in 0..MaxTime
    PROVE  /\ IsFiniteSet(Events(rs, t)) /\ IsFiniteSet(Events(rs, 0))
           /\ Events(rs, t) \subseteq HistoryEvents
           /\ Cardinality(Events(rs, t)) = Cardinality(Events(rs, 0))
<1>1. ASSUME NEW r \in rs
      PROVE  IsFiniteSet({[bucket |-> b, rec |-> r, at |-> 0] : b \in Recorded(r)})
  <2> DEFINE f == [b \in Recorded(r) |-> [bucket |-> b, rec |-> r, at |-> 0]]
  <2>1. IsFiniteSet(Members(cfg, r)) /\ Recorded(r) \subseteq Members(cfg, r)
    BY PolicyFacts DEF RecInv, Recorded
  <2>2. IsFiniteSet(Recorded(r))
    BY <2>1, FS_Subset
  <2>3. IsFiniteSet({f[b] : b \in Recorded(r)})
    <3> HIDE DEF f
    <3> QED BY <2>2, ImageFinite
  <2> QED BY <2>3
<1> DEFINE g == [r \in rs |-> {[bucket |-> b, rec |-> r, at |-> 0] : b \in Recorded(r)}]
           G == {g[r] : r \in rs}
<1>2. IsFiniteSet(G)
  <2> HIDE DEF g
  <2> QED BY ImageFinite
<1>3. \A T \in G : IsFiniteSet(T)
    BY <1>1
<1>4. IsFiniteSet(UNION G)
  <2> HIDE DEF G
  <2> QED BY <1>2, <1>3, FS_UNION
<1>5. UNION G = Events(rs, 0)
    BY DEF Events
<1> DEFINE h == [e \in Events(rs, 0) |-> [bucket |-> e.bucket, rec |-> e.rec, at |-> t]]
<1>6. h \in Bijection(Events(rs, 0), Events(rs, t))
  <2>1. \A e \in Events(rs, 0) : h[e] \in Events(rs, t)
    BY DEF Events
  <2>2. ASSUME NEW d \in Events(rs, t)
        PROVE  \E e \in Events(rs, 0) : h[e] = d
    <3>0. PICK r \in rs :
            \E b \in Recorded(r) : d = [bucket |-> b, rec |-> r, at |-> t]
      BY DEF Events
    <3>1. PICK b \in Recorded(r) : d = [bucket |-> b, rec |-> r, at |-> t]
      BY <3>0
    <3>2. [bucket |-> b, rec |-> r, at |-> 0] \in Events(rs, 0)
      BY DEF Events
    <3> QED BY <3>1, <3>2
  <2>3. ASSUME NEW d \in Events(rs, 0), NEW e \in Events(rs, 0), h[d] = h[e]
        PROVE  d = e
    <3>1. PICK r \in rs, b \in UNION {Recorded(x) : x \in rs} :
            d = [bucket |-> b, rec |-> r, at |-> 0]
      BY DEF Events
    <3>2. PICK s \in rs, a \in UNION {Recorded(x) : x \in rs} :
            e = [bucket |-> a, rec |-> s, at |-> 0]
      BY DEF Events
    <3>3. h[d].bucket = b /\ h[d].rec = r /\ h[e].bucket = a /\ h[e].rec = s
      BY <3>1, <3>2
    <3> QED BY <2>3, <3>1, <3>2, <3>3
  <2>4. h \in [Events(rs, 0) -> Events(rs, t)]
    BY <2>1
  <2> HIDE DEF h
  <2>5. h \in Injection(Events(rs, 0), Events(rs, t))
    BY <2>3, <2>4 DEF Injection, IsInjective
  <2>6. h \in Surjection(Events(rs, 0), Events(rs, t))
    BY <2>2, <2>4 DEF Surjection
  <2> QED BY <2>5, <2>6 DEF Bijection
<1>7. ExistsBijection(Events(rs, 0), Events(rs, t))
    BY <1>6 DEF ExistsBijection
<1>8. Events(rs, t) \subseteq HistoryEvents
  <2>1. \A r \in rs : Recorded(r) \subseteq Buckets
    BY PolicyFacts DEF RecInv, Recorded
  <2> QED BY <2>1 DEF Events, HistoryEvents
<1>9. IsFiniteSet(Events(rs, 0))
    BY <1>4, <1>5
<1> QED BY <1>7, <1>8, <1>9, FS_Bijection

\* Where the request's events do not fit, the request's and the attempt's do
\* not either.
LEMMA RoomForPart ==
    ASSUME RecInv, NEW c \in Calls, OpOf[c] \in Needed(c), NoRoom({OpOf[c]})
    PROVE  NoRoom(Needed(c))
<1> DEFINE o == OpOf[c]
<1>1. Events({o}, 0) \subseteq Events(Needed(c), 0)
    BY DEF Events
<1>2. 0 \in 0..MaxTime
    BY FlowAssumption
<1>3. IsFiniteSet(Events(Needed(c), 0))
    BY <1>2, NeededFacts, EventsFacts
<1>4. Cardinality(Events({o}, 0)) <= Cardinality(Events(Needed(c), 0))
    BY <1>1, <1>3, FS_Subset
<1>5. IsFiniteSet(Events({o}, 0))
    BY <1>1, <1>3, FS_Subset
<1>6. cfg.maxHistory \in Nat /\ Cardinality(hist) \in Nat
      /\ Cardinality(Events({o}, 0)) \in Nat
      /\ Cardinality(Events(Needed(c), 0)) \in Nat
    BY <1>3, <1>5, PolicyFacts, FS_CardinalityType DEF RecInv
<1> QED BY <1>4, <1>6 DEF NoRoom

\* checkWorkLocked admits a call exactly when its request has not ended, no
\* bucket of the records it needs refuses and their history fits.
LEMMA GrantMeans ==
    ASSUME RecInv, NEW c \in Calls, NEW t
    PROVE  checkWorkLocked(c, t).verdict = "grant" <=>
            /\ ~ (OpOf[c] \in Ops /\ opClosed[OpOf[c]])
            /\ \A r \in Needed(c) : ~ Blocked(r, t)
            /\ ~ NoRoom(Needed(c))
<1> DEFINE o == OpOf[c]
           r == IF RequestRefuses(c, t) THEN o ELSE c
<1>1. checkWorkLocked(c, t).verdict = "grant" <=>
            ~ (o \in Ops /\ opClosed[o]) /\ ~ Blocked(r, t) /\ ~ NoRoom(Needed(c))
    BY DEF checkWorkLocked
<1>2. o \in Needed(c) /\ NoRoom({o}) => NoRoom(Needed(c))
    BY RoomForPart
<1>3. c \in Needed(c) /\ Needed(c) \subseteq {c, o}
    BY NeededFacts
<1>4. RequestRefuses(c, t) <=> (o \in Needed(c) /\ (Blocked(o, t) \/ NoRoom({o})))
    BY DEF RequestRefuses
<1>5. CASE RequestRefuses(c, t)
    BY <1>1, <1>2, <1>4, <1>5
<1>6. CASE ~ RequestRefuses(c, t)
    BY <1>1, <1>3, <1>4, <1>6
<1> QED BY <1>5, <1>6

\* An admission keeps the books: every bucket counts one more, or none, for the
\* new records it holds, and the history has room for their events.
LEMMA GrantKeeps ==
    ASSUME RecInv, NEW c \in Calls, NEW t \in 0..MaxTime, c \notin active,
           checkWorkLocked(c, t).verdict = "grant", cfg' = cfg, now' = now,
           active' = active \cup Needed(c),
           mem' = [r \in Recs |->
                    IF r \in Needed(c) THEN Members(cfg, r) ELSE mem[r]],
           conc' = [b \in Buckets |->
                conc[b] + Cardinality({r \in Needed(c) : b \in Members(cfg, r)})],
           hist' = hist \cup Events(Needed(c), t),
           log' = log \cup Events(Needed(c), t),
           bornV3' = IF cfg.v3 THEN bornV3 \cup Needed(c) ELSE bornV3,
           sequence' = sequence + Cardinality(Needed(c))
    PROVE  RecInv'
<1> DEFINE N == Needed(c)
           In(b) == {r \in N : b \in Members(cfg, r)}
<1>1. N \subseteq Recs /\ IsFiniteSet(N) /\ N \cap active = {}
    BY NeededFacts
<1>2. IsFiniteSet(active)
    BY FS_Subset, FlowAssumption DEF RecInv
<1>3. IsFiniteSet(Events(N, t)) /\ IsFiniteSet(Events(N, 0))
      /\ Events(N, t) \subseteq HistoryEvents
      /\ Cardinality(Events(N, t)) = Cardinality(Events(N, 0))
  <2> HIDE DEF N
  <2> QED BY <1>1, EventsFacts
<1>4. now' \in 0..MaxTime /\ cfg' \in Policies /\ active' \subseteq Recs
      /\ bornV3' \subseteq Recs
    BY <1>1 DEF RecInv
<1>5. mem' \in [Recs -> SUBSET Buckets]
  <2>1. \A r \in Recs : Members(cfg, r) \in SUBSET Buckets
    BY PolicyFacts DEF RecInv
  <2>2. \A r \in Recs : mem[r] \in SUBSET Buckets
    BY DEF RecInv
  <2> QED BY <2>1, <2>2
<1>6. sequence' \in Nat
    BY <1>1, FS_CardinalityType DEF RecInv
<1>7. hist' \subseteq HistoryEvents /\ log' \subseteq HistoryEvents
    BY <1>3 DEF RecInv
<1>8. IsFiniteSet(hist')
    BY <1>3, FS_Union DEF RecInv
<1>9. ASSUME NEW b \in Buckets
      PROVE  /\ conc'[b] \in Nat
             /\ conc'[b] = Cardinality({r \in active' : b \in mem'[r]})
  <2> DEFINE A == {r \in active : b \in mem[r]}
  <2>1. conc[b] = Cardinality(A) /\ conc[b] \in Nat
    BY DEF RecInv, CountersMatch
  <2>2. IsFiniteSet(A)
    BY <1>2, FS_Subset
  <2>3. IsFiniteSet(In(b))
    BY <1>1, FS_Subset
  <2>4. A \cap In(b) = {}
    BY <1>1
  <2>5. {r \in active' : b \in mem'[r]} = A \cup In(b)
    BY <1>1 DEF RecInv
  <2>6. Cardinality(A \cup In(b)) = Cardinality(A) + Cardinality(In(b))
    <3> HIDE DEF A, In
    <3>1. Cardinality(A \cup In(b))
            = Cardinality(A) + Cardinality(In(b)) - Cardinality(A \cap In(b))
      BY <2>2, <2>3, FS_Union
    <3>2. Cardinality(A \cap In(b)) = 0
      BY <2>4, FS_EmptySet
    <3>3. Cardinality(A) \in Nat /\ Cardinality(In(b)) \in Nat
      BY <2>2, <2>3, FS_CardinalityType
    <3> QED BY <3>1, <3>2, <3>3
  <2>7. conc'[b] = conc[b] + Cardinality(In(b))
    OBVIOUS
  <2>8. Cardinality(In(b)) \in Nat
    BY <2>3, FS_CardinalityType
  <2>9. conc'[b] \in Nat /\ conc'[b] = Cardinality(A \cup In(b))
    <3> HIDE DEF A, In
    <3> QED BY <2>1, <2>6, <2>7, <2>8
  <2> QED BY <2>5, <2>9
<1>10. conc' \in [Buckets -> Nat] /\ CountersMatch'
    BY <1>9 DEF CountersMatch
<1>11. HistoryBounded'
  <2>1. ~ NoRoom(N)
    BY GrantMeans
  <2>2. Cardinality(hist \cup Events(N, t))
            = Cardinality(hist) + Cardinality(Events(N, t))
                - Cardinality(hist \cap Events(N, t))
    BY <1>3, FS_Union DEF RecInv
  <2>3. Cardinality(hist) \in Nat /\ Cardinality(Events(N, t)) \in Nat
        /\ Cardinality(hist \cap Events(N, t)) \in Nat
    BY <1>3, FS_Intersection, FS_CardinalityType DEF RecInv
  <2>4. cfg.maxHistory \in Nat
    BY PolicyFacts DEF RecInv
  <2> HIDE DEF N
  <2>5. Cardinality(hist \cup Events(N, t)) <= cfg.maxHistory
    BY <1>3, <2>1, <2>2, <2>3, <2>4 DEF NoRoom
  <2>6. hist' = hist \cup Events(N, t)
    BY DEF N
  <2> QED BY <2>5, <2>6 DEF HistoryBounded
<1> QED BY <1>4, <1>5, <1>6, <1>7, <1>8, <1>10, <1>11 DEF RecInv

\* So do releases, refunds and clean-ups: of the records that leave each is
\* uncounted once in its buckets.
LEMMA ReleaseKeeps ==
    ASSUME RecInv, NEW gone \in SUBSET active, cfg' = cfg, now' = now,
           active' = active \ gone,
           mem' = [r \in Recs |-> IF r \in gone THEN {} ELSE mem[r]],
           conc' = [b \in Buckets |->
                conc[b] - Cardinality({r \in gone : b \in mem[r]})],
           hist' \subseteq hist, log' \subseteq log, bornV3' \subseteq bornV3,
           sequence' = sequence
    PROVE  RecInv'
<1>1. IsFiniteSet(active) /\ IsFiniteSet(gone)
    BY FS_Subset, FlowAssumption DEF RecInv
<1>2. now' \in 0..MaxTime /\ cfg' \in Policies /\ active' \subseteq Recs
      /\ bornV3' \subseteq Recs /\ sequence' \in Nat
      /\ hist' \subseteq HistoryEvents /\ log' \subseteq HistoryEvents
    BY DEF RecInv
<1>3. mem' \in [Recs -> SUBSET Buckets]
  <2>1. \A r \in Recs : mem[r] \in SUBSET Buckets
    BY DEF RecInv
  <2> QED BY <2>1
<1>4. IsFiniteSet(hist') /\ Cardinality(hist') <= Cardinality(hist)
    BY FS_Subset DEF RecInv
<1>5. ASSUME NEW b \in Buckets
      PROVE  /\ conc'[b] \in Nat
             /\ conc'[b] = Cardinality({r \in active' : b \in mem'[r]})
  <2> DEFINE A == {r \in active : b \in mem[r]}
             G == {r \in gone : b \in mem[r]}
  <2>1. conc[b] = Cardinality(A) /\ conc[b] \in Nat
    BY DEF RecInv, CountersMatch
  <2>2. IsFiniteSet(A) /\ IsFiniteSet(G)
    BY <1>1, FS_Subset
  <2>3. {r \in active' : b \in mem'[r]} = A \ G
    BY DEF RecInv
  <2>4. A \cap G = G
    OBVIOUS
  <2>5. Cardinality(A \ G) = Cardinality(A) - Cardinality(G)
    <3> HIDE DEF A, G
    <3> QED BY <2>2, <2>4, FS_Difference
  <2>6. IsFiniteSet(A \ G)
    <3> HIDE DEF A, G
    <3> QED BY <2>2, FS_Difference
  <2>7. Cardinality(A \ G) \in Nat
    BY <2>6, FS_CardinalityType
  <2>8. conc'[b] = conc[b] - Cardinality(G)
    OBVIOUS
  <2> HIDE DEF A, G
  <2> QED BY <2>1, <2>3, <2>5, <2>7, <2>8
<1>6. conc' \in [Buckets -> Nat] /\ CountersMatch'
    BY <1>5 DEF CountersMatch
<1>7. HistoryBounded'
  <2>1. Cardinality(hist) \in Nat /\ Cardinality(hist') \in Nat
        /\ cfg.maxHistory \in Nat
    BY <1>4, PolicyFacts, FS_CardinalityType DEF RecInv
  <2> QED BY <1>4, <2>1 DEF HistoryBounded, RecInv
<1> QED BY <1>2, <1>3, <1>4, <1>6, <1>7 DEF RecInv

\* GrantMeans, as a property of a state.
GrantRule ==
    \A c \in Calls, t \in Nat :
        checkWorkLocked(c, t).verdict = "grant" <=>
            /\ ~ (OpOf[c] \in Ops /\ opClosed[OpOf[c]])
            /\ \A r \in Needed(c) : ~ Blocked(r, t)
            /\ ~ NoRoom(Needed(c))

\* It holds before and after every step that keeps the books.
LEMMA GrantRuleHolds == RecInv => GrantRule
BY GrantMeans DEF GrantRule

LEMMA GrantRuleNext == RecInv' => GrantRule'
BY GrantRuleHolds, PTL

\* What another admission takes never makes room: a record that is refused
\* before is refused after.
LEMMA BlockedStays ==
    ASSUME RecInv, RecInv', NEW r \in Recs, NEW t,
           cfg' = cfg, hist \subseteq hist',
           \A b \in Buckets : conc[b] <= conc'[b], Blocked(r, t)
    PROVE  Blocked(r, t)'
<1>1. CASE AtLimit(r)
  <2>1. PICK b \in Members(cfg, r) : cfg.limit[b] > 0 /\ conc[b] >= cfg.limit[b]
    BY <1>1 DEF AtLimit
  <2>2. b \in Buckets /\ cfg.limit[b] \in Nat
    BY PolicyFacts DEF RecInv
  <2>3. conc[b] \in Nat /\ conc'[b] \in Nat
    BY <2>2 DEF RecInv
  <2>4. conc'[b] >= cfg.limit[b]
    BY <2>1, <2>2, <2>3
  <2>5. AtLimit(r)'
    BY <2>1, <2>4 DEF AtLimit, Members
  <2> QED BY <2>5 DEF Blocked
<1>2. CASE Exhausted(r, t) # {}
  <2>1. PICK x : x \in Exhausted(r, t)
    BY <1>2
  <2>2. PICK b \in Members(cfg, r) : x \in {b} \X cfg.windows[b]
    BY <2>1 DEF Exhausted
  <2> DEFINE R == Recent(x[1], t, x[2].period)
  <2>3. x[2].requests \in Nat
    BY <2>2, PolicyFacts DEF RecInv
  <2>4. R \subseteq R' /\ R' \subseteq hist'
    BY DEF Recent
  <2>5. IsFiniteSet(R') /\ IsFiniteSet(R) /\ Cardinality(R) <= Cardinality(R')
    BY <2>4, FS_Subset DEF RecInv
  <2>6. Cardinality(R) \in Nat /\ Cardinality(R') \in Nat
    BY <2>5, FS_CardinalityType
  <2>7. Cardinality(R) >= x[2].requests
    BY <2>1 DEF Exhausted
  <2>8. Cardinality(R') >= x[2].requests
    <3> HIDE DEF R
    <3> QED BY <2>3, <2>5, <2>6, <2>7
  <2>9. x \in Exhausted(r, t)'
    BY <2>2, <2>8 DEF Exhausted, Members
  <2> QED BY <2>9 DEF Blocked
<1> QED BY <1>1, <1>2 DEF Blocked

\* Neither can a call that could not be admitted before be admitted after, if it
\* still needs the same records.
LEMMA CapacityOnlyTaken ==
    ASSUME RecInv, RecInv', NEW v \in Calls, NEW t \in Nat,
           cfg' = cfg, opClosed' = opClosed, hist \subseteq hist',
           \A b \in Buckets : conc[b] <= conc'[b], Needed(v)' = Needed(v),
           checkWorkLocked(v, t).verdict # "grant"
    PROVE  checkWorkLocked(v, t)'.verdict # "grant"
<1>1. ASSUME NEW r \in Recs, Blocked(r, t) PROVE Blocked(r, t)'
    BY <1>1, BlockedStays
<1>2. NoRoom(Needed(v)) => NoRoom(Needed(v))'
  <2>1. Events(Needed(v), 0)' = Events(Needed(v), 0)
    BY DEF Events, Recorded, Members
  <2>2. Cardinality(hist) <= Cardinality(hist')
    BY FS_Subset DEF RecInv
  <2>3. 0 \in 0..MaxTime
    BY FlowAssumption
  <2>4. IsFiniteSet(Events(Needed(v), 0))
    BY <2>3, NeededFacts, EventsFacts
  <2>5. Cardinality(hist) \in Nat /\ Cardinality(hist') \in Nat
        /\ Cardinality(Events(Needed(v), 0)) \in Nat /\ cfg.maxHistory \in Nat
    BY <2>4, PolicyFacts, FS_CardinalityType DEF RecInv
  <2> QED BY <2>1, <2>2, <2>5 DEF NoRoom
<1>3. Needed(v) \subseteq Recs
    BY NeededFacts
<1>4. GrantRule /\ GrantRule'
    BY GrantRuleHolds, GrantRuleNext
<1>5. \/ OpOf[v] \in Ops /\ opClosed[OpOf[v]]
      \/ \E r \in Needed(v) : Blocked(r, t)
      \/ NoRoom(Needed(v))
    BY <1>4 DEF GrantRule
<1>6. \/ OpOf[v] \in Ops /\ opClosed'[OpOf[v]]
      \/ \E r \in Needed(v)' : Blocked(r, t)'
      \/ NoRoom(Needed(v))'
    BY <1>1, <1>2, <1>3, <1>5
<1> QED BY <1>4, <1>6 DEF GrantRule
-----------------------------------------------------------------------------
(* The books are kept by every step.                                       *)

\* Steps that leave the records alone.
LEMMA RecSame ==
    ASSUME RecInv, UNCHANGED <<cfg, active, mem, conc, sequence, bornV3>>,
           now' \in 0..MaxTime, hist' \subseteq hist, log' \subseteq log
    PROVE  RecInv'
<1>1. IsFiniteSet(hist') /\ Cardinality(hist') <= Cardinality(hist)
    BY FS_Subset DEF RecInv
<1>2. Cardinality(hist) \in Nat /\ Cardinality(hist') \in Nat
      /\ cfg.maxHistory \in Nat
    BY <1>1, PolicyFacts, FS_CardinalityType DEF RecInv
<1>3. HistoryBounded'
    BY <1>1, <1>2 DEF HistoryBounded, RecInv
<1> QED BY <1>1, <1>3 DEF RecInv, CountersMatch

\* Whoever tries a waiter holds the mutex now, and the waiter has no record.
LEMMA TryFacts ==
    ASSUME FlowInv, NEW w \in Calls, NEW k \in Keys, Try(w, k)
    PROVE  /\ lk.at = now /\ w \in queue /\ w \in lk.todo /\ KeyOf[w] = k
           /\ call[w] = "waiting" /\ w \notin active
           /\ lk.kind = "acquire" => lk.call # w
<1>1. lk.at = now /\ w \in lk.todo /\ KeyOf[w] = k /\ w \in queue
    BY DEF FlowInv, LockInv, Try, Heads, Of
<1>2. call[w] = "waiting"
    BY <1>1 DEF FlowInv, QueueInv
<1>3. w \notin active
    BY <1>2 DEF FlowInv, NoLeak
<1>4. lk.kind = "acquire" => lk.call # w
    BY <1>2 DEF FlowInv, LockInv
<1> QED BY <1>1, <1>2, <1>3, <1>4

\* So does the call that decides what becomes of its request.
LEMMA DecidingFacts ==
    ASSUME FlowInv, NEW c \in Calls, Deciding(c)
    PROVE  /\ lk.at = now /\ call[c] = "idle" /\ c \notin active /\ c \notin queue
           /\ cfg.enabled /\ lk' = Unlocked /\ dispatchPending' = Remaining
           /\ lk.kind = "acquire" /\ lk.call = c
<1>1. lk.at = now /\ call[c] = "idle" /\ cfg.enabled
    BY DEF FlowInv, LockInv, Deciding
<1>2. c \notin active /\ c \notin queue
    BY <1>1 DEF FlowInv, NoLeak, QueueInv
<1> QED BY <1>1, <1>2 DEF Deciding

\* A call that is given back has a record, and so has a request that goes with it.
LEMMA ReleaseFacts ==
    ASSUME FlowInv, NEW c \in Calls, call[c] \in Holders, NEW refund
    PROVE  /\ {c} \cup Over(c, refund) \subseteq active
           /\ c \notin queue
           /\ Over(c, refund) \subseteq {OpOf[c]} \cap Ops
<1>1. c \in active /\ c \notin queue
    BY DEF FlowInv, NoLeak, QueueInv, Holders
<1>2. Over(c, refund) \subseteq active \cap {OpOf[c]}
    BY DEF Over
<1>3. OpOf[c] \in Ops \cup {NoOp} /\ NoOp \notin active
    BY FlowAssumption DEF FlowInv, RecInv
<1> QED BY <1>1, <1>2, <1>3

LEMMA RecStep ==
    ASSUME FlowInv, [Next]_vars
    PROVE  RecInv'
<1> USE DEF FlowInv
<1>0. now \in 0..MaxTime
    BY DEF RecInv
<1>1. ASSUME NEW w \in Calls, NEW k \in Keys, TryAdmitted(w, k) PROVE RecInv'
  <2>1. w \notin active /\ lk.at \in 0..MaxTime
    BY <1>0, <1>1, TryFacts DEF TryAdmitted
  <2>2. checkWorkLocked(w, lk.at).verdict = "grant" /\ cfg' = cfg /\ now' = now
    BY <1>1 DEF TryAdmitted
  <2> QED BY <1>1, <2>1, <2>2, GrantKeeps DEF TryAdmitted, Grant
<1>2. ASSUME NEW c \in Calls, AcquireAdmitted(c) PROVE RecInv'
  <2>1. c \notin active /\ lk.at \in 0..MaxTime
    BY <1>0, <1>2, DecidingFacts DEF AcquireAdmitted
  <2>2. checkWorkLocked(c, lk.at).verdict = "grant" /\ cfg' = cfg /\ now' = now
    BY <1>2 DEF AcquireAdmitted, AdmitNow
  <2> QED BY <1>2, <2>1, <2>2, GrantKeeps DEF AcquireAdmitted, Grant
<1>3. ASSUME NEW gone \in SUBSET active, NEW refunded, NEW q, cfg' = cfg, now' = now,
             ReleaseAndCleanup(gone, refunded, q)
      PROVE  RecInv'
  <2>1. hist' \subseteq hist /\ log' \subseteq log /\ bornV3' \subseteq bornV3
        /\ sequence' = sequence
    BY <1>3 DEF ReleaseAndCleanup, Live
  <2> QED BY <1>3, <2>1, ReleaseKeeps DEF ReleaseAndCleanup
<1>4. ASSUME NEW c \in Calls, Acquire(c) PROVE RecInv'
    BY <1>3, <1>4 DEF Acquire, Cleanup
<1>5. ASSUME NEW c \in Calls, AcquireUncontrolled(c) PROVE RecInv'
  <2>1. CASE UNCHANGED <<recVars, bucketVars>>
    BY <1>0, <1>5, <2>1, RecSame DEF AcquireUncontrolled, recVars, bucketVars
  <2>2. CASE Cleanup(queue)
    BY <1>3, <1>5, <2>2 DEF AcquireUncontrolled, Cleanup
  <2> QED BY <1>5, <2>1, <2>2 DEF AcquireUncontrolled
<1>6. ASSUME NEW c \in Calls, NEW refund, NEW status, call[c] \in Holders,
             release(c, refund, status)
      PROVE  RecInv'
    BY <1>3, <1>6, ReleaseFacts DEF release
<1>7. ASSUME NEW c \in Calls, Release(c) \/ CancelBeforeDispatch(c) PROVE RecInv'
  <2>1. CASE Release(c)
    <3>1. call[c] \in Holders /\ release(c, FALSE, "finished")
      BY <2>1 DEF Release, Holders
    <3> QED BY <1>6, <3>1
  <2>2. CASE CancelBeforeDispatch(c)
    <3>1. call[c] \in Holders /\ release(c, TRUE, "refused")
      BY <2>2 DEF CancelBeforeDispatch, Holders
    <3> QED BY <1>6, <3>1
  <2> QED BY <1>7, <2>1, <2>2
<1>8. ASSUME NEW o \in Ops, endOperation(o) PROVE RecInv'
  <2>1. Ended(o) \subseteq active
    BY DEF Ended
  <2> QED BY <1>3, <1>8, <2>1 DEF endOperation
<1>9. CASE TimerFire
    BY <1>3, <1>9 DEF TimerFire, Cleanup
<1>10. ASSUME NEW p \in Policies, Update(p) PROVE RecInv'
  <2>1. cfg' = p /\ now' = now /\ active' = active /\ mem' = Reprojected(p)
        /\ hist' = Live(hist, now) /\ log' = Live(log, now)
        /\ sequence' = sequence /\ bornV3' = bornV3
    BY <1>10 DEF Update
  <2>2. IsFiniteSet(active)
    BY FS_Subset, FlowAssumption DEF RecInv
  <2>3. hist' \subseteq hist /\ log' \subseteq log
    BY <2>1 DEF Live
  <2>4. IsFiniteSet(hist')
    BY <2>3, FS_Subset DEF RecInv
  <2>5. \A r \in Recs : Members(p, r) \in SUBSET Buckets
    BY PolicyFacts
  <2>6. mem' \in [Recs -> SUBSET Buckets]
    BY <2>1, <2>5 DEF Reprojected
  <2>7. ASSUME NEW b \in Buckets
        PROVE  /\ conc'[b] \in Nat
               /\ conc'[b] = Cardinality({r \in active' : b \in mem'[r]})
    <3>1. {r \in active' : b \in mem'[r]} = {r \in active : b \in Members(p, r)}
      BY <2>1 DEF Reprojected, RecInv
    <3>2. IsFiniteSet({r \in active : b \in Members(p, r)})
      BY <2>2, FS_Subset
    <3>3. Cardinality({r \in active : b \in Members(p, r)}) \in Nat
      BY <3>2, FS_CardinalityType
    <3>4. conc'[b] = Cardinality({r \in active : b \in Members(p, r)})
      BY <1>10 DEF Update
    <3> QED BY <3>1, <3>3, <3>4
  <2>8. conc' = [b \in Buckets |-> Cardinality({r \in active : b \in Members(p, r)})]
    BY <1>10 DEF Update
  <2>9. conc' \in [Buckets -> Nat] /\ CountersMatch'
    BY <2>7, <2>8 DEF CountersMatch
  <2>10. HistoryBounded'
    BY <1>10, <2>1 DEF Update, checkUpdateLocked, HistoryBounded
  <2> QED BY <2>1, <2>3, <2>4, <2>6, <2>9, <2>10 DEF RecInv
<1>11. CASE Tick
    BY <1>0, <1>11, RecSame, FlowAssumption DEF Tick, recVars, bucketVars
<1>12. ASSUME NEW c \in Calls, Available(c) PROVE RecInv'
  <2>1. hist' \subseteq hist
    BY <1>12 DEF Available, Live
  <2> QED BY <1>0, <1>12, <2>1, RecSame DEF Available, recVars
<1>13. ASSUME UNCHANGED <<now, cfg, recVars, hist>> PROVE RecInv'
    BY <1>0, <1>13, RecSame DEF recVars
<1>14. ASSUME NEW w \in Calls, NEW k \in Keys,
              TryCancelled(w, k) \/ TryUncontrolled(w, k) \/ TryBlocked(w, k)
       PROVE  RecInv'
    BY <1>13, <1>14 DEF TryCancelled, TryUncontrolled, TryBlocked, bucketVars
<1>15. CASE DispatchEnd \/ Close \/ UNCHANGED vars
    BY <1>13, <1>15 DEF DispatchEnd, Close, bucketVars, vars
<1>16. ASSUME NEW c \in Calls,
              \/ AcquireRefused(c) \/ AcquireQueued(c) \/ Resume(c)
              \/ CommitDispatch(c) \/ CancelWait(c) \/ Cancel(c)
       PROVE  RecInv'
    BY <1>13, <1>16 DEF AcquireRefused, AcquireQueued, Resume, CommitDispatch,
                        CancelWait, Cancel, bucketVars
<1> QED BY <1>1, <1>2, <1>4, <1>5, <1>7, <1>8, <1>9, <1>10, <1>11, <1>12, <1>14,
           <1>15, <1>16 DEF Next, Engine

\* Retentions and the order of service stay numbers.
LEMMA RetStep ==
    ASSUME FlowInv, [Next]_vars
    PROVE  RetType'
<1> USE DEF FlowInv
<1>1. ASSUME NEW c \in Calls, NEW t, Grant(c, t), ret' = Touched(c, t) PROVE RetType'
  <2>1. sequence' \in Nat
    BY RecStep DEF RecInv
  <2>2. lastServed' \in [Keys -> Nat]
    BY <1>1, <2>1 DEF Grant, RetType
  <2> QED BY <1>1, <2>2, TouchedType DEF RetType
<1>2. ASSUME NEW c \in Calls, NEW t, ret' = Touched(c, t), lastServed' = lastServed
      PROVE  RetType'
    BY <1>2, TouchedType DEF RetType
<1>3. ASSUME NEW gone, NEW refunded, NEW q, ReleaseAndCleanup(gone, refunded, q)
      PROVE  RetType'
    BY <1>3 DEF ReleaseAndCleanup, RetType
<1>4. ASSUME UNCHANGED <<ret, lastServed>> PROVE RetType'
    BY <1>4 DEF RetType
<1>5. ASSUME NEW w \in Calls, NEW k \in Keys, TryAdmitted(w, k) PROVE RetType'
    BY <1>1, <1>5 DEF TryAdmitted
<1>6. ASSUME NEW c \in Calls, AcquireAdmitted(c) PROVE RetType'
    BY <1>1, <1>6 DEF AcquireAdmitted
<1>7. ASSUME NEW w \in Calls, NEW k \in Keys, TryBlocked(w, k) PROVE RetType'
    BY <1>2, <1>7 DEF TryBlocked
<1>8. ASSUME NEW c \in Calls, AcquireRefused(c) \/ AcquireQueued(c) PROVE RetType'
    BY <1>2, <1>8 DEF AcquireRefused, AcquireQueued
<1>9. ASSUME NEW c \in Calls, Acquire(c) PROVE RetType'
    BY <1>3, <1>9 DEF Acquire, Cleanup
<1>10. ASSUME NEW c \in Calls, AcquireUncontrolled(c) PROVE RetType'
    BY <1>3, <1>4, <1>10 DEF AcquireUncontrolled, Cleanup, bucketVars
<1>11. ASSUME NEW c \in Calls, Release(c) \/ CancelBeforeDispatch(c) PROVE RetType'
    BY <1>3, <1>11 DEF Release, CancelBeforeDispatch, release
<1>12. ASSUME NEW o \in Ops, endOperation(o) PROVE RetType'
    BY <1>3, <1>12 DEF endOperation
<1>13. CASE TimerFire
    BY <1>3, <1>13 DEF TimerFire, Cleanup
<1>14. ASSUME NEW p \in Policies, Update(p) PROVE RetType'
  <2>1. \A b \in Buckets : ret[b] \in Nat /\ retention(p, b) \in Nat
                           /\ Max({ret[b], retention(p, b)}) \in Nat
    BY RetentionType, PairMax DEF RetType
  <2>2. ret' \in [Buckets -> Nat]
    BY <1>14, <2>1 DEF Update
  <2>3. lastServed' \in [Keys -> Nat]
    BY <1>14 DEF Update, RetType
  <2> QED BY <2>2, <2>3 DEF RetType
<1>15. ASSUME NEW c \in Calls, Available(c) PROVE RetType'
  <2>1. \A b \in Buckets : ret[b] \in Nat /\ retention(cfg, b) \in Nat
                           /\ Max({ret[b], retention(cfg, b)}) \in Nat
                           /\ Max({0, retention(cfg, b)}) \in Nat
    BY RetentionType, PairMax DEF RetType, RecInv
  <2>2. ret' \in [Buckets -> Nat]
    BY <1>15, <2>1 DEF Available
  <2>3. lastServed' \in [Keys -> Nat]
    BY <1>15 DEF Available, RetType
  <2> QED BY <2>2, <2>3 DEF RetType
<1>16. ASSUME NEW w \in Calls, NEW k \in Keys,
              TryCancelled(w, k) \/ TryUncontrolled(w, k)
       PROVE  RetType'
    BY <1>4, <1>16 DEF TryCancelled, TryUncontrolled, bucketVars
<1>17. CASE DispatchEnd \/ Close \/ Tick \/ UNCHANGED vars
    BY <1>4, <1>17 DEF DispatchEnd, Close, Tick, bucketVars, vars
<1>18. ASSUME NEW c \in Calls,
              Resume(c) \/ CommitDispatch(c) \/ CancelWait(c) \/ Cancel(c)
       PROVE  RetType'
    BY <1>4, <1>18 DEF Resume, CommitDispatch, CancelWait, Cancel, bucketVars
<1> QED BY <1>5, <1>6, <1>7, <1>8, <1>9, <1>10, <1>11, <1>12, <1>13, <1>14, <1>15,
           <1>16, <1>17, <1>18 DEF Next, Engine
-----------------------------------------------------------------------------
(* The queue and the mutex.                                                *)

\* The parts of the invariant that are about them.
WaitInv == WaitType /\ QueueInv /\ SoleWaiter

\* Waiters that leave are charged for the time they have waited.
LEMMA LeaveKeeps ==
    ASSUME FlowInv, NEW ws \in SUBSET queue, NEW status \in Statuses \ {"waiting"},
           NEW t, t = now, NEW cl \in [Calls -> Statuses], now' = now,
           \A c \in Calls : cl[c] = "waiting" <=> call[c] = "waiting",
           Leave(ws, status, t, queue, cl)
    PROVE  WaitInv'
<1> USE DEF FlowInv
<1>1. queue' = queue \ ws /\ queue' \subseteq Calls
    BY DEF Leave, WaitType
<1>2. call' = [c \in Calls |-> IF c \in ws THEN status ELSE cl[c]]
    BY DEF Leave
<1>3. waiter' = [c \in Calls |-> IF c \in ws THEN NoWaiter ELSE waiter[c]]
    BY DEF Leave
<1>4. ASSUME NEW o \in Ops PROVE waitUsed[o] + Spent(o, ws, t) \in Nat
  <2>1. waitUsed[o] \in Nat
    BY DEF WaitType
  <2>2. CASE \E w \in ws : OpOf[w] = o
    <3> DEFINE w == CHOOSE x \in ws : OpOf[x] = o
    <3>1. w \in ws
      BY <2>2
    <3> HIDE DEF w
    <3>2. waiter[w].enqueued \in Nat /\ waiter[w].enqueued <= now /\ now \in Nat
      BY <3>1 DEF WaitType, Waiters, QueueInv, RecInv
    <3>3. t - waiter[w].enqueued \in Nat
      BY <3>2
    <3>4. Spent(o, ws, t) = t - waiter[w].enqueued
      BY <2>2 DEF Spent, w
    <3> QED BY <2>1, <3>3, <3>4
  <2>3. CASE ~ \E w \in ws : OpOf[w] = o
    BY <2>1, <2>3 DEF Spent
  <2> QED BY <2>2, <2>3
<1>5. waitUsed' \in [Ops -> Nat]
    BY <1>4 DEF Leave
<1>6. waiter' \in [Calls -> Waiters]
    BY <1>3 DEF WaitType, NoWaiter, Waiters
<1>7. call' \in [Calls -> Statuses]
    BY <1>2
<1>8. QueueInv'
  <2>1. \A c \in Calls : c \in queue' <=> call'[c] = "waiting"
    BY <1>1, <1>2 DEF QueueInv
  <2>2. \A c \in queue' : waiter'[c].enqueued <= now'
    BY <1>1, <1>3 DEF QueueInv
  <2> QED BY <2>1, <2>2 DEF QueueInv
<1>9. SoleWaiter'
    BY <1>1 DEF SoleWaiter
<1> QED BY <1>1, <1>5, <1>6, <1>7, <1>8, <1>9 DEF WaitInv, WaitType

\* dispatchLocked begins.
LEMMA DispatchKeeps ==
    ASSUME FlowInv, NEW kind \in {"dispatch", "acquire"}, NEW c \in Calls \cup {NoOp},
           NEW ws \in SUBSET queue, NEW cl \in [Calls -> Statuses], now' = now,
           \A d \in Calls : cl[d] = "waiting" <=> call[d] = "waiting",
           kind = "acquire" => c \in Calls /\ call[c] = "idle" /\ cl[c] = "idle"
                               /\ cfg'.enabled,
           Dispatch(kind, c, ws, cl)
    PROVE  WaitInv' /\ LockInv'
<1> USE DEF FlowInv
<1> DEFINE gone == {w \in queue : w \in ctxDone \/ Expired(w, now)}
           all == ws \cup gone
<1>1. all \subseteq queue /\ "refused" \in Statuses \ {"waiting"}
    BY DEF Statuses
<1>2. Leave(all, "refused", now, queue, cl)
    BY DEF Dispatch
<1>3. WaitInv'
  <2> HIDE DEF all
  <2> QED BY <1>1, <1>2, LeaveKeeps
<1>4. lk' = [Unlocked EXCEPT !.kind = kind, !.call = c, !.at = now,
                             !.todo = queue \ all]
    BY DEF Dispatch
<1>5. queue' = queue \ all /\ queue \subseteq Calls
    BY <1>2 DEF Leave, WaitType
<1>6. lk' = [kind |-> kind, call |-> c, at |-> now, todo |-> queue \ all,
             key |-> NoKey, grants |-> 0]
    BY <1>4 DEF Unlocked
<1>7. now \in Nat
    BY DEF RecInv
<1>8. ASSUME kind = "acquire" PROVE call'[c] = "idle"
  <2>1. c \notin all
    BY <1>1, <1>8 DEF QueueInv
  <2> QED BY <1>2, <1>8, <2>1 DEF Leave
<1> HIDE DEF all
<1>9. lk' \in Lks /\ lk'.kind = kind /\ lk'.at = now /\ lk'.call = c
      /\ lk'.todo = queue'
    BY <1>5, <1>6, <1>7 DEF Lks
<1>10. LockInv'
    BY <1>8, <1>9 DEF LockInv
<1> QED BY <1>3, <1>10

\* A waiter has been tried.
LEMMA TriedKeeps ==
    ASSUME FlowInv, NEW w \in Calls, NEW k \in Keys, NEW admitted \in BOOLEAN,
           Try(w, k), Tried(w, k, admitted), now' = now, cfg' = cfg,
           queue' \in {queue, queue \ {w}},
           \A c \in Calls \ {w} : call'[c] = call[c]
    PROVE  LockInv'
<1> USE DEF FlowInv
<1>1. lk \in Lks /\ lk.kind \in {"dispatch", "acquire"} /\ lk.at = now
    BY DEF LockInv, Try, Lks
<1>2. lk' = [lk EXCEPT !.todo = lk.todo \ {w},
                       !.key = IF admitted \/ Of(k) = {w} THEN NoKey ELSE k,
                       !.grants = IF admitted THEN lk.grants + 1 ELSE lk.grants]
    BY DEF Tried
<1>3. lk' \in Lks /\ lk'.kind = lk.kind /\ lk'.at = lk.at /\ lk'.call = lk.call
      /\ lk'.todo = lk.todo \ {w}
  <2> DEFINE key == IF admitted \/ Of(k) = {w} THEN NoKey ELSE k
             grants == IF admitted THEN lk.grants + 1 ELSE lk.grants
  <2>1. key \in Keys \cup {NoKey} /\ grants \in Nat
        /\ lk.todo \ {w} \in SUBSET Calls
    BY <1>1 DEF Lks
  <2> HIDE DEF key, grants
  <2>2. lk' = [lk EXCEPT !.todo = lk.todo \ {w}, !.key = key, !.grants = grants]
    BY <1>2 DEF key, grants
  <2> QED BY <1>1, <2>1, <2>2 DEF Lks
<1>4. lk'.todo \subseteq queue'
    BY <1>3 DEF LockInv
<1>5. lk.kind = "acquire" => lk.call \in Calls \ {w}
    BY TryFacts DEF LockInv
<1> QED BY <1>1, <1>3, <1>4, <1>5 DEF LockInv

LEMMA WaitStep ==
    ASSUME FlowInv, [Next]_vars
    PROVE  WaitInv' /\ LockInv'
<1> USE DEF FlowInv
<1>0. now \in Nat /\ call \in [Calls -> Statuses] /\ queue \subseteq Calls
    BY DEF RecInv, WaitType
<1>1. ASSUME NEW w \in Calls, NEW k \in Keys, NEW status \in {"refused", "free", "granted"},
             NEW admitted \in BOOLEAN, Try(w, k), Tried(w, k, admitted),
             Leave({w}, status, lk.at, queue, call), now' = now, cfg' = cfg
      PROVE  WaitInv' /\ LockInv'
  <2>1. lk.at = now /\ w \in queue
    BY <1>1, TryFacts
  <2>2. status \in Statuses \ {"waiting"}
    BY DEF Statuses, Holders
  <2>3. WaitInv'
    BY <1>0, <1>1, <2>1, <2>2, LeaveKeeps
  <2>4. queue' = queue \ {w} /\ \A c \in Calls \ {w} : call'[c] = call[c]
    BY <1>1 DEF Leave
  <2>5. LockInv'
    BY <1>1, <2>4, TriedKeeps
  <2> QED BY <2>3, <2>5
<1>2. ASSUME NEW w \in Calls, NEW k \in Keys, TryCancelled(w, k)
      PROVE  WaitInv' /\ LockInv'
    BY <1>1, <1>2 DEF TryCancelled
<1>3. ASSUME NEW w \in Calls, NEW k \in Keys, TryUncontrolled(w, k)
      PROVE  WaitInv' /\ LockInv'
    BY <1>1, <1>3 DEF TryUncontrolled
<1>4. ASSUME NEW w \in Calls, NEW k \in Keys, TryAdmitted(w, k)
      PROVE  WaitInv' /\ LockInv'
    BY <1>1, <1>4 DEF TryAdmitted
<1>5. ASSUME NEW w \in Calls, NEW k \in Keys, TryBlocked(w, k)
      PROVE  WaitInv' /\ LockInv'
  <2>1. Try(w, k) /\ Tried(w, k, FALSE)
        /\ UNCHANGED <<now, cfg, queue, waitUsed, call>>
    BY <1>5 DEF TryBlocked
  <2>2. LockInv'
    BY <2>1, TriedKeeps
  <2>3. lk.at = now
    BY <2>1, TryFacts
  <2>4. checkWorkLocked(w, lk.at).next \in Nat
    BY <1>0, <2>3, CheckType
  <2>5. waiter' = [waiter EXCEPT ![w].nextCheck = checkWorkLocked(w, lk.at).next]
    BY <1>5 DEF TryBlocked
  <2>6. waiter' \in [Calls -> Waiters]
        /\ \A c \in Calls : waiter'[c].enqueued = waiter[c].enqueued
    BY <2>4, <2>5 DEF WaitType, Waiters
  <2>7. WaitInv'
    BY <1>0, <2>1, <2>6 DEF WaitInv, WaitType, QueueInv, SoleWaiter
  <2> QED BY <2>2, <2>7
<1>6. ASSUME UNCHANGED <<queue, waiter, waitUsed, call>>, now' \in Nat, now <= now'
      PROVE  WaitInv'
  <2>1. \A c \in queue : waiter[c].enqueued \in Nat
    BY <1>0 DEF WaitType, Waiters
  <2> QED BY <1>0, <1>6, <2>1 DEF WaitInv, WaitType, QueueInv, SoleWaiter
<1>7. ASSUME lk' = Unlocked PROVE LockInv'
    BY <1>7 DEF LockInv, Lks, Unlocked
<1>8. ASSUME NEW c \in Calls, NEW status \in Statuses \ {"waiting"},
             call[c] # "waiting", call' = [call EXCEPT ![c] = status],
             UNCHANGED <<now, queue, waiter, waitUsed>>
      PROVE  WaitInv'
    BY <1>0, <1>8 DEF WaitInv, WaitType, QueueInv, SoleWaiter
<1>9. ASSUME UNCHANGED <<lk, queue>>, lk = Unlocked \/ UNCHANGED <<now, cfg>>,
             \A c \in Calls : call[c] = "idle" => (call'[c] = "idle" \/ lk = Unlocked)
      PROVE  LockInv'
    BY <1>9 DEF LockInv, Unlocked
<1>10. CASE DispatchEnd
    BY <1>0, <1>6, <1>7, <1>10 DEF DispatchEnd, queueVars
<1>11. ASSUME NEW c \in Calls, AcquireAdmitted(c) \/ AcquireRefused(c)
       PROVE  WaitInv' /\ LockInv'
  <2>1. lk' = Unlocked /\ call[c] = "idle" /\ UNCHANGED <<now, queue, waiter, waitUsed>>
    BY <1>11, DecidingFacts DEF AcquireAdmitted, AcquireRefused
  <2>2. call' = [call EXCEPT ![c] = "granted"] \/ call' = [call EXCEPT ![c] = "refused"]
    BY <1>11 DEF AcquireAdmitted, AcquireRefused
  <2>3. {"granted", "refused"} \subseteq Statuses \ {"waiting"}
    BY DEF Statuses, Holders
  <2> QED BY <1>7, <1>8, <2>1, <2>2, <2>3
<1>12. ASSUME NEW c \in Calls, AcquireQueued(c) PROVE WaitInv' /\ LockInv'
  <2>1. lk' = Unlocked /\ call[c] = "idle" /\ c \notin queue /\ lk.at = now
    BY <1>12, DecidingFacts DEF AcquireQueued
  <2>2. queue' = queue \cup {c} /\ call' = [call EXCEPT ![c] = "waiting"]
        /\ UNCHANGED <<now, waitUsed>>
    BY <1>12 DEF AcquireQueued
  <2>3. activity' \in Nat
    BY <1>12 DEF AcquireQueued, RestType
  <2>4. Budget(c) \in Nat /\ lk.at + Budget(c) \in Nat
    <3>1. cfg.maxWait \in Nat
      BY PolicyFacts DEF RecInv
    <3>2. Budget(c) \in Int
      BY <3>1 DEF Budget, WaitType
    <3>3. Budget(c) > 0
      BY <1>12 DEF AcquireQueued, MayWait
    <3> QED BY <1>0, <2>1, <3>2, <3>3
  <2>5. checkWorkLocked(c, lk.at).next \in Nat
    BY <1>0, <2>1, CheckType
  <2> DEFINE new == [id |-> activity', enqueued |-> lk.at,
                     deadline |-> lk.at + Budget(c),
                     nextCheck |-> checkWorkLocked(c, lk.at).next]
  <2>6. waiter' = [waiter EXCEPT ![c] = new]
    BY <1>12 DEF AcquireQueued
  <2>7. new \in Waiters /\ new.enqueued = now
    BY <1>0, <2>1, <2>3, <2>4, <2>5 DEF Waiters
  <2> HIDE DEF new
  <2>8. WaitType'
    BY <1>0, <2>2, <2>6, <2>7 DEF WaitType, Statuses
  <2>9. QueueInv'
    <3>1. \A d \in Calls : d \in queue' <=> call'[d] = "waiting"
      BY <1>0, <2>2 DEF QueueInv
    <3>2. \A d \in queue' : waiter'[d].enqueued <= now'
      BY <1>0, <2>1, <2>2, <2>6, <2>7 DEF QueueInv, WaitType
    <3> QED BY <3>1, <3>2 DEF QueueInv
  <2>10. OpOf[c] \in Ops => ~ waiting(OpOf[c])
    BY <1>12 DEF AcquireQueued, MayWait
  <2>11. SoleWaiter'
    BY <2>2, <2>10 DEF SoleWaiter, waiting
  <2> QED BY <1>7, <2>1, <2>8, <2>9, <2>11 DEF WaitInv
<1>13. ASSUME NEW c \in Calls, Acquire(c) PROVE WaitInv' /\ LockInv'
  <2>1. Dispatch("acquire", c, {}, call) /\ now' = now /\ call[c] = "idle" /\ cfg'.enabled
    BY <1>13 DEF Acquire
  <2> QED BY <1>0, <2>1, DispatchKeeps
<1>14. ASSUME NEW c \in Calls, AcquireUncontrolled(c) PROVE WaitInv' /\ LockInv'
  <2>1. lk = Unlocked /\ call[c] = "idle"
        /\ UNCHANGED <<now, queue, waiter, waitUsed, lk>>
    BY <1>14 DEF AcquireUncontrolled
  <2>2. call' = [call EXCEPT ![c] = "refused"] \/ call' = [call EXCEPT ![c] = "free"]
    BY <1>14 DEF AcquireUncontrolled
  <2>3. {"free", "refused"} \subseteq Statuses \ {"waiting"}
    BY DEF Statuses
  <2>4. WaitInv'
    BY <1>8, <2>1, <2>2, <2>3
  <2> QED BY <1>7, <2>1, <2>4
<1>15. ASSUME NEW c \in Calls, Resume(c) PROVE WaitInv' /\ LockInv'
  <2>1. call[c] = "granted" /\ call' = [call EXCEPT ![c] = "held"]
        /\ UNCHANGED <<now, cfg, queue, waiter, waitUsed, lk>>
    BY <1>15 DEF Resume
  <2>2. "held" \in Statuses \ {"waiting"}
    BY DEF Statuses, Holders
  <2>3. \A d \in Calls : call[d] = "idle" => call'[d] = "idle"
    BY <1>0, <2>1
  <2> QED BY <1>8, <1>9, <2>1, <2>2, <2>3
<1>16. ASSUME NEW c \in Calls, CommitDispatch(c) PROVE WaitInv' /\ LockInv'
  <2>1. call[c] = "held" /\ call' = [call EXCEPT ![c] = "sent"] /\ lk = Unlocked
        /\ UNCHANGED <<now, queue, waiter, waitUsed, lk>>
    BY <1>16 DEF CommitDispatch
  <2>2. "sent" \in Statuses \ {"waiting"}
    BY DEF Statuses, Holders
  <2> QED BY <1>7, <1>8, <2>1, <2>2
<1>17. ASSUME NEW c \in Calls, NEW refund, NEW status \in {"finished", "refused"},
              call[c] \in Holders, release(c, refund, status)
       PROVE  WaitInv' /\ LockInv'
  <2> DEFINE cl == [call EXCEPT ![c] = status]
  <2>1. Dispatch("dispatch", c, {}, cl) /\ now' = now
    BY <1>17 DEF release
  <2>2. cl \in [Calls -> Statuses] /\ \A d \in Calls : cl[d] = "waiting" <=> call[d] = "waiting"
    BY <1>0, <1>17 DEF Statuses, Holders
  <2> HIDE DEF cl
  <2> QED BY <2>1, <2>2, DispatchKeeps
<1>18. ASSUME NEW c \in Calls, Release(c) \/ CancelBeforeDispatch(c)
       PROVE  WaitInv' /\ LockInv'
  <2>1. CASE Release(c)
    <3>1. call[c] \in Holders /\ release(c, FALSE, "finished")
      BY <2>1 DEF Release, Holders
    <3> QED BY <1>17, <3>1
  <2>2. CASE CancelBeforeDispatch(c)
    <3>1. call[c] \in Holders /\ release(c, TRUE, "refused")
      BY <2>2 DEF CancelBeforeDispatch, Holders
    <3> QED BY <1>17, <3>1
  <2> QED BY <1>18, <2>1, <2>2
<1>19. ASSUME NEW c \in Calls, CancelWait(c) PROVE WaitInv' /\ LockInv'
  <2>1. Dispatch("dispatch", c, {c}, call) /\ now' = now /\ c \in queue
    BY <1>19 DEF CancelWait
  <2> QED BY <1>0, <2>1, DispatchKeeps
<1>20. ASSUME NEW o \in Ops, endOperation(o) PROVE WaitInv' /\ LockInv'
  <2> DEFINE ws == {w \in queue : OpOf[w] = o}
  <2>1. Dispatch("dispatch", NoOp, ws, call) /\ now' = now /\ ws \in SUBSET queue
    BY <1>20 DEF endOperation
  <2> HIDE DEF ws
  <2> QED BY <1>0, <2>1, DispatchKeeps
<1>21. CASE TimerFire \/ \E p \in Policies : Update(p)
  <2>1. Dispatch("dispatch", NoOp, {}, call) /\ now' = now
    BY <1>21 DEF TimerFire, Update
  <2> QED BY <1>0, <2>1, DispatchKeeps
<1>22. CASE Close
  <2>1. Leave(queue, "refused", now, queue, call) /\ UNCHANGED <<now, lk>> /\ lk = Unlocked
    BY <1>22 DEF Close
  <2>2. "refused" \in Statuses \ {"waiting"}
    BY DEF Statuses
  <2>3. WaitInv'
    BY <1>0, <2>1, <2>2, LeaveKeeps
  <2> QED BY <1>7, <2>1, <2>3
<1>23. CASE Tick
    BY <1>0, <1>6, <1>7, <1>23 DEF Tick, queueVars
<1>24. ASSUME NEW c \in Calls, Available(c) \/ Cancel(c) PROVE WaitInv' /\ LockInv'
  <2>1. UNCHANGED <<now, cfg, queue, waiter, waitUsed, call, lk>>
    BY <1>24 DEF Available, Cancel, queueVars
  <2> QED BY <1>0, <1>6, <1>9, <2>1
<1>25. CASE UNCHANGED vars
  <2>1. UNCHANGED <<now, cfg, queue, waiter, waitUsed, call, lk>>
    BY <1>25 DEF vars, queueVars
  <2> QED BY <1>0, <1>6, <1>9, <2>1
<1> QED BY <1>2, <1>3, <1>4, <1>5, <1>10, <1>11, <1>12, <1>13, <1>14, <1>15, <1>16,
           <1>18, <1>19, <1>20, <1>21, <1>22, <1>23, <1>24, <1>25 DEF Next, Engine
-----------------------------------------------------------------------------
(* Flags, timer and clock of the engine.                                   *)

LEMMA RestStep ==
    ASSUME FlowInv, [Next]_vars
    PROVE  RestType'
<1> USE DEF FlowInv
<1>0. /\ queue \in SUBSET Calls /\ waiter \in [Calls -> Waiters]
      /\ hist \in SUBSET HistoryEvents /\ ret \in [Buckets -> Nat]
      /\ queue' \in SUBSET Calls /\ waiter' \in [Calls -> Waiters]
      /\ hist' \in SUBSET HistoryEvents /\ ret' \in [Buckets -> Nat]
      /\ now \in Nat /\ lk.at \in Nat /\ Remaining \in BOOLEAN
  <2>1. RecInv' /\ RetType' /\ WaitType'
    BY RecStep, RetStep, WaitStep DEF WaitInv
  <2> QED BY <2>1 DEF RecInv, RetType, WaitType, LockInv, Lks, Remaining
<1>1. \A pending \in BOOLEAN :
            /\ DueAt(queue, waiter, hist, ret, pending, lk.at) \in Nat
            /\ DueAt(queue, waiter, hist', ret', pending, lk.at) \in Nat
            /\ DueAt(queue', waiter', hist, ret', pending, lk.at) \in Nat
    BY <1>0, DueType
<1>2. ASSUME NEW w \in Calls, NEW k \in Keys,
             \/ TryCancelled(w, k) \/ TryUncontrolled(w, k) \/ TryAdmitted(w, k)
             \/ TryBlocked(w, k)
      PROVE  RestType'
    BY <1>2 DEF TryCancelled, TryUncontrolled, TryAdmitted, TryBlocked, RestType,
                opVars, timerVars
<1>3. CASE DispatchEnd
    BY <1>0, <1>1, <1>3 DEF DispatchEnd, RestType, opVars
<1>4. ASSUME NEW c \in Calls, AcquireAdmitted(c) PROVE RestType'
    BY <1>0, <1>1, <1>4 DEF AcquireAdmitted, Deciding, RestType, opVars
<1>5. ASSUME NEW c \in Calls, AcquireRefused(c) PROVE RestType'
    BY <1>0, <1>1, <1>5 DEF AcquireRefused, Deciding, RestType, opVars
<1>6. ASSUME NEW c \in Calls, AcquireQueued(c) PROVE RestType'
  <2>1. /\ activity' = activity + 1 /\ dispatchPending' = Remaining
        /\ timer' = DueAt(queue', waiter', hist, ret', Remaining, lk.at)
        /\ UNCHANGED <<closed, started, opClosed, ctxDone>>
    BY <1>6 DEF AcquireQueued, Deciding, opVars
  <2> QED BY <1>0, <1>1, <2>1 DEF RestType
<1>7. ASSUME NEW c \in Calls,
             \/ Acquire(c) \/ AcquireUncontrolled(c) \/ Resume(c) \/ CancelWait(c)
             \/ Available(c) \/ Cancel(c)
      PROVE  RestType'
    BY <1>7 DEF Acquire, AcquireUncontrolled, Resume, CancelWait, Available, Cancel,
                Dispatch, RestType, opVars, timerVars
<1>8. ASSUME NEW c \in Calls, CommitDispatch(c) PROVE RestType'
    BY <1>8 DEF CommitDispatch, RestType, timerVars
<1>9. ASSUME NEW c \in Calls, Release(c) \/ CancelBeforeDispatch(c) PROVE RestType'
    BY <1>9 DEF Release, CancelBeforeDispatch, release, Dispatch, RestType
<1>10. ASSUME NEW o \in Ops, endOperation(o) PROVE RestType'
    BY <1>10 DEF endOperation, Dispatch, RestType
<1>11. CASE TimerFire \/ Close \/ Tick \/ UNCHANGED vars
  <2>1. CASE TimerFire
    BY <2>1 DEF TimerFire, Dispatch, RestType, opVars
  <2>2. CASE Close
    BY <2>2 DEF Close, RestType, opVars
  <2>3. CASE Tick \/ UNCHANGED vars
    BY <2>3 DEF Tick, vars, RestType, opVars, timerVars
  <2> QED BY <1>11, <2>1, <2>2, <2>3
<1>12. ASSUME NEW p \in Policies, Update(p) PROVE RestType'
    BY <1>12 DEF Update, Dispatch, RestType, opVars
<1> QED BY <1>2, <1>3, <1>4, <1>5, <1>6, <1>7, <1>8, <1>9, <1>10, <1>11, <1>12
        DEF Next, Engine
-----------------------------------------------------------------------------
(* Records and the work they stand for.                                    *)

\* An admission: the call has its record, and its request has an attempt.
LEMMA GrantLeak ==
    ASSUME FlowInv, NEW c \in Calls, c \notin active, active' = active \cup Needed(c),
           call'[c] = "granted", \A d \in Calls \ {c} : call'[d] = call[d],
           UNCHANGED <<started, opClosed>>
    PROVE  NoLeak' /\ StartedInv'
<1> USE DEF FlowInv
<1>1. c \in Needed(c) /\ Needed(c) \subseteq {c, OpOf[c]} /\ Needed(c) \cap Calls = {c}
  <2>1. OpOf[c] \in Ops \cup {NoOp} /\ NoOp \notin Calls /\ Calls \cap Ops = {}
    BY FlowAssumption DEF Recs
  <2> QED BY <2>1, NeededFacts
<1>2. \A d \in Calls : d \in active' <=> call'[d] \in {"granted", "held", "sent"}
    BY <1>1 DEF NoLeak
<1>3. ASSUME NEW o \in Ops, o \in active'
      PROVE  Attempts(o)' # {} \/ (started'[o] /\ ~ opClosed'[o])
  <2>1. CASE o \in active
    <3>1. Attempts(o) \subseteq Attempts(o)'
      BY DEF Attempts
    <3> QED BY <2>1, <3>1 DEF NoLeak
  <2>2. CASE o \notin active
    <3>1. o \in Needed(c) /\ o # c
      BY <1>3, <2>2, FlowAssumption
    <3>2. o = OpOf[c]
      BY <1>1, <3>1
    <3>3. c \in Attempts(o)'
      BY <1>1, <3>2 DEF Attempts
    <3> QED BY <3>3
  <2> QED BY <2>1, <2>2
<1>4. NoLeak'
    BY <1>2, <1>3 DEF NoLeak
<1>5. StartedInv'
  <2>1. ASSUME NEW d \in Calls, call'[d] \in {"sent", "finished"} PROVE call[d] = call'[d]
    BY <2>1
  <2> QED BY <2>1 DEF StartedInv
<1> QED BY <1>4, <1>5

\* Steps that change neither records nor who has one.
LEMMA SameLeak ==
    ASSUME FlowInv, UNCHANGED <<active, opClosed>>,
           \A o \in Ops : started[o] => started'[o],
           \A d \in Calls : call'[d] \in Holders <=> call[d] \in Holders,
           \A d \in Calls : call'[d] \in {"sent", "finished"} /\ OpOf[d] \in Ops =>
                call[d] = call'[d] \/ started'[OpOf[d]]
    PROVE  NoLeak' /\ StartedInv'
<1> USE DEF FlowInv
<1>1. \A o : Attempts(o)' = Attempts(o)
    BY DEF Attempts
<1>2. NoLeak'
    BY <1>1 DEF NoLeak, Holders
<1>3. StartedInv'
    BY DEF StartedInv
<1> QED BY <1>2, <1>3

\* Waiters that leave the queue without a permit have no record.
LEMMA LeaveLeak ==
    ASSUME FlowInv, NEW ws \in SUBSET queue, NEW status \in {"refused", "free"},
           NEW t, NEW cl, Leave(ws, status, t, queue, cl)
    PROVE  /\ \A d \in ws : call[d] = "waiting" /\ call'[d] = status
           /\ \A d \in Calls \ ws : call'[d] = cl[d]
           /\ \A d \in Calls : call[d] # "waiting" => call'[d] = cl[d]
BY DEF FlowInv, Leave, QueueInv, WaitType

LEMMA DispatchLeak ==
    ASSUME FlowInv, NEW kind, NEW c, NEW ws \in SUBSET queue, NEW cl,
           Dispatch(kind, c, ws, cl)
    PROVE  \A d \in Calls :
                \/ call[d] = "waiting" /\ call'[d] = "refused"
                \/ call'[d] = cl[d]
<1> DEFINE gone == {w \in queue : w \in ctxDone \/ Expired(w, now)}
           all == ws \cup gone
<1>1. all \in SUBSET queue /\ Leave(all, "refused", now, queue, cl)
    BY DEF Dispatch
<1> HIDE DEF all
<1> QED BY <1>1, LeaveLeak

\* The end of an attempt: if it was the last one, its request goes with it or
\* may go on.
LEMMA ReleaseLeak ==
    ASSUME FlowInv, NEW c \in Calls, call[c] \in Holders, NEW refund \in BOOLEAN,
           NEW status \in {"finished", "refused"}, refund = (status = "refused"),
           release(c, refund, status)
    PROVE  NoLeak' /\ StartedInv'
<1> USE DEF FlowInv
<1>1. Dispatch("dispatch", c, {}, [call EXCEPT ![c] = status])
      /\ active' = active \ ({c} \cup Over(c, refund))
      /\ started' = [o \in Ops |-> started[o] \/ (o = OpOf[c] /\ ~ refund)]
      /\ opClosed' = opClosed
    BY DEF release, ReleaseAndCleanup
<1>2. \A d \in Calls :
            \/ call[d] = "waiting" /\ call'[d] = "refused"
            \/ call'[d] = [call EXCEPT ![c] = status][d]
  <2> DEFINE cl == [call EXCEPT ![c] = status]
  <2>1. Dispatch("dispatch", c, {}, cl)
    BY <1>1
  <2> HIDE DEF cl
  <2>2. \A d \in Calls : (call[d] = "waiting" /\ call'[d] = "refused") \/ call'[d] = cl[d]
    BY <2>1, DispatchLeak
  <2> QED BY <2>2 DEF cl
<1>3. call'[c] = status /\ \A d \in Calls \ {c} :
            call'[d] = call[d] \/ (call[d] = "waiting" /\ call'[d] = "refused")
    BY <1>2 DEF WaitType, Holders
<1>4. c \in active /\ Over(c, refund) \subseteq {OpOf[c]} \cap Ops
    BY ReleaseFacts
<1>5. \A d \in Calls : d \in active' <=> call'[d] \in {"granted", "held", "sent"}
  <2>1. Calls \cap Over(c, refund) = {}
    BY <1>4, FlowAssumption
  <2> QED BY <1>1, <1>3, <2>1 DEF NoLeak
<1>6. ASSUME NEW o \in Ops, o \in active'
      PROVE  Attempts(o)' # {} \/ (started'[o] /\ ~ opClosed'[o])
  <2>1. o \in active /\ o \notin Over(c, refund)
    BY <1>1, <1>6
  <2>2. Attempts(o)' = Attempts(o) \ {c}
    BY <1>1, <1>4, FlowAssumption DEF Attempts
  <2>3. CASE o # OpOf[c]
    <3>1. c \notin Attempts(o)
      BY <2>3 DEF Attempts
    <3>2. started'[o] = started[o]
      BY <1>1, <2>3 DEF RestType
    <3> QED BY <1>1, <2>1, <2>2, <3>1, <3>2 DEF NoLeak
  <2>4. CASE o = OpOf[c]
    <3>1. c \in Attempts(o)
      BY <1>4, <2>4 DEF Attempts
    <3>2. Attempts(o) # {c} \/ (~ opClosed[o] /\ StartedAfter(c, refund))
      BY <2>1, <2>4 DEF Over
    <3>3. CASE Attempts(o) # {c}
      BY <2>2, <3>1, <3>3
    <3>4. CASE ~ opClosed[o] /\ StartedAfter(c, refund)
      BY <1>1, <2>4, <3>4 DEF StartedAfter
    <3> QED BY <3>2, <3>3, <3>4
  <2> QED BY <2>3, <2>4
<1>7. NoLeak'
    BY <1>5, <1>6 DEF NoLeak
<1>8. StartedInv'
  <2>1. ASSUME NEW d \in Calls, call'[d] \in {"sent", "finished"}, OpOf[d] \in Ops
        PROVE  started'[OpOf[d]]
    <3>1. CASE d = c
      <4>1. status = "finished" /\ ~ refund
        BY <1>3, <2>1, <3>1
      <4> QED BY <1>1, <2>1, <3>1, <4>1
    <3>2. CASE d # c
      <4>1. call'[d] = call[d]
        BY <1>3, <2>1, <3>2
      <4>2. started[OpOf[d]]
        BY <2>1, <4>1 DEF StartedInv
      <4> QED BY <1>1, <2>1, <4>2
    <3> QED BY <3>1, <3>2
  <2> QED BY <2>1 DEF StartedInv
<1> QED BY <1>7, <1>8

LEMMA LeakStep ==
    ASSUME FlowInv, [Next]_vars
    PROVE  NoLeak' /\ StartedInv'
<1> USE DEF FlowInv
<1>0. call \in [Calls -> Statuses]
    BY DEF WaitType
<1>1. ASSUME NEW w \in Calls, NEW k \in Keys, TryAdmitted(w, k)
      PROVE  NoLeak' /\ StartedInv'
  <2>1. w \notin active /\ active' = active \cup Needed(w)
        /\ UNCHANGED <<started, opClosed>>
    BY <1>1, TryFacts DEF TryAdmitted, Grant, opVars
  <2>2. call'[w] = "granted" /\ \A d \in Calls \ {w} : call'[d] = call[d]
    BY <1>1 DEF TryAdmitted, Leave
  <2> QED BY <2>1, <2>2, GrantLeak
<1>2. ASSUME NEW c \in Calls, AcquireAdmitted(c) PROVE NoLeak' /\ StartedInv'
  <2>1. c \notin active /\ active' = active \cup Needed(c)
        /\ UNCHANGED <<started, opClosed>>
    BY <1>2, DecidingFacts DEF AcquireAdmitted, Grant, opVars
  <2>2. call'[c] = "granted" /\ \A d \in Calls \ {c} : call'[d] = call[d]
    BY <1>0, <1>2 DEF AcquireAdmitted
  <2> QED BY <2>1, <2>2, GrantLeak
<1>3. ASSUME UNCHANGED <<active, started, opClosed>>,
             \A d \in Calls : \/ call'[d] = call[d]
                              \/ call[d] \in {"idle", "waiting"}
                                 /\ call'[d] \in {"waiting", "refused", "free"}
      PROVE  NoLeak' /\ StartedInv'
  <2>1. \A d \in Calls : call'[d] \in Holders <=> call[d] \in Holders
    BY <1>3 DEF Holders
  <2>2. \A d \in Calls : call'[d] \in {"sent", "finished"} => call[d] = call'[d]
    BY <1>3
  <2> QED BY <1>3, <2>1, <2>2, SameLeak
<1>4. ASSUME NEW w \in Calls, NEW k \in Keys, TryCancelled(w, k) \/ TryUncontrolled(w, k)
      PROVE  NoLeak' /\ StartedInv'
  <2>1. call[w] = "waiting" /\ UNCHANGED <<active, started, opClosed>>
    BY <1>4, TryFacts DEF TryCancelled, TryUncontrolled, opVars, recVars
  <2>2. call'[w] \in {"refused", "free"} /\ \A d \in Calls \ {w} : call'[d] = call[d]
    BY <1>4 DEF TryCancelled, TryUncontrolled, Leave
  <2> QED BY <1>3, <2>1, <2>2
<1>5. ASSUME NEW w \in Calls, NEW k \in Keys, TryBlocked(w, k)
      PROVE  NoLeak' /\ StartedInv'
    BY <1>3, <1>5 DEF TryBlocked, opVars, recVars
<1>6. CASE DispatchEnd \/ Tick \/ UNCHANGED vars
    BY <1>3, <1>6 DEF DispatchEnd, Tick, vars, opVars, recVars, queueVars
<1>7. ASSUME NEW c \in Calls, AcquireRefused(c) \/ AcquireQueued(c)
      PROVE  NoLeak' /\ StartedInv'
  <2>1. call[c] = "idle" /\ UNCHANGED <<active, started, opClosed>>
    BY <1>7, DecidingFacts DEF AcquireRefused, AcquireQueued, opVars, recVars
  <2>2. call'[c] \in {"refused", "waiting"} /\ \A d \in Calls \ {c} : call'[d] = call[d]
    BY <1>0, <1>7 DEF AcquireRefused, AcquireQueued
  <2> QED BY <1>3, <2>1, <2>2
<1>8. ASSUME UNCHANGED <<started, opClosed>>, active' = active,
             NEW kind, NEW c, NEW ws \in SUBSET queue, Dispatch(kind, c, ws, call)
      PROVE  NoLeak' /\ StartedInv'
  <2>1. \A d \in Calls : (call[d] = "waiting" /\ call'[d] = "refused") \/ call'[d] = call[d]
    BY <1>8, DispatchLeak
  <2> QED BY <1>3, <1>8, <2>1
<1>9. ASSUME NEW c \in Calls, Acquire(c) PROVE NoLeak' /\ StartedInv'
  <2>1. active' = active
    BY <1>9 DEF Acquire, Cleanup, ReleaseAndCleanup
  <2> QED BY <1>8, <1>9, <2>1 DEF Acquire, opVars
<1>10. ASSUME NEW c \in Calls, AcquireUncontrolled(c) PROVE NoLeak' /\ StartedInv'
  <2>1. active' = active /\ UNCHANGED <<started, opClosed>> /\ call[c] = "idle"
    BY <1>10 DEF AcquireUncontrolled, Cleanup, ReleaseAndCleanup, recVars, opVars
  <2>2. call'[c] \in {"refused", "free"} /\ \A d \in Calls \ {c} : call'[d] = call[d]
    BY <1>0, <1>10 DEF AcquireUncontrolled
  <2> QED BY <1>3, <2>1, <2>2
<1>11. ASSUME NEW c \in Calls, Resume(c) PROVE NoLeak' /\ StartedInv'
  <2>1. call[c] = "granted" /\ call' = [call EXCEPT ![c] = "held"]
        /\ UNCHANGED <<active, started, opClosed>>
    BY <1>11 DEF Resume, recVars, opVars
  <2> QED BY <1>0, <2>1, SameLeak DEF Holders
<1>12. ASSUME NEW c \in Calls, CommitDispatch(c) PROVE NoLeak' /\ StartedInv'
  <2>1. call[c] = "held" /\ call' = [call EXCEPT ![c] = "sent"]
        /\ UNCHANGED <<active, opClosed>>
        /\ started' = [o \in Ops |-> started[o] \/ o = OpOf[c]]
    BY <1>12 DEF CommitDispatch, recVars
  <2>2. \A o \in Ops : started[o] => started'[o]
    BY <2>1
  <2>3. OpOf[c] \in Ops => started'[OpOf[c]]
    BY <2>1
  <2> QED BY <1>0, <2>1, <2>2, <2>3, SameLeak DEF Holders
<1>13. ASSUME NEW c \in Calls, Release(c) \/ CancelBeforeDispatch(c)
       PROVE  NoLeak' /\ StartedInv'
  <2>1. CASE Release(c)
    <3>1. call[c] \in Holders /\ release(c, FALSE, "finished")
      BY <2>1 DEF Release, Holders
    <3> QED BY <3>1, ReleaseLeak
  <2>2. CASE CancelBeforeDispatch(c)
    <3>1. call[c] \in Holders /\ release(c, TRUE, "refused")
      BY <2>2 DEF CancelBeforeDispatch, Holders
    <3> QED BY <3>1, ReleaseLeak
  <2> QED BY <1>13, <2>1, <2>2
<1>14. ASSUME NEW c \in Calls, CancelWait(c) PROVE NoLeak' /\ StartedInv'
  <2>1. {c} \in SUBSET queue /\ Dispatch("dispatch", c, {c}, call)
        /\ UNCHANGED <<active, started, opClosed>>
    BY <1>14 DEF CancelWait, recVars, opVars
  <2> QED BY <1>8, <2>1
<1>15. ASSUME NEW o \in Ops, endOperation(o) PROVE NoLeak' /\ StartedInv'
  <2> DEFINE ws == {w \in queue : OpOf[w] = o}
  <2>1. ws \in SUBSET queue /\ Dispatch("dispatch", NoOp, ws, call)
        /\ active' = active \ Ended(o) /\ started' = started
        /\ opClosed' = [opClosed EXCEPT ![o] = TRUE]
    BY <1>15 DEF endOperation, ReleaseAndCleanup
  <2> HIDE DEF ws
  <2>2. \A d \in Calls : (call[d] = "waiting" /\ call'[d] = "refused") \/ call'[d] = call[d]
    BY <2>1, DispatchLeak
  <2>3. Ended(o) \subseteq {o} /\ Ended(o) \cap Calls = {}
    BY FlowAssumption DEF Ended
  <2>4. \A d \in Calls : d \in active' <=> call'[d] \in {"granted", "held", "sent"}
    BY <2>1, <2>2, <2>3 DEF NoLeak
  <2>5. ASSUME NEW p \in Ops, p \in active'
        PROVE  Attempts(p)' # {} \/ (started'[p] /\ ~ opClosed'[p])
    <3>1. Attempts(p)' = Attempts(p) /\ p \in active
      BY <2>1, <2>3, <2>5 DEF Attempts
    <3>2. CASE p = o
      BY <2>1, <2>5, <3>1, <3>2 DEF Ended
    <3>3. CASE p # o
      BY <2>1, <3>1, <3>3 DEF NoLeak, RestType
    <3> QED BY <3>2, <3>3
  <2>6. StartedInv'
    BY <2>1, <2>2 DEF StartedInv
  <2> QED BY <2>4, <2>5, <2>6 DEF NoLeak
<1>16. CASE TimerFire
  <2>1. active' = active
    BY <1>16 DEF TimerFire, Cleanup, ReleaseAndCleanup
  <2> QED BY <1>8, <1>16, <2>1 DEF TimerFire, opVars
<1>17. ASSUME NEW p \in Policies, Update(p) PROVE NoLeak' /\ StartedInv'
    BY <1>8, <1>17 DEF Update, opVars
<1>18. CASE Close
  <2>1. Leave(queue, "refused", now, queue, call) /\ UNCHANGED <<active, started, opClosed>>
    BY <1>18 DEF Close, recVars, opVars
  <2>2. \A d \in Calls : (call[d] = "waiting" /\ call'[d] = "refused") \/ call'[d] = call[d]
    BY <2>1, LeaveLeak
  <2> QED BY <1>3, <2>1, <2>2
<1>19. ASSUME NEW c \in Calls, Available(c) \/ Cancel(c) PROVE NoLeak' /\ StartedInv'
    BY <1>3, <1>19 DEF Available, Cancel, recVars, opVars, queueVars
<1> QED BY <1>1, <1>2, <1>4, <1>5, <1>6, <1>7, <1>9, <1>10, <1>11, <1>12, <1>13, <1>14,
           <1>15, <1>16, <1>17, <1>18, <1>19 DEF Next, Engine
-----------------------------------------------------------------------------
(* The cursor of dispatchLocked.                                           *)

LEMMA TriedStep ==
    ASSUME FlowInv, [Next]_vars
    PROVE  TriedInv'
<1> USE DEF FlowInv
<1>0. RecInv' /\ lk.at \in Nat /\ queue \subseteq Calls
    BY RecStep DEF LockInv, Lks, WaitType
<1>1. ASSUME NEW v \in Calls, NEW t \in Nat, checkWorkLocked(v, t).verdict # "grant",
             UNCHANGED <<cfg, opClosed, hist, conc, active>>
      PROVE  checkWorkLocked(v, t)'.verdict # "grant"
  <2>1. Needed(v)' = Needed(v)
    BY <1>1 DEF Needed
  <2>2. \A b \in Buckets : conc[b] <= conc'[b]
    BY <1>1 DEF RecInv
  <2> QED BY <1>0, <1>1, <2>1, <2>2, CapacityOnlyTaken
<1>2. ASSUME NEW ws \in SUBSET lk.todo, UNCHANGED <<cfg, opClosed, hist, conc, active>>,
             lk'.at = lk.at, lk'.kind = lk.kind, queue' \subseteq queue,
             queue' \cap lk.todo \subseteq lk'.todo \cup ws,
             \A w \in ws : checkWorkLocked(w, lk.at).verdict # "grant"
      PROVE  TriedInv'
  <2>1. SUFFICES ASSUME lk'.kind # "unlocked", cfg'.enabled,
                        NEW v \in queue', v \notin lk'.todo
                 PROVE  checkWorkLocked(v, lk.at)'.verdict # "grant"
    BY DEF TriedInv
  <2>2. PICK t \in Nat : t = lk.at
    BY <1>0
  <2>3. checkWorkLocked(v, t).verdict # "grant"
    BY <1>2, <2>1, <2>2 DEF TriedInv
  <2>4. checkWorkLocked(v, t)'.verdict # "grant"
    BY <1>0, <1>1, <1>2, <2>3
  <2>5. lk'.at = t
    BY <1>2, <2>2
  <2> QED BY <2>4, <2>5
<1>3. ASSUME lk' = Unlocked PROVE TriedInv'
    BY <1>3 DEF TriedInv, Unlocked
<1>4. ASSUME NEW kind, NEW c, NEW ws, NEW cl, Dispatch(kind, c, ws, cl) PROVE TriedInv'
  <2>1. lk'.todo = queue'
    BY <1>4 DEF Dispatch, Leave, Unlocked
  <2> QED BY <2>1 DEF TriedInv
<1>5. ASSUME NEW w \in Calls, NEW k \in Keys, NEW admitted, Try(w, k), Tried(w, k, admitted)
      PROVE  /\ lk'.at = lk.at /\ lk'.kind = lk.kind /\ lk'.todo = lk.todo \ {w}
             /\ w \in lk.todo
    BY <1>5, TryFacts DEF Tried, LockInv, Lks
<1>6. ASSUME NEW w \in Calls, NEW k \in Keys, TryCancelled(w, k) PROVE TriedInv'
  <2>1. Try(w, k) /\ Tried(w, k, FALSE) /\ queue' = queue \ {w}
        /\ UNCHANGED <<cfg, opClosed, hist, conc, active>>
    BY <1>6 DEF TryCancelled, Leave, recVars, bucketVars, opVars
  <2>2. lk'.at = lk.at /\ lk'.kind = lk.kind /\ lk'.todo = lk.todo \ {w}
    BY <1>5, <2>1
  <2>3. {} \in SUBSET lk.todo /\ queue' \cap lk.todo \subseteq lk'.todo \cup {}
    BY <2>1, <2>2
  <2> QED BY <1>2, <2>1, <2>2, <2>3
<1>7. ASSUME NEW w \in Calls, NEW k \in Keys, TryUncontrolled(w, k) PROVE TriedInv'
    BY <1>7 DEF TryUncontrolled, TriedInv
<1>8. ASSUME NEW w \in Calls, NEW k \in Keys, TryBlocked(w, k) PROVE TriedInv'
  <2>1. Try(w, k) /\ Tried(w, k, FALSE) /\ queue' = queue
        /\ UNCHANGED <<cfg, opClosed, hist, conc, active>>
        /\ checkWorkLocked(w, lk.at).verdict # "grant"
    BY <1>8 DEF TryBlocked, recVars, opVars
  <2>2. lk'.at = lk.at /\ lk'.kind = lk.kind /\ lk'.todo = lk.todo \ {w} /\ w \in lk.todo
    BY <1>5, <2>1
  <2> QED BY <1>2, <2>1, <2>2
<1>9. ASSUME NEW w \in Calls, NEW k \in Keys, TryAdmitted(w, k) PROVE TriedInv'
  <2>1. Try(w, k) /\ Tried(w, k, TRUE) /\ queue' = queue \ {w} /\ w \in queue
        /\ UNCHANGED <<cfg, opClosed>>
    BY <1>9, TryFacts DEF TryAdmitted, Leave, opVars
  <2>2. lk'.at = lk.at /\ lk'.kind = lk.kind /\ lk'.todo = lk.todo \ {w} /\ w \in lk.todo
    BY <1>5, <2>1
  <2>3. hist \subseteq hist' /\ active' = active \cup Needed(w)
    BY <1>9 DEF TryAdmitted, Grant
  <2>4. ASSUME NEW b \in Buckets PROVE conc[b] <= conc'[b]
    <3>1. IsFiniteSet({r \in Needed(w) : b \in Members(cfg, r)})
      BY NeededFacts, FS_Subset
    <3>2. Cardinality({r \in Needed(w) : b \in Members(cfg, r)}) \in Nat
      BY <3>1, FS_CardinalityType
    <3>3. conc'[b] = conc[b] + Cardinality({r \in Needed(w) : b \in Members(cfg, r)})
      BY <1>9 DEF TryAdmitted, Grant
    <3>4. conc[b] \in Nat
      BY DEF RecInv
    <3> QED BY <3>2, <3>3, <3>4
  <2>5. SUFFICES ASSUME lk'.kind # "unlocked", cfg'.enabled,
                        NEW v \in queue', v \notin lk'.todo
                 PROVE  checkWorkLocked(v, lk.at)'.verdict # "grant"
    BY DEF TriedInv
  <2>6. PICK t \in Nat : t = lk.at
    BY <1>0
  <2>7. v \in queue \ lk.todo /\ v # w /\ v \in Calls
    BY <1>0, <2>1, <2>2, <2>5
  <2>8. checkWorkLocked(v, t).verdict # "grant"
    BY <2>1, <2>2, <2>5, <2>6, <2>7 DEF TriedInv
  <2>9. OpOf[v] \in Ops => OpOf[v] \notin Needed(w)
    <3>1. OpOf[v] \in Ops => OpOf[v] # w /\ OpOf[v] # OpOf[w]
      BY <2>1, <2>7, FlowAssumption DEF SoleWaiter
    <3> QED BY <3>1, NeededFacts
  <2>10. Needed(v)' = Needed(v)
    BY <2>3, <2>9 DEF Needed
  <2>11. checkWorkLocked(v, t)'.verdict # "grant"
    BY <1>0, <2>1, <2>3, <2>4, <2>7, <2>8, <2>10, CapacityOnlyTaken
  <2>12. lk'.at = t
    BY <2>2, <2>6
  <2> QED BY <2>11, <2>12
<1>10. ASSUME UNCHANGED <<cfg, opClosed, hist, conc, active, lk, queue>> PROVE TriedInv'
  <2>1. {} \in SUBSET lk.todo
    OBVIOUS
  <2> QED BY <1>2, <1>10, <2>1
<1>11. ASSUME NEW c \in Calls,
              AcquireAdmitted(c) \/ AcquireRefused(c) \/ AcquireQueued(c)
       PROVE  TriedInv'
    BY <1>3, <1>11 DEF AcquireAdmitted, AcquireRefused, AcquireQueued, Deciding
<1>12. ASSUME NEW c \in Calls, AcquireUncontrolled(c) \/ CommitDispatch(c) \/ Available(c)
       PROVE  TriedInv'
    BY <1>3, <1>12 DEF AcquireUncontrolled, CommitDispatch, Available
<1>13. ASSUME NEW c \in Calls, Resume(c) \/ Cancel(c) PROVE TriedInv'
    BY <1>10, <1>13 DEF Resume, Cancel, recVars, bucketVars, opVars, queueVars
<1>14. ASSUME NEW c \in Calls, Acquire(c) \/ CancelWait(c) PROVE TriedInv'
    BY <1>4, <1>14 DEF Acquire, CancelWait
<1>15. ASSUME NEW c \in Calls, Release(c) \/ CancelBeforeDispatch(c) PROVE TriedInv'
    BY <1>4, <1>15 DEF Release, CancelBeforeDispatch, release
<1>16. ASSUME NEW o \in Ops, endOperation(o) PROVE TriedInv'
    BY <1>4, <1>16 DEF endOperation
<1>17. CASE TimerFire \/ \E p \in Policies : Update(p)
    BY <1>4, <1>17 DEF TimerFire, Update
<1>18. CASE DispatchEnd \/ Close \/ Tick
    BY <1>3, <1>18 DEF DispatchEnd, Close, Tick
<1>19. CASE UNCHANGED vars
    BY <1>10, <1>19 DEF vars, recVars, bucketVars, opVars, queueVars
<1> QED BY <1>6, <1>7, <1>8, <1>9, <1>11, <1>12, <1>13, <1>14, <1>15, <1>16, <1>17,
           <1>18, <1>19 DEF Next, Engine
-----------------------------------------------------------------------------
(* The theorems.                                                           *)

LEMMA FlowInit == Init => FlowInv
<1> SUFFICES ASSUME Init PROVE FlowInv
    OBVIOUS
<1> USE DEF Init
<1>1. RecInv
  <2>1. IsFiniteSet(hist) /\ Cardinality(hist) = 0
    BY FS_EmptySet
  <2>2. \A b \in Buckets : {r \in active : b \in mem[r]} = {}
    OBVIOUS
  <2>3. CountersMatch
    BY <2>2, FS_EmptySet DEF CountersMatch
  <2>4. cfg.maxHistory \in Nat
    BY PolicyFacts
  <2>5. HistoryBounded
    BY <2>1, <2>4 DEF HistoryBounded
  <2>6. 0 \in 0..MaxTime
    BY FlowAssumption
  <2> QED BY <2>1, <2>3, <2>5, <2>6 DEF RecInv
<1>2. RetType /\ RestType
    BY DEF RetType, RestType
<1>3. WaitType
    BY DEF WaitType, NoWaiter, Waiters, Statuses
<1>4. LockInv
    BY DEF LockInv, Lks, Unlocked
<1>5. QueueInv /\ SoleWaiter /\ NoLeak /\ StartedInv
    BY DEF QueueInv, SoleWaiter, NoLeak, StartedInv
<1>6. TriedInv
    BY DEF TriedInv
<1> QED BY <1>1, <1>2, <1>3, <1>4, <1>5, <1>6 DEF FlowInv

LEMMA FlowStep == FlowInv /\ [Next]_vars => FlowInv'
BY RecStep, RetStep, RestStep, WaitStep, LeakStep, TriedStep DEF FlowInv, WaitInv

\* The inductive invariant holds of every reachable state of the engine.
THEOREM FlowInvAlways == Spec => []FlowInv
BY FlowInit, FlowStep, PTL DEF Spec

\* The engine's books stay right, over any order of admissions, refunds,
\* expiries and reloads: every field has its type, every bucket's counter is
\* the number of running records in it, and the history keeps its bound
\* (grantWorkLocked, releaseRecordLocked, cleanupLocked, Update).
THEOREM BooksAreRight == Spec => []EngineConsistent
<1>1. FlowInv => EngineConsistent
  <2> SUFFICES ASSUME FlowInv PROVE EngineConsistent
    OBVIOUS
  <2>1. TypeOK
    BY DEF FlowInv, RecInv, RetType, RestType, WaitType, Waiters, Statuses, Holders,
           LockInv, TypeOK
  <2> QED BY <2>1 DEF FlowInv, RecInv, EngineConsistent
<1> QED BY <1>1, FlowInvAlways, PTL

\* A slot goes with its work: a call is counted exactly while it has its permit,
\* and a request while it has an attempt or may make another (releaseLocked,
\* endOperation).
THEOREM SlotsFollowWork == Spec => []NoLeak
<1>1. FlowInv => NoLeak
    BY DEF FlowInv
<1> QED BY <1>1, FlowInvAlways, PTL

\* No admission exceeds a concurrency limit of the policy it was made under
\* (checkWorkLocked, grantWorkLocked).
THEOREM LimitsAreKept == Spec => LimitKept
<1> DEFINE A == \A b \in Buckets :
                conc'[b] > conc[b] /\ cfg' = cfg /\ cfg.limit[b] > 0 =>
                    conc'[b] <= cfg.limit[b]
<1>1. ASSUME FlowInv, [Next]_vars PROVE [A]_vars
  <2>1. SUFFICES ASSUME Next, NEW b \in Buckets, conc'[b] > conc[b], cfg' = cfg,
                        cfg.limit[b] > 0
                 PROVE  conc'[b] <= cfg.limit[b]
    BY <1>1
  <2>2. conc[b] \in Nat /\ cfg.limit[b] \in Nat
    BY <1>1, PolicyFacts DEF FlowInv, RecInv
  <2>3. ASSUME NEW c \in Calls, NEW t, Grant(c, t), checkWorkLocked(c, t).verdict = "grant"
        PROVE  conc'[b] <= cfg.limit[b]
    <3> DEFINE S == {r \in Needed(c) : b \in Members(cfg, r)}
    <3>1. conc'[b] = conc[b] + Cardinality(S)
      BY <2>3 DEF Grant
    <3>2. S # {}
      <4>1. SUFFICES ASSUME S = {} PROVE FALSE
        OBVIOUS
      <4>2. Cardinality(S) = 0
        BY <4>1, FS_EmptySet
      <4> HIDE DEF S
      <4> QED BY <2>1, <2>2, <3>1, <4>2
    <3>3. PICK r \in S : TRUE
      BY <3>2
    <3>4. S = {r}
      BY <1>1, <3>3, NeededFacts DEF FlowInv
    <3>5. Cardinality(S) = 1
      BY <3>4, FS_Singleton
    <3>6. ~ Blocked(r, t)
      BY <1>1, <2>3, GrantMeans DEF FlowInv
    <3>7. ~ (conc[b] >= cfg.limit[b])
      BY <2>1, <3>6 DEF Blocked, AtLimit
    <3> HIDE DEF S
    <3> QED BY <2>2, <3>1, <3>5, <3>7
  <2>4. ASSUME NEW gone \in SUBSET active, NEW refunded, NEW q,
               ReleaseAndCleanup(gone, refunded, q)
        PROVE  FALSE
    <3>1. IsFiniteSet(active)
      BY <1>1, FS_Subset, FlowAssumption DEF FlowInv, RecInv
    <3>2. IsFiniteSet({r \in gone : b \in mem[r]})
      BY <3>1, FS_Subset
    <3>3. Cardinality({r \in gone : b \in mem[r]}) \in Nat
      BY <3>2, FS_CardinalityType
    <3>4. conc'[b] = conc[b] - Cardinality({r \in gone : b \in mem[r]})
      BY <2>4 DEF ReleaseAndCleanup
    <3> QED BY <2>1, <2>2, <3>3, <3>4
  <2>5. ASSUME UNCHANGED conc PROVE FALSE
    BY <2>1, <2>2, <2>5
  <2>6. ASSUME NEW w \in Calls, NEW k \in Keys, TryAdmitted(w, k)
        PROVE  conc'[b] <= cfg.limit[b]
    BY <2>3, <2>6 DEF TryAdmitted
  <2>7. ASSUME NEW c \in Calls, AcquireAdmitted(c) PROVE conc'[b] <= cfg.limit[b]
    BY <2>3, <2>7 DEF AcquireAdmitted, AdmitNow
  <2>8. ASSUME NEW c \in Calls, Acquire(c) PROVE FALSE
    BY <2>4, <2>8 DEF Acquire, Cleanup
  <2>9. ASSUME NEW c \in Calls, AcquireUncontrolled(c) PROVE FALSE
    BY <2>4, <2>5, <2>9 DEF AcquireUncontrolled, Cleanup, recVars
  <2>10. ASSUME NEW c \in Calls, NEW refund, NEW status, call[c] \in Holders,
                release(c, refund, status)
         PROVE  FALSE
    BY <1>1, <2>4, <2>10, ReleaseFacts DEF release
  <2>11. ASSUME NEW c \in Calls, Release(c) PROVE FALSE
    <3>1. call[c] \in Holders /\ release(c, FALSE, "finished")
      BY <2>11 DEF Release, Holders
    <3> QED BY <2>10, <3>1
  <2>12. ASSUME NEW c \in Calls, CancelBeforeDispatch(c) PROVE FALSE
    <3>1. call[c] \in Holders /\ release(c, TRUE, "refused")
      BY <2>12 DEF CancelBeforeDispatch, Holders
    <3> QED BY <2>10, <3>1
  <2>13. ASSUME NEW o \in Ops, endOperation(o) PROVE FALSE
    <3>1. Ended(o) \in SUBSET active
      BY DEF Ended
    <3> QED BY <2>4, <2>13, <3>1 DEF endOperation
  <2>14. ASSUME TimerFire PROVE FALSE
    BY <2>4, <2>14 DEF TimerFire, Cleanup
  <2>15. ASSUME NEW p \in Policies \ {cfg}, Update(p) PROVE FALSE
    BY <2>1, <2>15 DEF Update
  <2>16. ASSUME NEW w \in Calls, NEW k \in Keys,
                TryCancelled(w, k) \/ TryUncontrolled(w, k) \/ TryBlocked(w, k)
         PROVE  FALSE
    BY <2>5, <2>16 DEF TryCancelled, TryUncontrolled, TryBlocked, recVars
  <2>17. ASSUME DispatchEnd \/ Close \/ Tick PROVE FALSE
    BY <2>5, <2>17 DEF DispatchEnd, Close, Tick, recVars
  <2>18. ASSUME NEW c \in Calls,
                \/ AcquireRefused(c) \/ AcquireQueued(c) \/ Resume(c)
                \/ CommitDispatch(c) \/ CancelWait(c) \/ Available(c) \/ Cancel(c)
         PROVE  FALSE
    BY <2>5, <2>18 DEF AcquireRefused, AcquireQueued, Resume, CommitDispatch,
                       CancelWait, Available, Cancel, recVars
  <2> QED BY <2>1, <2>6, <2>7, <2>8, <2>9, <2>11, <2>12, <2>13, <2>14, <2>15, <2>16,
             <2>17, <2>18 DEF Next, Engine
<1>2. FlowInv /\ [Next]_vars => [A]_vars
    BY <1>1
<1> QED BY <1>2, FlowInvAlways, PTL DEF Spec, LimitKept

\* Only an admission that was not used is taken back from the rate windows: not
\* one whose call was sent, and not the request's if any attempt was
\* (releaseLocked, endOperation).
THEOREM RefundsAreUnsent == Spec => RefundOnlyUnsent
<1> DEFINE A == cfg' = cfg => \A e \in log \ log' : \A c \in Calls :
                c = e.rec \/ OpOf[c] = e.rec => call[c] \notin {"sent", "finished"}
<1>1. ASSUME FlowInv, [Next]_vars PROVE [A]_vars
  <2>1. SUFFICES ASSUME Next, cfg' = cfg, NEW e \in log \ log', NEW d \in Calls,
                        d = e.rec \/ OpOf[d] = e.rec
                 PROVE  call[d] \notin {"sent", "finished"}
    BY <1>1
  <2>2. OpOf[d] \in Ops \cup {NoOp} /\ NoOp \notin Recs /\ Calls \cap Ops = {}
        /\ e.rec \in Recs /\ Calls \subseteq Recs
    BY <1>1, <2>1, FlowAssumption DEF FlowInv, RecInv, HistoryEvents, Recs
  <2>3. ASSUME NEW gone, NEW refunded, NEW q, ReleaseAndCleanup(gone, refunded, q)
        PROVE  e.rec \in refunded
    BY <2>1, <2>3 DEF ReleaseAndCleanup
  <2>4. ASSUME NEW q, Cleanup(q) PROVE FALSE
    BY <2>3, <2>4 DEF Cleanup
  <2>5. ASSUME log \subseteq log' PROVE FALSE
    BY <2>1, <2>5
  <2>6. ASSUME NEW o \in Ops, ~ started[o], e.rec = o
        PROVE  call[d] \notin {"sent", "finished"}
    BY <1>1, <2>1, <2>2, <2>6 DEF FlowInv, StartedInv
  <2>7. ASSUME NEW c \in Calls, Release(c) PROVE FALSE
    <3>1. e.rec \in RefundedWith(c, FALSE)
      BY <2>3, <2>7 DEF Release, release
    <3> QED BY <3>1 DEF RefundedWith
  <2>8. ASSUME NEW c \in Calls, CancelBeforeDispatch(c)
        PROVE  call[d] \notin {"sent", "finished"}
    <3>1. call[c] \in {"held", "granted"}
      BY <2>8 DEF CancelBeforeDispatch
    <3>2. e.rec \in RefundedWith(c, TRUE)
      BY <2>3, <2>8 DEF CancelBeforeDispatch, release
    <3>3. CASE e.rec = c
      BY <2>1, <2>2, <3>1, <3>3
    <3>4. CASE e.rec # c
      <4>1. e.rec \in Over(c, TRUE) /\ ~ started[e.rec]
        BY <3>2, <3>4 DEF RefundedWith
      <4>2. e.rec \in Ops
        BY <1>1, <3>1, <4>1, ReleaseFacts DEF Holders
      <4> QED BY <2>6, <4>1, <4>2
    <3> QED BY <3>3, <3>4
  <2>9. ASSUME NEW o \in Ops, endOperation(o)
        PROVE  call[d] \notin {"sent", "finished"}
    <3>1. e.rec \in (IF started[o] THEN {} ELSE Ended(o))
      BY <2>3, <2>9 DEF endOperation
    <3>2. ~ started[o] /\ e.rec = o
      BY <3>1 DEF Ended
    <3> QED BY <2>6, <3>2
  <2>10. ASSUME NEW p \in Policies \ {cfg}, Update(p) PROVE FALSE
    BY <2>1, <2>10 DEF Update
  <2>11. ASSUME NEW w \in Calls, NEW k \in Keys, TryAdmitted(w, k) PROVE FALSE
    BY <2>5, <2>11 DEF TryAdmitted, Grant
  <2>12. ASSUME NEW c \in Calls, AcquireAdmitted(c) PROVE FALSE
    BY <2>5, <2>12 DEF AcquireAdmitted, Grant
  <2>13. ASSUME NEW c \in Calls, Acquire(c) \/ AcquireUncontrolled(c) PROVE FALSE
    BY <2>4, <2>5, <2>13 DEF Acquire, AcquireUncontrolled, recVars
  <2>14. ASSUME TimerFire PROVE FALSE
    BY <2>4, <2>14 DEF TimerFire
  <2>15. ASSUME NEW w \in Calls, NEW k \in Keys,
                TryCancelled(w, k) \/ TryUncontrolled(w, k) \/ TryBlocked(w, k)
         PROVE  FALSE
    BY <2>5, <2>15 DEF TryCancelled, TryUncontrolled, TryBlocked, recVars
  <2>16. ASSUME DispatchEnd \/ Close \/ Tick PROVE FALSE
    BY <2>5, <2>16 DEF DispatchEnd, Close, Tick, recVars
  <2>17. ASSUME NEW c \in Calls,
                \/ AcquireRefused(c) \/ AcquireQueued(c) \/ Resume(c)
                \/ CommitDispatch(c) \/ CancelWait(c) \/ Available(c) \/ Cancel(c)
         PROVE  FALSE
    BY <2>5, <2>17 DEF AcquireRefused, AcquireQueued, Resume, CommitDispatch,
                       CancelWait, Available, Cancel, recVars
  <2> QED BY <2>1, <2>7, <2>8, <2>9, <2>10, <2>11, <2>12, <2>13, <2>14, <2>15, <2>16,
             <2>17 DEF Next, Engine
<1>2. FlowInv /\ [Next]_vars => [A]_vars
    BY <1>1
<1> QED BY <1>2, FlowInvAlways, PTL DEF Spec, RefundOnlyUnsent

\* An arrival is admitted ahead of the queue only when no waiter could be: what
\* dispatchLocked granted after it had tried a waiter only took capacity, and
\* what its batch left untried keeps arrivals out (dispatchLocked, acquireWork).
THEOREM QueueIsServedFirst == Spec => NoQueueJump
<1> DEFINE A == \A c \in Calls : call[c] = "idle" /\ call'[c] = "granted" =>
                    \A w \in queue : checkWorkLocked(w, lk.at).verdict # "grant"
<1>1. ASSUME FlowInv, [Next]_vars PROVE [A]_vars
  <2>1. SUFFICES ASSUME Next, NEW c \in Calls, call[c] = "idle", call'[c] = "granted",
                        NEW w \in queue
                 PROVE  checkWorkLocked(w, lk.at).verdict # "grant"
    BY <1>1
  <2>2. call \in [Calls -> Statuses]
    BY <1>1 DEF FlowInv, WaitType
  <2>3. ASSUME NEW d \in Calls, AcquireAdmitted(d)
        PROVE  checkWorkLocked(w, lk.at).verdict # "grant"
    <3>1. lk.todo = {} /\ lk.kind = "acquire" /\ cfg.enabled
      BY <1>1, <2>3, DecidingFacts DEF AcquireAdmitted, AdmitNow, Remaining
    <3> QED BY <1>1, <3>1 DEF FlowInv, TriedInv
  <2>4. ASSUME NEW v \in Calls, NEW k \in Keys,
               TryCancelled(v, k) \/ TryUncontrolled(v, k) \/ TryAdmitted(v, k)
        PROVE  FALSE
    <3>1. Try(v, k)
      BY <2>4 DEF TryCancelled, TryUncontrolled, TryAdmitted
    <3>2. call[v] = "waiting"
      BY <1>1, <3>1, TryFacts
    <3>3. call'[c] = call[c]
      BY <2>1, <2>4, <3>2 DEF TryCancelled, TryUncontrolled, TryAdmitted, Leave
    <3> QED BY <2>1, <3>3
  <2>5. ASSUME NEW kind, NEW d, NEW ws \in SUBSET queue, NEW cl,
               cl[c] \in {"idle", "finished", "refused"}, Dispatch(kind, d, ws, cl)
        PROVE  FALSE
    <3>1. call'[c] = "refused" \/ call'[c] = cl[c]
      BY <1>1, <2>5, DispatchLeak
    <3> QED BY <2>1, <2>5, <3>1
  <2>6. ASSUME UNCHANGED call PROVE FALSE
    BY <2>1, <2>6
  <2>7. ASSUME NEW v \in Calls, NEW k \in Keys, TryBlocked(v, k) PROVE FALSE
    BY <2>6, <2>7 DEF TryBlocked
  <2>8. ASSUME DispatchEnd \/ Tick PROVE FALSE
    BY <2>6, <2>8 DEF DispatchEnd, Tick, queueVars
  <2>9. ASSUME NEW d \in Calls,
                \/ AcquireRefused(d) \/ AcquireQueued(d) \/ AcquireUncontrolled(d)
                \/ Resume(d) \/ CommitDispatch(d)
         PROVE  FALSE
    BY <2>1, <2>2, <2>9 DEF AcquireRefused, AcquireQueued, AcquireUncontrolled,
                             Resume, CommitDispatch
  <2>10. ASSUME NEW d \in Calls, Acquire(d) PROVE FALSE
    BY <2>1, <2>5, <2>10 DEF Acquire
  <2>11. ASSUME NEW d \in Calls, NEW refund, NEW status \in {"finished", "refused"},
                release(d, refund, status)
         PROVE  FALSE
    <3> DEFINE cl == [call EXCEPT ![d] = status]
    <3>1. cl[c] \in {"idle", "finished", "refused"} /\ Dispatch("dispatch", d, {}, cl)
      BY <2>1, <2>2, <2>11 DEF release
    <3> HIDE DEF cl
    <3> QED BY <2>5, <3>1
  <2>12. ASSUME NEW d \in Calls, Release(d) \/ CancelBeforeDispatch(d) PROVE FALSE
    <3>1. release(d, FALSE, "finished") \/ release(d, TRUE, "refused")
      BY <2>12 DEF Release, CancelBeforeDispatch
    <3> QED BY <2>11, <3>1
  <2>13. ASSUME NEW d \in Calls, CancelWait(d) PROVE FALSE
    <3>1. {d} \in SUBSET queue /\ Dispatch("dispatch", d, {d}, call)
      BY <2>13 DEF CancelWait
    <3> QED BY <2>1, <2>5, <3>1
  <2>14. ASSUME NEW o \in Ops, endOperation(o) PROVE FALSE
    <3> DEFINE ws == {v \in queue : OpOf[v] = o}
    <3>1. ws \in SUBSET queue /\ Dispatch("dispatch", NoOp, ws, call)
      BY <2>14 DEF endOperation
    <3> HIDE DEF ws
    <3> QED BY <2>1, <2>5, <3>1
  <2>15. ASSUME TimerFire \/ \E p \in Policies : Update(p) PROVE FALSE
    <3>1. Dispatch("dispatch", NoOp, {}, call)
      BY <2>15 DEF TimerFire, Update
    <3> QED BY <2>1, <2>5, <3>1
  <2>16. ASSUME Close PROVE FALSE
    BY <2>1, <2>16 DEF Close, Leave
  <2>17. ASSUME NEW d \in Calls, Available(d) \/ Cancel(d) PROVE FALSE
    BY <2>6, <2>17 DEF Available, Cancel, queueVars
  <2> QED BY <2>1, <2>3, <2>4, <2>7, <2>8, <2>9, <2>10, <2>12, <2>13, <2>14, <2>15,
             <2>16, <2>17 DEF Next, Engine
<1>2. FlowInv /\ [Next]_vars => [A]_vars
    BY <1>1
<1> QED BY <1>2, FlowInvAlways, PTL DEF Spec, NoQueueJump
-----------------------------------------------------------------------------
(* Rate windows over reloads.                                              *)

\* A policy that limits the rate of a bucket keeps its history for as long as
\* any other policy will ask for. (Otherwise a reload may ask for events that
\* have been dropped.)
HistoryKeptForAll ==
    \A p, q \in Policies, b \in Buckets :
        p.windows[b] # {} => retention(q, b) <= retention(p, b)

\* Every admission that some policy's window may still count is in the history,
\* which is kept for as long as any of them asks.
WindowInv ==
    \A q \in Policies :
        /\ \A e \in hist : retention(q, e.bucket) <= ret[e.bucket]
        /\ \A e \in log : e.at > now - retention(q, e.bucket) => e \in hist

\* A check that admits makes the buckets of the new records, with the retention
\* of the policy in force.
LEMMA AdmittedTouches ==
    ASSUME FlowInv, NEW c \in Calls, NEW t, checkWorkLocked(c, t).verdict = "grant",
           NEW r \in Needed(c), NEW b \in Members(cfg, r)
    PROVE  b \in Buckets /\ retention(cfg, b) <= Touched(c, t)[b]
<1> USE DEF FlowInv
<1>1. ~ (OpOf[c] \in Ops /\ opClosed[OpOf[c]]) /\ ~ RequestRefuses(c, t)
    BY GrantMeans, RoomForPart DEF RequestRefuses
<1>2. b \in Buckets /\ r \in Recs
    BY NeededFacts, PolicyFacts DEF RecInv
<1>3. Touched(c, t)[b] = Max({ret[b], retention(cfg, b)})
    BY <1>1, <1>2 DEF Touched
<1>4. retention(cfg, b) <= Max({ret[b], retention(cfg, b)})
    BY <1>2, RetentionType, PairMax DEF RecInv, RetType
<1> QED BY <1>2, <1>3, <1>4

\* An admission is recorded for as long as any policy asks.
LEMMA GrantWindow ==
    ASSUME HistoryKeptForAll, FlowInv, WindowInv, NEW c \in Calls, NEW t \in Nat,
           checkWorkLocked(c, t).verdict = "grant", now' = now,
           hist' = hist \cup Events(Needed(c), t),
           log' = log \cup Events(Needed(c), t), ret' = Touched(c, t)
    PROVE  WindowInv'
<1> USE DEF FlowInv
<1>1. \A b \in Buckets : ret[b] \in Nat /\ ret'[b] \in Nat /\ ret[b] <= ret'[b]
    BY TouchedType DEF RetType
<1>2. ASSUME NEW q \in Policies, NEW e \in hist'
      PROVE  retention(q, e.bucket) <= ret'[e.bucket]
  <2>1. CASE e \in hist
    <3>1. e.bucket \in Buckets
      BY <2>1 DEF RecInv, HistoryEvents
    <3>2. retention(q, e.bucket) \in Nat
      BY <3>1, RetentionType
    <3>3. retention(q, e.bucket) <= ret[e.bucket]
      BY <2>1 DEF WindowInv
    <3> QED BY <1>1, <3>1, <3>2, <3>3
  <2>2. CASE e \in Events(Needed(c), t)
    <3>1. PICK r \in Needed(c) :
            \E b \in Recorded(r) : e = [bucket |-> b, rec |-> r, at |-> t]
      BY <2>2 DEF Events
    <3>2. PICK b \in Recorded(r) : e = [bucket |-> b, rec |-> r, at |-> t]
      BY <3>1
    <3>3. b \in Members(cfg, r) /\ cfg.windows[b] # {} /\ e.bucket = b
      BY <3>2 DEF Recorded
    <3>4. b \in Buckets /\ retention(cfg, b) <= ret'[b]
      BY <3>3, AdmittedTouches
    <3>5. retention(q, b) <= retention(cfg, b)
      BY <3>3, <3>4 DEF HistoryKeptForAll, RecInv
    <3>6. retention(q, b) \in Nat /\ retention(cfg, b) \in Nat
      BY <3>4, RetentionType DEF RecInv
    <3> QED BY <1>1, <3>3, <3>4, <3>5, <3>6
  <2> QED BY <2>1, <2>2
<1>3. ASSUME NEW q \in Policies, NEW e \in log', e.at > now' - retention(q, e.bucket)
      PROVE  e \in hist'
    BY <1>3 DEF WindowInv
<1> QED BY <1>2, <1>3 DEF WindowInv

\* What cleanupLocked drops no window counts.
LEMMA CleanupWindow ==
    ASSUME FlowInv, WindowInv, now' = now, NEW kept \in SUBSET hist,
           hist' = Live(kept, now),
           log' \subseteq log, \A e \in log' : e \in hist => e \in kept,
           \A e \in hist' : ret[e.bucket] <= ret'[e.bucket],
           \A b \in Buckets : ret'[b] \in Nat
    PROVE  WindowInv'
<1> USE DEF FlowInv
<1>1. ASSUME NEW q \in Policies, NEW e \in hist'
      PROVE  retention(q, e.bucket) <= ret'[e.bucket]
  <2>1. e \in hist /\ e.bucket \in Buckets
    BY DEF Live, RecInv, HistoryEvents
  <2>2. retention(q, e.bucket) \in Nat /\ ret[e.bucket] \in Nat /\ ret'[e.bucket] \in Nat
    BY <2>1, RetentionType DEF RetType
  <2>3. retention(q, e.bucket) <= ret[e.bucket] /\ ret[e.bucket] <= ret'[e.bucket]
    BY <2>1 DEF WindowInv
  <2> QED BY <2>2, <2>3
<1>2. ASSUME NEW q \in Policies, NEW e \in log', e.at > now' - retention(q, e.bucket)
      PROVE  e \in hist'
  <2>1. e \in hist /\ e \in kept
    BY <1>2 DEF WindowInv
  <2>2. e.bucket \in Buckets /\ e.at \in Nat /\ now \in Nat
    BY <2>1 DEF RecInv, HistoryEvents
  <2>3. retention(q, e.bucket) \in Nat /\ ret[e.bucket] \in Nat
    BY <2>2, RetentionType DEF RetType
  <2>4. retention(q, e.bucket) <= ret[e.bucket]
    BY <2>1 DEF WindowInv
  <2>5. e.at > now - ret[e.bucket]
    BY <1>2, <2>2, <2>3, <2>4
  <2> QED BY <2>1, <2>5 DEF Live
<1> QED BY <1>1, <1>2 DEF WindowInv

LEMMA WindowStep ==
    ASSUME HistoryKeptForAll, FlowInv, WindowInv, [Next]_vars
    PROVE  WindowInv'
<1> USE DEF FlowInv
<1>0. \A b \in Buckets : ret'[b] \in Nat /\ ret[b] \in Nat
    BY RetStep DEF RetType
<1>1. ASSUME NEW gone, NEW refunded, NEW q, now' = now, ReleaseAndCleanup(gone, refunded, q)
      PROVE  WindowInv'
  <2>1. hist' = Live({e \in hist : e.rec \notin refunded}, now)
        /\ log' = {e \in log : e.rec \notin refunded}
        /\ ret' = [b \in Buckets |->
                IF conc'[b] = 0 /\ ~ HasEvent(hist', b) THEN 0 ELSE ret[b]]
    BY <1>1 DEF ReleaseAndCleanup
  <2>2. ASSUME NEW e \in hist' PROVE ret[e.bucket] <= ret'[e.bucket]
    <3>1. e.bucket \in Buckets
      BY <2>1 DEF Live, RecInv, HistoryEvents
    <3>2. HasEvent(hist', e.bucket)
      BY DEF HasEvent
    <3>3. ret'[e.bucket] = ret[e.bucket]
      BY <2>1, <3>1, <3>2
    <3> QED BY <1>0, <3>1, <3>3
  <2> DEFINE kept == {e \in hist : e.rec \notin refunded}
  <2>3. kept \in SUBSET hist /\ hist' = Live(kept, now) /\ log' \subseteq log
        /\ \A e \in log' : e \in hist => e \in kept
    BY <2>1
  <2> HIDE DEF kept
  <2> QED BY <1>0, <1>1, <2>2, <2>3, CleanupWindow
<1>2. ASSUME UNCHANGED <<hist, log>>, now' \in Nat, now <= now',
             \A b \in Buckets : ret[b] <= ret'[b]
      PROVE  WindowInv'
  <2>1. ASSUME NEW q \in Policies, NEW e \in hist
        PROVE  retention(q, e.bucket) <= ret'[e.bucket]
    <3>1. e.bucket \in Buckets /\ retention(q, e.bucket) <= ret[e.bucket]
      BY DEF RecInv, HistoryEvents, WindowInv
    <3>2. retention(q, e.bucket) \in Nat
      BY <3>1, RetentionType
    <3> QED BY <1>0, <1>2, <3>1, <3>2
  <2>2. ASSUME NEW q \in Policies, NEW e \in log, e.at > now' - retention(q, e.bucket)
        PROVE  e \in hist
    <3>1. e.bucket \in Buckets /\ e.at \in Nat /\ now \in Nat
      BY DEF RecInv, HistoryEvents
    <3>2. retention(q, e.bucket) \in Nat
      BY <3>1, RetentionType
    <3>3. e.at > now - retention(q, e.bucket)
      BY <1>2, <2>2, <3>1, <3>2
    <3> QED BY <3>3 DEF WindowInv
  <2> QED BY <1>2, <2>1, <2>2 DEF WindowInv
<1>3. now \in Nat /\ lk.at \in Nat
    BY DEF RecInv, LockInv, Lks
<1>4. ASSUME UNCHANGED <<now, hist, log, ret>> PROVE WindowInv'
    BY <1>0, <1>2, <1>3, <1>4
<1>5. ASSUME NEW c \in Calls, NEW t, UNCHANGED <<now, hist, log>>, ret' = Touched(c, t)
      PROVE  WindowInv'
    BY <1>2, <1>3, <1>5, TouchedType
<1>6. ASSUME NEW w \in Calls, NEW k \in Keys, TryAdmitted(w, k) PROVE WindowInv'
    BY <1>3, <1>6, GrantWindow DEF TryAdmitted, Grant
<1>7. ASSUME NEW c \in Calls, AcquireAdmitted(c) PROVE WindowInv'
    BY <1>3, <1>7, GrantWindow DEF AcquireAdmitted, AdmitNow, Grant
<1>8. ASSUME NEW w \in Calls, NEW k \in Keys, TryBlocked(w, k) PROVE WindowInv'
    BY <1>5, <1>8 DEF TryBlocked, recVars
<1>9. ASSUME NEW c \in Calls, AcquireRefused(c) \/ AcquireQueued(c) PROVE WindowInv'
    BY <1>5, <1>9 DEF AcquireRefused, AcquireQueued, recVars
<1>10. ASSUME NEW c \in Calls, Acquire(c) PROVE WindowInv'
    BY <1>1, <1>10 DEF Acquire, Cleanup
<1>11. ASSUME NEW c \in Calls, AcquireUncontrolled(c) PROVE WindowInv'
    BY <1>1, <1>4, <1>11 DEF AcquireUncontrolled, Cleanup, recVars, bucketVars
<1>12. ASSUME NEW c \in Calls, Release(c) \/ CancelBeforeDispatch(c) PROVE WindowInv'
    BY <1>1, <1>12 DEF Release, CancelBeforeDispatch, release
<1>13. ASSUME NEW o \in Ops, endOperation(o) PROVE WindowInv'
    BY <1>1, <1>13 DEF endOperation
<1>14. CASE TimerFire
    BY <1>1, <1>14 DEF TimerFire, Cleanup
<1>15. ASSUME NEW p \in Policies, Update(p) PROVE WindowInv'
  <2>1. hist' = Live(hist, now) /\ log' = Live(log, now) /\ now' = now
    BY <1>15 DEF Update
  <2>2. log' \subseteq log /\ hist \in SUBSET hist
    BY <2>1 DEF Live
  <2>3. ASSUME NEW e \in hist' PROVE ret[e.bucket] <= ret'[e.bucket]
    <3>1. e.bucket \in Buckets
      BY <2>1 DEF Live, RecInv, HistoryEvents
    <3>2. HasEvent(hist', e.bucket)
      BY DEF HasEvent
    <3>3. ret'[e.bucket] \in {ret[e.bucket], Max({ret[e.bucket], retention(p, e.bucket)})}
      BY <1>15, <3>1, <3>2 DEF Update
    <3>4. ret[e.bucket] <= Max({ret[e.bucket], retention(p, e.bucket)})
      BY <1>0, <3>1, RetentionType, PairMax
    <3> QED BY <1>0, <3>1, <3>3, <3>4
  <2> QED BY <1>0, <2>1, <2>2, <2>3, CleanupWindow
<1>16. ASSUME NEW c \in Calls, Available(c) PROVE WindowInv'
  <2>1. hist' = Live(hist, now) /\ log' = log /\ now' = now
    BY <1>16 DEF Available, recVars
  <2>2. log' \subseteq log /\ hist \in SUBSET hist
    BY <2>1 DEF Live
  <2>3. ASSUME NEW e \in hist' PROVE ret[e.bucket] <= ret'[e.bucket]
    <3>1. e.bucket \in Buckets
      BY <2>1 DEF Live, RecInv, HistoryEvents
    <3>2. HasEvent(hist', e.bucket)
      BY DEF HasEvent
    <3>3. ret'[e.bucket] \in {ret[e.bucket], Max({ret[e.bucket], retention(cfg, e.bucket)})}
      BY <1>16, <3>1, <3>2 DEF Available
    <3>4. ret[e.bucket] <= Max({ret[e.bucket], retention(cfg, e.bucket)})
      BY <1>0, <3>1, RetentionType, PairMax DEF RecInv
    <3> QED BY <1>0, <3>1, <3>3, <3>4
  <2> QED BY <1>0, <2>1, <2>2, <2>3, CleanupWindow
<1>17. CASE Tick
    BY <1>0, <1>2, <1>3, <1>17 DEF Tick, recVars, bucketVars
<1>18. ASSUME NEW w \in Calls, NEW k \in Keys, TryCancelled(w, k) \/ TryUncontrolled(w, k)
       PROVE  WindowInv'
    BY <1>4, <1>18 DEF TryCancelled, TryUncontrolled, recVars, bucketVars
<1>19. CASE DispatchEnd \/ Close \/ UNCHANGED vars
    BY <1>4, <1>19 DEF DispatchEnd, Close, vars, recVars, bucketVars
<1>20. ASSUME NEW c \in Calls, Resume(c) \/ CommitDispatch(c) \/ CancelWait(c) \/ Cancel(c)
       PROVE  WindowInv'
    BY <1>4, <1>20 DEF Resume, CommitDispatch, CancelWait, Cancel, recVars, bucketVars
<1> QED BY <1>6, <1>7, <1>8, <1>9, <1>10, <1>11, <1>12, <1>13, <1>14, <1>15, <1>16,
           <1>17, <1>18, <1>19, <1>20 DEF Next, Engine

\* No admission exceeds a rate window, whatever has been refunded, expired or
\* reloaded since, as long as reloads ask for no history that was dropped
\* (checkLocked, cleanupLocked, Update).
THEOREM WindowsAreKept ==
    ASSUME HistoryKeptForAll
    PROVE  Spec => WindowKept
<1> DEFINE A == cfg' = cfg => \A e \in log' \ log : \A w \in cfg.windows[e.bucket] :
                Cardinality({d \in log' : d.bucket = e.bucket
                                          /\ d.at > e.at - w.period}) <= w.requests
<1>1. Init => WindowInv
    BY DEF Init, WindowInv
<1>2. FlowInv /\ WindowInv /\ [Next]_vars => WindowInv'
    BY WindowStep
<1>3. ASSUME FlowInv, WindowInv, [Next]_vars PROVE [A]_vars
  <2>1. SUFFICES ASSUME Next, cfg' = cfg, NEW e \in log' \ log,
                        NEW w \in cfg.windows[e.bucket]
                 PROVE  Cardinality({d \in log' : d.bucket = e.bucket
                                        /\ d.at > e.at - w.period}) <= w.requests
    BY <1>3
  <2>2. ASSUME log' \subseteq log PROVE FALSE
    BY <2>1, <2>2
  <2>3. ASSUME NEW c \in Calls, NEW t \in Nat, t = now,
               checkWorkLocked(c, t).verdict = "grant",
               log' = log \cup Events(Needed(c), t)
        PROVE  Cardinality({d \in log' : d.bucket = e.bucket
                                         /\ d.at > e.at - w.period}) <= w.requests
    <3>1. PICK r \in Needed(c) :
            \E b \in Recorded(r) : e = [bucket |-> b, rec |-> r, at |-> t]
      BY <2>1, <2>3 DEF Events
    <3>2. PICK b \in Recorded(r) : e = [bucket |-> b, rec |-> r, at |-> t]
      BY <3>1
    <3>3. b \in Members(cfg, r) /\ r \in Recs /\ e.bucket = b /\ e.at = t /\ b \in Buckets
      BY <1>3, <3>2, NeededFacts, PolicyFacts DEF Recorded, FlowInv, RecInv
    <3> DEFINE R == Recent(b, t, w.period)
               D == {d \in log' : d.bucket = b /\ d.at > t - w.period}
    <3>4. w.requests \in Nat /\ w.period \in Nat /\ w.period <= retention(cfg, b)
          /\ retention(cfg, b) \in Nat
      BY <1>3, <2>1, <3>3, PolicyFacts, RetentionType DEF FlowInv, RecInv
    <3>5. ASSUME NEW d \in D, d \in log PROVE d \in R
      <4>1. d.at \in Nat /\ d.bucket = b /\ d.at > t - w.period
        BY <1>3, <3>5 DEF FlowInv, RecInv, HistoryEvents
      <4>2. d.at > now - retention(cfg, b)
        BY <2>3, <3>4, <4>1
      <4>3. d \in hist
        BY <1>3, <3>5, <4>1, <4>2 DEF WindowInv, FlowInv, RecInv
      <4> QED BY <4>1, <4>3 DEF Recent
    <3>6. ASSUME NEW d \in D, d \in Events(Needed(c), t) PROVE d = e
      <4>1. PICK s \in Needed(c) :
              \E a \in Recorded(s) : d = [bucket |-> a, rec |-> s, at |-> t]
        BY <3>6 DEF Events
      <4>2. PICK a \in Recorded(s) : d = [bucket |-> a, rec |-> s, at |-> t]
        BY <4>1
      <4>3. a = b /\ b \in Members(cfg, s)
        BY <4>2 DEF Recorded
      <4>4. s = r
        BY <1>3, <3>3, <4>3, NeededFacts DEF FlowInv
      <4> QED BY <3>2, <4>2, <4>3, <4>4
    <3>7. D \subseteq R \cup {e}
      BY <2>3, <3>5, <3>6
    <3>8. IsFiniteSet(R)
      BY <1>3, FS_Subset DEF Recent, FlowInv, RecInv
    <3>9. ~ (Cardinality(R) >= w.requests)
      <4>1. Exhausted(r, t) = {}
        BY <1>3, <2>3, GrantMeans DEF Blocked, FlowInv
      <4>2. <<b, w>> \in UNION {{a} \X cfg.windows[a] : a \in Members(cfg, r)}
        BY <2>1, <3>3
      <4>3. ~ (Cardinality(Recent(<<b, w>>[1], t, <<b, w>>[2].period))
                >= <<b, w>>[2].requests)
        BY <4>1, <4>2 DEF Exhausted
      <4> QED BY <4>3
    <3>10. IsFiniteSet(R \cup {e}) /\ Cardinality(R \cup {e}) <= Cardinality(R) + 1
           /\ Cardinality(R) \in Nat
      <4> HIDE DEF R
      <4>1. Cardinality(R) \in Nat
        BY <3>8, FS_CardinalityType
      <4>2. IsFiniteSet(R \cup {e})
            /\ Cardinality(R \cup {e}) = IF e \in R THEN Cardinality(R)
                                         ELSE Cardinality(R) + 1
        BY <3>8, FS_AddElement
      <4> QED BY <4>1, <4>2
    <3>11. Cardinality(D) <= Cardinality(R \cup {e}) /\ Cardinality(D) \in Nat
           /\ Cardinality(R \cup {e}) \in Nat
      <4> HIDE DEF R, D
      <4> QED BY <3>7, <3>10, FS_Subset, FS_CardinalityType
    <3>12. Cardinality(D) <= w.requests
      <4> HIDE DEF R, D
      <4> QED BY <3>4, <3>9, <3>10, <3>11
    <3> QED BY <3>3, <3>12
  <2>4. ASSUME NEW v \in Calls, NEW k \in Keys, TryAdmitted(v, k)
        PROVE  Cardinality({d \in log' : d.bucket = e.bucket
                                         /\ d.at > e.at - w.period}) <= w.requests
    <3>1. lk.at = now /\ lk.at \in Nat
      BY <1>3, <2>4, TryFacts DEF TryAdmitted, FlowInv, LockInv, Lks
    <3>2. log' = log \cup Events(Needed(v), lk.at)
          /\ checkWorkLocked(v, lk.at).verdict = "grant"
      BY <2>4 DEF TryAdmitted, Grant
    <3> QED BY <2>3, <3>1, <3>2
  <2>5. ASSUME NEW c \in Calls, AcquireAdmitted(c)
        PROVE  Cardinality({d \in log' : d.bucket = e.bucket
                                         /\ d.at > e.at - w.period}) <= w.requests
    <3>1. lk.at = now /\ lk.at \in Nat
      BY <1>3, <2>5, DecidingFacts DEF AcquireAdmitted, FlowInv, LockInv, Lks
    <3>2. log' = log \cup Events(Needed(c), lk.at)
          /\ checkWorkLocked(c, lk.at).verdict = "grant"
      BY <2>5 DEF AcquireAdmitted, AdmitNow, Grant
    <3> QED BY <2>3, <3>1, <3>2
  <2>6. ASSUME NEW c \in Calls,
               Acquire(c) \/ AcquireUncontrolled(c) \/ Release(c) \/ CancelBeforeDispatch(c)
        PROVE  FALSE
    BY <2>2, <2>6 DEF Acquire, AcquireUncontrolled, Release, CancelBeforeDispatch,
                      release, Cleanup, ReleaseAndCleanup, recVars
  <2>7. ASSUME TimerFire \/ \E o \in Ops : endOperation(o) PROVE FALSE
    BY <2>2, <2>7 DEF TimerFire, endOperation, Cleanup, ReleaseAndCleanup
  <2>8. ASSUME NEW p \in Policies, Update(p) PROVE FALSE
    BY <2>2, <2>8 DEF Update, Live
  <2>9. ASSUME NEW v \in Calls, NEW k \in Keys,
               TryCancelled(v, k) \/ TryUncontrolled(v, k) \/ TryBlocked(v, k)
        PROVE  FALSE
    BY <2>2, <2>9 DEF TryCancelled, TryUncontrolled, TryBlocked, recVars
  <2>10. ASSUME DispatchEnd \/ Close \/ Tick PROVE FALSE
    BY <2>2, <2>10 DEF DispatchEnd, Close, Tick, recVars
  <2>11. ASSUME NEW c \in Calls,
                \/ AcquireRefused(c) \/ AcquireQueued(c) \/ Resume(c)
                \/ CommitDispatch(c) \/ CancelWait(c) \/ Available(c) \/ Cancel(c)
         PROVE  FALSE
    BY <2>2, <2>11 DEF AcquireRefused, AcquireQueued, Resume, CommitDispatch,
                       CancelWait, Available, Cancel, recVars
  <2> QED BY <2>1, <2>4, <2>5, <2>6, <2>7, <2>8, <2>9, <2>10, <2>11 DEF Next, Engine
<1>4. FlowInv /\ WindowInv /\ [Next]_vars => [A]_vars
    BY <1>3
<1> QED BY <1>1, <1>2, <1>4, FlowInvAlways, PTL DEF Spec, WindowKept
=============================================================================
