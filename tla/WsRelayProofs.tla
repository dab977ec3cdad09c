---------------------------- MODULE WsRelayProofs ----------------------------
(* Theorems about WsRelay, for every set of requests, every buffer and any  *)
(* number of chunks.                                                        *)
EXTENDS WsRelay, SequenceTheorems, TLAPS

\* Whoever works on a request has one.
AtWork ==
    /\ reader.pc # "read" => reader.req \in written
    /\ cleaner.pc \in {"cancel", "room"} => cleaner.req \in Requests
    /\ closed <=> cleaner.pc # "open"

\* Before it is stored, a request has left no trace.
Fresh ==
    \A r \in Requests : caller[r] = "idle" =>
        /\ r \notin pending \cup prClosed \cup terminal \cup written \cup todo
        /\ after[r] = "off"
        /\ cleaner.pc \in {"cancel", "room"} => cleaner.req # r

\* The mutex of a request is held from one step to the next by the reader that
\* sends a frame, or by the party that makes room for the cause.
MutexHeld ==
    \A r \in mu : \/ reader.pc \in {"select", "room"} /\ reader.req = r
                  \/ cleaner.pc = "room" /\ cleaner.req = r
MutexInv ==
    /\ MutexHeld
    /\ reader.pc \in {"select", "room"} => reader.req \in mu
    /\ cleaner.pc = "room" => cleaner.req \in mu \cap prClosed
    /\ reader.pc = "room" => reader.req \in prClosed
    /\ reader.pc = "select" => reader.req \notin prClosed \cup terminal
    /\ reader.pc = "room" /\ cleaner.pc = "room" => reader.req # cleaner.req

\* The ones who may close a request: those that can take it out of the map, and
\* the one that did. There is never more than one, and none once it is closed.
Settles(r) == reader.pc = "settle" /\ reader.req = r
Cleans(r)  == cleaner.pc = "cancel" /\ cleaner.req = r
Taken(r)   == after[r] = "took"
Undoes(r)  == caller[r] = "closing"

OwnerInv ==
    \A r \in Requests :
        /\ r \in pending => ~Settles(r) /\ ~Cleans(r) /\ ~Taken(r) /\ ~Undoes(r)
        /\ Settles(r) => ~Cleans(r) /\ ~Taken(r) /\ ~Undoes(r)
        /\ Cleans(r) => ~Taken(r) /\ ~Undoes(r)
        /\ Taken(r) => ~Undoes(r)
        /\ r \in prClosed =>
            r \notin pending /\ ~Settles(r) /\ ~Cleans(r) /\ ~Taken(r) /\ ~Undoes(r)

\* The stop function of a request is kept before the request is sent, so
\* whoever closes it stops the callback; only cleanup may come too early.
StopInv ==
    /\ \A r \in Requests :
        caller[r] \in {"sending", "writing", "consuming", "closing"} => r \in stopSet
    /\ written \subseteq stopSet
    /\ \A r \in prClosed : after[r] = "armed" => closed

\* A request in use is in the map, is closed, or is about to be closed; one
\* that was sent before the session closed is on cleanup's list.
LiveInv ==
    /\ \A r \in Requests :
        caller[r] \in {"stored", "sending", "writing", "consuming"} =>
            r \in pending \cup prClosed \/ Settles(r) \/ Cleans(r) \/ Taken(r)
    /\ \A r \in pending : caller[r] \in {"writing", "consuming"} /\ closed => r \in todo
    /\ cleaner.pc \in {"unlist", "done"} => todo \cap pending = {}

\* The response to a request that has ended ends with a frame that says so.
EndsWell(s) == s # <<>> /\ s[Len(s)].kind # "chunk"

InUse(r) == caller[r] \in {"stored", "sending", "writing", "consuming"}

ResponseEnds ==
    \A r \in Requests :
        InUse(r) /\ r \notin ctxDone /\ (r \in terminal \/ ChClosed(r)) => EndsWell(ch[r])

\* The reader closes a request after the frame that ends it was delivered, or
\* knows a cause why it was not; the callback runs for ended contexts only.
DeliveryKnown ==
    reader.pc \in {"delete", "settle"} =>
        IF reader.delivered THEN reader.req \in terminal
        ELSE closed \/ reader.req \in ctxDone \cup prClosed \cup terminal

EndInv ==
    /\ ResponseEnds /\ DeliveryKnown
    /\ \A r \in Requests : Taken(r) => r \in ctxDone

RelayInv ==
    /\ TypeOK /\ AtWork /\ Fresh /\ MutexInv /\ OwnerInv
    /\ StopInv /\ LiveInv /\ EndInv /\ SuccessMeansEnd

-----------------------------------------------------------------------------
(* Channels: what appending, receiving and making room leave in them.      *)

\* A frame is appended.
LEMMA Appended ==
    ASSUME NEW S, NEW s \in Seq(S), NEW f \in S
    PROVE  /\ Append(s, f) \in Seq(S) /\ Append(s, f) # <<>>
           /\ Len(Append(s, f)) = Len(s) + 1 /\ Append(s, f)[Len(s) + 1] = f
OBVIOUS

\* The first frame is received: the last one stays, if there are others.
LEMMA Received ==
    ASSUME NEW S, NEW s \in Seq(S), s # <<>>
    PROVE  /\ Head(s) \in S /\ Tail(s) \in Seq(S) /\ Len(Tail(s)) = Len(s) - 1
           /\ Len(s) \in Nat \ {0}
           /\ Len(s) > 1 => Tail(s) # <<>> /\ Tail(s)[Len(s) - 1] = s[Len(s)]
           /\ Len(s) = 1 => Head(s) = s[Len(s)]
<1>1. Len(s) \in Nat \ {0} /\ Head(s) = s[1]
    OBVIOUS
<1>2. Tail(s) \in Seq(S) /\ Len(Tail(s)) = Len(s) - 1 /\ Head(s) \in S
    BY <1>1
<1>3. ASSUME Len(s) > 1 PROVE Tail(s) # <<>> /\ Tail(s)[Len(s) - 1] = s[Len(s)]
    <2>1. Tail(s)[Len(s) - 1] = s[(Len(s) - 1) + 1]
        BY <1>1, <1>2, <1>3, HeadTailProperties
    <2>2. Tail(s) # <<>>
        <3>1. Len(Tail(s)) # 0
            BY <1>1, <1>2, <1>3
        <3>2. Len(<<>>) = 0
            OBVIOUS
        <3> QED BY <3>1, <3>2, Zenon
    <2>3. (Len(s) - 1) + 1 = Len(s)
        BY <1>1
    <2> QED BY <2>1, <2>2, <2>3
<1> QED BY <1>1, <1>2, <1>3

\* What is left after a chunk still ends the response, if it did before.
LEMMA ReceivedChunk ==
    ASSUME NEW s \in Seq(AllFrames), EndsWell(s), Head(s).kind = "chunk"
    PROVE  EndsWell(Tail(s))
BY Received DEF EndsWell

\* The cause fits in, and comes last.
LEMMA Pushed ==
    ASSUME NEW s \in Seq(AllFrames), Len(s) <= Buffer
    PROVE  /\ PushCause(s) \in Seq(AllFrames) /\ Len(PushCause(s)) <= Buffer
           /\ EndsWell(PushCause(s))
<1>1. Cause \in AllFrames /\ Cause.kind # "chunk"
    BY DEF AllFrames, Cause, Frame
<1>2. CASE s = <<>>
    BY <1>1, <1>2, Appended, RelayAssumption DEF PushCause, EndsWell
<1>3. CASE s # <<>>
    <2>1. Tail(s) \in Seq(AllFrames) /\ Len(Tail(s)) = Len(s) - 1 /\ Len(s) \in Nat
        BY <1>3, Received
    <2>2. PushCause(s) = Append(Tail(s), Cause)
        BY <1>3 DEF PushCause
    <2> QED BY <1>1, <2>1, <2>2, Appended, RelayAssumption DEF EndsWell
<1> QED BY <1>2, <1>3

\* A terminal frame is not a chunk.
LEMMA FrameKinds ==
    /\ Frames \subseteq AllFrames /\ Cause \in AllFrames /\ Cause.kind # "chunk"
    /\ \A f \in AllFrames : Terminal(f) => f.kind # "chunk"
BY DEF AllFrames, Cause, Frame, Terminal

\* The channels are as they should be after a step that touches only that of r.
Channels(r) ==
    /\ ch' \in [Requests -> Seq(AllFrames)]
    /\ \A x \in Requests : Len(ch'[x]) <= Buffer
    /\ \A x \in Requests : x # r => ch'[x] = ch[x]

-----------------------------------------------------------------------------
(* What closing a request and handing over a frame do.                     *)

\* Closing r.
Closes(r) ==
    /\ r \notin mu /\ prClosed' = prClosed \cup {r}
    /\ terminal' = terminal /\ stopSet' = stopSet
    /\ after' \in [Requests -> {"off", "armed", "took", "done"}]
    /\ \A x \in Requests : after'[x] # after[x] => after[x] = "armed" /\ after'[x] = "off"
    /\ r \notin prClosed /\ r \in stopSet => after'[r] # "armed"
    /\ mu' \in {mu, mu \cup {r}}
    /\ Channels(r)
    /\ ch'[r] = ch[r] \/ EndsWell(ch'[r])

\* close and cancel leave the channel as it is.
LEMMA CloseEffect ==
    ASSUME TypeOK, NEW r \in Requests, closeRequest(r)
    PROVE  Closes(r) /\ mu' = mu /\ ch' = ch
<1>1. after' \in [Requests -> {"off", "armed", "took", "done"}]
    BY DEF TypeOK, closeRequest, StopAfter
<1> QED BY <1>1 DEF TypeOK, closeRequest, StopAfter, Closes, Channels

\* cancelWithError puts the cause at the end, unless the response has ended or
\* room has to be made first.
LEMMA CancelEffect ==
    ASSUME TypeOK, NEW r \in Requests, cancelWithError(r)
    PROVE  /\ Closes(r)
           /\ r \notin prClosed => r \in mu' \/ r \in terminal \/ EndsWell(ch'[r])
<1>1. CASE closeRequest(r) /\ (r \in prClosed \/ r \in terminal)
    BY <1>1, CloseEffect
<1>2. CASE ~ (closeRequest(r) /\ (r \in prClosed \/ r \in terminal))
    <2>1. /\ r \notin mu \cup prClosed \cup terminal
          /\ prClosed' = prClosed \cup {r} /\ StopAfter(r)
          /\ IF Full(r)
             THEN mu' = mu \cup {r} /\ ch' = ch
             ELSE mu' = mu /\ ch' = [ch EXCEPT ![r] = Append(@, Cause)]
          /\ terminal' = terminal /\ stopSet' = stopSet
        BY <1>2 DEF cancelWithError
    <2>2. ch[r] \in Seq(AllFrames) /\ Len(ch[r]) \in Nat
        BY DEF TypeOK
    <2>3. CASE Full(r)
        BY <2>1, <2>3 DEF TypeOK, StopAfter, Closes, Channels
    <2>4. CASE ~ Full(r)
        <3>1. /\ Append(ch[r], Cause) \in Seq(AllFrames)
              /\ Len(Append(ch[r], Cause)) <= Buffer /\ EndsWell(Append(ch[r], Cause))
            BY <2>2, <2>4, Appended, FrameKinds, RelayAssumption DEF Full, EndsWell
        <3>2. ch' = [ch EXCEPT ![r] = Append(ch[r], Cause)]
            BY <2>1, <2>4
        <3>3. Channels(r) /\ EndsWell(ch'[r])
            BY <3>1, <3>2 DEF TypeOK, Channels
        <3> QED BY <2>1, <2>4, <3>3 DEF TypeOK, StopAfter, Closes
    <2> QED BY <2>3, <2>4
<1> QED BY <1>1, <1>2

\* Making room puts the cause at the end.
LEMMA RoomEffect ==
    ASSUME TypeOK, NEW r \in Requests, makeRoom(r)
    PROVE  Channels(r) /\ EndsWell(ch'[r])
<1>1. ch[r] \in Seq(AllFrames) /\ Len(ch[r]) <= Buffer
    BY DEF TypeOK
<1>2. /\ PushCause(ch[r]) \in Seq(AllFrames) /\ Len(PushCause(ch[r])) <= Buffer
      /\ EndsWell(PushCause(ch[r]))
    BY <1>1, Pushed
<1> QED BY <1>2 DEF TypeOK, makeRoom, Channels

\* States of run.
Readers(places) ==
    [pc : places, req : Requests \cup {NoRequest}, frame : AllFrames, delivered : BOOLEAN]

\* run waits for the next frame.
LEMMA ReadingType == Reading \in Readers({"read"}) /\ Reading.pc = "read"
BY FrameKinds DEF Reading, Readers

\* After a terminal frame run goes on to take the request out of the map.
LEMMA AfterDeliveryType ==
    ASSUME TypeOK, NEW ok \in BOOLEAN
    PROVE  /\ AfterDelivery(ok) \in Readers({"read", "delete"})
           /\ AfterDelivery(ok).pc = "delete" =>
                /\ AfterDelivery(ok).req = reader.req /\ AfterDelivery(ok).delivered = ok
                /\ Terminal(reader.frame)
<1>1. CASE Terminal(reader.frame)
    BY <1>1 DEF AfterDelivery, TypeOK, Readers
<1>2. CASE ~ Terminal(reader.frame)
    <2>1. AfterDelivery(ok) = Reading
        BY <1>2 DEF AfterDelivery
    <2>2. Reading.pc # "delete" /\ Reading \in Readers({"read", "delete"})
        BY ReadingType DEF Readers
    <2> QED BY <2>1, <2>2
<1> QED BY <1>1, <1>2

\* deliver finds the request closed or ended, or goes on with the mutex held.
LEMMA LockEffect ==
    ASSUME TypeOK, DeliverLock
    PROVE  /\ reader.pc = "lock" /\ reader.req \notin mu
           /\ reader' \in Readers({"read", "select", "delete"})
           /\ reader'.pc # "read" => reader'.req = reader.req
           /\ IF reader'.pc = "select"
              THEN reader.req \notin prClosed \cup terminal /\ mu' = mu \cup {reader.req}
              ELSE reader.req \in prClosed \cup terminal /\ mu' = mu
           /\ reader'.pc = "delete" => ~reader'.delivered
           /\ UNCHANGED <<sessVars, pending, prClosed, terminal, ch, stopSet, after,
                          callVars, read>>
<1>1. CASE reader.req \in prClosed \cup terminal
    <2>1. reader' = AfterDelivery(FALSE) /\ mu' = mu
        BY <1>1 DEF DeliverLock
    <2> QED BY <1>1, <2>1, AfterDeliveryType DEF DeliverLock, Readers
<1>2. CASE reader.req \notin prClosed \cup terminal
    <2>1. reader' = [reader EXCEPT !.pc = "select"] /\ mu' = mu \cup {reader.req}
        BY <1>2 DEF DeliverLock, KeepsMutex
    <2>2. /\ reader' \in Readers({"read", "select", "delete"})
          /\ reader'.pc = "select" /\ reader'.req = reader.req
        BY <2>1 DEF TypeOK, Readers
    <2> QED BY <1>2, <2>1, <2>2 DEF DeliverLock
<1> QED BY <1>1, <1>2

\* After a terminal frame the request is closed; a frame that was not delivered
\* is replaced by the cause.
LEMMA SettleEffect ==
    ASSUME TypeOK, AtWork, DispatchSettle
    PROVE  /\ reader.pc = "settle" /\ reader.req \in Requests /\ Closes(reader.req)
           /\ reader' \in Readers({"read", "room"})
           /\ reader'.pc = "room" => reader'.req = reader.req
           /\ reader'.pc = "room" <=> reader.req \in mu'
           /\ reader.delivered \/ ~ HasCause => ch' = ch
           /\ \/ reader.delivered \/ ~ HasCause \/ reader.req \in prClosed \cup terminal
              \/ reader.req \in mu' \/ EndsWell(ch'[reader.req])
           /\ UNCHANGED <<sessVars, pending, callVars, read>>
<1>1. reader.pc = "settle" /\ reader.req \in Requests
    BY DEF DispatchSettle, AtWork, TypeOK
<1>2. /\ Closes(reader.req)
      /\ reader.delivered \/ ~ HasCause => ch' = ch
      /\ \/ reader.delivered \/ ~ HasCause \/ reader.req \in prClosed \cup terminal
         \/ reader.req \in mu' \/ EndsWell(ch'[reader.req])
    BY <1>1, CloseEffect, CancelEffect DEF DispatchSettle
<1>3. CASE reader.req \in mu'
    <2>1. reader' = [reader EXCEPT !.pc = "room"]
        BY <1>3 DEF DispatchSettle
    <2>2. reader' \in Readers({"read", "room"}) /\ reader'.pc = "room" /\ reader'.req = reader.req
        BY <2>1 DEF TypeOK, Readers
    <2> QED BY <1>1, <1>2, <1>3, <2>2 DEF DispatchSettle
<1>4. CASE reader.req \notin mu'
    <2>1. reader' = Reading
        BY <1>4 DEF DispatchSettle
    <2>2. reader' \in Readers({"read", "room"}) /\ reader'.pc = "read"
        BY <2>1, ReadingType DEF Readers
    <2> QED BY <1>1, <1>2, <1>4, <2>2 DEF DispatchSettle
<1> QED BY <1>3, <1>4

\* cleanup closes the request it has taken, with its cause.
LEMMA CleanupEffect ==
    ASSUME TypeOK, AtWork, CleanupCancel
    PROVE  /\ cleaner.pc = "cancel" /\ cleaner.req \in Requests /\ Closes(cleaner.req)
           /\ cleaner' \in [pc : {"range", "room"}, req : {cleaner.req}]
           /\ cleaner'.pc = "room" <=> cleaner.req \in mu'
           /\ \/ cleaner.req \in mu' \cup prClosed \cup terminal
              \/ EndsWell(ch'[cleaner.req])
           /\ UNCHANGED <<listed, conn, closed, todo, pending, reader, callVars, read>>
<1>1. cleaner.pc = "cancel" /\ cleaner.req \in Requests
    BY DEF CleanupCancel, AtWork
<1>2. /\ Closes(cleaner.req)
      /\ \/ cleaner.req \in mu' \cup prClosed \cup terminal
         \/ EndsWell(ch'[cleaner.req])
    BY <1>1, CancelEffect DEF CleanupCancel
<1>3. /\ cleaner' \in [pc : {"range", "room"}, req : {cleaner.req}]
      /\ cleaner'.pc = "room" <=> cleaner.req \in mu'
    BY DEF CleanupCancel, TypeOK
<1> QED BY <1>1, <1>2, <1>3 DEF CleanupCancel

\* A frame that ends the response is its last one.
LEMMA SendEffect ==
    ASSUME TypeOK, AtWork, DeliverSend
    PROVE  /\ reader.pc = "select" /\ reader.req \in Requests /\ Channels(reader.req)
           /\ reader' \in Readers({"read", "delete"})
           /\ reader'.pc = "delete" =>
                reader'.req = reader.req /\ reader'.delivered /\ reader.req \in terminal'
           /\ mu' = mu \ {reader.req}
           /\ \/ terminal' = terminal \cup {reader.req} /\ EndsWell(ch'[reader.req])
              \/ terminal' = terminal
           /\ UNCHANGED <<sessVars, pending, prClosed, stopSet, after, callVars, read>>
<1> DEFINE r == reader.req  f == reader.frame
<1>1. r \in Requests /\ f \in AllFrames
    BY DEF DeliverSend, AtWork, TypeOK
<1>2. ch[r] \in Seq(AllFrames) /\ Len(ch[r]) \in Nat
    BY <1>1 DEF TypeOK
<1>3. /\ Append(ch[r], f) \in Seq(AllFrames)
      /\ Len(Append(ch[r], f)) <= Buffer
      /\ Terminal(f) => EndsWell(Append(ch[r], f))
    <2>1. Len(ch[r]) + 1 <= Buffer
        BY <1>2, RelayAssumption DEF DeliverSend, Full
    <2> HIDE DEF r, f
    <2>2. /\ Append(ch[r], f) \in Seq(AllFrames) /\ Append(ch[r], f) # <<>>
          /\ Len(Append(ch[r], f)) = Len(ch[r]) + 1
          /\ Append(ch[r], f)[Len(ch[r]) + 1] = f
        BY <1>1, <1>2, Appended
    <2> QED BY <1>1, <2>1, <2>2, FrameKinds DEF EndsWell
<1>4. ch' = [ch EXCEPT ![r] = Append(ch[r], f)]
    BY DEF DeliverSend
<1>5. Channels(r) /\ (Terminal(f) => EndsWell(ch'[r]))
    BY <1>1, <1>3, <1>4 DEF TypeOK, Channels
<1>6. /\ reader' \in Readers({"read", "delete"})
      /\ reader'.pc = "delete" => reader'.req = r /\ reader'.delivered /\ Terminal(f)
    BY AfterDeliveryType DEF DeliverSend
<1> QED BY <1>1, <1>5, <1>6 DEF DeliverSend

\* The caller goes on after a chunk only, and a frame that ends the response is
\* the last it receives.
LEMMA ReceiveEffect ==
    ASSUME TypeOK, NEW r \in Requests, Receive(r)
    PROVE  /\ Channels(r)
           /\ got' \in [Requests -> Seq(AllFrames)]
           /\ \A x \in Requests : x # r => got'[x] = got[x]
           /\ caller[r] = "consuming"
           /\ caller' \in [Requests -> Ended \cup {"idle", "stored", "sending",
                                "writing", "consuming", "closing"}]
           /\ \A x \in Requests : x # r => caller'[x] = caller[x]
           /\ caller'[r] \in {"consuming", "ok", "failed"}
           /\ caller'[r] = "consuming" => (EndsWell(ch[r]) => EndsWell(ch'[r]))
           /\ caller'[r] = "ok" => got'[r][Len(got'[r])].kind = "end"
           /\ UNCHANGED <<sessVars, pending, prClosed, terminal, mu, stopSet, after,
                          reader, ctxDone, written, read>>
<1> DEFINE f == Head(ch[r])
<1>1. ch[r] \in Seq(AllFrames) /\ ch[r] # <<>> /\ got[r] \in Seq(AllFrames)
    BY DEF TypeOK, Receive
<1>2. f \in AllFrames /\ Tail(ch[r]) \in Seq(AllFrames) /\ Len(Tail(ch[r])) = Len(ch[r]) - 1
      /\ Len(ch[r]) \in Nat
    BY <1>1, Received
<1>3. /\ Append(got[r], f) \in Seq(AllFrames)
      /\ Len(Append(got[r], f)) = Len(got[r]) + 1 /\ Append(got[r], f)[Len(got[r]) + 1] = f
    BY <1>1, <1>2, Appended
<1>4. Outcome(f) \in {"consuming", "ok", "failed"}
      /\ (Outcome(f) = "consuming" <=> f.kind = "chunk")
      /\ (Outcome(f) = "ok" <=> f.kind = "end")
    BY DEF Outcome
<1>5. /\ caller[r] = "consuming"
      /\ caller' = [caller EXCEPT ![r] = Outcome(f)]
      /\ ch' = [ch EXCEPT ![r] = Tail(ch[r])]
      /\ got' = [got EXCEPT ![r] = Append(got[r], f)]
    BY DEF Receive, At
<1>6. Channels(r)
    <2>1. ch \in [Requests -> Seq(AllFrames)] /\ \A x \in Requests : Len(ch[x]) <= Buffer
        BY DEF TypeOK
    <2>2. Len(Tail(ch[r])) <= Buffer
        BY <1>2, <2>1, RelayAssumption
    <2> HIDE DEF f
    <2> QED BY <1>2, <1>5, <2>1, <2>2 DEF Channels
<1>7. caller'[r] = "consuming" => (EndsWell(ch[r]) => EndsWell(ch'[r]))
    <2> SUFFICES ASSUME caller'[r] = "consuming", EndsWell(ch[r]) PROVE EndsWell(ch'[r])
        OBVIOUS
    <2>1. ch'[r] = Tail(ch[r]) /\ f.kind = "chunk"
        BY <1>4, <1>5 DEF TypeOK
    <2> QED BY <1>1, <2>1, ReceivedChunk
<1>8. caller'[r] = "ok" => got'[r][Len(got'[r])].kind = "end"
    BY <1>3, <1>4, <1>5 DEF TypeOK
<1>9. got' \in [Requests -> Seq(AllFrames)] /\ \A x \in Requests : x # r => got'[x] = got[x]
    BY <1>3, <1>5 DEF TypeOK
<1>10. /\ caller' \in [Requests -> Ended \cup {"idle", "stored", "sending",
                                "writing", "consuming", "closing"}]
       /\ \A x \in Requests : x # r => caller'[x] = caller[x]
       /\ caller'[r] \in {"consuming", "ok", "failed"}
    BY <1>4, <1>5 DEF TypeOK, Ended
<1> QED BY <1>5, <1>6, <1>7, <1>8, <1>9, <1>10 DEF Receive

-----------------------------------------------------------------------------
(* Every step keeps the invariant, part by part.                            *)

\* Steps keep the types, and channels within their buffer.
LEMMA TypeNext == RelayInv /\ Next => TypeOK'
<1> SUFFICES ASSUME RelayInv, Next PROVE TypeOK'
    OBVIOUS
<1> USE RelayAssumption DEF RelayInv, TypeOK, AtWork, Ended, sessVars, reqVars, callVars
<1>1. ASSUME NEW r \in Requests, NEW f \in Frames, Read(r, f) PROVE TypeOK'
    <2>1. reader' \in Readers({"lock"})
        BY <1>1, ReadingType, FrameKinds DEF Read, Readers
    <2>2. read' \in [Requests -> Seq(Frames)]
        BY <1>1 DEF Read
    <2> QED BY <1>1, <2>1, <2>2 DEF Read, Readers
<1>2. ASSUME DeliverLock PROVE TypeOK'
    BY <1>2, LockEffect DEF Readers
<1>3. ASSUME DeliverSend PROVE TypeOK'
    BY <1>3, SendEffect DEF Channels, Readers
<1>4. ASSUME DeliverGiveUp PROVE TypeOK'
    BY <1>4, AfterDeliveryType DEF DeliverGiveUp, GivesUp, Readers
<1>5. ASSUME DispatchDelete PROVE TypeOK'
    BY <1>5, ReadingType DEF DispatchDelete, Readers
<1>6. ASSUME DispatchSettle PROVE TypeOK'
    BY <1>6, SettleEffect DEF Closes, Channels, Readers
<1>7. ASSUME DispatchMakeRoom PROVE TypeOK'
    BY <1>7, RoomEffect, ReadingType DEF DispatchMakeRoom, makeRoom, Channels, Readers
<1>8. ASSUME NEW r \in Requests, NotConnected(r) PROVE TypeOK'
    BY <1>8 DEF NotConnected, At
<1>9. ASSUME NEW r \in Requests, Store(r) PROVE TypeOK'
    BY <1>9 DEF Store, At
<1>10. ASSUME NEW r \in Requests, setStopCancel(r) PROVE TypeOK'
    BY <1>10 DEF setStopCancel, At, Kept
<1>11. ASSUME NEW r \in Requests, SendCheck(r) PROVE TypeOK'
    BY <1>11 DEF SendCheck, At, SessionOpen
<1>12. ASSUME NEW r \in Requests, Write(r) PROVE TypeOK'
    BY <1>12 DEF Write, At
<1>13. ASSUME NEW r \in Requests, Undo(r) PROVE TypeOK'
    BY <1>13 DEF Undo, SessionOpen
<1>14. ASSUME NEW r \in Requests, UndoClose(r) PROVE TypeOK'
    BY <1>14, CloseEffect DEF UndoClose, At, Closes, Channels
<1>15. ASSUME NEW r \in Requests, Receive(r) PROVE TypeOK'
    BY <1>15, ReceiveEffect DEF Channels
<1>16. ASSUME NEW r \in Requests, ReceiveClosed(r) PROVE TypeOK'
    BY <1>16 DEF ReceiveClosed, At
<1>17. ASSUME NEW r \in Requests, ReceiveCancelled(r) PROVE TypeOK'
    BY <1>17 DEF ReceiveCancelled, At
<1>18. ASSUME NEW r \in Requests, Cancel(r) PROVE TypeOK'
    BY <1>18 DEF Cancel
<1>19. ASSUME NEW r \in Requests, AfterDelete(r) PROVE TypeOK'
    BY <1>19 DEF AfterDelete
<1>20. ASSUME NEW r \in Requests, AfterCancel(r) PROVE TypeOK'
    BY <1>20 DEF AfterCancel
<1>21. ASSUME CleanupBegin PROVE TypeOK'
    BY <1>21 DEF CleanupBegin
<1>22. ASSUME NEW r \in Requests, CleanupTake(r) PROVE TypeOK'
    BY <1>22 DEF CleanupTake
<1>23. ASSUME CleanupCancel PROVE TypeOK'
    BY <1>23, CleanupEffect DEF Closes, Channels
<1>24. ASSUME CleanupMakeRoom PROVE TypeOK'
    BY <1>24, RoomEffect DEF CleanupMakeRoom, makeRoom, Channels
<1>25. ASSUME CleanupDisconnect PROVE TypeOK'
    BY <1>25 DEF CleanupDisconnect
<1>26. ASSUME handleSessionClosed PROVE TypeOK'
    BY <1>26 DEF handleSessionClosed
<1> QED BY <1>1, <1>2, <1>3, <1>4, <1>5, <1>6, <1>7, <1>8, <1>9, <1>10, <1>11, <1>12,
    <1>13, <1>14, <1>15, <1>16, <1>17, <1>18, <1>19, <1>20, <1>21, <1>22, <1>23, <1>24,
    <1>25, <1>26 DEF Next, Dispatching, Calling, Cancelling, Cleaning

\* The reader and cleanup work on requests that were sent or stored.
LEMMA AtWorkNext == RelayInv /\ Next => AtWork'
<1> SUFFICES ASSUME RelayInv, Next PROVE AtWork'
    OBVIOUS
<1> USE RelayAssumption DEF RelayInv, TypeOK, AtWork, Ended, sessVars, reqVars, callVars
<1>1. ASSUME NEW r \in Requests, NEW f \in Frames, Read(r, f) PROVE AtWork'
    BY <1>1, ReadingType DEF Read, Readers
<1>2. ASSUME DeliverLock PROVE AtWork'
    BY <1>2, LockEffect DEF Readers
<1>3. ASSUME DeliverSend PROVE AtWork'
    BY <1>3, SendEffect DEF Channels, Readers
<1>4. ASSUME DeliverGiveUp PROVE AtWork'
    BY <1>4, AfterDeliveryType DEF DeliverGiveUp, GivesUp, Readers
<1>5. ASSUME DispatchDelete PROVE AtWork'
    BY <1>5, ReadingType DEF DispatchDelete, Readers
<1>6. ASSUME DispatchSettle PROVE AtWork'
    BY <1>6, SettleEffect DEF Closes, Channels, Readers
<1>7. ASSUME DispatchMakeRoom PROVE AtWork'
    BY <1>7, RoomEffect, ReadingType DEF DispatchMakeRoom, makeRoom, Channels, Readers
<1>8. ASSUME NEW r \in Requests, NotConnected(r) PROVE AtWork'
    BY <1>8 DEF NotConnected, At
<1>9. ASSUME NEW r \in Requests, Store(r) PROVE AtWork'
    BY <1>9 DEF Store, At
<1>10. ASSUME NEW r \in Requests, setStopCancel(r) PROVE AtWork'
    BY <1>10 DEF setStopCancel, At, Kept
<1>11. ASSUME NEW r \in Requests, SendCheck(r) PROVE AtWork'
    BY <1>11 DEF SendCheck, At, SessionOpen
<1>12. ASSUME NEW r \in Requests, Write(r) PROVE AtWork'
    BY <1>12 DEF Write, At
<1>13. ASSUME NEW r \in Requests, Undo(r) PROVE AtWork'
    BY <1>13 DEF Undo, SessionOpen
<1>14. ASSUME NEW r \in Requests, UndoClose(r) PROVE AtWork'
    BY <1>14, CloseEffect DEF UndoClose, At, Closes, Channels
<1>15. ASSUME NEW r \in Requests, Receive(r) PROVE AtWork'
    BY <1>15, ReceiveEffect DEF Channels
<1>16. ASSUME NEW r \in Requests, ReceiveClosed(r) PROVE AtWork'
    BY <1>16 DEF ReceiveClosed, At
<1>17. ASSUME NEW r \in Requests, ReceiveCancelled(r) PROVE AtWork'
    BY <1>17 DEF ReceiveCancelled, At
<1>18. ASSUME NEW r \in Requests, Cancel(r) PROVE AtWork'
    BY <1>18 DEF Cancel
<1>19. ASSUME NEW r \in Requests, AfterDelete(r) PROVE AtWork'
    BY <1>19 DEF AfterDelete
<1>20. ASSUME NEW r \in Requests, AfterCancel(r) PROVE AtWork'
    BY <1>20 DEF AfterCancel
<1>21. ASSUME CleanupBegin PROVE AtWork'
    BY <1>21 DEF CleanupBegin
<1>22. ASSUME NEW r \in Requests, CleanupTake(r) PROVE AtWork'
    BY <1>22 DEF CleanupTake
<1>23. ASSUME CleanupCancel PROVE AtWork'
    BY <1>23, CleanupEffect DEF Closes, Channels
<1>24. ASSUME CleanupMakeRoom PROVE AtWork'
    BY <1>24, RoomEffect DEF CleanupMakeRoom, makeRoom, Channels
<1>25. ASSUME CleanupDisconnect PROVE AtWork'
    BY <1>25 DEF CleanupDisconnect
<1>26. ASSUME handleSessionClosed PROVE AtWork'
    BY <1>26 DEF handleSessionClosed
<1> QED BY <1>1, <1>2, <1>3, <1>4, <1>5, <1>6, <1>7, <1>8, <1>9, <1>10, <1>11, <1>12,
    <1>13, <1>14, <1>15, <1>16, <1>17, <1>18, <1>19, <1>20, <1>21, <1>22, <1>23, <1>24,
    <1>25, <1>26 DEF Next, Dispatching, Calling, Cancelling, Cleaning

\* A request that is not stored yet stays without a trace.
LEMMA FreshNext == RelayInv /\ Next => Fresh'
<1> SUFFICES ASSUME RelayInv, Next PROVE Fresh'
    OBVIOUS
<1> USE RelayAssumption DEF RelayInv, TypeOK, Fresh, AtWork, Ended, sessVars, reqVars,
    callVars
<1>1. ASSUME NEW r \in Requests, NEW f \in Frames, Read(r, f) PROVE Fresh'
    BY <1>1, ReadingType DEF Read, Readers
<1>2. ASSUME DeliverLock PROVE Fresh'
    BY <1>2, LockEffect DEF Readers
<1>3. ASSUME DeliverSend PROVE Fresh'
    BY <1>3, SendEffect DEF Channels, Readers
<1>4. ASSUME DeliverGiveUp PROVE Fresh'
    BY <1>4, AfterDeliveryType DEF DeliverGiveUp, GivesUp, Readers
<1>5. ASSUME DispatchDelete PROVE Fresh'
    BY <1>5, ReadingType DEF DispatchDelete, Readers
<1>6. ASSUME DispatchSettle PROVE Fresh'
    <2>1. caller[reader.req] # "idle"
        BY <1>6, SettleEffect
    <2>2. \A x \in Requests : after[x] = "off" => after'[x] = "off"
        BY <1>6, SettleEffect DEF Closes
    <2> QED BY <1>6, <2>1, <2>2, SettleEffect DEF Closes
<1>7. ASSUME DispatchMakeRoom PROVE Fresh'
    BY <1>7, RoomEffect, ReadingType DEF DispatchMakeRoom, makeRoom, Channels, Readers
<1>8. ASSUME NEW r \in Requests, NotConnected(r) PROVE Fresh'
    BY <1>8 DEF NotConnected, At
<1>9. ASSUME NEW r \in Requests, Store(r) PROVE Fresh'
    BY <1>9 DEF Store, At
<1>10. ASSUME NEW r \in Requests, setStopCancel(r) PROVE Fresh'
    BY <1>10 DEF setStopCancel, At, Kept
<1>11. ASSUME NEW r \in Requests, SendCheck(r) PROVE Fresh'
    BY <1>11 DEF SendCheck, At, SessionOpen
<1>12. ASSUME NEW r \in Requests, Write(r) PROVE Fresh'
    BY <1>12 DEF Write, At
<1>13. ASSUME NEW r \in Requests, Undo(r) PROVE Fresh'
    BY <1>13 DEF Undo, SessionOpen
<1>14. ASSUME NEW r \in Requests, UndoClose(r) PROVE Fresh'
    BY <1>14, CloseEffect DEF UndoClose, At, Closes, Channels
<1>15. ASSUME NEW r \in Requests, Receive(r) PROVE Fresh'
    <2>1. \A x \in Requests : caller'[x] = "idle" => caller[x] = "idle"
        BY <1>15, ReceiveEffect
    <2> QED BY <1>15, <2>1, ReceiveEffect
<1>16. ASSUME NEW r \in Requests, ReceiveClosed(r) PROVE Fresh'
    BY <1>16 DEF ReceiveClosed, At
<1>17. ASSUME NEW r \in Requests, ReceiveCancelled(r) PROVE Fresh'
    BY <1>17 DEF ReceiveCancelled, At
<1>18. ASSUME NEW r \in Requests, Cancel(r) PROVE Fresh'
    BY <1>18 DEF Cancel
<1>19. ASSUME NEW r \in Requests, AfterDelete(r) PROVE Fresh'
    BY <1>19 DEF AfterDelete
<1>20. ASSUME NEW r \in Requests, AfterCancel(r) PROVE Fresh'
    BY <1>20 DEF AfterCancel
<1>21. ASSUME CleanupBegin PROVE Fresh'
    BY <1>21 DEF CleanupBegin
<1>22. ASSUME NEW r \in Requests, CleanupTake(r) PROVE Fresh'
    BY <1>22 DEF CleanupTake
<1>23. ASSUME CleanupCancel PROVE Fresh'
    BY <1>23, CleanupEffect DEF Closes, Channels
<1>24. ASSUME CleanupMakeRoom PROVE Fresh'
    BY <1>24, RoomEffect DEF CleanupMakeRoom, makeRoom, Channels
<1>25. ASSUME CleanupDisconnect PROVE Fresh'
    BY <1>25 DEF CleanupDisconnect
<1>26. ASSUME handleSessionClosed PROVE Fresh'
    BY <1>26 DEF handleSessionClosed
<1> QED BY <1>1, <1>2, <1>3, <1>4, <1>5, <1>6, <1>7, <1>8, <1>9, <1>10, <1>11, <1>12,
    <1>13, <1>14, <1>15, <1>16, <1>17, <1>18, <1>19, <1>20, <1>21, <1>22, <1>23, <1>24,
    <1>25, <1>26 DEF Next, Dispatching, Calling, Cancelling, Cleaning

\* The mutex stays with the one who holds it, and nobody closes under the sender.
LEMMA MutexNext == RelayInv /\ Next => MutexInv'
<1> SUFFICES ASSUME RelayInv, Next PROVE MutexInv'
    OBVIOUS
<1> USE RelayAssumption DEF RelayInv, TypeOK, MutexInv, AtWork, OwnerInv, Ended,
    MutexHeld, Settles, Cleans, Taken, Undoes, sessVars, reqVars, callVars
<1>1. ASSUME NEW r \in Requests, NEW f \in Frames, Read(r, f) PROVE MutexInv'
    BY <1>1, ReadingType DEF Read, Readers
<1>2. ASSUME DeliverLock PROVE MutexInv'
    BY <1>2, LockEffect DEF Readers
<1>3. ASSUME DeliverSend PROVE MutexInv'
    BY <1>3, SendEffect DEF Channels, Readers
<1>4. ASSUME DeliverGiveUp PROVE MutexInv'
    BY <1>4, AfterDeliveryType DEF DeliverGiveUp, GivesUp, Readers
<1>5. ASSUME DispatchDelete PROVE MutexInv'
    BY <1>5, ReadingType DEF DispatchDelete, Readers
<1>6. ASSUME DispatchSettle PROVE MutexInv'
    BY <1>6, SettleEffect DEF Closes, Channels, Readers
<1>7. ASSUME DispatchMakeRoom PROVE MutexInv'
    BY <1>7, RoomEffect, ReadingType DEF DispatchMakeRoom, makeRoom, Channels, Readers
<1>8. ASSUME NEW r \in Requests, NotConnected(r) PROVE MutexInv'
    BY <1>8 DEF NotConnected, At
<1>9. ASSUME NEW r \in Requests, Store(r) PROVE MutexInv'
    BY <1>9 DEF Store, At
<1>10. ASSUME NEW r \in Requests, setStopCancel(r) PROVE MutexInv'
    BY <1>10 DEF setStopCancel, At, Kept
<1>11. ASSUME NEW r \in Requests, SendCheck(r) PROVE MutexInv'
    BY <1>11 DEF SendCheck, At, SessionOpen
<1>12. ASSUME NEW r \in Requests, Write(r) PROVE MutexInv'
    BY <1>12 DEF Write, At
<1>13. ASSUME NEW r \in Requests, Undo(r) PROVE MutexInv'
    BY <1>13 DEF Undo, SessionOpen
<1>14. ASSUME NEW r \in Requests, UndoClose(r) PROVE MutexInv'
    BY <1>14, CloseEffect DEF UndoClose, At, Closes, Channels
<1>15. ASSUME NEW r \in Requests, Receive(r) PROVE MutexInv'
    BY <1>15, ReceiveEffect DEF Channels
<1>16. ASSUME NEW r \in Requests, ReceiveClosed(r) PROVE MutexInv'
    BY <1>16 DEF ReceiveClosed, At
<1>17. ASSUME NEW r \in Requests, ReceiveCancelled(r) PROVE MutexInv'
    BY <1>17 DEF ReceiveCancelled, At
<1>18. ASSUME NEW r \in Requests, Cancel(r) PROVE MutexInv'
    BY <1>18 DEF Cancel
<1>19. ASSUME NEW r \in Requests, AfterDelete(r) PROVE MutexInv'
    BY <1>19 DEF AfterDelete
<1>20. ASSUME NEW r \in Requests, AfterCancel(r) PROVE MutexInv'
    BY <1>20 DEF AfterCancel
<1>21. ASSUME CleanupBegin PROVE MutexInv'
    BY <1>21 DEF CleanupBegin
<1>22. ASSUME NEW r \in Requests, CleanupTake(r) PROVE MutexInv'
    BY <1>22 DEF CleanupTake
<1>23. ASSUME CleanupCancel PROVE MutexInv'
    BY <1>23, CleanupEffect DEF Closes, Channels
<1>24. ASSUME CleanupMakeRoom PROVE MutexInv'
    BY <1>24, RoomEffect DEF CleanupMakeRoom, makeRoom, Channels
<1>25. ASSUME CleanupDisconnect PROVE MutexInv'
    BY <1>25 DEF CleanupDisconnect
<1>26. ASSUME handleSessionClosed PROVE MutexInv'
    BY <1>26 DEF handleSessionClosed
<1> QED BY <1>1, <1>2, <1>3, <1>4, <1>5, <1>6, <1>7, <1>8, <1>9, <1>10, <1>11, <1>12,
    <1>13, <1>14, <1>15, <1>16, <1>17, <1>18, <1>19, <1>20, <1>21, <1>22, <1>23, <1>24,
    <1>25, <1>26 DEF Next, Dispatching, Calling, Cancelling, Cleaning

\* LoadAndDelete gives a request to one party, which closes it once.
LEMMA OwnerNext == RelayInv /\ Next => OwnerInv'
<1> SUFFICES ASSUME RelayInv, Next PROVE OwnerInv'
    OBVIOUS
<1> USE RelayAssumption DEF RelayInv, TypeOK, OwnerInv, AtWork, Fresh, MutexInv, Ended,
    Settles, Cleans, Taken, Undoes, MutexHeld, sessVars, reqVars, callVars
<1>1. ASSUME NEW r \in Requests, NEW f \in Frames, Read(r, f) PROVE OwnerInv'
    BY <1>1, ReadingType DEF Read, Readers
<1>2. ASSUME DeliverLock PROVE OwnerInv'
    BY <1>2, LockEffect DEF Readers
<1>3. ASSUME DeliverSend PROVE OwnerInv'
    BY <1>3, SendEffect DEF Channels, Readers
<1>4. ASSUME DeliverGiveUp PROVE OwnerInv'
    BY <1>4, AfterDeliveryType DEF DeliverGiveUp, GivesUp, Readers
<1>5. ASSUME DispatchDelete PROVE OwnerInv'
    BY <1>5, ReadingType DEF DispatchDelete, Readers
<1>6. ASSUME DispatchSettle PROVE OwnerInv'
    <2>1. \A x \in Requests : after'[x] = "took" => after[x] = "took"
        BY <1>6, SettleEffect DEF Closes
    <2>2. reader'.pc # "settle" /\ prClosed' = prClosed \cup {reader.req}
        BY <1>6, SettleEffect DEF Closes, Readers
    <2> QED BY <1>6, <2>1, <2>2, SettleEffect
<1>7. ASSUME DispatchMakeRoom PROVE OwnerInv'
    BY <1>7, RoomEffect, ReadingType DEF DispatchMakeRoom, makeRoom, Channels, Readers
<1>8. ASSUME NEW r \in Requests, NotConnected(r) PROVE OwnerInv'
    BY <1>8 DEF NotConnected, At
<1>9. ASSUME NEW r \in Requests, Store(r) PROVE OwnerInv'
    BY <1>9 DEF Store, At
<1>10. ASSUME NEW r \in Requests, setStopCancel(r) PROVE OwnerInv'
    BY <1>10 DEF setStopCancel, At, Kept
<1>11. ASSUME NEW r \in Requests, SendCheck(r) PROVE OwnerInv'
    BY <1>11 DEF SendCheck, At, SessionOpen
<1>12. ASSUME NEW r \in Requests, Write(r) PROVE OwnerInv'
    BY <1>12 DEF Write, At
<1>13. ASSUME NEW r \in Requests, Undo(r) PROVE OwnerInv'
    BY <1>13 DEF Undo, SessionOpen
<1>14. ASSUME NEW r \in Requests, UndoClose(r) PROVE OwnerInv'
    BY <1>14, CloseEffect DEF UndoClose, At, Closes, Channels
<1>15. ASSUME NEW r \in Requests, Receive(r) PROVE OwnerInv'
    <2>1. \A x \in Requests : caller'[x] = "closing" => caller[x] = "closing"
        BY <1>15, ReceiveEffect
    <2> QED BY <1>15, <2>1, ReceiveEffect
<1>16. ASSUME NEW r \in Requests, ReceiveClosed(r) PROVE OwnerInv'
    BY <1>16 DEF ReceiveClosed, At
<1>17. ASSUME NEW r \in Requests, ReceiveCancelled(r) PROVE OwnerInv'
    BY <1>17 DEF ReceiveCancelled, At
<1>18. ASSUME NEW r \in Requests, Cancel(r) PROVE OwnerInv'
    BY <1>18 DEF Cancel
<1>19. ASSUME NEW r \in Requests, AfterDelete(r) PROVE OwnerInv'
    BY <1>19 DEF AfterDelete
<1>20. ASSUME NEW r \in Requests, AfterCancel(r) PROVE OwnerInv'
    BY <1>20 DEF AfterCancel
<1>21. ASSUME CleanupBegin PROVE OwnerInv'
    BY <1>21 DEF CleanupBegin
<1>22. ASSUME NEW r \in Requests, CleanupTake(r) PROVE OwnerInv'
    BY <1>22 DEF CleanupTake
<1>23. ASSUME CleanupCancel PROVE OwnerInv'
    BY <1>23, CleanupEffect DEF Closes, Channels
<1>24. ASSUME CleanupMakeRoom PROVE OwnerInv'
    BY <1>24, RoomEffect DEF CleanupMakeRoom, makeRoom, Channels
<1>25. ASSUME CleanupDisconnect PROVE OwnerInv'
    BY <1>25 DEF CleanupDisconnect
<1>26. ASSUME handleSessionClosed PROVE OwnerInv'
    BY <1>26 DEF handleSessionClosed
<1> QED BY <1>1, <1>2, <1>3, <1>4, <1>5, <1>6, <1>7, <1>8, <1>9, <1>10, <1>11, <1>12,
    <1>13, <1>14, <1>15, <1>16, <1>17, <1>18, <1>19, <1>20, <1>21, <1>22, <1>23, <1>24,
    <1>25, <1>26 DEF Next, Dispatching, Calling, Cancelling, Cleaning

\* Who closes a request stops its callback, but for an early cleanup.
LEMMA StopNext == RelayInv /\ Next => StopInv'
<1> SUFFICES ASSUME RelayInv, Next PROVE StopInv'
    OBVIOUS
<1> USE RelayAssumption DEF RelayInv, TypeOK, StopInv, AtWork, Fresh, OwnerInv, Ended,
    Settles, Cleans, Taken, Undoes, sessVars, reqVars, callVars
<1>1. ASSUME NEW r \in Requests, NEW f \in Frames, Read(r, f) PROVE StopInv'
    BY <1>1, ReadingType DEF Read, Readers
<1>2. ASSUME DeliverLock PROVE StopInv'
    BY <1>2, LockEffect DEF Readers
<1>3. ASSUME DeliverSend PROVE StopInv'
    BY <1>3, SendEffect DEF Channels, Readers
<1>4. ASSUME DeliverGiveUp PROVE StopInv'
    BY <1>4, AfterDeliveryType DEF DeliverGiveUp, GivesUp, Readers
<1>5. ASSUME DispatchDelete PROVE StopInv'
    BY <1>5, ReadingType DEF DispatchDelete, Readers
<1>6. ASSUME DispatchSettle PROVE StopInv'
    BY <1>6, SettleEffect DEF Closes, Channels, Readers
<1>7. ASSUME DispatchMakeRoom PROVE StopInv'
    BY <1>7, RoomEffect, ReadingType DEF DispatchMakeRoom, makeRoom, Channels, Readers
<1>8. ASSUME NEW r \in Requests, NotConnected(r) PROVE StopInv'
    BY <1>8 DEF NotConnected, At
<1>9. ASSUME NEW r \in Requests, Store(r) PROVE StopInv'
    BY <1>9 DEF Store, At
<1>10. ASSUME NEW r \in Requests, setStopCancel(r) PROVE StopInv'
    BY <1>10 DEF setStopCancel, At, Kept
<1>11. ASSUME NEW r \in Requests, SendCheck(r) PROVE StopInv'
    BY <1>11 DEF SendCheck, At, SessionOpen
<1>12. ASSUME NEW r \in Requests, Write(r) PROVE StopInv'
    BY <1>12 DEF Write, At
<1>13. ASSUME NEW r \in Requests, Undo(r) PROVE StopInv'
    BY <1>13 DEF Undo, SessionOpen
<1>14. ASSUME NEW r \in Requests, UndoClose(r) PROVE StopInv'
    BY <1>14, CloseEffect DEF UndoClose, At, Closes, Channels
<1>15. ASSUME NEW r \in Requests, Receive(r) PROVE StopInv'
    <2>1. \A x \in Requests :
            caller'[x] \in {"sending", "writing", "consuming", "closing"} =>
                caller[x] \in {"sending", "writing", "consuming", "closing"}
        BY <1>15, ReceiveEffect
    <2> QED BY <1>15, <2>1, ReceiveEffect
<1>16. ASSUME NEW r \in Requests, ReceiveClosed(r) PROVE StopInv'
    BY <1>16 DEF ReceiveClosed, At
<1>17. ASSUME NEW r \in Requests, ReceiveCancelled(r) PROVE StopInv'
    BY <1>17 DEF ReceiveCancelled, At
<1>18. ASSUME NEW r \in Requests, Cancel(r) PROVE StopInv'
    BY <1>18 DEF Cancel
<1>19. ASSUME NEW r \in Requests, AfterDelete(r) PROVE StopInv'
    BY <1>19 DEF AfterDelete
<1>20. ASSUME NEW r \in Requests, AfterCancel(r) PROVE StopInv'
    BY <1>20 DEF AfterCancel
<1>21. ASSUME CleanupBegin PROVE StopInv'
    BY <1>21 DEF CleanupBegin
<1>22. ASSUME NEW r \in Requests, CleanupTake(r) PROVE StopInv'
    BY <1>22 DEF CleanupTake
<1>23. ASSUME CleanupCancel PROVE StopInv'
    BY <1>23, CleanupEffect DEF Closes, Channels
<1>24. ASSUME CleanupMakeRoom PROVE StopInv'
    BY <1>24, RoomEffect DEF CleanupMakeRoom, makeRoom, Channels
<1>25. ASSUME CleanupDisconnect PROVE StopInv'
    BY <1>25 DEF CleanupDisconnect
<1>26. ASSUME handleSessionClosed PROVE StopInv'
    BY <1>26 DEF handleSessionClosed
<1> QED BY <1>1, <1>2, <1>3, <1>4, <1>5, <1>6, <1>7, <1>8, <1>9, <1>10, <1>11, <1>12,
    <1>13, <1>14, <1>15, <1>16, <1>17, <1>18, <1>19, <1>20, <1>21, <1>22, <1>23, <1>24,
    <1>25, <1>26 DEF Next, Dispatching, Calling, Cancelling, Cleaning

\* A request in use does not lose the party that will close it.
LEMMA LiveNext == RelayInv /\ Next => LiveInv'
<1> SUFFICES ASSUME RelayInv, Next PROVE LiveInv'
    OBVIOUS
<1> USE RelayAssumption DEF RelayInv, TypeOK, LiveInv, AtWork, Fresh, OwnerInv, Ended,
    Settles, Cleans, Taken, Undoes, sessVars, reqVars, callVars
<1>1. ASSUME NEW r \in Requests, NEW f \in Frames, Read(r, f) PROVE LiveInv'
    BY <1>1, ReadingType DEF Read, Readers
<1>2. ASSUME DeliverLock PROVE LiveInv'
    BY <1>2, LockEffect DEF Readers
<1>3. ASSUME DeliverSend PROVE LiveInv'
    BY <1>3, SendEffect DEF Channels, Readers
<1>4. ASSUME DeliverGiveUp PROVE LiveInv'
    BY <1>4, AfterDeliveryType DEF DeliverGiveUp, GivesUp, Readers
<1>5. ASSUME DispatchDelete PROVE LiveInv'
    BY <1>5, ReadingType DEF DispatchDelete, Readers
<1>6. ASSUME DispatchSettle PROVE LiveInv'
    BY <1>6, SettleEffect DEF Closes, Channels, Readers
<1>7. ASSUME DispatchMakeRoom PROVE LiveInv'
    BY <1>7, RoomEffect, ReadingType DEF DispatchMakeRoom, makeRoom, Channels, Readers
<1>8. ASSUME NEW r \in Requests, NotConnected(r) PROVE LiveInv'
    BY <1>8 DEF NotConnected, At
<1>9. ASSUME NEW r \in Requests, Store(r) PROVE LiveInv'
    BY <1>9 DEF Store, At
<1>10. ASSUME NEW r \in Requests, setStopCancel(r) PROVE LiveInv'
    BY <1>10 DEF setStopCancel, At, Kept
<1>11. ASSUME NEW r \in Requests, SendCheck(r) PROVE LiveInv'
    BY <1>11 DEF SendCheck, At, SessionOpen
<1>12. ASSUME NEW r \in Requests, Write(r) PROVE LiveInv'
    BY <1>12 DEF Write, At
<1>13. ASSUME NEW r \in Requests, Undo(r) PROVE LiveInv'
    BY <1>13 DEF Undo, SessionOpen
<1>14. ASSUME NEW r \in Requests, UndoClose(r) PROVE LiveInv'
    BY <1>14, CloseEffect DEF UndoClose, At, Closes, Channels
<1>15. ASSUME NEW r \in Requests, Receive(r) PROVE LiveInv'
    <2>1. \A x \in Requests :
            /\ caller'[x] \in {"stored", "sending", "writing", "consuming"} =>
                caller[x] \in {"stored", "sending", "writing", "consuming"}
            /\ caller'[x] \in {"writing", "consuming"} => caller[x] \in {"writing", "consuming"}
        BY <1>15, ReceiveEffect
    <2>2. UNCHANGED <<pending, prClosed, after, reader, cleaner, closed, todo>>
        BY <1>15, ReceiveEffect
    <2> QED BY <2>1, <2>2
<1>16. ASSUME NEW r \in Requests, ReceiveClosed(r) PROVE LiveInv'
    BY <1>16 DEF ReceiveClosed, At
<1>17. ASSUME NEW r \in Requests, ReceiveCancelled(r) PROVE LiveInv'
    BY <1>17 DEF ReceiveCancelled, At
<1>18. ASSUME NEW r \in Requests, Cancel(r) PROVE LiveInv'
    BY <1>18 DEF Cancel
<1>19. ASSUME NEW r \in Requests, AfterDelete(r) PROVE LiveInv'
    BY <1>19 DEF AfterDelete
<1>20. ASSUME NEW r \in Requests, AfterCancel(r) PROVE LiveInv'
    BY <1>20 DEF AfterCancel
<1>21. ASSUME CleanupBegin PROVE LiveInv'
    BY <1>21 DEF CleanupBegin
<1>22. ASSUME NEW r \in Requests, CleanupTake(r) PROVE LiveInv'
    BY <1>22 DEF CleanupTake
<1>23. ASSUME CleanupCancel PROVE LiveInv'
    BY <1>23, CleanupEffect DEF Closes, Channels
<1>24. ASSUME CleanupMakeRoom PROVE LiveInv'
    BY <1>24, RoomEffect DEF CleanupMakeRoom, makeRoom, Channels
<1>25. ASSUME CleanupDisconnect PROVE LiveInv'
    BY <1>25 DEF CleanupDisconnect
<1>26. ASSUME handleSessionClosed PROVE LiveInv'
    BY <1>26 DEF handleSessionClosed
<1> QED BY <1>1, <1>2, <1>3, <1>4, <1>5, <1>6, <1>7, <1>8, <1>9, <1>10, <1>11, <1>12,
    <1>13, <1>14, <1>15, <1>16, <1>17, <1>18, <1>19, <1>20, <1>21, <1>22, <1>23, <1>24,
    <1>25, <1>26 DEF Next, Dispatching, Calling, Cancelling, Cleaning

\* A closed response ends with a terminal frame or a cause.
LEMMA EndNext == RelayInv /\ Next => EndInv'
<1> SUFFICES ASSUME RelayInv, Next PROVE EndInv'
    OBVIOUS
<1> USE RelayAssumption DEF RelayInv, TypeOK, EndInv, AtWork, Fresh, MutexInv, OwnerInv,
    Ended, ResponseEnds, DeliveryKnown, InUse, ChClosed, Taken, MutexHeld, Settles,
    Cleans, Undoes, sessVars, reqVars, callVars
<1>1. ASSUME NEW r \in Requests, NEW f \in Frames, Read(r, f) PROVE EndInv'
    BY <1>1, ReadingType DEF Read, Readers
<1>2. ASSUME DeliverLock PROVE EndInv'
    BY <1>2, LockEffect DEF Readers
<1>3. ASSUME DeliverSend PROVE EndInv'
    <2>1. \A x \in Requests :
            (InUse(x) /\ x \notin ctxDone /\ (x \in terminal \/ ChClosed(x)))' => EndsWell(ch'[x])
        <3> SUFFICES ASSUME NEW x \in Requests, InUse(x)', x \notin ctxDone',
                            (x \in terminal \/ ChClosed(x))'
                     PROVE  EndsWell(ch'[x])
            OBVIOUS
        <3>1. x \notin prClosed \/ x # reader.req
            BY <1>3, SendEffect
        <3>2. CASE x # reader.req
            BY <1>3, <3>2, SendEffect DEF Channels
        <3>3. CASE x = reader.req
            BY <1>3, <3>1, <3>3, SendEffect
        <3> QED BY <3>2, <3>3
    <2> QED BY <1>3, <2>1, SendEffect DEF Readers
<1>4. ASSUME DeliverGiveUp PROVE EndInv'
    BY <1>4, AfterDeliveryType DEF DeliverGiveUp, GivesUp, Readers
<1>5. ASSUME DispatchDelete PROVE EndInv'
    BY <1>5, ReadingType DEF DispatchDelete, Readers
<1>6. ASSUME DispatchSettle PROVE EndInv'
    <2>1. \A x \in Requests :
            (InUse(x) /\ x \notin ctxDone /\ (x \in terminal \/ ChClosed(x)))' => EndsWell(ch'[x])
        <3> SUFFICES ASSUME NEW x \in Requests, InUse(x)', x \notin ctxDone',
                            (x \in terminal \/ ChClosed(x))'
                     PROVE  EndsWell(ch'[x])
            OBVIOUS
        <3>1. CASE x # reader.req
            BY <1>6, <3>1, SettleEffect DEF Closes, Channels
        <3>2. CASE x = reader.req
            <4>1. x \notin prClosed
                BY <1>6, <3>2, SettleEffect
            <4>2. CASE x \in terminal
                BY <1>6, <3>2, <4>2, SettleEffect DEF Closes
            <4>3. CASE x \notin terminal
                <5>1. ~ reader.delivered /\ HasCause
                    BY <1>6, <3>2, <4>1, <4>3, SettleEffect DEF HasCause
                <5> QED BY <1>6, <3>2, <4>1, <4>3, <5>1, SettleEffect DEF Closes
            <4> QED BY <4>2, <4>3
        <3> QED BY <3>1, <3>2
    <2> QED BY <1>6, <2>1, SettleEffect DEF Closes, Readers
<1>7. ASSUME DispatchMakeRoom PROVE EndInv'
    BY <1>7, RoomEffect, ReadingType DEF DispatchMakeRoom, makeRoom, Channels, Readers
<1>8. ASSUME NEW r \in Requests, NotConnected(r) PROVE EndInv'
    BY <1>8 DEF NotConnected, At
<1>9. ASSUME NEW r \in Requests, Store(r) PROVE EndInv'
    BY <1>9 DEF Store, At
<1>10. ASSUME NEW r \in Requests, setStopCancel(r) PROVE EndInv'
    BY <1>10 DEF setStopCancel, At, Kept
<1>11. ASSUME NEW r \in Requests, SendCheck(r) PROVE EndInv'
    BY <1>11 DEF SendCheck, At, SessionOpen
<1>12. ASSUME NEW r \in Requests, Write(r) PROVE EndInv'
    BY <1>12 DEF Write, At
<1>13. ASSUME NEW r \in Requests, Undo(r) PROVE EndInv'
    BY <1>13 DEF Undo, SessionOpen
<1>14. ASSUME NEW r \in Requests, UndoClose(r) PROVE EndInv'
    BY <1>14, CloseEffect DEF UndoClose, At, Closes, Channels
<1>15. ASSUME NEW r \in Requests, Receive(r) PROVE EndInv'
    BY <1>15, ReceiveEffect DEF Channels
<1>16. ASSUME NEW r \in Requests, ReceiveClosed(r) PROVE EndInv'
    BY <1>16 DEF ReceiveClosed, At
<1>17. ASSUME NEW r \in Requests, ReceiveCancelled(r) PROVE EndInv'
    BY <1>17 DEF ReceiveCancelled, At
<1>18. ASSUME NEW r \in Requests, Cancel(r) PROVE EndInv'
    BY <1>18 DEF Cancel
<1>19. ASSUME NEW r \in Requests, AfterDelete(r) PROVE EndInv'
    BY <1>19 DEF AfterDelete
<1>20. ASSUME NEW r \in Requests, AfterCancel(r) PROVE EndInv'
    BY <1>20 DEF AfterCancel
<1>21. ASSUME CleanupBegin PROVE EndInv'
    BY <1>21 DEF CleanupBegin
<1>22. ASSUME NEW r \in Requests, CleanupTake(r) PROVE EndInv'
    BY <1>22 DEF CleanupTake
<1>23. ASSUME CleanupCancel PROVE EndInv'
    <2>1. \A x \in Requests :
            (InUse(x) /\ x \notin ctxDone /\ (x \in terminal \/ ChClosed(x)))' => EndsWell(ch'[x])
        <3> SUFFICES ASSUME NEW x \in Requests, InUse(x)', x \notin ctxDone',
                            (x \in terminal \/ ChClosed(x))'
                     PROVE  EndsWell(ch'[x])
            OBVIOUS
        <3>1. CASE x # cleaner.req
            BY <1>23, <3>1, CleanupEffect DEF Closes, Channels
        <3>2. CASE x = cleaner.req
            <4>1. x \notin prClosed
                BY <1>23, <3>2, CleanupEffect
            <4> QED BY <1>23, <3>2, <4>1, CleanupEffect DEF Closes
        <3> QED BY <3>1, <3>2
    <2> QED BY <1>23, <2>1, CleanupEffect DEF Closes
<1>24. ASSUME CleanupMakeRoom PROVE EndInv'
    <2>1. cleaner.req \in Requests /\ Channels(cleaner.req) /\ EndsWell(ch'[cleaner.req])
        BY <1>24, RoomEffect DEF CleanupMakeRoom
    <2> QED BY <1>24, <2>1 DEF CleanupMakeRoom, makeRoom, Channels
<1>25. ASSUME CleanupDisconnect PROVE EndInv'
    BY <1>25 DEF CleanupDisconnect
<1>26. ASSUME handleSessionClosed PROVE EndInv'
    BY <1>26 DEF handleSessionClosed
<1> QED BY <1>1, <1>2, <1>3, <1>4, <1>5, <1>6, <1>7, <1>8, <1>9, <1>10, <1>11, <1>12,
    <1>13, <1>14, <1>15, <1>16, <1>17, <1>18, <1>19, <1>20, <1>21, <1>22, <1>23, <1>24,
    <1>25, <1>26 DEF Next, Dispatching, Calling, Cancelling, Cleaning

\* A caller succeeds only with the frame that ends the response.
LEMMA SuccessNext == RelayInv /\ Next => SuccessMeansEnd'
<1> SUFFICES ASSUME RelayInv, Next PROVE SuccessMeansEnd'
    OBVIOUS
<1> USE RelayAssumption DEF RelayInv, TypeOK, SuccessMeansEnd, AtWork, MutexInv, EndInv,
    Ended, MutexHeld, ResponseEnds, DeliveryKnown, InUse, ChClosed, Taken, sessVars,
    reqVars, callVars
<1>1. ASSUME NEW r \in Requests, NEW f \in Frames, Read(r, f) PROVE SuccessMeansEnd'
    BY <1>1, ReadingType DEF Read, Readers
<1>2. ASSUME DeliverLock PROVE SuccessMeansEnd'
    BY <1>2, LockEffect DEF Readers
<1>3. ASSUME DeliverSend PROVE SuccessMeansEnd'
    BY <1>3, SendEffect DEF Channels, Readers
<1>4. ASSUME DeliverGiveUp PROVE SuccessMeansEnd'
    BY <1>4, AfterDeliveryType DEF DeliverGiveUp, GivesUp, Readers
<1>5. ASSUME DispatchDelete PROVE SuccessMeansEnd'
    BY <1>5, ReadingType DEF DispatchDelete, Readers
<1>6. ASSUME DispatchSettle PROVE SuccessMeansEnd'
    BY <1>6, SettleEffect DEF Closes, Channels, Readers
<1>7. ASSUME DispatchMakeRoom PROVE SuccessMeansEnd'
    BY <1>7, RoomEffect, ReadingType DEF DispatchMakeRoom, makeRoom, Channels, Readers
<1>8. ASSUME NEW r \in Requests, NotConnected(r) PROVE SuccessMeansEnd'
    BY <1>8 DEF NotConnected, At
<1>9. ASSUME NEW r \in Requests, Store(r) PROVE SuccessMeansEnd'
    BY <1>9 DEF Store, At
<1>10. ASSUME NEW r \in Requests, setStopCancel(r) PROVE SuccessMeansEnd'
    BY <1>10 DEF setStopCancel, At, Kept
<1>11. ASSUME NEW r \in Requests, SendCheck(r) PROVE SuccessMeansEnd'
    BY <1>11 DEF SendCheck, At, SessionOpen
<1>12. ASSUME NEW r \in Requests, Write(r) PROVE SuccessMeansEnd'
    BY <1>12 DEF Write, At
<1>13. ASSUME NEW r \in Requests, Undo(r) PROVE SuccessMeansEnd'
    BY <1>13 DEF Undo, SessionOpen
<1>14. ASSUME NEW r \in Requests, UndoClose(r) PROVE SuccessMeansEnd'
    BY <1>14, CloseEffect DEF UndoClose, At, Closes, Channels
<1>15. ASSUME NEW r \in Requests, Receive(r) PROVE SuccessMeansEnd'
    <2> SUFFICES ASSUME NEW x \in Requests, caller'[x] = "ok", x \notin ctxDone'
                 PROVE  got'[x][Len(got'[x])].kind = "end"
        OBVIOUS
    <2>1. CASE x = r
        BY <1>15, <2>1, ReceiveEffect
    <2>2. CASE x # r
        <3>1. caller'[x] = caller[x] /\ got'[x] = got[x] /\ ctxDone' = ctxDone
            BY <1>15, <2>2, ReceiveEffect
        <3> QED BY <3>1
    <2> QED BY <2>1, <2>2
<1>16. ASSUME NEW r \in Requests, ReceiveClosed(r) PROVE SuccessMeansEnd'
    <2>1. r \in ctxDone \/ caller'[r] = "failed"
        <3>1. ~ EndsWell(ch[r]) /\ caller[r] = "consuming" /\ ChClosed(r)
            BY <1>16 DEF ReceiveClosed, At, EndsWell
        <3> QED BY <3>1
    <2> QED BY <1>16, <2>1 DEF ReceiveClosed, At
<1>17. ASSUME NEW r \in Requests, ReceiveCancelled(r) PROVE SuccessMeansEnd'
    BY <1>17 DEF ReceiveCancelled, At
<1>18. ASSUME NEW r \in Requests, Cancel(r) PROVE SuccessMeansEnd'
    BY <1>18 DEF Cancel
<1>19. ASSUME NEW r \in Requests, AfterDelete(r) PROVE SuccessMeansEnd'
    BY <1>19 DEF AfterDelete
<1>20. ASSUME NEW r \in Requests, AfterCancel(r) PROVE SuccessMeansEnd'
    BY <1>20 DEF AfterCancel
<1>21. ASSUME CleanupBegin PROVE SuccessMeansEnd'
    BY <1>21 DEF CleanupBegin
<1>22. ASSUME NEW r \in Requests, CleanupTake(r) PROVE SuccessMeansEnd'
    BY <1>22 DEF CleanupTake
<1>23. ASSUME CleanupCancel PROVE SuccessMeansEnd'
    BY <1>23, CleanupEffect DEF Closes, Channels
<1>24. ASSUME CleanupMakeRoom PROVE SuccessMeansEnd'
    BY <1>24, RoomEffect DEF CleanupMakeRoom, makeRoom, Channels
<1>25. ASSUME CleanupDisconnect PROVE SuccessMeansEnd'
    BY <1>25 DEF CleanupDisconnect
<1>26. ASSUME handleSessionClosed PROVE SuccessMeansEnd'
    BY <1>26 DEF handleSessionClosed
<1> QED BY <1>1, <1>2, <1>3, <1>4, <1>5, <1>6, <1>7, <1>8, <1>9, <1>10, <1>11, <1>12,
    <1>13, <1>14, <1>15, <1>16, <1>17, <1>18, <1>19, <1>20, <1>21, <1>22, <1>23, <1>24,
    <1>25, <1>26 DEF Next, Dispatching, Calling, Cancelling, Cleaning

-----------------------------------------------------------------------------
(* The theorems.                                                           *)

\* The invariant holds in the initial state,
LEMMA RelayInvInit == Init => RelayInv
<1> SUFFICES ASSUME Init PROVE RelayInv
    OBVIOUS
<1> USE RelayAssumption DEF Init
<1>1. TypeOK
    <2>1. reader \in Readers({"read"})
        BY ReadingType
    <2>2. /\ ch \in [Requests -> Seq(AllFrames)] /\ \A r \in Requests : Len(ch[r]) <= Buffer
          /\ read \in [Requests -> Seq(Frames)] /\ got \in [Requests -> Seq(AllFrames)]
        OBVIOUS
    <2> QED BY <2>1, <2>2 DEF TypeOK, Readers
<1>2. AtWork /\ Fresh /\ MutexInv /\ OwnerInv
    BY ReadingType DEF AtWork, Fresh, MutexInv, MutexHeld, OwnerInv, Settles, Cleans, Taken, Undoes
<1>3. StopInv /\ LiveInv /\ SuccessMeansEnd
    BY DEF StopInv, LiveInv, SuccessMeansEnd
<1>4. EndInv
    BY ReadingType DEF EndInv, ResponseEnds, DeliveryKnown, InUse, Taken
<1> QED BY <1>1, <1>2, <1>3, <1>4 DEF RelayInv

\* is kept by every step,
LEMMA RelayInvNext == RelayInv /\ [Next]_vars => RelayInv'
<1>1. RelayInv /\ Next => RelayInv'
    BY TypeNext, AtWorkNext, FreshNext, MutexNext, OwnerNext, StopNext, LiveNext, EndNext,
       SuccessNext DEF RelayInv
<1>2. RelayInv /\ UNCHANGED vars => RelayInv'
    BY DEF vars, sessVars, reqVars, callVars, RelayInv, TypeOK, AtWork, Fresh, MutexInv,
           MutexHeld, OwnerInv, Settles, Cleans, Taken, Undoes, StopInv, LiveInv, EndInv,
           ResponseEnds, DeliveryKnown, InUse, ChClosed, SuccessMeansEnd
<1> QED BY <1>1, <1>2

\* and so always holds.
LEMMA RelayInvAlways == Spec => []RelayInv
BY RelayInvInit, RelayInvNext, PTL DEF Spec

\* However the peer, the contexts and the end of the session meet, for any
\* number of requests and any buffer: no channel holds more than its buffer,
\* none is closed under its sender, and no callback outlives its request
\* (pendingRequest: deliver, cancelWithError, close).
THEOREM SessionSafe == Spec => []SessionConsistent
<1>1. RelayInv => SessionConsistent
    BY DEF RelayInv, SessionConsistent, NoSendOnClosed, NoCallbackLeft, MutexInv, StopInv,
           ChClosed
<1> QED BY <1>1, RelayInvAlways, PTL

\* A caller whose context lives is told of a complete response only after the
\* frame that ends it, whatever was thrown away to make room
\* (cancelWithError, dispatch, NonStream, Stream).
THEOREM SuccessIsComplete == Spec => []SuccessMeansEnd
<1>1. RelayInv => SuccessMeansEnd
    BY DEF RelayInv
<1> QED BY <1>1, RelayInvAlways, PTL

\* Nobody waits on a channel that no party is left to close (LoadAndDelete in
\* dispatch, request, the callback and cleanup).
THEOREM SomebodyCloses == Spec => []NobodyAbandoned
<1>1. RelayInv => NobodyAbandoned
    <2> SUFFICES ASSUME RelayInv, NEW r \in Requests, caller[r] = "consuming",
                        r \notin prClosed, ~ Settles(r), ~ Cleans(r), ~ Taken(r)
                 PROVE  r \in pending /\ (closed => r \in todo /\ cleaner.pc # "done")
        BY DEF NobodyAbandoned, Settles, Cleans, Taken
    <2> QED BY DEF RelayInv, LiveInv
<1> QED BY <1>1, RelayInvAlways, PTL
=============================================================================
