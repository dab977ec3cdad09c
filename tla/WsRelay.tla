------------------------------ MODULE WsRelay ------------------------------
(***************************************************************************)
(* One session of the websocket relay (internal/wsrelay): requests are     *)
(* sent to the connected peer, the run goroutine hands the peer's frames   *)
(* to the callers that wait for them, and cleanup ends the session.        *)
(*                                                                         *)
(* A request is in the map `pending` from LoadOrStore until one of four    *)
(* parties takes it out with LoadAndDelete; that party closes its channel. *)
(* deliver blocks on a full channel with pendingRequest.mu held, and every *)
(* way of closing the channel needs that mutex. One action is one          *)
(* operation on the map, one section of the mutex, or one channel          *)
(* operation. Ids are random and unique, and so are the names of sessions, *)
(* so neither duplicates nor replaced sessions occur. The channel `done`   *)
(* of a request is closed only with the mutex held, so deliver never sees  *)
(* it; the test hook onBlocked, pings and payloads are left out.           *)
(***************************************************************************)
EXTENDS Integers, Sequences, FiniteSets

CONSTANTS
    Requests,   \* requests made through the session
    Streams,    \* those made by Stream; NonStream makes the others
    NoRequest,  \* stands for no request
    Buffer,     \* pendingChannelBuffer
    Cancelled,  \* requests whose context may end
    MaxChunks   \* bound on the chunks the peer sends for a request

ASSUME RelayAssumption ==
    /\ Streams \subseteq Requests /\ Cancelled \subseteq Requests
    /\ NoRequest \notin Requests
    /\ Buffer \in Nat \ {0} /\ MaxChunks \in Nat

VARIABLES
    listed,     \* whether Manager.sessions has the session
    conn,       \* whether the connection is open
    closed,     \* session.closed
    pending,    \* keys of session.pending
    prClosed,   \* requests with pendingRequest.closed
    terminal,   \* requests with pendingRequest.terminal
    mu,         \* requests whose mutex is held from one step to the next
    ch,         \* content of pendingRequest.ch
    stopSet,    \* requests with pendingRequest.stopCancel
    after,      \* where the function given to context.AfterFunc is
    reader,     \* where run is, and the frame it dispatches
    cleaner,    \* where cleanup is, and the request it cancels
    todo,       \* requests that cleanup's Range has to visit
    caller,     \* where Send and its caller are
    ctxDone,    \* requests whose context has ended
    written,    \* external: requests the peer has received
    read,       \* history: frames dispatched for a request
    got         \* history: frames its caller has received

sessVars == <<listed, conn, closed, cleaner, todo>>
reqVars  == <<prClosed, terminal, mu, ch, stopSet, after>>
callVars == <<caller, ctxDone, written, got>>
vars     == <<sessVars, pending, reqVars, reader, callVars, read>>

Frame(k, n) == [kind |-> k, n |-> n]

\* http_response, stream_end and error end a response.
Terminal(f) == f.kind \in {"end", "error"}

\* The error frame cancelWithError makes of its cause.
Cause == Frame("cause", 0)

Reading ==
    [pc |-> "read", req |-> NoRequest, frame |-> Cause, delivered |-> FALSE]

Ended == {"ok", "failed", "cancelled"}

Init ==
    /\ listed = TRUE /\ conn = TRUE /\ closed = FALSE
    /\ cleaner = [pc |-> "open", req |-> NoRequest] /\ todo = {}
    /\ pending = {} /\ prClosed = {} /\ terminal = {} /\ mu = {}
    /\ ch = [r \in Requests |-> <<>>]
    /\ stopSet = {} /\ after = [r \in Requests |-> "off"]
    /\ reader = Reading
    /\ caller = [r \in Requests |-> "idle"]
    /\ ctxDone = {} /\ written = {}
    /\ read = [r \in Requests |-> <<>>]
    /\ got = [r \in Requests |-> <<>>]

-----------------------------------------------------------------------------
(* pendingRequest.                                                         *)

\* The channel is closed when the section that sets `closed` is left.
ChClosed(r) == r \in prClosed /\ r \notin mu

FullAbove(r) == Len(ch[r]) > Buffer    \* fault: one frame too many

Full(r) == Len(ch[r]) >= Buffer

\* stopCancel keeps the function from running, unless it has begun.
StopAfter(r) ==
    after' = IF r \in stopSet /\ after[r] = "armed"
             THEN [after EXCEPT ![r] = "off"] ELSE after

\* close, and cancel, which differ in `done` only.
closeRequest(r) ==
    /\ r \notin mu
    /\ prClosed' = prClosed \cup {r}
    /\ IF r \in prClosed THEN UNCHANGED after ELSE StopAfter(r)
    /\ UNCHANGED <<terminal, mu, ch, stopSet>>

\* cancelWithError up to its first attempt to send the cause; a full channel
\* leaves the rest for makeRoom, with the mutex held.
cancelWithError(r) ==
    /\ closeRequest(r) /\ (r \in prClosed \/ r \in terminal)
    \/ /\ r \notin mu \cup prClosed \cup terminal
       /\ prClosed' = prClosed \cup {r}
       /\ StopAfter(r)
       /\ IF Full(r)
          THEN mu' = mu \cup {r} /\ UNCHANGED ch
          ELSE mu' = mu /\ ch' = [ch EXCEPT ![r] = Append(@, Cause)]
       /\ UNCHANGED <<terminal, stopSet>>

\* fault: the oldest frame stays and the cause is lost
KeepOldest(s) == s

\* The oldest frame makes room for the cause.
PushCause(s) == Append(IF s = <<>> THEN s ELSE Tail(s), Cause)

makeRoom(r) ==
    /\ ch' = [ch EXCEPT ![r] = PushCause(@)]
    /\ mu' = mu \ {r}
    /\ UNCHANGED <<prClosed, terminal, stopSet, after>>

-----------------------------------------------------------------------------
(* run and dispatch.                                                       *)

\* external: the peer sends a frame. dispatch drops frames for ids that are
\* not pending, which changes nothing.
Read(r, f) ==
    /\ reader.pc = "read" /\ conn /\ r \in written \cap pending
    /\ f.kind = "chunk" => f.n = Len(read[r]) + 1 /\ f.n <= MaxChunks
    /\ \A i \in DOMAIN read[r] : ~ Terminal(read[r][i])
    /\ read' = [read EXCEPT ![r] = Append(@, f)]
    /\ reader' = [Reading EXCEPT !.pc = "lock", !.req = r, !.frame = f]
    /\ UNCHANGED <<sessVars, pending, reqVars, callVars>>

\* The frame has been handed over, or not: a terminal one ends the request.
AfterDelivery(ok) ==
    IF Terminal(reader.frame)
    THEN [reader EXCEPT !.pc = "delete", !.delivered = ok] ELSE Reading

\* fault: deliver gives the mutex back before it sends
ReleasesFirst(r) == mu

KeepsMutex(r) == mu \cup {reader.req}

\* deliver and deliverTerminal take the mutex and look at the request.
DeliverLock ==
    /\ reader.pc = "lock" /\ reader.req \notin mu
    /\ IF reader.req \in prClosed \cup terminal
       THEN reader' = AfterDelivery(FALSE) /\ UNCHANGED mu
       ELSE reader' = [reader EXCEPT !.pc = "select"]
            /\ mu' = KeepsMutex(reader.req)
    /\ UNCHANGED <<sessVars, pending, prClosed, terminal, ch, stopSet, after,
                   callVars, read>>

DeliverSend ==
    /\ reader.pc = "select" /\ ~ Full(reader.req)
    /\ ch' = [ch EXCEPT ![reader.req] = Append(@, reader.frame)]
    /\ terminal' = IF Terminal(reader.frame) THEN terminal \cup {reader.req}
                                             ELSE terminal
    /\ mu' = mu \ {reader.req}
    /\ reader' = AfterDelivery(TRUE)
    /\ UNCHANGED <<sessVars, pending, prClosed, stopSet, after, callVars,
                   read>>

\* fault: only the end of the session is looked at
GivesUpIfClosed(r) == closed

GivesUp(r) == closed \/ r \in ctxDone

\* The select may choose this although there is room, too.
DeliverGiveUp ==
    /\ reader.pc = "select" /\ GivesUp(reader.req)
    /\ mu' = mu \ {reader.req}
    /\ reader' = AfterDelivery(FALSE)
    /\ UNCHANGED <<sessVars, pending, prClosed, terminal, ch, stopSet, after,
                   callVars, read>>

\* LoadAndDelete after a terminal frame.
DispatchDelete ==
    /\ reader.pc = "delete"
    /\ pending' = pending \ {reader.req}
    /\ reader' = IF reader.req \in pending
                 THEN [reader EXCEPT !.pc = "settle"] ELSE Reading
    /\ UNCHANGED <<sessVars, reqVars, callVars, read>>

\* A terminal frame that was not delivered is replaced by a cause.
HasCause == closed \/ reader.req \in ctxDone \/ reader.frame.kind = "error"

DispatchSettle ==
    /\ reader.pc = "settle"
    /\ IF ~ reader.delivered /\ HasCause
       THEN cancelWithError(reader.req) ELSE closeRequest(reader.req)
    /\ reader' = IF reader.req \in mu' THEN [reader EXCEPT !.pc = "room"]
                                       ELSE Reading
    /\ UNCHANGED <<sessVars, pending, callVars, read>>

DispatchMakeRoom ==
    /\ reader.pc = "room" /\ makeRoom(reader.req)
    /\ reader' = Reading
    /\ UNCHANGED <<sessVars, pending, callVars, read>>

-----------------------------------------------------------------------------
(* request and send, and the caller that reads the frames.                 *)

At(r, from, to) == caller[r] = from /\ caller' = [caller EXCEPT ![r] = to]

NotConnected(r) ==
    /\ At(r, "idle", "failed") /\ ~ listed
    /\ UNCHANGED <<sessVars, pending, reqVars, reader, ctxDone, written, got,
                   read>>

\* Manager.session, LoadOrStore and AfterFunc: the session was listed when it
\* was looked up, but may have been closed since.
Store(r) ==
    /\ At(r, "idle", "stored")
    /\ pending' = pending \cup {r}
    /\ after' = [after EXCEPT ![r] = "armed"]
    /\ UNCHANGED <<sessVars, prClosed, terminal, mu, ch, stopSet, reader,
                   ctxDone, written, got, read>>

\* fault: the stop function is not kept
NotKept(r) == stopSet

Kept(r) == stopSet \cup {r}

setStopCancel(r) ==
    /\ At(r, "stored", "sending") /\ r \notin mu
    /\ stopSet' = Kept(r)
    /\ UNCHANGED <<sessVars, pending, prClosed, terminal, mu, ch, after,
                   reader, ctxDone, written, got, read>>

SessionUsable == TRUE    \* fault: send does not look at the session

SessionOpen == ~ closed

\* send looks at session.closed before it writes.
SendCheck(r) ==
    /\ At(r, "sending", "writing") /\ SessionOpen
    /\ UNCHANGED <<sessVars, pending, reqVars, reader, ctxDone, written, got,
                   read>>

Write(r) ==
    /\ At(r, "writing", "consuming") /\ conn
    /\ written' = written \cup {r}
    /\ UNCHANGED <<sessVars, pending, reqVars, reader, ctxDone, got, read>>

\* send finds the session closed, or the write fails or runs into its
\* deadline, which does not close the session: request takes the entry back.
Undo(r) ==
    /\ \/ caller[r] = "sending" /\ ~ SessionOpen
       \/ caller[r] = "writing"
    /\ caller' = [caller EXCEPT ![r] = IF r \in pending THEN "closing"
                                                       ELSE "failed"]
    /\ pending' = pending \ {r}
    /\ UNCHANGED <<sessVars, reqVars, reader, ctxDone, written, got, read>>

UndoClose(r) ==
    /\ At(r, "closing", "failed") /\ closeRequest(r)
    /\ UNCHANGED <<sessVars, pending, reader, ctxDone, written, got, read>>

Outcome(f) ==
    CASE f.kind = "chunk" -> "consuming"
      [] f.kind = "end"   -> "ok"
      [] OTHER            -> "failed"

\* NonStream and Stream take the next frame.
Receive(r) ==
    /\ ch[r] # <<>>
    /\ At(r, "consuming", Outcome(Head(ch[r])))
    /\ ch' = [ch EXCEPT ![r] = Tail(@)]
    /\ got' = [got EXCEPT ![r] = Append(@, Head(ch[r]))]
    /\ UNCHANGED <<sessVars, pending, prClosed, terminal, mu, stopSet, after,
                   reader, ctxDone, written, read>>

\* The channel is closed: NonStream returns what it has of a stream.
ReceiveClosed(r) ==
    /\ ch[r] = <<>> /\ ChClosed(r)
    /\ At(r, "consuming",
          IF r \in Streams \/ got[r] = <<>> THEN "failed" ELSE "ok")
    /\ UNCHANGED <<sessVars, pending, reqVars, reader, ctxDone, written, got,
                   read>>

ReceiveCancelled(r) ==
    /\ At(r, "consuming", "cancelled") /\ r \in ctxDone
    /\ UNCHANGED <<sessVars, pending, reqVars, reader, ctxDone, written, got,
                   read>>

\* external: the context of a request ends
Cancel(r) ==
    /\ r \in Cancelled \ ctxDone /\ caller[r] # "idle"
    /\ ctxDone' = ctxDone \cup {r}
    /\ UNCHANGED <<sessVars, pending, reqVars, reader, caller, written, got,
                   read>>

\* The function given to context.AfterFunc, in a goroutine of its own, takes
\* the request out of the map.
AfterDelete(r) ==
    /\ after[r] = "armed" /\ r \in ctxDone
    /\ after' = [after EXCEPT ![r] = IF r \in pending THEN "took" ELSE "done"]
    /\ pending' = pending \ {r}
    /\ UNCHANGED <<sessVars, prClosed, terminal, mu, ch, stopSet, reader,
                   callVars, read>>

\* cancel; stopCancel has no effect on a function that runs.
AfterCancel(r) ==
    /\ after[r] = "took" /\ r \notin mu
    /\ prClosed' = prClosed \cup {r}
    /\ after' = [after EXCEPT ![r] = "done"]
    /\ UNCHANGED <<sessVars, pending, terminal, mu, ch, stopSet, reader,
                   callVars, read>>

-----------------------------------------------------------------------------
(* cleanup: called by run when reading fails, by the heartbeat when it     *)
(* cannot write, and by Manager.Stop; closeOnce lets it run once.          *)

\* Manager.Stop empties Manager.sessions before it calls cleanup; a lookup that
\* fails in between changes nothing and is taken to fail behind cleanup.
CleanupBegin ==
    /\ cleaner.pc = "open"
    /\ cleaner' = [cleaner EXCEPT !.pc = "range"]
    /\ closed' = TRUE
    /\ todo' = pending
    /\ UNCHANGED <<listed, conn, pending, reqVars, reader, callVars, read>>

\* Range visits what was in the map when it began, and perhaps what is stored
\* meanwhile.
CleanupTake(r) ==
    /\ cleaner.pc = "range" /\ r \in pending
    /\ cleaner' = [pc |-> "cancel", req |-> r]
    /\ pending' = pending \ {r}
    /\ UNCHANGED <<listed, conn, closed, todo, reqVars, reader, callVars,
                   read>>

CleanupCancel ==
    /\ cleaner.pc = "cancel" /\ cancelWithError(cleaner.req)
    /\ cleaner' = [cleaner EXCEPT !.pc = IF cleaner.req \in mu' THEN "room"
                                                              ELSE "range"]
    /\ UNCHANGED <<listed, conn, closed, todo, pending, reader, callVars,
                   read>>

CleanupMakeRoom ==
    /\ cleaner.pc = "room" /\ makeRoom(cleaner.req)
    /\ cleaner' = [cleaner EXCEPT !.pc = "range"]
    /\ UNCHANGED <<listed, conn, closed, todo, pending, reader, callVars,
                   read>>

CleanupDisconnect ==
    /\ cleaner.pc = "range" /\ todo \cap pending = {}
    /\ cleaner' = [pc |-> "unlist", req |-> NoRequest]
    /\ conn' = FALSE
    /\ UNCHANGED <<listed, closed, todo, pending, reqVars, reader, callVars,
                   read>>

handleSessionClosed ==
    /\ cleaner.pc = "unlist"
    /\ cleaner' = [cleaner EXCEPT !.pc = "done"]
    /\ listed' = FALSE
    /\ UNCHANGED <<conn, closed, todo, pending, reqVars, reader, callVars,
                   read>>

-----------------------------------------------------------------------------
Frames == {Frame("chunk", n) : n \in 1..MaxChunks}
            \cup {Frame("end", 0), Frame("error", 0)}

Dispatching ==
    \/ DeliverLock \/ DeliverSend \/ DeliverGiveUp
    \/ DispatchDelete \/ DispatchSettle \/ DispatchMakeRoom

Calling(r) ==
    \/ setStopCancel(r) \/ SendCheck(r)
    \/ Write(r) \/ Undo(r) \/ UndoClose(r)
    \/ Receive(r) \/ ReceiveClosed(r) \/ ReceiveCancelled(r)

Cancelling(r) == AfterDelete(r) \/ AfterCancel(r)

Cleaning ==
    \/ \E r \in Requests : CleanupTake(r)
    \/ CleanupCancel \/ CleanupMakeRoom \/ CleanupDisconnect
    \/ handleSessionClosed

Next ==
    \/ \E r \in Requests, f \in Frames : Read(r, f)
    \/ Dispatching
    \/ \E r \in Requests : NotConnected(r) \/ Store(r) \/ Calling(r)
    \/ \E r \in Requests : Cancel(r) \/ Cancelling(r)
    \/ CleanupBegin \/ Cleaning

Spec == Init /\ [][Next]_vars

\* What the goroutines of the program do by themselves.
Steps ==
    \/ Dispatching \/ Cleaning
    \/ \E r \in Requests : Calling(r) \/ Cancelling(r)

(* Fairness: while some goroutine can run, one of them does, and a caller  *)
(* that has made a request goes on with it. Nothing is assumed of the      *)
(* peer, of contexts or of the life of the session, and nothing of which   *)
(* goroutine runs: this is less than the Go scheduler gives.               *)
FairSpec == Spec /\ WF_vars(Steps)

-----------------------------------------------------------------------------
(* Properties.                                                             *)

AllFrames == Frames \cup {Cause}

\* Every variable has the type of what it models; no channel holds more than
\* its buffer.
TypeOK ==
    /\ listed \in BOOLEAN /\ conn \in BOOLEAN /\ closed \in BOOLEAN
    /\ cleaner \in [pc : {"open", "range", "cancel", "room", "unlist", "done"},
                    req : Requests \cup {NoRequest}]
    /\ todo \subseteq Requests /\ pending \subseteq Requests
    /\ prClosed \subseteq Requests /\ terminal \subseteq Requests
    /\ mu \subseteq Requests /\ stopSet \subseteq Requests
    /\ ctxDone \subseteq Requests /\ written \subseteq Requests
    /\ ch \in [Requests -> Seq(AllFrames)]
    /\ \A r \in Requests : Len(ch[r]) <= Buffer
    /\ after \in [Requests -> {"off", "armed", "took", "done"}]
    /\ reader \in [pc : {"read", "lock", "select", "delete", "settle", "room"},
                   req : Requests \cup {NoRequest}, frame : AllFrames,
                   delivered : BOOLEAN]
    /\ caller \in [Requests -> Ended \cup {"idle", "stored", "sending",
                    "writing", "consuming", "closing"}]
    /\ read \in [Requests -> Seq(Frames)]
    /\ got \in [Requests -> Seq(AllFrames)]

\* The channel a frame is being sent on is open, and stays open until the send
\* is over, although the context, the peer and the session may end the request
\* at any moment: no party closes it under the blocked sender, which would
\* panic.
NoSendOnClosed == reader.pc = "select" => reader.req \notin prClosed

\* A caller that is told of a complete response has received the frame that
\* ends it, unless its context has ended: a session that closes in the middle
\* of a response, with the buffer full or not, is never taken for its end.
SuccessMeansEnd ==
    \A r \in Requests : caller[r] = "ok" /\ r \notin ctxDone =>
        got[r][Len(got[r])].kind = "end"

\* A complete response has all of its frames: what the caller received is what
\* was read for it.
NoSilentFrameLoss ==
    \A r \in Requests :
        caller[r] = "ok" /\ r \notin ctxDone => got[r] = read[r]

\* Whoever waits for frames can still get them or be told that there are none:
\* the session is open or being cleaned up with the request in its map, or
\* the one who took it out of the map has closed it or is about to.
NobodyAbandoned ==
    \A r \in Requests : caller[r] = "consuming" =>
        \/ r \in prClosed
        \/ r \in pending /\ (closed => r \in todo /\ cleaner.pc # "done")
        \/ reader.pc = "settle" /\ reader.req = r
        \/ cleaner.pc = "cancel" /\ cleaner.req = r
        \/ after[r] = "took"

\* The function registered for the end of a context does not outlive its
\* request, unless the session closed before the function could be stopped.
NoCallbackLeft ==
    \A r \in Requests : ChClosed(r) /\ after[r] = "armed" => closed

\* However a request ends, its channel is filled to its buffer at most, is not
\* closed under a sender, and leaves no callback behind (pendingRequest:
\* deliver, cancelWithError, close).
SessionConsistent == TypeOK /\ NoSendOnClosed /\ NoCallbackLeft

\* A caller who does not read holds the session up only until its context or
\* the session ends: then the reader goes on with the next frame.
ReaderGoesOn ==
    reader.pc # "read" /\ (closed \/ reader.req \in ctxDone)
        ~> reader.pc = "read"

\* When the session has closed, every caller is answered.
CallersAnswered ==
    closed ~> \A r \in Requests : caller[r] \in Ended \cup {"idle"}
=============================================================================
