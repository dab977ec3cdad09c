--------------------------- MODULE MCFlowControl ---------------------------
(* Instances of FlowControl for TLC. Callers k1 and k2; request r1 of k1    *)
(* makes the attempts a1 and a2, request r2 of k2 makes a3.                *)
EXTENDS FlowControl

CONSTANTS a1, a2, a3, r1, r2, k1, k2, req, att

TwoRequests == [c \in Calls |-> IF c = a3 THEN r2 ELSE r1]
NoRequests == [c \in Calls |-> NoOp]
TwoKeys == [r \in Recs |-> IF r \in {r2, a3} THEN k2 ELSE k1]

\* All requests share the bucket req, all attempts the bucket att.
Shared == [r \in Recs |-> IF r \in Ops THEN {req} ELSE {att}]

Window(n, p) == {[requests |-> n, period |-> p]}

\* One request at a time, one attempt every two milliseconds.
Strict ==
    [enabled |-> TRUE, v3 |-> TRUE,
     limit |-> [b \in Buckets |-> IF b = req THEN 1 ELSE 0],
     windows |-> [b \in Buckets |-> IF b = req THEN {} ELSE Window(1, 2)],
     members |-> Shared, maxWait |-> 2, maxWaiting |-> 2, maxPerKey |-> 1,
     maxHistory |-> 2]

Off == [Strict EXCEPT !.enabled = FALSE]

\* Two attempts at a time, two requests and two attempts in two milliseconds.
Loose ==
    [Strict EXCEPT !.limit = [b \in Buckets |-> IF b = req THEN 0 ELSE 2],
        !.windows = [b \in Buckets |-> Window(2, 2)],
        !.maxHistory = 3]

\* One attempt at a time; the history has room for one event only.
Tight ==
    [Strict EXCEPT !.limit = [b \in Buckets |-> 1],
        !.windows = [b \in Buckets |-> IF b = req THEN {} ELSE Window(2, 2)],
        !.maxWait = 3, !.maxPerKey = 2, !.maxHistory = 1]

\* Two attempts in two milliseconds, however long they take.
Burst ==
    [Strict EXCEPT !.limit = [b \in Buckets |-> 0],
        !.windows = [b \in Buckets |-> Window(2, 2)],
        !.maxWait = 3, !.maxPerKey = 2, !.maxHistory = 4]

OldOff == [Strict EXCEPT !.enabled = FALSE, !.v3 = FALSE]
Old == [Strict EXCEPT !.v3 = FALSE]

Reloads == {Strict, Loose, Off}
Queueing == {Tight}
Versions == {Strict, OldOff, Old}
=============================================================================
