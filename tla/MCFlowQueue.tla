---------------------------- MODULE MCFlowQueue ----------------------------
(* Queues of FlowControl without reloads, in two scenes. In "waits" the     *)
(* attempts of two requests wait for slots, records and room in the history *)
(* until their deadlines. In "batch" five calls compete for a rate window   *)
(* and keep what they are granted: what matters is the order of admissions. *)
(* Three of them differ in nothing but their names and arrive in order.     *)
EXTENDS MCFlowControl

CONSTANTS a4, a5, a6

VARIABLE scene

MixedRequests ==
    [c \in Calls |-> CASE c \in {a1, a2} -> r1 [] c = a3 -> r2 [] OTHER -> NoOp]
MixedPolicies == {Tight, Burst}

MCInit ==
    /\ Init
    /\ scene \in {"waits", "batch"}
    /\ cfg = IF scene = "batch" THEN Burst ELSE Tight

Waits == \A c \in {a4, a5, a6} : call'[c] = "idle"

Competes ==
    /\ now' <= 2 /\ UNCHANGED <<closed, opClosed>>
    /\ \A c \in Calls : call[c] = "granted" => call'[c] = "granted"
    /\ call'[a2] = "idle"
    /\ call'[a4] = "idle" => call'[a5] = "idle"
    /\ call'[a5] = "idle" => call'[a6] = "idle"

MCNext ==
    /\ Next
    /\ UNCHANGED <<scene, cfg>>
    /\ IF scene = "waits" THEN Waits ELSE Competes

MCSpec == MCInit /\ [][MCNext]_<<vars, scene>> /\ Fairness
=============================================================================
