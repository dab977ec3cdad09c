--------------------------- MODULE MCRefreshLoop ---------------------------
(* The instance of RefreshLoop for TLC, in four scenes. "restart": a loop   *)
(* is stopped or replaced while it refreshes the only credential.           *)
(* "changing": beside one loop a caller edits that credential once, and a   *)
(* request refreshes it. "relogin": two callers register, update and remove *)
(* it, the second time to bring back what was removed or has failed for     *)
(* good; the second caller acts while the first one has still to tell the   *)
(* loop. "full": two credentials, one worker and a queue for one job.       *)
EXTENDS RefreshLoop

CONSTANTS l1, l2, v1, v2, c1, c2, u1, u2

VARIABLE scene

OneEach == [w \in Workers |-> IF w = v2 THEN l2 ELSE l1]

MCInit ==
    /\ RefreshInit
    /\ scene \in {"restart", "changing", "relogin", "full"}
    /\ scene \in {"restart", "full"} => cred[c1].need = "now"
    /\ IF scene = "full" THEN cred[c2].need = "now" ELSE ~cred[c2].there

OneLoop == lpc'[l2] = "unborn"
NoStop == current # NoLoop => current' # NoLoop \/ lpc' # lpc
NoRequest == \A q \in Requests : rpc'[q] = "idle"
Undisturbed == NoRequest /\ UNCHANGED changes

NoneIsFinal == \A c \in Creds : cred'[c].need # "never"

Restart == Undisturbed /\ NoneIsFinal /\ (OneLoop \/ NoStop)

Changing ==
    /\ OneLoop /\ NoStop
    /\ lpc[l1] = "unborn" => Undisturbed
    /\ changes' < 2 /\ tell'[u2] = Nothing
    /\ cred'[c1].epoch = cred[c1].epoch

Relogin ==
    /\ OneLoop /\ NoStop /\ NoRequest
    /\ changes' > 1 => UNCHANGED changes \/ ~Schedulable(c1)
    /\ tell[u1] = Nothing => tell'[u2] \in {tell[u2], Nothing}
    /\ lpc[l1] = "unborn" => Undisturbed

Full == OneLoop /\ NoStop /\ Undisturbed /\ NoneIsFinal

MCNext ==
    /\ RefreshNext
    /\ UNCHANGED scene
    /\ lpc[l1] = "unborn" => OneLoop
    /\ scene # "full" => cred'[c2] = cred[c2]
    /\ CASE scene = "restart" -> Restart
         [] scene = "changing" -> Changing
         [] scene = "relogin" -> Relogin
         [] scene = "full" -> Full

MCSpec == MCInit /\ [][MCNext]_<<refreshVars, scene>> /\ RefreshFairness
=============================================================================
