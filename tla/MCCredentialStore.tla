------------------------- MODULE MCCredentialStore -------------------------
(* The instance of CredentialStore for TLC, in four scenes. "minting": the  *)
(* mutations of a Meta credential, saved before they are published.         *)
(* "metadata": metadata saves give way to the other mutations of an         *)
(* Antigravity credential; those with a network call differ from Update in  *)
(* nothing a metadata saver meets. In both, refreshes edit the record       *)
(* without the gate. "pruning": a pruner saves without the gate, and        *)
(* nothing else edits the record behind a writer. "crossing": a pruner and  *)
(* a metadata saver meet, beside writers and a neighbour; the entry is not  *)
(* published, by its saver or by Load, since a pruner that waited for the   *)
(* save of the entry then writes a snapshot without it. Tokens and idle     *)
(* writers are interchangeable: the first of them stands for all.           *)
EXTENDS CredentialStore

CONSTANTS t1, w1, w2

VARIABLE scene

MCInit ==
    /\ StoreInit
    /\ scene \in {"minting", "metadata", "pruning", "crossing"}
    /\ provider = IF scene \in {"metadata", "crossing"} THEN "antigravity" ELSE "meta"
    /\ disk # NoAuth => disk.tok = t1

Crossing ==
    /\ ~loading'
    /\ \A x \in MetaSavers : gate = x /\ gate' # x => auth' = NoAuth \/ ~auth'.hinted

MCNext ==
    /\ StoreNext
    /\ UNCHANGED scene
    /\ scene = "metadata" \/ (pc[w1] = "idle" /\ pc[w2] = "idle") => pc'[w2] = "idle"
    /\ provider = "antigravity" => \A w \in Writers : op'[w] \notin {"refresh", "prepare"}
    /\ scene # "crossing" => \A n \in Neighbours : pc'[n] = "idle"
    /\ scene \in {"pruning", "crossing"} \/ \A p \in Pruners : pc'[p] = "idle"
    /\ scene \in {"pruning", "crossing"} => auth' = auth \/ UNCHANGED edits \/ ops' # ops
    /\ scene = "crossing" => Crossing

MCSpec == MCInit /\ [][MCNext]_<<storeVars, scene>> /\ StoreFairness
=============================================================================
