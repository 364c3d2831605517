---------------------------- MODULE ReportStatus ----------------------------
(***************************************************************************)
(* What internal/lifecycle promises about one report, whatever happens to  *)
(* the callers and to the object store underneath (lifecycle.go:1-42).     *)
(* A report is held under a set of statuses.  It is born pending, once; it *)
(* gains terminal statuses; it leaves pending only when a terminal copy    *)
(* exists; a terminal copy is never dropped.  A move that was reported as  *)
(* done is done for good.                                                  *)
(***************************************************************************)
CONSTANT Ids

Terminal == {"removed", "published"}
Statuses == {"pending"} \cup Terminal

VARIABLES held,     \* held[id]: the statuses under which report id is stored
          acked     \* the pairs <<id, to>> a caller was told are done

vars == <<held, acked>>

Init ==
    /\ held = [id \in Ids |-> {}]
    /\ acked = {}

(* A report enters the bucket under pending (storage.Sink.Store).          *)
Born(id) ==
    /\ held[id] = {}
    /\ held' = [held EXCEPT ![id] = {"pending"}]
    /\ UNCHANGED acked

(* A copy of a stored report appears under a terminal status.              *)
Copied(id, to) ==
    /\ held[id] # {}
    /\ held' = [held EXCEPT ![id] = @ \cup {to}]
    /\ UNCHANGED acked

(* The pending entry goes, once the report is held elsewhere.              *)
Dropped(id) ==
    /\ held[id] \cap Terminal # {}
    /\ held' = [held EXCEPT ![id] = @ \ {"pending"}]
    /\ UNCHANGED acked

(* The same, told to the caller: the report is at the destination and no   *)
(* longer pending.  When it was no longer pending only acked changes.      *)
Acknowledged(id, to) ==
    /\ to \in held[id]
    /\ held' = [held EXCEPT ![id] = @ \ {"pending"}]
    /\ acked' = acked \cup {<<id, to>>}

Next ==
    \E id \in Ids :
        \/ Born(id)
        \/ Dropped(id)
        \/ \E to \in Terminal : Copied(id, to) \/ Acknowledged(id, to)

Spec == Init /\ [][Next]_vars
=============================================================================
