------------------------------ MODULE Lifecycle ------------------------------
(***************************************************************************)
(* internal/lifecycle over storage.ObjectStore: every report lives at      *)
(* reports/<status>/<id> and changes status by a copy followed by a delete.*)
(*                                                                         *)
(* Callers are the goroutines and isolates inside Manager.transition at    *)
(* one time: an admin request in the fetch handler, the weekly cron run.   *)
(* Nothing serialises them, so each of the transition's store calls is a   *)
(* step of its own.                                                        *)
(*                                                                         *)
(* A store call that returns an error, or whose caller dies while it is    *)
(* outstanding, may still take effect, at once, later, or never: it stays  *)
(* in the set late until it lands.                                         *)
(***************************************************************************)
EXTENDS Naturals, FiniteSets

CONSTANTS Ids,        \* report ids (storage.newReportID)
          Frames,     \* sealed frames; opaque to this component
          Callers,    \* concurrent callers of Manager
          None,       \* no object, no frame, no id
          MaxFaults   \* bound on failed store calls and crashes

ASSUME NoneAssumption == None \notin Ids \cup Frames
ASSUME FaultsAssumption == MaxFaults \in Nat

VARIABLES objects,    \* objects[status][id]: the frame stored there, or None
          sealed,     \* sealed[id]: the frame ingest sealed for id, or None
          accepted,   \* ids whose reporter was answered 202
          call,       \* call[c]: the transition c is in, or its outcome
          late,       \* writes issued, not acknowledged, that may still land
          acked,      \* pairs <<id, to>> for which a transition returned nil
          faults      \* failed store calls and crashes so far

storeVars == <<objects, sealed, accepted, late>>
vars == <<objects, sealed, accepted, call, late, acked, faults>>

Terminal == {"removed", "published"}
Statuses == {"pending"} \cup Terminal

(***************************************************************************)
(* A call of transition(id, pending, to).  pc names the next store call;   *)
(* data is the frame read from the source; res is what the caller got:     *)
(* nil, ErrUnknownReport, another error, or nothing because it crashed.    *)
(***************************************************************************)
InFlight == {"get", "probe", "put", "delete"}
Calls == [pc   : {"idle", "done"} \cup InFlight,
          id   : Ids \cup {None},
          to   : Terminal,
          data : Frames \cup {None},
          res  : {"none", "nil", "unknown", "error", "crashed"}]

Idle == [pc |-> "idle", id |-> None, to |-> "removed", data |-> None,
         res |-> "none"]
Calling(id, to) == [pc |-> "get", id |-> id, to |-> to, data |-> None,
                    res |-> "none"]

(* A put writes data at (to, id); a delete drops (pending, id), and to is  *)
(* the destination its transition had already written.                     *)
Requests == [op : {"put", "delete"}, id : Ids, to : Statuses,
             data : Frames \cup {None}]

TypeOK ==
    /\ objects \in [Statuses -> [Ids -> Frames \cup {None}]]
    /\ sealed \in [Ids -> Frames \cup {None}]
    /\ accepted \subseteq Ids
    /\ call \in [Callers -> Calls]
    /\ late \subseteq Requests
    /\ acked \subseteq Ids \X Terminal
    /\ faults \in 0..MaxFaults

Init ==
    /\ objects = [s \in Statuses |-> [id \in Ids |-> None]]
    /\ sealed = [id \in Ids |-> None]
    /\ accepted = {}
    /\ call = [c \in Callers |-> Idle]
    /\ late = {}
    /\ acked = {}
    /\ faults = 0

Stored(id) == \E s \in Statuses : objects[s][id] # None
ListPending == {id \in Ids : objects["pending"][id] # None}

Fault == faults < MaxFaults /\ faults' = faults + 1

-----------------------------------------------------------------------------
(***************************************************************************)
(* Ingest.  An id is 80 random bits behind a timestamp: it was never       *)
(* minted before, and no caller holds it yet.                              *)
(***************************************************************************)
Fresh(id) ==
    /\ sealed[id] = None
    /\ \A c \in Callers : call[c].id # id

StoreReport(id, f) ==
    /\ Fresh(id)
    /\ sealed' = [sealed EXCEPT ![id] = f]
    /\ objects' = [objects EXCEPT !["pending"][id] = f]
    /\ accepted' = accepted \cup {id}
    /\ UNCHANGED <<call, late, acked, faults>>

(* The Put fails and the reporter is answered 503.                         *)
StoreReportFails(id, f) ==
    /\ Fresh(id)
    /\ Fault
    /\ sealed' = [sealed EXCEPT ![id] = f]
    /\ late' = late \cup {[op |-> "put", id |-> id, to |-> "pending", data |-> f]}
    /\ UNCHANGED <<objects, accepted, call, acked>>

-----------------------------------------------------------------------------
(***************************************************************************)
(* Manager.transition.                                                     *)
(***************************************************************************)
Failed(c) == call[c].pc = "done" /\ call[c].res \in {"error", "crashed"}

(* A caller has the id from a listing, so the report is in the bucket, or  *)
(* names an id that was never minted.                                      *)
Begin(c, id, to) ==
    /\ Stored(id) \/ sealed[id] = None
    /\ ~Failed(c)
    /\ call[c].pc \notin InFlight
    /\ call' = [call EXCEPT ![c] = Calling(id, to)]
    /\ UNCHANGED <<storeVars, acked, faults>>

Retry(c) ==
    /\ Failed(c)
    /\ call' = [call EXCEPT ![c] = Calling(call[c].id, call[c].to)]
    /\ UNCHANGED <<storeVars, acked, faults>>

GiveUp(c) ==
    /\ Failed(c)
    /\ call' = [call EXCEPT ![c] = Idle]
    /\ UNCHANGED <<storeVars, acked, faults>>

Return(c, res) ==
    call' = [call EXCEPT ![c].pc = "done", ![c].data = None, ![c].res = res]

GetSource(c) ==
    /\ call[c].pc = "get"
    /\ LET frame == objects["pending"][call[c].id]
       IN  call' = [call EXCEPT ![c].pc = IF frame = None THEN "probe" ELSE "put",
                                ![c].data = frame]
    /\ UNCHANGED <<storeVars, acked, faults>>

(* Source absent: already at the destination means an earlier attempt won. *)
ProbeFinds(c) ==
    /\ call[c].pc = "probe"
    /\ objects[call[c].to][call[c].id] # None
    /\ Return(c, "nil")
    /\ acked' = acked \cup {<<call[c].id, call[c].to>>}
    /\ UNCHANGED <<storeVars, faults>>

ProbeMissesWithoutProbe(c) ==   \* mutant: any absent source is unknown
    /\ call[c].pc = "probe"
    /\ Return(c, "unknown")
    /\ UNCHANGED <<storeVars, acked, faults>>

ProbeMissesIsSuccess(c) ==      \* mutant: any absent source is success
    /\ call[c].pc = "probe"
    /\ objects[call[c].to][call[c].id] = None
    /\ Return(c, "nil")
    /\ acked' = acked \cup {<<call[c].id, call[c].to>>}
    /\ UNCHANGED <<storeVars, faults>>

ProbeMisses(c) ==
    /\ call[c].pc = "probe"
    /\ objects[call[c].to][call[c].id] = None
    /\ Return(c, "unknown")
    /\ UNCHANGED <<storeVars, acked, faults>>

(* The code tests derr == nil only: any failure of the probe is reported   *)
(* as ErrUnknownReport too.                                                *)
ProbeFails(c) ==
    /\ call[c].pc = "probe"
    /\ Fault
    /\ Return(c, "unknown")
    /\ UNCHANGED <<storeVars, acked>>

PutDestinationReseals(c) ==     \* mutant: the frame is sealed anew
    /\ call[c].pc = "put"
    /\ \E f \in Frames : objects' = [objects EXCEPT ![call[c].to][call[c].id] = f]
    /\ call' = [call EXCEPT ![c].pc = "delete", ![c].data = None]
    /\ UNCHANGED <<sealed, accepted, late, acked, faults>>

PutDestinationSwapsArgs(c) ==   \* mutant: the id is stored, not the frame
    /\ call[c].pc = "put"
    /\ objects' = [objects EXCEPT ![call[c].to][call[c].id] = call[c].id]
    /\ call' = [call EXCEPT ![c].pc = "delete", ![c].data = None]
    /\ UNCHANGED <<sealed, accepted, late, acked, faults>>

PutDestination(c) ==
    /\ call[c].pc = "put"
    /\ objects' = [objects EXCEPT ![call[c].to][call[c].id] = call[c].data]
    /\ call' = [call EXCEPT ![c].pc = "delete", ![c].data = None]
    /\ UNCHANGED <<sealed, accepted, late, acked, faults>>

DeleteSourceSkipped(c) ==       \* mutant: copy without delete
    /\ call[c].pc = "delete"
    /\ Return(c, "nil")
    /\ acked' = acked \cup {<<call[c].id, call[c].to>>}
    /\ UNCHANGED <<objects, sealed, accepted, late, faults>>

DeleteSourceEverywhere(c) ==    \* mutant: every other status is cleared
    /\ call[c].pc = "delete"
    /\ objects' = [s \in Statuses |->
                     IF s = call[c].to THEN objects[s]
                     ELSE [objects[s] EXCEPT ![call[c].id] = None]]
    /\ Return(c, "nil")
    /\ acked' = acked \cup {<<call[c].id, call[c].to>>}
    /\ UNCHANGED <<sealed, accepted, late, faults>>

DeleteSource(c) ==
    /\ call[c].pc = "delete"
    /\ objects' = [objects EXCEPT !["pending"][call[c].id] = None]
    /\ Return(c, "nil")
    /\ acked' = acked \cup {<<call[c].id, call[c].to>>}
    /\ UNCHANGED <<sealed, accepted, late, faults>>

-----------------------------------------------------------------------------
(***************************************************************************)
(* Failures.                                                               *)
(***************************************************************************)

(* The write c has outstanding, if its next store call is one.             *)
Outstanding(c) ==
    IF call[c].pc \in {"put", "delete"}
    THEN {[op |-> call[c].pc, id |-> call[c].id, to |-> call[c].to,
           data |-> call[c].data]}
    ELSE {}

StoreFailsUnnoticed(c) ==       \* mutant: the error of the Put is dropped
    /\ call[c].pc \in {"get", "put", "delete"}
    /\ Fault
    /\ late' = late \cup Outstanding(c)
    /\ IF call[c].pc = "put" THEN call' = [call EXCEPT ![c].pc = "delete"]
                             ELSE Return(c, "error")
    /\ UNCHANGED <<objects, sealed, accepted, acked>>

(* The store call of c returns an error; transition wraps and returns it.  *)
StoreFails(c) ==
    /\ call[c].pc \in {"get", "put", "delete"}
    /\ Fault
    /\ late' = late \cup Outstanding(c)
    /\ Return(c, "error")
    /\ UNCHANGED <<objects, sealed, accepted, acked>>

(* The isolate running c is evicted or the process dies.                   *)
Crash(c) ==
    /\ call[c].pc \in InFlight
    /\ Fault
    /\ late' = late \cup Outstanding(c)
    /\ Return(c, "crashed")
    /\ UNCHANGED <<objects, sealed, accepted, acked>>

Land(r) ==
    /\ r \in late
    /\ late' = late \ {r}
    /\ objects' = IF r.op = "put"
                  THEN [objects EXCEPT ![r.to][r.id] = r.data]
                  ELSE [objects EXCEPT !["pending"][r.id] = None]
    /\ UNCHANGED <<sealed, accepted, call, acked, faults>>

-----------------------------------------------------------------------------
Ingest == \E id \in Ids, f \in Frames : StoreReport(id, f) \/ StoreReportFails(id, f)

TransitionStep(c) ==
    \/ GetSource(c)
    \/ ProbeFinds(c)
    \/ ProbeMisses(c)
    \/ PutDestination(c)
    \/ DeleteSource(c)

Failure(c) == ProbeFails(c) \/ StoreFails(c) \/ Crash(c)

Continue(c) ==
    \/ \E id \in Ids, to \in Terminal : Begin(c, id, to)
    \/ Retry(c)
    \/ TransitionStep(c)
    \/ Failure(c)

Next ==
    \/ Ingest
    \/ \E c \in Callers : Continue(c) \/ GiveUp(c)
    \/ \E r \in late : Land(r)

Spec == Init /\ [][Next]_vars

-----------------------------------------------------------------------------
(***************************************************************************)
(* Properties.                                                             *)
(***************************************************************************)

(* Every stored copy of a report, under any status, is byte for byte the   *)
(* frame ingest sealed for it: transitions move ciphertext and never mix   *)
(* up two reports, whatever callers, crashes and late writes do            *)
(* (lifecycle.go:18-25).                                                   *)
CopiesAreFaithful ==
    \A s \in Statuses, id \in Ids : objects[s][id] \in {None, sealed[id]}

(* A report whose reporter was answered 202 is in the bucket, under some   *)
(* status, from then on: put-before-delete never loses a report            *)
(* (lifecycle.go:29-33, 135-137).                                          *)
AcceptedIsHeld == \A id \in accepted : Stored(id)

(* A transition that returned nil is final: the report stays at the        *)
(* destination and is never pending again, so the next ListPending leaves  *)
(* it out, even with other callers of the same id half way                 *)
(* (lifecycle.go:98-113, 38-41).                                           *)
AckedIsSettled ==
    \A m \in acked : /\ objects[m[2]][m[1]] # None
                     /\ objects["pending"][m[1]] = None

(* A transition whose probe was answered returns ErrUnknownReport only for *)
(* a report that is neither pending nor at the destination at that moment, *)
(* although the source was looked up earlier (lifecycle.go:38-41, 122-130).*)
UnknownIsTruthful ==
    [][\A c \in Callers :
         call[c].pc = "probe" /\ call'[c].res = "unknown" /\ UNCHANGED faults
            => /\ objects["pending"][call[c].id] = None
               /\ objects[call[c].to][call[c].id] = None]_vars

(* What the callers and the outstanding writes rely on, and what makes the *)
(* three invariants above inductive: a put carries the sealed frame, a     *)
(* delete is only ever issued once the destination is written, and a late  *)
(* ingest write is the only one its report has.                            *)
CallIsSound(c) ==
    /\ call[c].pc # "idle" => call[c].id \in Ids
    /\ call[c].pc \in InFlight => call[c].res = "none"
    /\ call[c].id # None => Stored(call[c].id) \/ sealed[call[c].id] = None
    /\ call[c].pc = "put" => /\ call[c].data # None
                             /\ call[c].data = sealed[call[c].id]
    /\ call[c].pc = "probe" => objects["pending"][call[c].id] = None
    /\ call[c].pc = "delete" => objects[call[c].to][call[c].id] # None

CallsAreSound == \A c \in Callers : CallIsSound(c)

LateIsSound ==
    \A r \in late :
        /\ r.op = "put" => r.data # None /\ r.data = sealed[r.id]
        /\ r.op = "put" => (r.to = "pending" <=> ~Stored(r.id))
        /\ r.op = "delete" => r.to \in Terminal /\ objects[r.to][r.id] # None

IInv ==
    /\ TypeOK
    /\ CopiesAreFaithful
    /\ CallsAreSound
    /\ LateIsSound
    /\ AcceptedIsHeld
    /\ AckedIsSettled

(* A report that left pending, for any status it left for.                 *)
Gone(id) == Stored(id) /\ objects["pending"][id] = None

(* Every history of the bucket is one the abstract specification allows:   *)
(* born pending once, terminal copies never dropped, pending dropped only  *)
(* when a terminal copy exists, acknowledgements true.                     *)
Held == [id \in Ids |-> {s \in Statuses : objects[s][id] # None}]
RS == INSTANCE ReportStatus WITH held <- Held
ImplementsReportStatus == RS!Spec

(* The package comment says a report "moves to exactly one terminal state" *)
(* (lifecycle.go:8-9).                                                     *)
OneTerminalStatus ==
    \A id \in Ids : \E s \in Terminal : objects[s][id] = None
=============================================================================
