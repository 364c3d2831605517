--------------------------- MODULE LifecycleProofs ---------------------------
(***************************************************************************)
(* Proofs about Lifecycle, for any number of reports, callers and failures.*)
(*                                                                         *)
(* Neither CopiesAreFaithful, AcceptedIsHeld nor AckedIsSettled is         *)
(* inductive alone: a delete on its way, or a late write of a caller long  *)
(* gone, could undo each.  CallsAreSound says what a caller knows between  *)
(* two store calls, LateIsSound what every outstanding write carries.      *)
(***************************************************************************)
EXTENDS Lifecycle, TLAPS

(* The bucket is empty and nobody calls: the invariant holds at the start. *)
LEMMA InitIInv == Init => IInv
  BY NoneAssumption, FaultsAssumption
     DEF Init, IInv, TypeOK, CopiesAreFaithful, CallsAreSound, CallIsSound, LateIsSound,
         AcceptedIsHeld, AckedIsSettled, Idle, Calls, InFlight, Statuses, Terminal

(* Returning from a transition leaves a call that is well typed.           *)
LEMMA ReturnType ==
  ASSUME TypeOK, NEW c \in Callers,
         NEW res \in {"nil", "unknown", "error", "crashed"}, Return(c, res)
  PROVE  call' \in [Callers -> Calls]
<1>1. call[c] \in Calls
  BY DEF TypeOK
<1>2. [call[c] EXCEPT !.pc = "done", !.data = None, !.res = res] \in Calls
  BY <1>1 DEF Calls
<1> QED
  BY <1>2 DEF Return, TypeOK

(* Every step keeps the types; callers in flight have a report of Ids.     *)
LEMMA TypeStep == TypeOK /\ CallsAreSound /\ [Next]_vars => TypeOK'
<1> SUFFICES ASSUME TypeOK, CallsAreSound, [Next]_vars PROVE TypeOK'
  OBVIOUS
<1> USE NoneAssumption, FaultsAssumption DEF TypeOK, Statuses, Terminal, storeVars, vars
<1>1. ASSUME NEW id \in Ids, NEW f \in Frames, StoreReport(id, f) PROVE TypeOK'
  BY <1>1 DEF StoreReport
<1>2. ASSUME NEW id \in Ids, NEW f \in Frames, StoreReportFails(id, f) PROVE TypeOK'
  BY <1>2 DEF StoreReportFails, Fault, Requests
<1>3. ASSUME NEW c \in Callers, NEW id \in Ids, NEW to \in Terminal, Begin(c, id, to) PROVE TypeOK'
  BY <1>3 DEF Begin, Calling, Calls, InFlight
<1>4. ASSUME NEW c \in Callers, Retry(c) PROVE TypeOK'
  BY <1>4 DEF Retry, Calling, Calls, InFlight
<1>5. ASSUME NEW c \in Callers, GiveUp(c) PROVE TypeOK'
  BY <1>5 DEF GiveUp, Idle, Calls, InFlight
<1>6. ASSUME NEW c \in Callers, GetSource(c) PROVE TypeOK'
  <2>1. call[c] \in Calls /\ call[c].id \in Ids
    BY <1>6 DEF GetSource, CallsAreSound, CallIsSound
  <2>2. objects["pending"][call[c].id] \in Frames \cup {None}
    BY <2>1
  <2>3. [call[c] EXCEPT !.pc = IF objects["pending"][call[c].id] = None THEN "probe" ELSE "put",
                        !.data = objects["pending"][call[c].id]] \in Calls
    BY <2>1, <2>2 DEF Calls, InFlight
  <2> QED
    BY <1>6, <2>3 DEF GetSource
<1>7. ASSUME NEW c \in Callers, ProbeFinds(c) PROVE TypeOK'
  BY <1>7, ReturnType DEF ProbeFinds, CallsAreSound, CallIsSound, Calls, InFlight
<1>8. ASSUME NEW c \in Callers, ProbeMisses(c) PROVE TypeOK'
  BY <1>8, ReturnType DEF ProbeMisses
<1>9. ASSUME NEW c \in Callers, ProbeFails(c) PROVE TypeOK'
  BY <1>9, ReturnType DEF ProbeFails, Fault
<1>10. ASSUME NEW c \in Callers, PutDestination(c) PROVE TypeOK'
  BY <1>10 DEF PutDestination, Calls, InFlight, CallsAreSound, CallIsSound
<1>11. ASSUME NEW c \in Callers, DeleteSource(c) PROVE TypeOK'
  BY <1>11, ReturnType DEF DeleteSource, CallsAreSound, CallIsSound, Calls, InFlight
<1>12. ASSUME NEW c \in Callers, StoreFails(c) PROVE TypeOK'
  BY <1>12, ReturnType DEF StoreFails, Fault, Outstanding, Requests, Calls, InFlight, CallsAreSound, CallIsSound
<1>13. ASSUME NEW c \in Callers, Crash(c) PROVE TypeOK'
  BY <1>13, ReturnType DEF Crash, Fault, Outstanding, Requests, Calls, InFlight, CallsAreSound, CallIsSound
<1>14. ASSUME NEW r \in late, Land(r) PROVE TypeOK'
  BY <1>14 DEF Land, Requests
<1>15. CASE UNCHANGED vars
  BY <1>15
<1> QED
  BY <1>1, <1>2, <1>3, <1>4, <1>5, <1>6, <1>7, <1>8, <1>9, <1>10, <1>11, <1>12, <1>13, <1>14, <1>15
  DEF Next, Ingest, Continue, TransitionStep, Failure
-----------------------------------------------------------------------------
(* Every write carries the frame ingest sealed: a put of a transition the   *)
(* frame it read under pending, a late one the frame it was issued with.     *)
LEMMA CopiesAreFaithfulStep == IInv /\ TypeOK' /\ [Next]_vars => CopiesAreFaithful'
<1> SUFFICES ASSUME IInv, TypeOK', [Next]_vars PROVE CopiesAreFaithful'
  OBVIOUS
<1> USE NoneAssumption DEF IInv, TypeOK, Stored, Statuses, Terminal, InFlight, Calls, Requests,
        storeVars, CopiesAreFaithful, CallsAreSound, CallIsSound, LateIsSound
<1>1. ASSUME NEW id \in Ids, NEW f \in Frames, StoreReport(id, f) PROVE CopiesAreFaithful'
  BY <1>1 DEF StoreReport, Fresh
<1>2. ASSUME NEW id \in Ids, NEW f \in Frames, StoreReportFails(id, f) PROVE CopiesAreFaithful'
  BY <1>2 DEF StoreReportFails, Fresh
<1>3. ASSUME NEW c \in Callers, PutDestination(c) PROVE CopiesAreFaithful'
  BY <1>3 DEF PutDestination
<1>4. ASSUME NEW c \in Callers, DeleteSource(c) PROVE CopiesAreFaithful'
  BY <1>4 DEF DeleteSource, Return
<1>5. ASSUME NEW r \in late, Land(r) PROVE CopiesAreFaithful'
  BY <1>5 DEF Land
<1>6. CASE UNCHANGED <<objects, sealed>>
  BY <1>6
<1> QED
  BY <1>1, <1>2, <1>3, <1>4, <1>5, <1>6
  DEF Next, Ingest, Continue, TransitionStep, Failure, vars, Begin, Retry, GiveUp, GetSource, ProbeFinds, ProbeMisses, ProbeFails, StoreFails, Crash

(* A delete only ever takes the pending copy, and the destination it was    *)
(* moving to is already written.                                            *)
LEMMA AcceptedIsHeldStep == IInv /\ TypeOK' /\ [Next]_vars => AcceptedIsHeld'
<1> SUFFICES ASSUME IInv, TypeOK', [Next]_vars PROVE AcceptedIsHeld'
  OBVIOUS
<1> USE NoneAssumption DEF IInv, TypeOK, Stored, Statuses, Terminal, InFlight, Calls, Requests,
        storeVars, CallsAreSound, CallIsSound, LateIsSound, AcceptedIsHeld
<1>1. ASSUME NEW id \in Ids, NEW f \in Frames, StoreReport(id, f) PROVE AcceptedIsHeld'
  BY <1>1 DEF StoreReport, Fresh
<1>2. ASSUME NEW c \in Callers, PutDestination(c) PROVE AcceptedIsHeld'
  BY <1>2 DEF PutDestination
<1>3. ASSUME NEW c \in Callers, DeleteSource(c) PROVE AcceptedIsHeld'
  BY <1>3 DEF DeleteSource, Return
<1>4. ASSUME NEW r \in late, Land(r) PROVE AcceptedIsHeld'
  BY <1>4 DEF Land
<1>5. CASE UNCHANGED <<objects, accepted>>
  BY <1>5
<1> QED
  BY <1>1, <1>2, <1>3, <1>4, <1>5
  DEF Next, Ingest, Continue, TransitionStep, Failure, vars, StoreReportFails, Begin, Retry, GiveUp, GetSource, ProbeFinds, ProbeMisses, ProbeFails, StoreFails, Crash

(* Nothing writes under pending a report that is already stored, so a move  *)
(* that was acknowledged stays settled.                                     *)
LEMMA AckedIsSettledStep == IInv /\ TypeOK' /\ [Next]_vars => AckedIsSettled'
<1> SUFFICES ASSUME IInv, TypeOK', [Next]_vars PROVE AckedIsSettled'
  OBVIOUS
<1> USE NoneAssumption DEF IInv, TypeOK, Stored, Statuses, Terminal, InFlight, Calls, Requests,
        storeVars, CopiesAreFaithful, CallsAreSound, CallIsSound, LateIsSound, AckedIsSettled
<1>1. ASSUME NEW id \in Ids, NEW f \in Frames, StoreReport(id, f) PROVE AckedIsSettled'
  BY <1>1 DEF StoreReport, Fresh
<1>2. ASSUME NEW c \in Callers, ProbeFinds(c) PROVE AckedIsSettled'
  BY <1>2 DEF ProbeFinds, Return
<1>3. ASSUME NEW c \in Callers, PutDestination(c) PROVE AckedIsSettled'
  BY <1>3 DEF PutDestination
<1>4. ASSUME NEW c \in Callers, DeleteSource(c) PROVE AckedIsSettled'
  BY <1>4 DEF DeleteSource, Return
<1>5. ASSUME NEW r \in late, Land(r) PROVE AckedIsSettled'
  BY <1>5 DEF Land
<1>6. CASE UNCHANGED <<objects, acked>>
  BY <1>6
<1> QED
  BY <1>1, <1>2, <1>3, <1>4, <1>5, <1>6
  DEF Next, Ingest, Continue, TransitionStep, Failure, vars, StoreReportFails, Begin, Retry, GiveUp, GetSource, ProbeMisses, ProbeFails, StoreFails, Crash

(* A write that goes astray was sound when it was issued, and stays so: the *)
(* only late write of a report nobody has seen is its ingest write.         *)
LEMMA LateIsSoundStep == IInv /\ TypeOK' /\ [Next]_vars => LateIsSound'
<1> SUFFICES ASSUME IInv, TypeOK', [Next]_vars PROVE LateIsSound'
  OBVIOUS
<1> USE NoneAssumption DEF IInv, TypeOK, Stored, Statuses, Terminal, InFlight, Calls, Requests,
        storeVars, CopiesAreFaithful, CallsAreSound, CallIsSound, LateIsSound
<1>1. ASSUME NEW id \in Ids, NEW f \in Frames, StoreReport(id, f) PROVE LateIsSound'
  BY <1>1 DEF StoreReport, Fresh
<1>2. ASSUME NEW id \in Ids, NEW f \in Frames, StoreReportFails(id, f) PROVE LateIsSound'
  BY <1>2 DEF StoreReportFails, Fresh
<1>3. ASSUME NEW c \in Callers, PutDestination(c) PROVE LateIsSound'
  BY <1>3 DEF PutDestination
<1>4. ASSUME NEW c \in Callers, DeleteSource(c) PROVE LateIsSound'
  BY <1>4 DEF DeleteSource, Return
<1>5. ASSUME NEW c \in Callers, StoreFails(c) PROVE LateIsSound'
  BY <1>5 DEF StoreFails, Return, Outstanding
<1>6. ASSUME NEW c \in Callers, Crash(c) PROVE LateIsSound'
  BY <1>6 DEF Crash, Return, Outstanding
<1>7. ASSUME NEW r \in late, Land(r) PROVE LateIsSound'
  BY <1>7 DEF Land
<1>8. CASE UNCHANGED <<objects, sealed, late>>
  BY <1>8
<1> QED
  BY <1>1, <1>2, <1>3, <1>4, <1>5, <1>6, <1>7, <1>8
  DEF Next, Ingest, Continue, TransitionStep, Failure, vars, Begin, Retry, GiveUp, GetSource, ProbeFinds, ProbeMisses, ProbeFails

(* The caller that just read its source holds the sealed frame, or knows    *)
(* the report is not pending.                                               *)
LEMMA GetSourceCalls ==
  ASSUME TypeOK, CopiesAreFaithful, CallsAreSound, NEW c \in Callers, GetSource(c)
  PROVE  CallsAreSound'
<1> DEFINE frame == objects["pending"][call[c].id]
<1>1. call[c].id \in Ids /\ call[c] \in Calls /\ call[c].pc = "get"
  BY DEF GetSource, CallsAreSound, CallIsSound, TypeOK
<1>2. frame \in {None, sealed[call[c].id]}
  BY <1>1 DEF CopiesAreFaithful, Statuses
<1>3. call' = [call EXCEPT ![c] = [call[c] EXCEPT !.pc = IF frame = None THEN "probe" ELSE "put",
                                                 !.data = frame]]
  BY DEF GetSource
<1>4. UNCHANGED <<objects, sealed>>
  BY DEF GetSource, storeVars
<1>5. ASSUME NEW d \in Callers \ {c} PROVE CallIsSound(d)'
  <2>1. call'[d] = call[d]
    BY <1>3 DEF TypeOK
  <2>2. Stored(call[d].id)' <=> Stored(call[d].id)
    BY <2>1, <1>4 DEF Stored
  <2> QED
    BY <2>1, <2>2, <1>4 DEF CallsAreSound, CallIsSound
<1>6. CallIsSound(c)'
  <2>1. /\ call'[c].pc = IF frame = None THEN "probe" ELSE "put"
        /\ call'[c].id = call[c].id
        /\ call'[c].res = call[c].res
        /\ call'[c].data = frame
    BY <1>1, <1>3 DEF TypeOK, Calls
  <2>2. call[c].res = "none" /\ (Stored(call[c].id) \/ sealed[call[c].id] = None)
    BY <1>1, NoneAssumption DEF CallsAreSound, CallIsSound, InFlight
  <2>3. Stored(call[c].id)' <=> Stored(call[c].id)
    BY <2>1, <1>4 DEF Stored
  <2> QED
    BY <1>1, <1>2, <1>4, <2>1, <2>2, <2>3 DEF CallIsSound
<1> QED
  BY <1>5, <1>6 DEF CallsAreSound

(* What a caller knows about its report survives every step of the others.  *)
LEMMA CallsAreSoundStep == IInv /\ TypeOK' /\ [Next]_vars => CallsAreSound'
<1> SUFFICES ASSUME IInv, TypeOK', [Next]_vars PROVE CallsAreSound'
  OBVIOUS
<1> USE NoneAssumption DEF IInv, TypeOK, Stored, Statuses, Terminal, InFlight, Calls, Requests,
        storeVars, CopiesAreFaithful, CallsAreSound, CallIsSound, LateIsSound
<1>1. ASSUME NEW id \in Ids, NEW f \in Frames, StoreReport(id, f) PROVE CallsAreSound'
  BY <1>1 DEF StoreReport, Fresh
<1>2. ASSUME NEW id \in Ids, NEW f \in Frames, StoreReportFails(id, f) PROVE CallsAreSound'
  BY <1>2 DEF StoreReportFails, Fresh
<1>3. ASSUME NEW c \in Callers, NEW id \in Ids, NEW to \in Terminal, Begin(c, id, to) PROVE CallsAreSound'
  BY <1>3 DEF Begin, Calling
<1>4. ASSUME NEW c \in Callers, Retry(c) PROVE CallsAreSound'
  BY <1>4 DEF Retry, Failed, Calling
<1>5. ASSUME NEW c \in Callers, GiveUp(c) PROVE CallsAreSound'
  BY <1>5 DEF GiveUp, Idle
<1>6. ASSUME NEW c \in Callers, GetSource(c) PROVE CallsAreSound'
  BY <1>6, GetSourceCalls DEF IInv
<1>7. ASSUME NEW c \in Callers, ProbeFinds(c) PROVE CallsAreSound'
  BY <1>7 DEF ProbeFinds, Return
<1>8. ASSUME NEW c \in Callers, ProbeMisses(c) PROVE CallsAreSound'
  BY <1>8 DEF ProbeMisses, Return
<1>9. ASSUME NEW c \in Callers, ProbeFails(c) PROVE CallsAreSound'
  BY <1>9 DEF ProbeFails, Return
<1>10. ASSUME NEW c \in Callers, PutDestination(c) PROVE CallsAreSound'
  BY <1>10 DEF PutDestination
<1>11. ASSUME NEW c \in Callers, DeleteSource(c) PROVE CallsAreSound'
  BY <1>11 DEF DeleteSource, Return
<1>12. ASSUME NEW c \in Callers, StoreFails(c) PROVE CallsAreSound'
  BY <1>12 DEF StoreFails, Return, Outstanding
<1>13. ASSUME NEW c \in Callers, Crash(c) PROVE CallsAreSound'
  BY <1>13 DEF Crash, Return, Outstanding
<1>14. ASSUME NEW r \in late, Land(r) PROVE CallsAreSound'
  BY <1>14 DEF Land
<1>15. CASE UNCHANGED vars
  BY <1>15 DEF vars
<1> QED
  BY <1>1, <1>2, <1>3, <1>4, <1>5, <1>6, <1>7, <1>8, <1>9, <1>10, <1>11, <1>12, <1>13, <1>14, <1>15
  DEF Next, Ingest, Continue, TransitionStep, Failure, vars

-----------------------------------------------------------------------------
(* Every step of Next keeps the invariant, one case per action.           *)
LEMMA IInvStep == IInv /\ [Next]_vars => IInv'
<1>1. IInv /\ [Next]_vars => TypeOK'
  BY TypeStep DEF IInv
<1> QED
  BY <1>1, CopiesAreFaithfulStep, AcceptedIsHeldStep, AckedIsSettledStep, LateIsSoundStep,
     CallsAreSoundStep DEF IInv

(* The inductive invariant holds in every reachable state.                  *)
THEOREM Inductive == Spec => []IInv
  BY InitIInv, IInvStep, PTL DEF Spec

(* The variables keep their types, for any reports, frames, callers and any *)
(* number of faults.                                                        *)
THEOREM TypeCorrect == Spec => []TypeOK
  BY Inductive, PTL DEF IInv

(* Transitions never change or mix up ciphertext (lifecycle.go:18-25).      *)
THEOREM FaithfulCopies == Spec => []CopiesAreFaithful
  BY Inductive, PTL DEF IInv

(* Put before delete never loses an accepted report, under any number of    *)
(* concurrent callers, failed calls, crashes and late writes                *)
(* (lifecycle.go:29-33).                                                    *)
THEOREM NoAcceptedReportLost == Spec => []AcceptedIsHeld
  BY Inductive, PTL DEF IInv

(* A move a caller was told is done is done for good (lifecycle.go:98-113). *)
THEOREM AcknowledgedMovesStay == Spec => []AckedIsSettled
  BY Inductive, PTL DEF IInv

-----------------------------------------------------------------------------
(* What is in the bucket stays there, what left pending stays out of it,   *)
(* and what was acknowledged stays so.                                     *)
Settles ==
    /\ \A id \in Ids : Stored(id) => Stored(id)'
    /\ \A id \in Ids : Gone(id) => Gone(id)'
    /\ acked \subseteq acked'
    /\ faults <= faults' /\ faults \in Nat /\ faults' \in Nat

(* What Lifecycle does to the bucket only ever settles it.                 *)
LEMMA NextSettles == ASSUME IInv, [Next]_vars PROVE Settles
<1> USE NoneAssumption, FaultsAssumption DEF IInv, TypeOK, Statuses, Terminal, Stored, Gone, Settles
<1>0. IInv'
  BY IInvStep
<1>1. faults <= faults' /\ faults \in Nat /\ faults' \in Nat /\ acked \subseteq acked'
  <2>1. faults' = faults \/ faults' = faults + 1
    BY DEF Next, Ingest, StoreReport, StoreReportFails, Fault, Continue, Begin, Retry, GiveUp,
       TransitionStep, GetSource, ProbeFinds, ProbeMisses, PutDestination, DeleteSource, Failure,
       ProbeFails, StoreFails, Crash, Land, vars
  <2>2. acked \subseteq acked'
    BY DEF Next, Ingest, StoreReport, StoreReportFails, Continue, Begin, Retry, GiveUp,
       TransitionStep, GetSource, ProbeFinds, ProbeMisses, PutDestination, DeleteSource, Failure,
       ProbeFails, StoreFails, Crash, Land, vars
  <2> QED
    BY <2>1, <2>2
<1>2. ASSUME NEW id \in Ids, NEW f \in Frames, StoreReport(id, f) PROVE Settles
  BY <1>1, <1>2 DEF StoreReport, Fresh, CopiesAreFaithful
<1>3. ASSUME NEW c \in Callers, PutDestination(c) PROVE Settles
  BY <1>1, <1>3 DEF PutDestination, CallsAreSound, CallIsSound, Calls, InFlight
<1>4. ASSUME NEW c \in Callers, DeleteSource(c) PROVE Settles
  BY <1>1, <1>4 DEF DeleteSource, CallsAreSound, CallIsSound, Calls, InFlight
<1>5. ASSUME NEW r \in late, Land(r) PROVE Settles
  BY <1>1, <1>5 DEF Land, LateIsSound, Requests
<1>6. CASE UNCHANGED objects
  BY <1>1, <1>6
<1> QED
  BY <1>2, <1>3, <1>4, <1>5, <1>6 DEF Next, Ingest, StoreReportFails, Continue, Begin, Retry, GiveUp,
     TransitionStep, GetSource, ProbeFinds, ProbeMisses, Failure, ProbeFails, StoreFails, Crash,
     vars, storeVars

-----------------------------------------------------------------------------
(* ErrUnknownReport, when the probe was answered, is true of the moment it  *)
(* is returned, although the source was read earlier (lifecycle.go:122-130).*)
THEOREM UnknownReplies == Spec => UnknownIsTruthful
<1> DEFINE A == \A c \in Callers :
                  call[c].pc = "probe" /\ call'[c].res = "unknown" /\ UNCHANGED faults
                    => /\ objects["pending"][call[c].id] = None
                       /\ objects[call[c].to][call[c].id] = None
<1>1. IInv /\ [Next]_vars => A
  <2> SUFFICES ASSUME IInv, [Next]_vars, NEW c \in Callers, call[c].pc = "probe",
                      call'[c].res = "unknown", UNCHANGED faults
               PROVE  /\ objects["pending"][call[c].id] = None
                      /\ objects[call[c].to][call[c].id] = None
    OBVIOUS
  <2>1. objects["pending"][call[c].id] = None /\ call[c].res = "none"
    BY DEF IInv, CallsAreSound, CallIsSound, InFlight
  <2>2. call'[c] # call[c]
    BY <2>1
  <2>3. faults' # faults + 1
    BY DEF IInv, TypeOK
  <2>4. PICK d \in Callers : Continue(d) \/ GiveUp(d)
    BY <2>2 DEF Next, Ingest, StoreReport, StoreReportFails, Land, vars
  <2>5. d = c
    BY <2>2, <2>4 DEF IInv, TypeOK, Continue, TransitionStep, Failure, GiveUp, Begin, Retry,
       GetSource, ProbeFinds, ProbeMisses, ProbeFails, PutDestination, DeleteSource,
       StoreFails, Crash, Return
  <2>6. ~Failed(c) /\ call[c].pc \in InFlight
    BY DEF Failed, InFlight
  <2>7. ProbeFinds(c) \/ ProbeMisses(c)
    BY <2>3, <2>4, <2>5, <2>6 DEF Continue, TransitionStep, Failure, GiveUp, Begin, Retry,
       GetSource, ProbeFails, PutDestination, DeleteSource, StoreFails, Crash, Fault
  <2>8. ~ProbeFinds(c)
    <3>1. SUFFICES ASSUME ProbeFinds(c) PROVE FALSE
      OBVIOUS
    <3>2. call[c] \in Calls
      BY DEF IInv, TypeOK
    <3>3. call' = [call EXCEPT ![c] = [call[c] EXCEPT !.pc = "done", !.data = None, !.res = "nil"]]
      BY <3>1 DEF ProbeFinds, Return
    <3>4. call'[c].res = "nil"
      BY <3>2, <3>3 DEF IInv, TypeOK, Calls
    <3> QED
      BY <3>4
  <2> QED
    BY <2>1, <2>7, <2>8 DEF ProbeMisses
<1> QED
  BY <1>1, Inductive, PTL DEF Spec, UnknownIsTruthful

-----------------------------------------------------------------------------
(***************************************************************************)
(* Refinement: what a store write does to the set of statuses a report is  *)
(* held under.                                                             *)
(***************************************************************************)
LEMMA PutHolds ==
  ASSUME TypeOK, NEW s \in Statuses, NEW id \in Ids, NEW f, f # None,
         objects' = [objects EXCEPT ![s][id] = f]
  PROVE  Held' = [Held EXCEPT ![id] = @ \cup {s}]
<1>1. \A t \in Statuses, i \in Ids :
        objects'[t][i] = IF t = s /\ i = id THEN f ELSE objects[t][i]
  BY DEF TypeOK
<1>2. ASSUME NEW i \in Ids
      PROVE {t \in Statuses : objects'[t][i] # None}
              = IF i = id THEN {t \in Statuses : objects[t][i] # None} \cup {s}
                ELSE {t \in Statuses : objects[t][i] # None}
  BY <1>1
<1> QED
  BY <1>2 DEF Held

(* Deleting the pending copy drops it and no other from what is held.     *)
LEMMA DeleteDrops ==
  ASSUME TypeOK, NEW id \in Ids,
         objects' = [objects EXCEPT !["pending"][id] = None]
  PROVE  Held' = [Held EXCEPT ![id] = @ \ {"pending"}]
<1>1. \A t \in Statuses, i \in Ids :
        objects'[t][i] = IF t = "pending" /\ i = id THEN None ELSE objects[t][i]
  BY DEF TypeOK, Statuses
<1>2. ASSUME NEW i \in Ids
      PROVE {t \in Statuses : objects'[t][i] # None}
              = IF i = id THEN {t \in Statuses : objects[t][i] # None} \ {"pending"}
                ELSE {t \in Statuses : objects[t][i] # None}
  BY <1>1
<1> QED
  BY <1>2 DEF Held

(* Every step maps to one of ReportStatus, or to none.                     *)
LEMMA RefinementStep == IInv /\ [Next]_vars => [RS!Next]_<<Held, acked>>
<1> SUFFICES ASSUME IInv, [Next]_vars PROVE [RS!Next]_<<Held, acked>>
  BY DEF RS!vars
<1>0. UNCHANGED objects => Held' = Held
  BY DEF Held
<1>1. ASSUME NEW id \in Ids, NEW f \in Frames, StoreReport(id, f) PROVE RS!Next
  <2>1. Held[id] = {}
    BY <1>1 DEF StoreReport, Fresh, IInv, CopiesAreFaithful, Held
  <2>2. Held' = [Held EXCEPT ![id] = @ \cup {"pending"}] /\ UNCHANGED acked
    BY <1>1, PutHolds, NoneAssumption DEF StoreReport, IInv, Statuses
  <2>3. RS!Born(id)
    BY <2>1, <2>2 DEF RS!Born, Held
  <2> QED
    BY <2>3 DEF RS!Next
<1>2. ASSUME NEW c \in Callers, ProbeFinds(c) PROVE RS!Next
  <2>1. call[c].id \in Ids /\ call[c].to \in Terminal /\ objects["pending"][call[c].id] = None
    BY <1>2 DEF ProbeFinds, IInv, TypeOK, Calls, CallsAreSound, CallIsSound
  <2>2. call[c].to \in Held[call[c].id] /\ "pending" \notin Held[call[c].id]
    BY <1>2, <2>1 DEF ProbeFinds, Held, Statuses
  <2>3. Held' = Held
    BY <1>0, <1>2 DEF ProbeFinds, storeVars
  <2>4. Held' = [Held EXCEPT ![call[c].id] = @ \ {"pending"}]
    <3>1. Held[call[c].id] \ {"pending"} = Held[call[c].id]
      BY <2>2
    <3>2. Held = [id \in Ids |-> Held[id]]
      BY DEF Held
    <3> QED
      BY <2>1, <2>3, <3>1, <3>2
  <2>5. RS!Acknowledged(call[c].id, call[c].to)
    BY <1>2, <2>2, <2>4 DEF RS!Acknowledged, ProbeFinds
  <2> QED
    BY <2>1, <2>5 DEF RS!Next, RS!Terminal, Terminal
<1>3. ASSUME NEW c \in Callers, PutDestination(c) PROVE RS!Next
  <2>1. call[c].id \in Ids /\ call[c].to \in Terminal /\ call[c].data # None
        /\ call[c].data = sealed[call[c].id] /\ Stored(call[c].id)
    BY <1>3, NoneAssumption
    DEF PutDestination, IInv, TypeOK, Calls, CallsAreSound, CallIsSound
  <2>2. Held' = [Held EXCEPT ![call[c].id] = @ \cup {call[c].to}] /\ UNCHANGED acked
    BY <1>3, <2>1, PutHolds DEF PutDestination, IInv, Statuses
  <2>3. Held[call[c].id] # {}
    BY <2>1 DEF Held, Stored
  <2>4. RS!Copied(call[c].id, call[c].to)
    BY <2>2, <2>3 DEF RS!Copied
  <2> QED
    BY <2>1, <2>4 DEF RS!Next, RS!Terminal, Terminal
<1>4. ASSUME NEW c \in Callers, DeleteSource(c) PROVE RS!Next
  <2>1. call[c].id \in Ids /\ call[c].to \in Terminal
        /\ objects[call[c].to][call[c].id] # None
    BY <1>4 DEF DeleteSource, IInv, TypeOK, Calls, CallsAreSound, CallIsSound
  <2>2. Held' = [Held EXCEPT ![call[c].id] = @ \ {"pending"}]
    BY <1>4, <2>1, DeleteDrops DEF DeleteSource, IInv
  <2>3. RS!Acknowledged(call[c].id, call[c].to)
    BY <1>4, <2>1, <2>2 DEF RS!Acknowledged, DeleteSource, Held, Statuses
  <2> QED
    BY <2>1, <2>3 DEF RS!Next, RS!Terminal, Terminal
<1>5. ASSUME NEW r \in late, Land(r) PROVE RS!Next
  <2>1. r.id \in Ids /\ r.to \in Statuses /\ r.op \in {"put", "delete"}
    BY DEF IInv, TypeOK, Requests
  <2>2. CASE r.op = "put" /\ r.to = "pending"
    <3>1. r.data # None /\ Held[r.id] = {}
      BY <2>1, <2>2 DEF IInv, LateIsSound, Held, Stored
    <3>2. Held' = [Held EXCEPT ![r.id] = @ \cup {"pending"}] /\ UNCHANGED acked
      BY <1>5, <2>1, <2>2, <3>1, PutHolds DEF Land, IInv
    <3>3. RS!Born(r.id)
      BY <2>1, <3>1, <3>2 DEF RS!Born, Held
    <3> QED
      BY <2>1, <3>3 DEF RS!Next
  <2>3. CASE r.op = "put" /\ r.to # "pending"
    <3>1. r.data # None /\ Held[r.id] # {}
      BY <2>1, <2>3 DEF IInv, LateIsSound, Held, Stored
    <3>2. Held' = [Held EXCEPT ![r.id] = @ \cup {r.to}] /\ UNCHANGED acked
      BY <1>5, <2>1, <2>3, <3>1, PutHolds DEF Land, IInv
    <3>3. RS!Copied(r.id, r.to)
      BY <3>1, <3>2 DEF RS!Copied
    <3> QED
      BY <2>1, <2>3, <3>3 DEF RS!Next, RS!Terminal, Statuses, Terminal
  <2>4. CASE r.op = "delete"
    <3>1. r.to \in Terminal /\ objects[r.to][r.id] # None
      BY <2>4 DEF IInv, LateIsSound
    <3>2. Held' = [Held EXCEPT ![r.id] = @ \ {"pending"}] /\ UNCHANGED acked
      BY <1>5, <2>1, <2>4, DeleteDrops DEF Land, IInv
    <3>3. r.to \in Held[r.id] \cap RS!Terminal
      BY <2>1, <3>1 DEF Held, RS!Terminal, Terminal
    <3>4. RS!Dropped(r.id)
      BY <3>2, <3>3 DEF RS!Dropped
    <3> QED
      BY <2>1, <3>4 DEF RS!Next
  <2> QED
    BY <2>1, <2>2, <2>3, <2>4
<1>6. CASE UNCHANGED <<objects, acked>>
  BY <1>0, <1>6
<1> QED
  BY <1>1, <1>2, <1>3, <1>4, <1>5, <1>6
  DEF Next, Ingest, Continue, TransitionStep, Failure, vars, storeVars, StoreReportFails, Begin,
      Retry, GiveUp, GetSource, ProbeMisses, ProbeFails, StoreFails, Crash

(* Every history of the bucket is one the abstract specification of a       *)
(* report's statuses allows: born pending once, terminal copies kept,       *)
(* pending dropped only behind a terminal copy, acknowledgements true.      *)
THEOREM Refinement == Spec => ImplementsReportStatus
<1>1. Init => RS!Init
  BY DEF Init, RS!Init, Held, Statuses
<1> QED
  BY <1>1, RefinementStep, Inductive, PTL
  DEF Spec, ImplementsReportStatus, RS!Spec, RS!vars

=============================================================================
