--------------------- MODULE LifecycleCallersProofs ---------------------
(***************************************************************************)
(* Proofs about the programs that move reports through the lifecycle, each *)
(* for any reports, callers and number of failures: the publish run, for   *)
(* any caps (PublishJob), what it tells of itself (RunTelemetry), and the  *)
(* requests of an isolate, for any number of them and of evictions         *)
(* (ReportApi).  The steps of each are steps of Lifecycle or steps beside  *)
(* it, so that the invariant of LifecycleProofs carries over to both.      *)
(*                                                                         *)
(* The modules have nothing but Lifecycle in common: a theorem is about one*)
(* of them, and cites the assumptions of that one only.                    *)
(***************************************************************************)
EXTENDS RunTelemetry, ReportApi, LifecycleProofs, WellFoundedInduction, FiniteSetTheorems

-----------------------------------------------------------------------------
(***************************************************************************)
(* PublishJob.  A step of JobNext is a step of Lifecycle, whose invariant  *)
(* then carries over, or one beside it (Aside): a failure outside the      *)
(* store, or the run dropping its call.                                    *)
(***************************************************************************)

(* Report ids are ordered by their timestamp, as numbers are: a set of     *)
(* them that is not empty has an oldest one.                               *)
LEMMA LeastOf ==
  ASSUME NEW S, S \subseteq Nat, S # {}
  PROVE  \E x \in S : \A y \in S : x <= y
<1> DEFINE R == OpToRel(<, Nat)
<1>1. IsWellFoundedOn(R, Nat)
  BY NatLessThanWellFounded
<1>2. PICK x \in S : \A y \in S : <<y, x>> \notin R
  <2> HIDE DEF R
  <2> QED
    BY <1>1, WFMin
<1>3. \A a, b \in Nat : <<a, b>> \in R <=> a < b
  BY DEF OpToRel
<1>4. \A y \in S : ~(y < x)
  <2> HIDE DEF R
  <2> QED
    BY <1>2, <1>3
<1> QED
  BY <1>4

(* The report the loop takes next is one of those left.                    *)
LEMMA OldestIsThere ==
  ASSUME NEW S, S \subseteq Ids, S # {}
  PROVE  Oldest(S) \in S
<1>1. \E id \in S : \A other \in S : id <= other
  BY LeastOf, OrderAssumption
<1> QED
  BY <1>1 DEF Oldest

-----------------------------------------------------------------------------
(* A step that leaves the bucket alone: at most a failure elsewhere, and    *)
(* the run's call dropped with whatever write it had outstanding.           *)
Aside ==
    /\ UNCHANGED <<objects, sealed, accepted, acked>>
    /\ faults' \in 0..MaxFaults /\ faults <= faults'
    /\ \/ UNCHANGED <<call, late>>
       \/ /\ call' = [call EXCEPT ![Cron] = Idle]
          /\ late' = late \cup Outstanding(Cron)

(* A write that is dropped is as sound as it was in its caller's hands.     *)
LEMMA AsideStep == IInv /\ Aside => IInv'
<1> SUFFICES ASSUME IInv, Aside PROVE IInv'
  OBVIOUS
<1> USE NoneAssumption, FaultsAssumption, CronAssumption
<1>1. TypeOK'
  BY DEF Aside, IInv, TypeOK, Idle, Calls, InFlight, Outstanding, Requests, Statuses, Terminal,
         CallsAreSound, CallIsSound
<1>2. CopiesAreFaithful' /\ AcceptedIsHeld' /\ AckedIsSettled'
  BY DEF Aside, IInv, CopiesAreFaithful, AcceptedIsHeld, AckedIsSettled, Stored
<1>3. CallsAreSound'
  <2>1. ASSUME NEW c \in Callers PROVE CallIsSound(c)'
    <3>1. call'[c] = call[c] \/ call'[c] = Idle
      BY DEF Aside, IInv, TypeOK
    <3>2. CASE call'[c] = call[c]
      BY <3>2 DEF Aside, IInv, CallsAreSound, CallIsSound, Stored
    <3>3. CASE call'[c] = Idle
      BY <3>3 DEF Idle, InFlight, CallIsSound
    <3> QED
      BY <3>1, <3>2, <3>3
  <2> QED
    BY <2>1 DEF CallsAreSound
<1>4. LateIsSound'
  BY DEF Aside, IInv, LateIsSound, Outstanding, CallsAreSound, CallIsSound, TypeOK, Calls, Terminal,
         InFlight, Stored
<1> QED
  BY <1>1, <1>2, <1>3, <1>4 DEF IInv

(* Each action of the run is a step of its own call, a step beside the     *)
(* bucket, or one the bucket does not see.                                 *)
LEMMA StepKinds ==
  ASSUME IInv, JobTypeOK, CronIsSound, [JobNext]_jobVars
  PROVE  [Next]_vars \/ Aside
<1> USE CronAssumption, FaultsAssumption DEF IInv, TypeOK
<1>1. CASE StartRun \/ BuildPublish \/ List \/ EnsureLabels \/ FetchReport \/ EndRun
  BY <1>1 DEF StartRun, BuildPublish, List, EnsureLabels, FetchReport, EndRun
<1>2. CASE CreateConfirmed
  <2>1. job.id \in Ids /\ Stored(job.id) /\ call[Cron] = Idle
    BY <1>2 DEF CreateConfirmed, JobTypeOK, Jobs, CronIsSound
  <2>2. Begin(Cron, job.id, "published")
    BY <1>2, <2>1 DEF CreateConfirmed, Begin, Failed, Idle, InFlight, storeVars
  <2> QED
    BY <2>1, <2>2 DEF Next, Continue, Terminal
<1>3. CASE BuildPublishFails \/ ListFails \/ EnsureLabelsFails \/ FetchFails \/ Cancelled
           \/ CreateLost \/ CreateFails
  <2>1. Fault /\ UNCHANGED <<storeVars, call, acked>>
    BY <1>3 DEF BuildPublishFails, ListFails, EnsureLabelsFails, FetchFails, Cancelled, CreateLost,
                CreateFails
  <2> QED
    BY <2>1 DEF Fault, Aside, storeVars
<1>4. CASE Marked
  <2>1. late \cup Outstanding(Cron) = late
    BY <1>4 DEF Marked, Outstanding
  <2> QED
    BY <1>4, <2>1 DEF Marked, Aside, storeVars
<1>5. CASE RunCrashes
  BY <1>5 DEF RunCrashes, Fault, Aside
<1>6. CASE TransitionStep(Cron) \/ ProbeFails(Cron) \/ StoreFails(Cron)
  BY <1>6 DEF Next, Continue, Failure
<1>7. ASSUME NEW c \in Callers \ {Cron}, AdminStep(c) PROVE Next
  BY <1>7 DEF AdminStep, Next, Continue, Terminal
<1>8. CASE StoreStep
  BY <1>8 DEF StoreStep, Next
<1>9. CASE UNCHANGED jobVars
  BY <1>9 DEF jobVars
<1> QED
  BY <1>1, <1>2, <1>3, <1>4, <1>5, <1>6, <1>7, <1>8, <1>9 DEF JobNext, JobStep, JobFailure

(* Every step of the composition keeps the invariant of the lifecycle.     *)
LEMMA BaseStep ==
  ASSUME IInv, JobTypeOK, CronIsSound, [JobNext]_jobVars
  PROVE  IInv'
  BY StepKinds, IInvStep, AsideStep

-----------------------------------------------------------------------------
(* Every step of the composition settles the bucket as those of Lifecycle. *)
LEMMA StepSettles ==
  ASSUME IInv, JobTypeOK, CronIsSound, [JobNext]_jobVars
  PROVE  Settles
<1>1. CASE [Next]_vars
  BY <1>1, NextSettles
<1>2. CASE Aside
  BY <1>2, FaultsAssumption DEF Aside, Settles, Stored, Gone, IInv, TypeOK
<1> QED
  BY <1>1, <1>2, StepKinds

-----------------------------------------------------------------------------
(* The two ways a report or the run is left, field by field.               *)
LEMMA FinishIs ==
  ASSUME job \in Jobs, NEW ok \in BOOLEAN, FinishRun(ok)
  PROVE  /\ job' \in Jobs
         /\ job'.pc = "done" /\ job'.batch = {} /\ (job'.ok <=> ok)
         /\ job'.attempted = job.attempted /\ job'.pulled = job.pulled
<1>1. job' = [pc |-> "done", batch |-> {}, attempted |-> job.attempted, id |-> None, ok |-> ok,
              pulled |-> job.pulled]
  BY DEF FinishRun, Jobs
<1> QED
  BY <1>1 DEF Jobs

(* Going on to the next report leaves the one at hand behind.              *)
LEMMA AdvanceIs ==
  ASSUME job \in Jobs, NEW id, NEW err \in BOOLEAN, Advance(id, err)
  PROVE  /\ job' \in Jobs
         /\ job'.pc = "next" /\ job'.batch = job.batch \ {id}
         /\ (job'.ok => job.ok /\ ~err)
         /\ job'.attempted = job.attempted /\ job'.pulled = job.pulled
<1>1. job' = [pc |-> "next", batch |-> job.batch \ {id}, attempted |-> job.attempted,
              id |-> None, ok |-> job.ok /\ ~err, pulled |-> job.pulled]
  BY DEF Advance, Jobs
<1>2. (job.ok /\ ~err) \in BOOLEAN
  OBVIOUS
<1> QED
  BY <1>1, <1>2 DEF Jobs

(* Steps of the others leave the run, its call and GitHub alone, and only  *)
(* ever mark removed.                                                      *)
Elsewhere ==
    /\ UNCHANGED <<job, confirmed, orphaned>>
    /\ call'[Cron] = call[Cron]
    /\ \A c \in Callers \ {Cron} : call'[c].to = "removed"

(* That is all an admin request or a store write under way can do here.    *)
LEMMA ElsewhereStep ==
  ASSUME TypeOK, CronIsSound,
         (\E c \in Callers \ {Cron} : AdminStep(c)) \/ StoreStep \/ UNCHANGED jobVars
  PROVE  Elsewhere
<1> USE CronAssumption DEF Elsewhere, CronIsSound, githubVars
<1>1. ASSUME NEW c \in Callers \ {Cron}, AdminStep(c) PROVE Elsewhere
  <2>1. UNCHANGED <<job, confirmed, orphaned>>
    BY <1>1 DEF AdminStep
  <2>2. \A d \in Callers \ {c} : call'[d] = call[d]
    BY <1>1 DEF AdminStep, TypeOK, Begin, Retry, GiveUp, TransitionStep, GetSource, ProbeFinds,
       ProbeMisses, PutDestination, DeleteSource, Failure, ProbeFails, StoreFails, Crash, Return
  <2>3. call'[c].to = "removed"
    <3>1. call[c] \in Calls /\ call \in [Callers -> Calls] /\ call[c].to = "removed"
      BY DEF TypeOK
    <3>2. CASE (\E id \in Ids : Begin(c, id, "removed")) \/ Retry(c) \/ GiveUp(c)
      BY <3>1, <3>2 DEF Begin, Retry, GiveUp, Calling, Idle
    <3>3. CASE \E res : Return(c, res)
      BY <3>1, <3>3 DEF Return, Calls
    <3>4. CASE GetSource(c) \/ PutDestination(c)
      BY <3>1, <3>4 DEF GetSource, PutDestination, Calls
    <3> QED
      BY <1>1, <3>2, <3>3, <3>4 DEF AdminStep, TransitionStep, ProbeFinds, ProbeMisses,
         DeleteSource, Failure, ProbeFails, StoreFails, Crash
  <2> QED
    BY <2>1, <2>2, <2>3
<1>2. CASE StoreStep
  BY <1>2 DEF StoreStep, Ingest, StoreReport, StoreReportFails, Land
<1>3. CASE UNCHANGED jobVars
  BY <1>3 DEF jobVars, vars
<1> QED
  BY <1>1, <1>2, <1>3

(* The run's own call goes on for the report it was made for, and what it  *)
(* returns is true.                                                        *)
CallGoesOn ==
    /\ UNCHANGED <<job, confirmed, orphaned>> /\ job.pc = "mark"
    /\ \A c \in Callers \ {Cron} : call'[c] = call[c]
    /\ call'[Cron].pc # "idle"
    /\ call'[Cron].id = call[Cron].id /\ call'[Cron].to = call[Cron].to
    /\ call'[Cron].pc = "done" =>
          \/ call'[Cron].res = "nil" /\ <<job.id, "published">> \in acked'
          \/ call'[Cron].res = "unknown" /\ Gone(job.id)
          \/ call'[Cron].res = "error" /\ faults' = faults + 1

(* Each store call of MarkPublished, with its failures, keeps to that.      *)
LEMMA CallStep ==
  ASSUME IInv, JobTypeOK, CronIsSound, UNCHANGED <<job, githubVars>>,
         TransitionStep(Cron) \/ ProbeFails(Cron) \/ StoreFails(Cron)
  PROVE  CallGoesOn
<1> USE CronAssumption DEF githubVars
<1>1. call[Cron] \in Calls /\ call \in [Callers -> Calls]
  BY DEF IInv, TypeOK
<1>2. call[Cron].pc \in InFlight
  BY DEF TransitionStep, GetSource, ProbeFinds, ProbeMisses, PutDestination, DeleteSource,
         ProbeFails, StoreFails, InFlight
<1>3. job.pc = "mark" /\ call[Cron].id = job.id /\ call[Cron].to = "published" /\ Stored(job.id)
  BY <1>2 DEF CronIsSound, Idle, InFlight
<1>4. call[Cron].pc = "probe" => Gone(job.id)
  BY <1>3 DEF IInv, CallsAreSound, CallIsSound, Gone
<1>5. CASE GetSource(Cron) \/ PutDestination(Cron)
  BY <1>1, <1>3, <1>5 DEF GetSource, PutDestination, Calls, CallGoesOn
<1>6. CASE ProbeFinds(Cron) \/ DeleteSource(Cron)
  <2>1. Return(Cron, "nil") /\ <<job.id, "published">> \in acked'
    BY <1>3, <1>6 DEF ProbeFinds, DeleteSource
  <2> QED
    BY <1>1, <1>3, <2>1 DEF Return, Calls, CallGoesOn
<1>7. CASE ProbeMisses(Cron) \/ ProbeFails(Cron)
  <2>1. Return(Cron, "unknown") /\ Gone(job.id)
    BY <1>4, <1>7 DEF ProbeMisses, ProbeFails
  <2> QED
    BY <1>1, <1>3, <2>1 DEF Return, Calls, CallGoesOn
<1>8. CASE StoreFails(Cron)
  <2>1. Return(Cron, "error") /\ faults' = faults + 1
    BY <1>8 DEF StoreFails, Fault
  <2> QED
    BY <1>1, <1>3, <2>1 DEF Return, Calls, CallGoesOn
<1> QED
  BY <1>5, <1>6, <1>7, <1>8 DEF TransitionStep

-----------------------------------------------------------------------------
(* The types of the run and of GitHub's counts, one case per action.       *)
LEMMA JobTypeStep ==
  ASSUME IInv, JobTypeOK, CronIsSound, [JobNext]_jobVars
  PROVE  JobTypeOK'
<1>0. TypeOK'
  BY BaseStep DEF IInv
<1>1. job \in Jobs /\ job.batch \subseteq job.attempted /\ job.batch \subseteq Ids
  BY DEF JobTypeOK, Jobs
<1>2. job.pc \in {"create", "mark"} => job.id \in job.batch
  BY DEF JobTypeOK
<1>3. confirmed \in [Ids -> Nat] /\ orphaned \in [Ids -> Nat]
  BY DEF JobTypeOK
<1> DEFINE JobOK == /\ job \in Jobs /\ job.batch \subseteq job.attempted
                    /\ job.pc \in {"create", "mark"} => job.id \in job.batch
<1>4. ASSUME JobOK', confirmed' \in [Ids -> Nat], orphaned' \in [Ids -> Nat] PROVE JobTypeOK'
  BY <1>0, <1>4 DEF JobTypeOK
<1>5. ASSUME NEW ok \in BOOLEAN, FinishRun(ok) PROVE JobOK'
  BY <1>1, <1>5, FinishIs
<1>6. ASSUME NEW id, NEW err \in BOOLEAN, Advance(id, err) PROVE JobOK'
  BY <1>1, <1>6, AdvanceIs
<1>7. CASE StartRun
  BY <1>3, <1>4, <1>7 DEF StartRun, Jobs, githubVars
<1>8. CASE BuildPublish \/ EnsureLabels \/ EnsureLabelsFails
  <2>1. JobOK'
    BY <1>1, <1>8 DEF BuildPublish, EnsureLabels, EnsureLabelsFails, Jobs
  <2> QED
    BY <1>3, <1>4, <1>8, <2>1 DEF BuildPublish, EnsureLabels, EnsureLabelsFails, githubVars
<1>9. CASE List
  <2>1. CASE FinishRun(TRUE)
    BY <1>3, <1>4, <1>5, <1>9, <2>1 DEF List, githubVars
  <2>2. CASE \E cap \in Caps :
               job' = [job EXCEPT !.pc = "labels", !.batch = Capped(ListPending, cap),
                                  !.attempted = Capped(ListPending, cap)]
    <3>1. PICK cap \in Caps :
               job' = [job EXCEPT !.pc = "labels", !.batch = Capped(ListPending, cap),
                                  !.attempted = Capped(ListPending, cap)]
      BY <2>2
    <3>2. Capped(ListPending, cap) \subseteq Ids
      BY DEF Capped, ListPending
    <3>3. JobOK'
      BY <1>1, <3>1, <3>2 DEF Jobs
    <3> QED
      BY <1>3, <1>4, <1>9, <3>3 DEF List, githubVars
  <2> QED
    BY <1>9, <2>1, <2>2 DEF List
<1>10. CASE FetchReport
  <2>1. Oldest(job.batch) \in job.batch
    BY <1>1, <1>10, OldestIsThere DEF FetchReport
  <2>2. CASE Advance(Oldest(job.batch), TRUE)
    BY <1>3, <1>4, <1>6, <1>10, <2>2 DEF FetchReport, githubVars
  <2>3. CASE job' = [job EXCEPT !.pc = "create", !.id = Oldest(job.batch)]
    <3>1. JobOK'
      BY <1>1, <2>1, <2>3 DEF Jobs
    <3> QED
      BY <1>3, <1>4, <1>10, <3>1 DEF FetchReport, githubVars
  <2> QED
    BY <1>10, <2>2, <2>3 DEF FetchReport
<1>11. CASE CreateConfirmed
  <2>1. JobOK'
    BY <1>1, <1>2, <1>11 DEF CreateConfirmed, Jobs
  <2>2. confirmed' \in [Ids -> Nat]
    BY <1>1, <1>2, <1>3, <1>11 DEF CreateConfirmed
  <2> QED
    BY <1>3, <1>4, <1>11, <2>1, <2>2 DEF CreateConfirmed
<1>12. CASE CreateLost
  <2>1. JobOK'
    BY <1>1, <1>2, <1>12 DEF CreateLost
  <2>2. orphaned' \in [Ids -> Nat]
    BY <1>1, <1>2, <1>3, <1>12 DEF CreateLost
  <2> QED
    BY <1>3, <1>4, <1>12, <2>1, <2>2 DEF CreateLost
<1>13. CASE Marked
  <2>1. (call[Cron].res # "nil") \in BOOLEAN
    OBVIOUS
  <2> QED
    BY <1>3, <1>4, <1>6, <1>13, <2>1 DEF Marked, githubVars
<1>14. CASE FetchFails \/ CreateFails
  BY <1>3, <1>4, <1>6, <1>14 DEF FetchFails, CreateFails, githubVars
<1>15. CASE EndRun
  <2>1. job.ok \in BOOLEAN
    BY <1>1 DEF Jobs
  <2> QED
    BY <1>3, <1>4, <1>5, <1>15, <2>1 DEF EndRun, githubVars
<1>16. CASE BuildPublishFails \/ ListFails \/ Cancelled \/ RunCrashes
  BY <1>3, <1>4, <1>5, <1>16 DEF BuildPublishFails, ListFails, Cancelled, RunCrashes, githubVars
<1>17. CASE UNCHANGED <<job, githubVars>>
  <2>1. JobOK'
    BY <1>1, <1>2, <1>17
  <2> QED
    BY <1>3, <1>4, <1>17, <2>1 DEF githubVars
<1> QED
  BY <1>7, <1>8, <1>9, <1>10, <1>11, <1>12, <1>13, <1>14, <1>15, <1>16, <1>17
     DEF JobNext, JobStep, JobFailure, AdminStep, StoreStep, jobVars

-----------------------------------------------------------------------------
(* Only the run's own call marks published, and only for the report it has *)
(* just created an issue for.                                              *)
LEMMA CronStep ==
  ASSUME IInv, JobTypeOK, CronIsSound, [JobNext]_jobVars
  PROVE  CronIsSound'
<1>0. Settles /\ JobTypeOK' /\ IInv'
  BY StepSettles, JobTypeStep, BaseStep
<1>1. call \in [Callers -> Calls] /\ job \in Jobs /\ job.batch \subseteq Ids
  BY DEF IInv, TypeOK, JobTypeOK, Jobs
<1>2. /\ \A c \in Callers \ {Cron} : call[c].to = "removed"
      /\ job.pc # "mark" => call[Cron] = Idle
      /\ job.pc \in {"create", "mark"} =>
            job.id \in Ids /\ \E s \in Statuses : objects'[s][job.id] # None
  <2>1. ASSUME job.pc \in {"create", "mark"}
        PROVE  job.id \in Ids /\ \E s \in Statuses : objects'[s][job.id] # None
    <3>1. job.id \in Ids /\ Stored(job.id)
      BY <2>1 DEF CronIsSound, JobTypeOK, Jobs
    <3> QED
      BY <1>0, <3>1 DEF Settles, Stored
  <2> QED
    BY <2>1 DEF CronIsSound
<1>3. ASSUME call' = call, job.pc # "mark", job'.pc \notin {"create", "mark"} PROVE CronIsSound'
  <2>1. call'[Cron] = Idle /\ \A c \in Callers \ {Cron} : call'[c].to = "removed"
    BY <1>2, <1>3
  <2> QED
    BY <1>3, <2>1 DEF CronIsSound
<1>4. ASSUME call' = [call EXCEPT ![Cron] = Idle], job'.pc \notin {"create", "mark"}
      PROVE  CronIsSound'
  BY <1>1, <1>2, <1>4, CronAssumption DEF CronIsSound
<1>5. ASSUME NEW ok \in BOOLEAN, FinishRun(ok) PROVE job'.pc = "done"
  BY <1>1, <1>5, FinishIs
<1>6. ASSUME NEW id, NEW err \in BOOLEAN, Advance(id, err) PROVE job'.pc = "next"
  BY <1>1, <1>6, AdvanceIs
<1>7. CASE StartRun \/ BuildPublish \/ EnsureLabels \/ EnsureLabelsFails
  <2>1. job.pc # "mark" /\ job'.pc \in {"wire", "list", "next"}
    <3>1. CASE StartRun
      BY <3>1 DEF StartRun
    <3> QED
      BY <1>1, <1>7, <3>1 DEF BuildPublish, EnsureLabels, EnsureLabelsFails, Jobs
  <2>2. call' = call
    BY <1>7 DEF StartRun, BuildPublish, EnsureLabels, EnsureLabelsFails, vars
  <2> QED
    BY <1>3, <2>1, <2>2
<1>8. CASE List
  <2>1. job'.pc \in {"done", "labels"}
    BY <1>1, <1>5, <1>8 DEF List, Jobs
  <2> QED
    BY <1>3, <1>8, <2>1 DEF List, vars
<1>9. CASE FetchReport
  <2>1. Oldest(job.batch) \in job.batch
    BY <1>1, <1>9, OldestIsThere DEF FetchReport
  <2>2. CASE Fetched \in Unopenable \cup {None}
    BY <1>3, <1>6, <1>9, <2>2 DEF FetchReport, vars
  <2>3. CASE Fetched \notin Unopenable \cup {None}
    <3>1. job'.pc = "create" /\ job'.id = Oldest(job.batch) /\ call' = call /\ job.pc = "next"
      BY <1>1, <1>9, <2>3 DEF FetchReport, Jobs, vars
    <3>2. Stored(Oldest(job.batch))
      BY <2>3 DEF Fetched, Stored, Statuses
    <3>3. \E s \in Statuses : objects'[s][job'.id] # None
      BY <1>0, <1>1, <2>1, <3>1, <3>2 DEF Settles, Stored
    <3>4. call'[Cron] = Idle /\ \A c \in Callers \ {Cron} : call'[c].to = "removed"
      BY <1>2, <3>1
    <3> QED
      BY <3>1, <3>3, <3>4 DEF CronIsSound, Stored
  <2> QED
    BY <2>2, <2>3
<1>10. CASE CreateConfirmed
  <2>1. /\ job'.pc = "mark" /\ job'.id = job.id /\ job.pc = "create"
        /\ call' = [call EXCEPT ![Cron] = Calling(job.id, "published")]
    BY <1>1, <1>10 DEF CreateConfirmed, Jobs
  <2>2. confirmed'[job.id] > 0
    BY <1>2, <1>10, <2>1 DEF CreateConfirmed, JobTypeOK
  <2> QED
    BY <1>1, <1>2, <2>1, <2>2, CronAssumption DEF CronIsSound, Calling, Stored
<1>11. CASE CreateLost
  BY <1>2, <1>11 DEF CreateLost, CronIsSound, Stored
<1>12. CASE Marked
  BY <1>4, <1>6, <1>12 DEF Marked
<1>13. CASE FetchFails \/ CreateFails
  BY <1>3, <1>6, <1>13 DEF FetchFails, CreateFails
<1>14. CASE EndRun
  <2>1. job.ok \in BOOLEAN
    BY <1>1 DEF Jobs
  <2> QED
    BY <1>3, <1>5, <1>14, <2>1 DEF EndRun, vars
<1>15. CASE BuildPublishFails \/ ListFails \/ Cancelled
  BY <1>3, <1>5, <1>15 DEF BuildPublishFails, ListFails, Cancelled
<1>16. CASE RunCrashes
  BY <1>4, <1>5, <1>16 DEF RunCrashes
<1>17. CASE CallGoesOn
  BY <1>2, <1>17 DEF CallGoesOn, CronIsSound, Stored
<1>18. CASE Elsewhere
  <2>1. CASE job.pc \in {"create", "mark"}
    BY <1>2, <1>18, <2>1 DEF Elsewhere, CronIsSound, Stored
  <2>2. CASE job.pc \notin {"create", "mark"}
    BY <1>2, <1>18, <2>2 DEF Elsewhere, CronIsSound, Stored
  <2> QED
    BY <2>1, <2>2
<1> QED
  BY <1>7, <1>8, <1>9, <1>10, <1>11, <1>12, <1>13, <1>14, <1>15, <1>16, <1>17, <1>18, CallStep,
     ElsewhereStep DEF JobNext, JobStep, JobFailure, IInv

-----------------------------------------------------------------------------
(* A report whose removal was acknowledged is not pending, so it is in no  *)
(* later batch; one that leaves the batch without an error was             *)
(* acknowledged as published.                                              *)
LEMMA BatchStep ==
  ASSUME IInv, JobTypeOK, CronIsSound, BatchIsSound, OutcomeIsTrue, [JobNext]_jobVars
  PROVE  BatchIsSound'
<1>0. Settles
  BY StepSettles
<1>1. job \in Jobs /\ acked \subseteq acked' /\ confirmed \in [Ids -> Nat]
  BY <1>0 DEF Settles, JobTypeOK
<1>2. /\ job.attempted \subseteq Ids /\ job.pulled \subseteq Ids
      /\ \A id \in job.pulled : id \notin job.batch /\ <<id, "removed">> \in acked'
      /\ job.ok => \A id \in job.attempted \ job.batch :
                      <<id, "published">> \in acked' /\ confirmed[id] > 0
  BY <1>1 DEF BatchIsSound, Jobs
<1>3. \A id \in Ids : confirmed'[id] >= confirmed[id] /\ confirmed[id] \in Nat
                      /\ confirmed'[id] \in Nat
  <2>1. CASE CreateConfirmed
    BY <1>1, <2>1 DEF CreateConfirmed
  <2>2. CASE UNCHANGED confirmed
    BY <1>1, <2>2
  <2> QED
    BY <2>1, <2>2 DEF JobNext, JobStep, JobFailure, StartRun, BuildPublish, List, EnsureLabels,
       FetchReport, Marked, EndRun, BuildPublishFails, ListFails, EnsureLabelsFails, FetchFails,
       Cancelled, CreateLost, CreateFails, RunCrashes, AdminStep, StoreStep, githubVars, jobVars
(* The batch only loses reports, and the run is not ok any more or the     *)
(* ones it lost were published.                                            *)
<1>4. ASSUME job'.attempted = job.attempted, job'.pulled = job.pulled,
             job'.batch \subseteq job.batch,
             job'.pc \in {"done", "wire", "list"} => job'.batch = {},
             job'.pc \in {"wire", "list"} => job'.attempted = {},
             job'.ok => job.ok,
             job'.ok => \A id \in job.batch \ job'.batch :
                          id \in Ids /\ <<id, "published">> \in acked' /\ confirmed[id] > 0
      PROVE  BatchIsSound'
  <2>1. \A id \in job'.pulled : id \notin job'.batch /\ <<id, "removed">> \in acked'
    BY <1>2, <1>4
  <2>2. ASSUME job'.ok, NEW id \in job'.attempted \ job'.batch
        PROVE  <<id, "published">> \in acked' /\ confirmed'[id] > 0
    <3>1. id \in Ids /\ <<id, "published">> \in acked' /\ confirmed[id] > 0
      BY <1>2, <1>4, <2>2
    <3> QED
      BY <1>3, <3>1
  <2> QED
    BY <1>4, <2>1, <2>2 DEF BatchIsSound
<1>5. ASSUME FinishRun(FALSE) PROVE BatchIsSound'
  BY <1>1, <1>4, <1>5, FinishIs
<1>6. ASSUME NEW id, Advance(id, TRUE) PROVE BatchIsSound'
  BY <1>1, <1>4, <1>6, AdvanceIs
<1>7. CASE StartRun
  <2>1. /\ job'.pc = "wire" /\ job'.batch = {} /\ job'.attempted = {}
        /\ job'.pulled = {id \in Ids : <<id, "removed">> \in acked}
    BY <1>7 DEF StartRun
  <2> QED
    BY <1>1, <2>1 DEF BatchIsSound
<1>8. CASE BuildPublish
  <2>1. job.batch = {} /\ job.attempted = {}
    BY <1>8 DEF BuildPublish, BatchIsSound
  <2> QED
    BY <1>1, <1>4, <1>8, <2>1 DEF BuildPublish, Jobs
<1>9. CASE EnsureLabels \/ EnsureLabelsFails
  BY <1>1, <1>4, <1>9 DEF EnsureLabels, EnsureLabelsFails, Jobs
<1>10. CASE List
  <2>0. job.attempted = {} /\ job.batch = {}
    BY <1>10 DEF List, BatchIsSound
  <2>1. CASE FinishRun(TRUE)
    <3>1. job'.pc = "done" /\ job'.batch = {} /\ job'.attempted = {} /\ job'.pulled = job.pulled
      BY <1>1, <2>0, <2>1, FinishIs
    <3> QED
      BY <1>2, <3>1 DEF BatchIsSound
  <2>2. CASE \E cap \in Caps :
               job' = [job EXCEPT !.pc = "labels", !.batch = Capped(ListPending, cap),
                                  !.attempted = Capped(ListPending, cap)]
    <3>1. PICK cap \in Caps :
               job' = [job EXCEPT !.pc = "labels", !.batch = Capped(ListPending, cap),
                                  !.attempted = Capped(ListPending, cap)]
      BY <2>2
    <3>2. Capped(ListPending, cap) \subseteq ListPending
      BY DEF Capped
    <3>3. /\ job'.pc = "labels" /\ job'.batch = Capped(ListPending, cap)
          /\ job'.attempted = job'.batch /\ job'.pulled = job.pulled
      BY <1>1, <3>1 DEF Jobs
    <3>4. \A id \in job.pulled : id \notin ListPending
      BY DEF BatchIsSound, IInv, AckedIsSettled, ListPending
    <3> QED
      BY <1>2, <3>2, <3>3, <3>4 DEF BatchIsSound
  <2> QED
    BY <1>10, <2>1, <2>2 DEF List
<1>11. CASE FetchReport
  <2>1. CASE Advance(Oldest(job.batch), TRUE)
    BY <1>6, <2>1
  <2>2. CASE job' = [job EXCEPT !.pc = "create", !.id = Oldest(job.batch)]
    BY <1>1, <1>4, <2>2 DEF Jobs
  <2> QED
    BY <1>11, <2>1, <2>2 DEF FetchReport
<1>12. CASE CreateConfirmed
  BY <1>1, <1>4, <1>12 DEF CreateConfirmed, Jobs
<1>13. CASE Marked
  <2>1. /\ job'.pc = "next" /\ job'.batch = job.batch \ {job.id}
        /\ job'.ok => job.ok /\ call[Cron].res = "nil"
        /\ job'.attempted = job.attempted /\ job'.pulled = job.pulled
    BY <1>1, <1>13, AdvanceIs DEF Marked
  <2>2. job.id \in Ids /\ confirmed[job.id] > 0
    BY <1>1, <1>13 DEF Marked, CronIsSound, JobTypeOK, Jobs
  <2>3. job'.ok => <<job.id, "published">> \in acked'
    BY <1>1, <1>13, <2>1 DEF Marked, OutcomeIsTrue
  <2> QED
    BY <1>4, <2>1, <2>2, <2>3
<1>14. CASE FetchFails \/ CreateFails
  BY <1>6, <1>14 DEF FetchFails, CreateFails
<1>15. CASE EndRun
  <2>1. job.batch = {} /\ job.ok \in BOOLEAN /\ FinishRun(job.ok)
    BY <1>1, <1>15 DEF EndRun, Jobs
  <2> QED
    BY <1>1, <1>4, <2>1, FinishIs
<1>16. CASE BuildPublishFails \/ ListFails \/ Cancelled \/ RunCrashes
  BY <1>5, <1>16 DEF BuildPublishFails, ListFails, Cancelled, RunCrashes
<1>17. CASE UNCHANGED job
  BY <1>4, <1>17 DEF BatchIsSound
<1> QED
  BY <1>7, <1>8, <1>9, <1>10, <1>11, <1>12, <1>13, <1>14, <1>15, <1>16, <1>17
     DEF JobNext, JobStep, JobFailure, AdminStep, StoreStep, jobVars, CreateLost

(* The answer the run waits for is true when it comes, and stays so.       *)
LEMMA OutcomeStep ==
  ASSUME IInv, JobTypeOK, CronIsSound, OutcomeIsTrue, IssuesAreAccounted, [JobNext]_jobVars
  PROVE  OutcomeIsTrue'
<1>0. Settles /\ CronIsSound'
  BY StepSettles, CronStep
<1>1. job \in Jobs /\ \A id \in Ids : Issues(id) \in Nat
  BY DEF JobTypeOK, Issues
<1>2. job.pc = "mark" => job.id \in Ids
  BY DEF JobTypeOK, Jobs
<1>3. CASE CallGoesOn
  <2>1. Issues(job.id) <= 1 + faults
    BY <1>0, <1>1, <1>2, <1>3 DEF CallGoesOn, IssuesAreAccounted, Settles
  <2>2. CASE call'[Cron].pc = "done"
    <3>1. CASE call'[Cron].res = "nil" /\ <<job.id, "published">> \in acked'
      BY <1>3, <3>1 DEF CallGoesOn, OutcomeIsTrue
    <3>2. CASE call'[Cron].res = "unknown" /\ Gone(job.id)
      <4>1. \A id \in Ids : id = job.id => Gone(id)'
        BY <1>0, <3>2 DEF Settles
      <4> QED
        BY <1>2, <1>3, <3>2, <4>1 DEF CallGoesOn, OutcomeIsTrue, Gone, Stored
    <3>3. CASE call'[Cron].res = "error" /\ faults' = faults + 1
      BY <1>0, <1>1, <1>2, <1>3, <2>1, <3>3 DEF CallGoesOn, OutcomeIsTrue, Issues, Settles
    <3> QED
      BY <1>3, <2>2, <3>1, <3>2, <3>3 DEF CallGoesOn
  <2>3. CASE call'[Cron].pc # "done"
    BY <2>3 DEF OutcomeIsTrue
  <2> QED
    BY <2>2, <2>3
<1>4. CASE Elsewhere
  <2>1. CASE job.pc = "mark" /\ call[Cron].pc = "done"
    <3>1. CASE call[Cron].res = "nil" /\ <<job.id, "published">> \in acked
      BY <1>0, <1>4, <3>1 DEF Elsewhere, OutcomeIsTrue, Settles
    <3>2. CASE call[Cron].res = "unknown" /\ Gone(job.id)
      <4>1. \A id \in Ids : id = job.id => Gone(id)'
        BY <1>0, <3>2 DEF Settles
      <4> QED
        BY <1>2, <1>4, <2>1, <3>2, <4>1 DEF Elsewhere, OutcomeIsTrue, Gone, Stored
    <3>3. CASE call[Cron].res = "error" /\ Issues(job.id) <= faults
      BY <1>0, <1>1, <1>2, <1>4, <2>1, <3>3 DEF Elsewhere, OutcomeIsTrue, Issues, Settles
    <3> QED
      BY <2>1, <3>1, <3>2, <3>3 DEF OutcomeIsTrue
  <2>2. CASE ~(job.pc = "mark" /\ call[Cron].pc = "done")
    BY <1>4, <2>2 DEF Elsewhere, OutcomeIsTrue
  <2> QED
    BY <2>1, <2>2
<1>5. CASE CreateConfirmed
  <2>1. call'[Cron].pc = "get"
    BY <1>5, CronAssumption DEF CreateConfirmed, IInv, TypeOK, Calling
  <2> QED
    BY <2>1 DEF OutcomeIsTrue
<1>6. CASE job'.pc # "mark"
  BY <1>6 DEF OutcomeIsTrue
<1>7. CASE call'[Cron] = Idle
  BY <1>7 DEF OutcomeIsTrue, Idle
<1> QED
  <2>1. ASSUME NEW ok \in BOOLEAN, FinishRun(ok) PROVE job'.pc = "done"
    BY <1>1, <2>1, FinishIs
  <2>2. ASSUME NEW id, NEW err \in BOOLEAN, Advance(id, err) PROVE job'.pc = "next"
    BY <1>1, <2>2, AdvanceIs
  <2>3. ASSUME StartRun \/ BuildPublish \/ EnsureLabels \/ EnsureLabelsFails \/ List \/ FetchReport
               \/ CreateLost \/ Marked \/ FetchFails \/ CreateFails \/ EndRun \/ BuildPublishFails
               \/ ListFails \/ Cancelled \/ RunCrashes
        PROVE  job'.pc # "mark"
    <3>1. job.ok \in BOOLEAN /\ (call[Cron].res # "nil") \in BOOLEAN
      BY <1>1 DEF Jobs
    <3>2. CASE \/ \E ok \in BOOLEAN : FinishRun(ok)
               \/ \E id : \E err \in BOOLEAN : Advance(id, err)
      BY <2>1, <2>2, <3>2
    <3>3. CASE StartRun \/ BuildPublish \/ EnsureLabels \/ EnsureLabelsFails \/ CreateLost
      <4>1. CASE StartRun
        BY <4>1 DEF StartRun
      <4>2. CASE CreateLost
        BY <4>2 DEF CreateLost
      <4> QED
        BY <1>1, <3>3, <4>1, <4>2 DEF BuildPublish, EnsureLabels, EnsureLabelsFails, Jobs
    <3>4. CASE List \/ FetchReport
      BY <1>1, <3>2, <3>4 DEF List, FetchReport, Jobs
    <3> QED
      BY <2>3, <3>1, <3>2, <3>3, <3>4 DEF Marked, FetchFails, CreateFails, EndRun,
         BuildPublishFails, ListFails, Cancelled, RunCrashes
  <2> QED
    BY <1>3, <1>4, <1>5, <1>6, <2>3, CallStep, ElsewhereStep DEF JobNext, JobStep, JobFailure, IInv

-----------------------------------------------------------------------------
(* An issue beyond the faults so far is only created for a report that is  *)
(* then marked, and the mark ends with the report gone or a fault more.    *)
LEMMA AccountedStep ==
  ASSUME IInv, JobTypeOK, CronIsSound, OutcomeIsTrue, IssuesAreAccounted, [JobNext]_jobVars
  PROVE  IssuesAreAccounted'
<1>0. Settles
  BY StepSettles
<1>1. /\ job \in Jobs /\ job.batch \subseteq Ids
      /\ confirmed \in [Ids -> Nat] /\ orphaned \in [Ids -> Nat]
      /\ faults \in Nat /\ faults' \in Nat /\ faults <= faults'
  BY <1>0 DEF JobTypeOK, Jobs, Settles
<1>2. job.pc \in {"create", "mark"} => job.id \in Ids
  BY DEF JobTypeOK, Jobs
<1>3. \A id \in Ids : Issues(id) \in Nat
  BY <1>1 DEF Issues
<1>4. ASSUME UNCHANGED <<confirmed, orphaned>>,
             job'.pc = "create" => job'.id \in Ids /\ Issues(job'.id) <= faults,
             job.pc = "mark" => \/ job'.pc = "mark" /\ job'.id = job.id
                                \/ Gone(job.id)
                                \/ Issues(job.id) <= faults'
      PROVE  IssuesAreAccounted'
  <2>1. ASSUME NEW id \in Ids
        PROVE  \/ Issues(id) <= faults'
               \/ /\ Issues(id) <= 1 + faults'
                  /\ Gone(id)' \/ (job'.pc = "mark" /\ job'.id = id)
    <3>1. Issues(id) \in Nat
      BY <1>3
    <3>2. CASE Issues(id) <= faults
      BY <1>1, <3>1, <3>2
    <3>3. CASE Issues(id) <= 1 + faults /\ Gone(id)
      BY <1>0, <1>1, <3>1, <3>3 DEF Settles
    <3>4. CASE Issues(id) <= 1 + faults /\ job.pc = "mark" /\ job.id = id
      <4>1. CASE Gone(id)
        BY <3>3, <3>4, <4>1
      <4>2. CASE ~Gone(id)
        BY <1>1, <1>4, <3>1, <3>4, <4>2
      <4> QED
        BY <4>1, <4>2
    <3> QED
      BY <3>2, <3>3, <3>4 DEF IssuesAreAccounted
  <2>2. \A id \in Ids : Issues(id)' = Issues(id)
    BY <1>4 DEF Issues
  <2>3. job'.pc = "create" => confirmed'[job'.id] + orphaned'[job'.id] <= faults'
    BY <1>1, <1>3, <1>4 DEF Issues
  <2> QED
    BY <2>1, <2>2, <2>3 DEF IssuesAreAccounted, Issues
<1>5. ASSUME NEW ok \in BOOLEAN, FinishRun(ok) PROVE job'.pc = "done"
  BY <1>1, <1>5, FinishIs
<1>6. ASSUME NEW id, NEW err \in BOOLEAN, Advance(id, err) PROVE job'.pc = "next"
  BY <1>1, <1>6, AdvanceIs
<1>7. CASE StartRun \/ BuildPublish \/ EnsureLabels \/ EnsureLabelsFails
  <2>1. job.pc # "mark" /\ job'.pc \in {"wire", "list", "next"}
    <3>1. CASE StartRun
      BY <3>1 DEF StartRun
    <3> QED
      BY <1>1, <1>7, <3>1 DEF BuildPublish, EnsureLabels, EnsureLabelsFails, Jobs
  <2>2. UNCHANGED <<confirmed, orphaned>>
    BY <1>7 DEF StartRun, BuildPublish, EnsureLabels, EnsureLabelsFails, githubVars
  <2> QED
    BY <1>4, <2>1, <2>2
<1>8. CASE List
  <2>1. job'.pc \in {"done", "labels"}
    BY <1>1, <1>5, <1>8 DEF List, Jobs
  <2> QED
    BY <1>4, <1>8, <2>1 DEF List, githubVars
<1>9. CASE FetchReport
  <2>1. Oldest(job.batch) \in Ids
    BY <1>1, <1>9, OldestIsThere DEF FetchReport
  <2>2. CASE Fetched \in Unopenable \cup {None}
    BY <1>4, <1>6, <1>9, <2>2 DEF FetchReport, githubVars
  <2>3. CASE Fetched \notin Unopenable \cup {None}
    <3>1. job.pc = "next" /\ job'.id = Oldest(job.batch)
      BY <1>1, <1>9, <2>3 DEF FetchReport, Jobs
    <3>2. ~Gone(Oldest(job.batch))
      BY <2>3 DEF Fetched, Gone
    <3>3. Issues(Oldest(job.batch)) <= faults
      BY <2>1, <3>1, <3>2 DEF IssuesAreAccounted
    <3> QED
      BY <1>4, <1>9, <2>1, <3>1, <3>3 DEF FetchReport, githubVars
  <2> QED
    BY <2>2, <2>3
<1>10. CASE CreateConfirmed
  <2>1. /\ job'.pc = "mark" /\ job'.id = job.id /\ job.pc = "create" /\ job.id \in Ids
        /\ faults' = faults
    BY <1>1, <1>2, <1>10 DEF CreateConfirmed, Jobs
  <2>2. Issues(job.id) <= faults
    BY <2>1 DEF IssuesAreAccounted
  <2>3. ASSUME NEW id \in Ids
        PROVE  confirmed'[id] + orphaned'[id] = IF id = job.id THEN Issues(id) + 1 ELSE Issues(id)
    BY <1>1, <1>10, <2>1 DEF CreateConfirmed, Issues
  <2>4. ASSUME NEW id \in Ids
        PROVE  \/ confirmed'[id] + orphaned'[id] <= faults
               \/ /\ confirmed'[id] + orphaned'[id] <= 1 + faults
                  /\ Gone(id)' \/ id = job.id
    <3>1. CASE id = job.id
      BY <1>1, <1>3, <2>2, <2>3, <3>1
    <3>2. CASE id # job.id
      BY <1>0, <2>1, <2>3, <3>2 DEF IssuesAreAccounted, Settles
    <3> QED
      BY <3>1, <3>2
  <2> QED
    BY <2>1, <2>4 DEF IssuesAreAccounted, Issues
<1>11. CASE CreateLost
  <2>1. UNCHANGED job /\ job.pc = "create" /\ job.id \in Ids /\ faults' = faults + 1
    BY <1>2, <1>11 DEF CreateLost, Fault
  <2>2. Issues(job.id) <= faults
    BY <2>1 DEF IssuesAreAccounted
  <2>3. ASSUME NEW id \in Ids
        PROVE  confirmed'[id] + orphaned'[id] = IF id = job.id THEN Issues(id) + 1 ELSE Issues(id)
    BY <1>1, <1>11, <2>1 DEF CreateLost, Issues
  <2>4. ASSUME NEW id \in Ids PROVE confirmed'[id] + orphaned'[id] <= faults'
    <3>1. CASE id = job.id
      BY <1>1, <1>3, <2>1, <2>2, <2>3, <3>1
    <3>2. CASE id # job.id
      BY <1>1, <1>3, <2>1, <2>3, <3>2 DEF IssuesAreAccounted
    <3> QED
      BY <3>1, <3>2
  <2> QED
    BY <2>1, <2>4 DEF IssuesAreAccounted, Issues
<1>12. CASE Marked
  <2>1. job.pc = "mark" /\ call[Cron].pc = "done" /\ job'.pc = "next"
    BY <1>6, <1>12 DEF Marked
  <2>2. <<job.id, "published">> \in acked => Gone(job.id)
    BY DEF IInv, AckedIsSettled, Gone, Stored, Statuses, Terminal
  <2>3. Gone(job.id) \/ Issues(job.id) <= faults
    BY <2>1, <2>2 DEF OutcomeIsTrue
  <2>4. Gone(job.id) \/ Issues(job.id) <= faults'
    BY <1>1, <1>2, <1>3, <2>1, <2>3
  <2> QED
    BY <1>4, <1>12, <2>1, <2>4 DEF Marked, githubVars
<1>13. CASE FetchFails \/ CreateFails
  BY <1>4, <1>6, <1>13 DEF FetchFails, CreateFails, githubVars
<1>14. CASE EndRun
  <2>1. job.ok \in BOOLEAN
    BY <1>1 DEF Jobs
  <2> QED
    BY <1>4, <1>5, <1>14, <2>1 DEF EndRun, githubVars
<1>15. CASE BuildPublishFails \/ ListFails \/ Cancelled
  BY <1>4, <1>5, <1>15 DEF BuildPublishFails, ListFails, Cancelled, githubVars
<1>16. CASE RunCrashes
  <2>1. faults' = faults + 1 /\ job'.pc = "done" /\ UNCHANGED <<confirmed, orphaned>>
    BY <1>5, <1>16 DEF RunCrashes, Fault, githubVars
  <2>2. job.pc = "mark" => Issues(job.id) <= faults'
    BY <1>1, <1>2, <1>3, <2>1 DEF IssuesAreAccounted
  <2> QED
    BY <1>4, <2>1, <2>2
<1>17. CASE UNCHANGED <<job, confirmed, orphaned>>
  <2>1. job.pc = "create" => Issues(job.id) <= faults
    BY DEF IssuesAreAccounted
  <2> QED
    BY <1>2, <1>4, <1>17, <2>1
<1> QED
  BY <1>7, <1>8, <1>9, <1>10, <1>11, <1>12, <1>13, <1>14, <1>15, <1>16, <1>17
     DEF JobNext, JobStep, JobFailure, AdminStep, StoreStep, jobVars, githubVars

(* The copy under published, or the write on its way there, is the run's,  *)
(* made after the answer to its POST.                                      *)
LEMMA PublishedStep ==
  ASSUME IInv, JobTypeOK, CronIsSound, PublishedHasIssue, [JobNext]_jobVars
  PROVE  PublishedHasIssue'
<1>1. \A id \in Ids : confirmed[id] > 0 => confirmed'[id] > 0
  <2>1. confirmed \in [Ids -> Nat]
    BY DEF JobTypeOK
  <2>2. CASE CreateConfirmed
    BY <2>1, <2>2 DEF CreateConfirmed
  <2>3. CASE UNCHANGED confirmed
    BY <2>3
  <2> QED
    BY <2>2, <2>3 DEF JobNext, JobStep, JobFailure, StartRun, BuildPublish, List, EnsureLabels,
       FetchReport, Marked, EndRun, BuildPublishFails, ListFails, EnsureLabelsFails, FetchFails,
       Cancelled, CreateLost, CreateFails, RunCrashes, AdminStep, StoreStep, githubVars, jobVars
<1>2. TypeOK /\ TypeOK'
  BY BaseStep DEF IInv
<1>3. ASSUME NEW c \in Callers, call[c].pc \in InFlight, call[c].to = "published"
      PROVE  call[c].id \in Ids /\ confirmed[call[c].id] > 0
  <2>1. c = Cron /\ job.pc = "mark"
    BY <1>3 DEF CronIsSound, Idle
  <2> QED
    BY <2>1 DEF CronIsSound, JobTypeOK, Jobs
<1>4. ASSUME \A id \in Ids : objects'["published"][id] # None =>
                               objects["published"][id] # None \/ confirmed[id] > 0,
             \A r \in late' : r.to = "published" =>
                               r \in late \/ (r.id \in Ids /\ confirmed[r.id] > 0)
      PROVE  PublishedHasIssue'
  BY <1>1, <1>2, <1>4 DEF PublishedHasIssue, TypeOK, Requests
<1>5. CASE Aside
  <2>1. ASSUME NEW r \in Outstanding(Cron), r.to = "published"
        PROVE  r.id \in Ids /\ confirmed[r.id] > 0
    BY <1>3, <2>1, CronAssumption DEF Outstanding, InFlight
  <2> QED
    BY <1>4, <1>5, <2>1 DEF Aside
<1>6. CASE [Next]_vars
  <2>1. ASSUME NEW id \in Ids, NEW f \in Frames, StoreReport(id, f) PROVE PublishedHasIssue'
    BY <1>2, <1>4, <2>1 DEF StoreReport, TypeOK, Statuses
  <2>2. ASSUME NEW id \in Ids, NEW f \in Frames, StoreReportFails(id, f) PROVE PublishedHasIssue'
    BY <1>4, <2>2 DEF StoreReportFails
  <2>3. ASSUME NEW c \in Callers, PutDestination(c) PROVE PublishedHasIssue'
    <3>1. \A id \in Ids : objects'["published"][id] # None =>
                            objects["published"][id] # None \/ confirmed[id] > 0
      BY <1>2, <1>3, <2>3 DEF PutDestination, TypeOK, Statuses, InFlight, Calls, Terminal
    <3> QED
      BY <1>4, <2>3, <3>1 DEF PutDestination
  <2>4. ASSUME NEW c \in Callers, DeleteSource(c) PROVE PublishedHasIssue'
    BY <1>2, <1>4, <2>4 DEF DeleteSource, TypeOK, Statuses, Terminal
  <2>5. ASSUME NEW c \in Callers, StoreFails(c) \/ Crash(c) PROVE PublishedHasIssue'
    <3>1. ASSUME NEW r \in Outstanding(c), r.to = "published"
          PROVE  r.id \in Ids /\ confirmed[r.id] > 0
      BY <1>3, <3>1 DEF Outstanding, InFlight
    <3> QED
      BY <1>4, <2>5, <3>1 DEF StoreFails, Crash
  <2>6. ASSUME NEW r \in late, Land(r) PROVE PublishedHasIssue'
    <3>1. r.to = "published" => confirmed[r.id] > 0
      BY DEF PublishedHasIssue
    <3>2. \A id \in Ids : objects'["published"][id] # None =>
                            objects["published"][id] # None \/ confirmed[id] > 0
      BY <1>2, <2>6, <3>1 DEF Land, TypeOK, Statuses, Terminal, Requests
    <3> QED
      BY <1>4, <2>6, <3>2 DEF Land
  <2>7. CASE UNCHANGED <<objects, late>>
    BY <1>4, <2>7
  <2> QED
    BY <1>6, <2>1, <2>2, <2>3, <2>4, <2>5, <2>6, <2>7 DEF Next, Ingest, Continue, Begin, Retry,
       GiveUp, TransitionStep, GetSource, ProbeFinds, ProbeMisses, Failure, ProbeFails, vars,
       storeVars
<1> QED
  BY <1>5, <1>6, StepKinds

-----------------------------------------------------------------------------
(* Nothing was listed or posted yet.                                       *)
LEMMA JobInitIInv == JobInit => JobIInv
<1> SUFFICES ASSUME JobInit PROVE JobIInv
  OBVIOUS
<1>1. IInv
  BY InitIInv DEF JobInit
<1>2. JobTypeOK
  BY <1>1 DEF JobInit, IInv, JobTypeOK, Jobs
<1>3. call[Cron] = Idle /\ \A c \in Callers \ {Cron} : call[c].to = "removed"
  BY CronAssumption DEF JobInit, Init, Idle
<1>4. CronIsSound /\ BatchIsSound /\ OutcomeIsTrue
  BY <1>3 DEF JobInit, CronIsSound, BatchIsSound, OutcomeIsTrue
<1>5. IssuesAreAccounted
  BY DEF JobInit, Init, IssuesAreAccounted, Issues
<1>6. PublishedHasIssue
  BY DEF JobInit, Init, PublishedHasIssue, Statuses, Terminal
<1> QED
  BY <1>1, <1>2, <1>4, <1>5, <1>6 DEF JobIInv

(* Every step keeps the invariant, one lemma per conjunct.                 *)
LEMMA JobIInvStep == JobIInv /\ [JobNext]_jobVars => JobIInv'
  BY BaseStep, JobTypeStep, CronStep, BatchStep, OutcomeStep, AccountedStep, PublishedStep
     DEF JobIInv

(* The invariant of the run, the maintainer and GitHub over the lifecycle. *)
THEOREM JobInductive == JobSpec => []JobIInv
  BY JobInitIInv, JobIInvStep, PTL DEF JobSpec

(* The types of the composition, and that the run only ever holds a report *)
(* of its batch.                                                           *)
THEOREM JobTypeCorrect == JobSpec => []JobTypeOK
  BY JobInductive, PTL DEF JobIInv

(* Nothing is marked published without a confirmed issue                   *)
(* (publish.go:187-190).                                                   *)
THEOREM PublishedMeansIssue == JobSpec => []PublishedHasIssue
  BY JobInductive, PTL DEF JobIInv

(* A run that returns nil published all it attempted (publish.go:195-200). *)
THEOREM CleanRuns == JobSpec => []CleanRunPublishedAll
<1>1. JobIInv => CleanRunPublishedAll
  BY DEF JobIInv, BatchIsSound, CleanRunPublishedAll
<1> QED
  BY <1>1, JobInductive, PTL

(* Every issue beyond a report's first has a failure to blame, however     *)
(* many runs, failures and removals there are (publish.go:84-112).         *)
THEOREM DuplicatesAreAccounted == JobSpec => []DuplicatesNeedFaults
<1>1. JobIInv => DuplicatesNeedFaults
  <2> SUFFICES ASSUME JobIInv, NEW id \in Ids PROVE Issues(id) <= 1 + faults
    BY DEF DuplicatesNeedFaults
  <2>1. Issues(id) \in Nat /\ faults \in Nat
    BY FaultsAssumption DEF JobIInv, JobTypeOK, Issues, IInv, TypeOK
  <2> QED
    BY <2>1 DEF JobIInv, IssuesAreAccounted
<1> QED
  BY <1>1, JobInductive, PTL

(* A report whose removal was confirmed before a run gets no issue from it *)
(* (admin.go:10-13).                                                       *)
THEOREM PulledReportsStayOut == JobSpec => PulledStaysOut
<1> DEFINE A == \A id \in job.pulled : confirmed'[id] = confirmed[id]
                                       /\ orphaned'[id] = orphaned[id]
<1>1. JobIInv /\ [JobNext]_jobVars => A
  <2> SUFFICES ASSUME JobIInv, [JobNext]_jobVars PROVE A
    OBVIOUS
  <2>1. CASE CreateConfirmed \/ CreateLost
    <3>1. job.id \notin job.pulled /\ job.pulled \subseteq Ids /\ job.id \in Ids
      BY <2>1 DEF CreateConfirmed, CreateLost, JobIInv, JobTypeOK, Jobs, BatchIsSound
    <3>2. confirmed \in [Ids -> Nat] /\ orphaned \in [Ids -> Nat]
      BY DEF JobIInv, JobTypeOK
    <3> QED
      BY <2>1, <3>1, <3>2 DEF CreateConfirmed, CreateLost
  <2>2. CASE UNCHANGED <<confirmed, orphaned>>
    BY <2>2
  <2> QED
    BY <2>1, <2>2 DEF JobNext, JobStep, JobFailure, StartRun, BuildPublish, List, EnsureLabels,
       FetchReport, Marked, EndRun, BuildPublishFails, ListFails, EnsureLabelsFails, FetchFails,
       Cancelled, CreateFails, RunCrashes, AdminStep, StoreStep, githubVars, jobVars
<1> QED
  BY <1>1, JobInductive, PTL DEF JobSpec, PulledStaysOut

-----------------------------------------------------------------------------
(***************************************************************************)
(* RunTelemetry.  A traced run is a run, so that all that is proved of     *)
(* PublishJob holds of it, and the alerts of a run that returned are those *)
(* its outcome calls for.                                                  *)
(***************************************************************************)

(* Telemetry only watches: every step of a traced run is one of the run.   *)
LEMMA TelStepIsJobStep == [TelNext]_telVars => [JobNext]_jobVars
<1>1. TelStep => JobStep
  BY DEF TelStep, TelStart, TelBuild, TelList, TelFetch, TelMarked, TelEnd, JobStep
<1>2. TelFailure => JobFailure
  BY DEF TelFailure, TelBuildFails, TelListFails, TelFetchFails, TelCancelled, TelCreateFails,
         TelCrash, JobFailure
<1>3. UNCHANGED telVars => UNCHANGED jobVars
  BY DEF telVars
<1> QED
  BY <1>1, <1>2, <1>3 DEF TelNext, JobNext

(* A traced run is a run: the spans and alerts never hold it up nor        *)
(* change what it does (schedule.go:72-86).                                *)
THEOREM TracedRunIsARun == TelSpec => JobSpec
<1>1. TelInit => JobInit
  BY DEF TelInit
<1> QED
  BY <1>1, TelStepIsJobStep, PTL DEF TelSpec, JobSpec

-----------------------------------------------------------------------------
(* The fields a trace has, whatever their values.                          *)
IsTrace(t) ==
    t = [spans |-> t.spans, handed |-> t.handed, alerts |-> t.alerts,
         published |-> t.published, deferred |-> t.deferred, told |-> t.told,
         died |-> t.died]

(* Spans come and go without an alert.                                     *)
SameAlerts(t, u) ==
    IsTrace(u) /\ u.alerts = t.alerts /\ u.deferred = t.deferred /\ u.died = t.died

(* StartSpan raises none.                                                  *)
LEMMA StartSpanIs ==
  ASSUME NEW t, IsTrace(t), NEW name, NEW parent, NEW id
  PROVE  SameAlerts(t, StartSpan(t, name, parent, id))
<1> DEFINE s == Append(t.spans, [name |-> name, parent |-> parent, id |-> id, status |-> "unset"])
<1>1. StartSpan(t, name, parent, id) = [t EXCEPT !.spans = s]
  BY DEF StartSpan
<1> HIDE DEF s
<1> QED
  BY <1>1 DEF IsTrace, SameAlerts

(* Ending a span raises none, the first time and again.                    *)
LEMMA EndIs ==
  ASSUME NEW t, IsTrace(t), NEW ended, NEW status
  PROVE  SameAlerts(t, End(t, ended, status))
<1>1. CASE \E i \in DOMAIN t.handed : t.handed[i] = ended
  BY <1>1 DEF End, SameAlerts
<1>2. CASE ~ \E i \in DOMAIN t.handed : t.handed[i] = ended
  <2> DEFINE s == [t.spans EXCEPT ![ended].status = status]
             h == Append(t.handed, ended)
  <2>1. End(t, ended, status) = [t EXCEPT !.spans = s, !.handed = h]
    BY <1>2 DEF End, IsTrace
  <2> HIDE DEF s, h
  <2> QED
    BY <2>1 DEF IsTrace, SameAlerts
<1> QED
  BY <1>1, <1>2

(* An alert is added to those there are.                                   *)
LEMMA AlertIs ==
  ASSUME NEW t, IsTrace(t), NEW type
  PROVE  /\ IsTrace(Alert(t, type))
         /\ Alert(t, type).alerts = t.alerts \cup {type}
         /\ Alert(t, type).deferred = t.deferred /\ Alert(t, type).died = t.died
  BY DEF Alert, IsTrace

(* The tail of Publish tells of the cap and of its failure, each on its own.*)
LEMMA EndPublishIs ==
  ASSUME NEW t, IsTrace(t), t.alerts = {}, NEW ok \in BOOLEAN
  PROVE  LET u == EndPublish(t, ok)
         IN  /\ IsTrace(u) /\ u.deferred = t.deferred /\ u.died = t.died
             /\ "publish.cap_hit" \in u.alerts <=> t.deferred > 0
             /\ "publish.run_failed" \in u.alerts <=> ~ok
             /\ "schedule.run_failed" \notin u.alerts
<1> DEFINE capped == IF t.deferred > 0 THEN Alert(t, "publish.cap_hit") ELSE t
           counts == [published |-> t.published,
                      failed |-> Cardinality(job.attempted) - t.published]
           told == [capped EXCEPT !.told = counts]
<1>1. /\ IsTrace(capped) /\ capped.deferred = t.deferred /\ capped.died = t.died
      /\ capped.alerts = IF t.deferred > 0 THEN {"publish.cap_hit"} ELSE {}
  <2>1. CASE t.deferred > 0
    <3>1. capped = Alert(t, "publish.cap_hit")
      BY <2>1
    <3>2. capped.alerts = {} \cup {"publish.cap_hit"}
      BY <3>1, AlertIs
    <3> QED
      BY <2>1, <3>1, <3>2, AlertIs
  <2>2. CASE ~(t.deferred > 0)
    BY <2>2
  <2> QED
    BY <2>1, <2>2
<1>2. IsTrace(told) /\ told.alerts = capped.alerts /\ told.deferred = t.deferred
      /\ told.died = t.died
  <2> HIDE DEF capped, counts
  <2> QED
    BY <1>1 DEF IsTrace
<1>3. EndPublish(t, ok) = IF ok THEN End(told, PublishSpan, "ok")
                          ELSE End(Alert(told, "publish.run_failed"), PublishSpan, "error")
  BY DEF EndPublish
<1> HIDE DEF told, capped
<1>4. CASE ok
  <2>1. SameAlerts(told, EndPublish(t, ok))
    BY <1>2, <1>3, <1>4, EndIs
  <2>2. EndPublish(t, ok).alerts = IF t.deferred > 0 THEN {"publish.cap_hit"} ELSE {}
    BY <1>1, <1>2, <2>1 DEF SameAlerts
  <2>3. "publish.cap_hit" \in EndPublish(t, ok).alerts <=> t.deferred > 0
    BY <2>2
  <2>4. /\ "publish.run_failed" \notin EndPublish(t, ok).alerts
        /\ "schedule.run_failed" \notin EndPublish(t, ok).alerts
    BY <2>2
  <2> QED
    BY <1>2, <1>4, <2>1, <2>3, <2>4 DEF SameAlerts
<1>5. CASE ~ok
  <2>1. SameAlerts(Alert(told, "publish.run_failed"), EndPublish(t, ok))
    BY <1>2, <1>3, <1>5, EndIs, AlertIs
  <2>2. /\ Alert(told, "publish.run_failed").alerts = told.alerts \cup {"publish.run_failed"}
        /\ Alert(told, "publish.run_failed").deferred = told.deferred
        /\ Alert(told, "publish.run_failed").died = told.died
    BY <1>2, AlertIs
  <2> QED
    BY <1>1, <1>2, <1>5, <2>1, <2>2 DEF SameAlerts
<1> QED
  BY <1>4, <1>5

(* The tail of Run tells of the failure of the run.                        *)
LEMMA EndScheduleIs ==
  ASSUME NEW t, IsTrace(t), NEW ok \in BOOLEAN
  PROVE  LET u == EndSchedule(t, ok)
         IN  /\ IsTrace(u) /\ u.deferred = t.deferred /\ u.died = t.died
             /\ u.alerts = IF ok THEN t.alerts ELSE t.alerts \cup {"schedule.run_failed"}
<1>1. CASE ok
  <2>1. SameAlerts(t, EndSchedule(t, ok))
    BY <1>1, EndIs DEF EndSchedule
  <2> QED
    BY <1>1, <2>1 DEF SameAlerts
<1>2. CASE ~ok
  <2>1. SameAlerts(Alert(t, "schedule.run_failed"), EndSchedule(t, ok))
    BY <1>2, EndIs, AlertIs DEF EndSchedule
  <2> QED
    BY <1>2, <2>1, AlertIs DEF SameAlerts
<1> QED
  BY <1>1, <1>2

-----------------------------------------------------------------------------
(* The invariant of a traced run.                                          *)
AlertsInv == JobIInv /\ IsTrace(tel) /\ AlertsAreSound

(* While a run is under way no step of it raises an alert, and the last    *)
(* one raises those its outcome calls for.                                 *)
LEMMA AlertsStep ==
  ASSUME AlertsInv, [TelNext]_telVars
  PROVE  IsTrace(tel)' /\ AlertsAreSound'
<1> DEFINE Goal == IsTrace(tel)' /\ AlertsAreSound'
<1>1. job \in Jobs /\ IsTrace(tel) /\ AlertsAreSound
  BY DEF AlertsInv, JobIInv, JobTypeOK
(* A step within a run.                                                    *)
<1>2. ASSUME SameAlerts(tel, tel'), job.pc \notin {"done", "wire", "list"},
             job'.pc \notin {"done", "wire", "list"}
      PROVE  Goal
  BY <1>1, <1>2 DEF AlertsAreSound, SameAlerts, FailuresAlert, Returned
(* The last step of one.                                                   *)
<1>3. ASSUME IsTrace(tel'), job'.pc = "done",
             tel'.died \/ tel'.spans = <<>>
               \/ /\ "schedule.run_failed" \in tel'.alerts <=> ~job'.ok
                  /\ "publish.cap_hit" \in tel'.alerts <=> tel'.deferred > 0
                  /\ "publish.run_failed" \in tel'.alerts => ~job'.ok
      PROVE  Goal
  BY <1>3 DEF AlertsAreSound, FailuresAlert, Returned
<1>4. CASE TelStart
  BY <1>4 DEF TelStart, StartRun, NoTrace, IsTrace, AlertsAreSound, FailuresAlert, Returned
<1>5. CASE TelBuild
  <2>1. tel = NoTrace /\ job.pc = "wire" /\ job'.pc = "list"
    BY <1>1, <1>5 DEF TelBuild, BuildPublish, AlertsAreSound, Jobs
  <2>2. SameAlerts(tel, tel')
    BY <1>1, <1>5, StartSpanIs DEF TelBuild
  <2> QED
    BY <2>1, <2>2 DEF SameAlerts, NoTrace, AlertsAreSound, FailuresAlert, Returned
<1>6. CASE TelBuildFails
  <2>1. job.pc = "wire" /\ tel' = NoTrace /\ FinishRun(FALSE)
    BY <1>1, <1>6 DEF TelBuildFails, BuildPublishFails, AlertsAreSound
  <2>2. job'.pc = "done" /\ ~job'.ok
    BY <1>1, <2>1, FinishIs
  <2> QED
    BY <1>3, <2>1, <2>2 DEF NoTrace, IsTrace
<1>7. CASE TelList
  <2> DEFINE t == StartSpan(tel, "publish.run", Root, None)
             u == End(t, PublishSpan, "ok")
  <2>1. job.pc = "list" /\ tel.alerts = {} /\ tel.deferred = 0 /\ ~tel.died
    BY <1>1, <1>7 DEF TelList, List, AlertsAreSound
  <2>2. SameAlerts(tel, t) /\ IsTrace(t)
    BY <1>1, StartSpanIs DEF SameAlerts
  <2>3. SameAlerts(t, u) /\ IsTrace(u)
    BY <2>2, EndIs DEF SameAlerts
  <2>4. CASE ListPending = {}
    <3>1. FinishRun(TRUE) /\ tel' = EndSchedule(u, TRUE)
      BY <1>7, <2>4 DEF TelList, List
    <3>2. job'.pc = "done" /\ job'.ok
      BY <1>1, <3>1, FinishIs
    <3>3. IsTrace(tel') /\ tel'.alerts = {} /\ tel'.deferred = 0
      <4> HIDE DEF u
      <4> QED
        BY <2>1, <2>2, <2>3, <3>1, EndScheduleIs DEF SameAlerts
    <3> QED
      BY <1>3, <3>2, <3>3
  <2>5. CASE ListPending # {}
    <3>1. PICK n : tel' = [t EXCEPT !.deferred = n]
      BY <1>7, <2>5 DEF TelList
    <3>2. job'.pc = "labels"
      BY <1>1, <1>7, <2>5 DEF TelList, List, Jobs
    <3> HIDE DEF t
    <3>3. IsTrace(tel') /\ tel'.alerts = {} /\ ~tel'.died
      BY <2>1, <2>2, <3>1 DEF SameAlerts, IsTrace
    <3> QED
      BY <3>2, <3>3 DEF AlertsAreSound, FailuresAlert, Returned
  <2> QED
    BY <2>4, <2>5
<1>8. CASE TelListFails
  <2>1. job.pc = "list" /\ tel.alerts = {} /\ tel.deferred = 0 /\ FinishRun(FALSE)
    BY <1>1, <1>8 DEF TelListFails, ListFails, AlertsAreSound
  <2>2. job'.pc = "done" /\ ~job'.ok
    BY <1>1, <2>1, FinishIs
  <2>3. /\ IsTrace(tel') /\ tel'.alerts = {"schedule.run_failed"} /\ tel'.deferred = 0
    BY <1>1, <1>8, <2>1, EndScheduleIs DEF TelListFails
  <2> QED
    BY <1>3, <2>2, <2>3
<1>9. CASE TelFetch \/ TelFetchFails
  <2> DEFINE t == StartReport(tel, Oldest(job.batch))
  <2>1. SameAlerts(tel, t) /\ IsTrace(t)
    BY <1>1, StartSpanIs DEF StartReport, SameAlerts
  <2>2. SameAlerts(t, ReportFailed(t))
    BY <2>1, EndIs DEF ReportFailed
  <2>3. tel' \in {t, ReportFailed(t)}
    BY <1>9 DEF TelFetch, TelFetchFails
  <2>4. SameAlerts(tel, tel')
    BY <2>1, <2>2, <2>3 DEF SameAlerts
  <2>5. job.pc = "next" /\ job'.pc \in {"next", "create"}
    BY <1>1, <1>9, AdvanceIs DEF TelFetch, TelFetchFails, FetchReport, FetchFails, Jobs
  <2> QED
    BY <1>2, <2>4, <2>5
<1>10. CASE TelCreateFails
  <2>1. job.pc = "create" /\ job'.pc = "next"
    BY <1>1, <1>10, AdvanceIs DEF TelCreateFails, CreateFails
  <2>2. SameAlerts(tel, tel')
    BY <1>1, <1>10, EndIs DEF TelCreateFails, ReportFailed
  <2> QED
    BY <1>2, <2>1, <2>2
<1>11. CASE TelMarked
  <2>1. job.pc = "mark" /\ job'.pc = "next"
    BY <1>1, <1>11, AdvanceIs DEF TelMarked, Marked
  <2> DEFINE n == tel.published + 1
             t == [tel EXCEPT !.published = n]
  <2>2. SameAlerts(tel, t) /\ IsTrace(t)
    <3> HIDE DEF n
    <3> QED
      BY <1>1 DEF SameAlerts, IsTrace
  <2>3. ReportPublished(tel) = End(t, Newest(tel), "ok")
    BY <1>1 DEF ReportPublished, Newest, IsTrace
  <2>4. SameAlerts(tel, ReportPublished(tel))
    <3> HIDE DEF t
    <3> QED
      BY <2>2, <2>3, EndIs DEF SameAlerts
  <2>5. SameAlerts(tel, ReportFailed(tel))
    BY <1>1, EndIs DEF ReportFailed
  <2> QED
    BY <1>2, <1>11, <2>1, <2>4, <2>5 DEF TelMarked
<1>12. CASE TelEnd \/ TelCancelled
  <2>1. PICK ok \in BOOLEAN : tel' = EndSchedule(EndPublish(tel, ok), ok) /\ FinishRun(ok)
    BY <1>1, <1>12 DEF TelEnd, TelCancelled, EndRun, Cancelled, Jobs
  <2>2. tel.alerts = {} /\ job.pc = "next"
    BY <1>1, <1>12 DEF TelEnd, TelCancelled, EndRun, Cancelled, AlertsAreSound
  <2>3. job'.pc = "done" /\ (job'.ok <=> ok)
    BY <1>1, <2>1, FinishIs
  <2> DEFINE u == EndPublish(tel, ok)
  <2>4. /\ IsTrace(u)
        /\ "publish.cap_hit" \in u.alerts <=> u.deferred > 0
        /\ "publish.run_failed" \in u.alerts <=> ~ok
        /\ "schedule.run_failed" \notin u.alerts
    BY <1>1, <2>2, EndPublishIs
  <2>5. /\ IsTrace(tel') /\ tel'.deferred = u.deferred
        /\ tel'.alerts = IF ok THEN u.alerts ELSE u.alerts \cup {"schedule.run_failed"}
    <3> HIDE DEF u
    <3> QED
      BY <2>1, <2>4, EndScheduleIs DEF u
  <2> HIDE DEF u
  <2> QED
    BY <1>3, <2>3, <2>4, <2>5
<1>13. CASE TelCrash
  <2>1. job'.pc = "done" /\ ~job'.ok
    BY <1>1, <1>13, FinishIs DEF TelCrash, RunCrashes
  <2>2. IsTrace(tel') /\ tel'.died
    BY <1>1, <1>13 DEF TelCrash, IsTrace
  <2> QED
    BY <1>3, <2>1, <2>2
<1>14. CASE (EnsureLabels \/ EnsureLabelsFails \/ CreateConfirmed \/ CreateLost) /\ UNCHANGED tel
  <2>1. job.pc \in {"labels", "create"} /\ job'.pc \in {"next", "mark", "create"}
    BY <1>1, <1>14 DEF EnsureLabels, EnsureLabelsFails, CreateConfirmed, CreateLost, Jobs
  <2> QED
    BY <1>1, <1>2, <1>14, <2>1 DEF SameAlerts
<1>15. CASE UNCHANGED <<job, tel>>
  BY <1>1, <1>15 DEF AlertsAreSound, FailuresAlert, Returned, IsTrace
<1> QED
  BY <1>4, <1>5, <1>6, <1>7, <1>8, <1>9, <1>10, <1>11, <1>12, <1>13, <1>14, <1>15
     DEF TelNext, TelStep, TelFailure, AdminStep, StoreStep, telVars, jobVars

(* It holds in every reachable state.                                      *)
THEOREM AlertsInductive == TelSpec => []AlertsInv
<1>1. TelInit => AlertsInv
  BY JobInitIInv DEF TelInit, JobInit, AlertsInv, NoTrace, IsTrace, AlertsAreSound, FailuresAlert,
     Returned
<1>2. AlertsInv /\ [TelNext]_telVars => AlertsInv'
  <2> SUFFICES ASSUME AlertsInv, [TelNext]_telVars PROVE AlertsInv'
    OBVIOUS
  <2>1. JobIInv'
    BY TelStepIsJobStep, JobIInvStep DEF AlertsInv
  <2> QED
    BY <2>1, AlertsStep DEF AlertsInv, IsTrace
<1> QED
  BY <1>1, <1>2, PTL DEF TelSpec

(* A traced run that returns an error raises the alert the maintainer is   *)
(* woken by, no other run does, and what the cap left behind is always     *)
(* announced (schedule.go:78-82, publish.go:269-286).                      *)
THEOREM FailuresAreAlerted == TelSpec => []FailuresAlert
  BY AlertsInductive, PTL DEF AlertsInv, AlertsAreSound


-----------------------------------------------------------------------------
(***************************************************************************)
(* What the operations on a trace leave of it.                             *)
(***************************************************************************)
HandedOf(t) == {t.handed[i] : i \in DOMAIN t.handed}

ReportsOf(t, status) ==
    {t.spans[i].id : i \in {j \in HandedOf(t) : /\ t.spans[j].name = "publish.report"
                                                /\ t.spans[j].status = status}}

Shape(t) ==
    /\ IsTrace(t)
    /\ t.spans \in Seq(Spans) /\ t.handed \in Seq(DOMAIN t.spans)
    /\ t.alerts \subseteq Alerts
    /\ t.published \in Nat /\ t.deferred \in Nat /\ t.told \in Counts /\ t.died \in BOOLEAN

(* All but the spans.                                                      *)
SameCounts(t, u) ==
    u.published = t.published /\ u.deferred = t.deferred /\ u.told = t.told /\ u.died = t.died

(* A trace is what is handed over of it and how it is told.                *)
LEMMA HandedAre ==
  /\ Handed = HandedOf(tel) /\ Handed' = HandedOf(tel')
  /\ \A status : Reports(status) = ReportsOf(tel, status)
  /\ \A status : Reports(status)' = ReportsOf(tel', status)
  BY DEF Handed, HandedOf, Reports, ReportsOf

(* What is handed over was started.                                        *)
LEMMA HandedStarted ==
  ASSUME NEW t, Shape(t)
  PROVE  /\ HandedOf(t) \subseteq 1..Len(t.spans) /\ DOMAIN t.spans = 1..Len(t.spans)
         /\ Len(t.spans) \in Nat
         /\ \A c \in HandedOf(t) : t.spans[c] \in Spans
  BY DEF Shape, HandedOf

(* A started span is the newest, and nothing is handed over.               *)
LEMMA SpanStarts ==
  ASSUME NEW t, Shape(t), NEW name \in {"schedule.run", "publish.run", "publish.report"},
         NEW parent \in Nat, NEW id \in Ids \cup {None}
  PROVE  LET u == StartSpan(t, name, parent, id)
             n == Len(t.spans)
         IN  /\ Shape(u) /\ u.handed = t.handed /\ SameCounts(t, u)
             /\ Len(u.spans) = n + 1
             /\ \A c \in 1..n : u.spans[c] = t.spans[c]
             /\ u.spans[n + 1].name = name /\ u.spans[n + 1].parent = parent
             /\ u.spans[n + 1].id = id
             /\ HandedOf(u) = HandedOf(t)
             /\ \A status : ReportsOf(u, status) = ReportsOf(t, status)
<1> DEFINE r == [name |-> name, parent |-> parent, id |-> id, status |-> "unset"]
           s == Append(t.spans, r)
           u == StartSpan(t, name, parent, id)
           n == Len(t.spans)
<1>1. r \in Spans /\ r.name = name /\ r.parent = parent /\ r.id = id
  BY DEF Spans
<1> HIDE DEF r
<1>2. /\ s \in Seq(Spans) /\ Len(s) = n + 1 /\ n \in Nat
      /\ \A c \in 1..n : s[c] = t.spans[c]
      /\ s[n + 1] = r
  BY <1>1 DEF Shape
<1>3. t.handed \in Seq(DOMAIN s)
  <2>1. DOMAIN t.spans \subseteq DOMAIN s
    BY <1>2 DEF Shape
  <2> QED
    BY <2>1 DEF Shape
<1>4. u = [t EXCEPT !.spans = s]
  BY DEF StartSpan, r
<1> HIDE DEF s, u, n
<1>5. u.spans = s /\ u.handed = t.handed /\ SameCounts(t, u) /\ IsTrace(u) /\ u.alerts = t.alerts
  BY <1>4 DEF Shape, IsTrace, SameCounts
<1>6. Shape(u)
  BY <1>2, <1>3, <1>5 DEF Shape, SameCounts
<1>7. HandedOf(u) = HandedOf(t)
  BY <1>5 DEF HandedOf
<1>8. ASSUME NEW status PROVE ReportsOf(u, status) = ReportsOf(t, status)
  <2>1. \A c \in HandedOf(t) : u.spans[c] = t.spans[c]
    BY <1>2, <1>5, HandedStarted DEF n
  <2> QED
    BY <1>7, <2>1 DEF ReportsOf
<1> QED
  BY <1>1, <1>2, <1>5, <1>6, <1>7, <1>8 DEF u, n

(* The spans there were stay as they are.                                  *)
LEMMA SpansStay ==
  ASSUME NEW t, Shape(t), NEW name \in {"schedule.run", "publish.run", "publish.report"},
         NEW parent \in Nat, NEW id \in Ids \cup {None}
  PROVE  \A c \in DOMAIN t.spans : StartSpan(t, name, parent, id).spans[c] = t.spans[c]
<1> DEFINE r == [name |-> name, parent |-> parent, id |-> id, status |-> "unset"]
           u == StartSpan(t, name, parent, id)
<1>1. u = [t EXCEPT !.spans = Append(t.spans, r)] /\ r \in Spans
  BY DEF StartSpan, Shape, Spans
<1> HIDE DEF u, r
<1>2. u.spans = Append(t.spans, r) /\ t.spans \in Seq(Spans)
  BY <1>1 DEF Shape, IsTrace
<1>3. \A c \in DOMAIN t.spans : u.spans[c] = t.spans[c]
  BY <1>1, <1>2
<1> QED
  BY <1>3 DEF u

(* A span that ends is handed over last, and says how its function went.   *)
LEMMA SpanEnds ==
  ASSUME NEW t, Shape(t), NEW ended \in DOMAIN t.spans, ended \notin HandedOf(t),
         NEW status \in {"ok", "error"}
  PROVE  LET u == End(t, ended, status)
         IN  /\ Shape(u) /\ u.handed = Append(t.handed, ended) /\ SameCounts(t, u)
             /\ Len(u.spans) = Len(t.spans) /\ DOMAIN u.spans = DOMAIN t.spans
             /\ \A c \in DOMAIN t.spans : /\ u.spans[c].name = t.spans[c].name
                                          /\ u.spans[c].parent = t.spans[c].parent
                                          /\ u.spans[c].id = t.spans[c].id
                                          /\ c # ended => u.spans[c] = t.spans[c]
             /\ u.spans[ended].status = status
             /\ HandedOf(u) = HandedOf(t) \cup {ended}
<1> DEFINE r == [t.spans[ended] EXCEPT !.status = status]
           s == [t.spans EXCEPT ![ended] = r]
           h == Append(t.handed, ended)
           u == End(t, ended, status)
<1>1. /\ t.spans[ended] \in Spans /\ r \in Spans
      /\ r.name = t.spans[ended].name /\ r.parent = t.spans[ended].parent
      /\ r.id = t.spans[ended].id /\ r.status = status
  <2>1. t.spans[ended] \in Spans
    BY DEF Shape
  <2> DEFINE old == t.spans[ended]
  <2> HIDE DEF old
  <2>2. old \in Spans
    BY <2>1 DEF old
  <2>3. LET new == [old EXCEPT !.status = status]
        IN  /\ new \in Spans /\ new.name = old.name /\ new.parent = old.parent
            /\ new.id = old.id /\ new.status = status
    BY <2>2 DEF Spans
  <2> QED
    BY <2>1, <2>3 DEF old
<1>2. u = [t EXCEPT !.spans = s, !.handed = h]
  <2>1. ~ \E i \in DOMAIN t.handed : t.handed[i] = ended
    BY DEF HandedOf
  <2> QED
    BY <2>1 DEF End, Shape, IsTrace
<1> HIDE DEF r
<1>3. /\ s \in Seq(Spans) /\ Len(s) = Len(t.spans) /\ DOMAIN s = DOMAIN t.spans
      /\ s[ended] = r /\ \A c \in DOMAIN t.spans : c # ended => s[c] = t.spans[c]
  BY <1>1 DEF Shape
<1>4. h \in Seq(DOMAIN s) /\ {h[i] : i \in DOMAIN h} = {t.handed[i] : i \in DOMAIN t.handed} \cup {ended}
  <2>1. h \in Seq(DOMAIN s)
    BY <1>3 DEF Shape
  <2>2. /\ DOMAIN h = DOMAIN t.handed \cup {Len(t.handed) + 1}
        /\ \A i \in DOMAIN t.handed : h[i] = t.handed[i]
        /\ h[Len(t.handed) + 1] = ended
    BY DEF Shape
  <2> HIDE DEF h
  <2> QED
    BY <2>1, <2>2
<1> HIDE DEF s, h, u
<1>5. u.spans = s /\ u.handed = h /\ SameCounts(t, u) /\ IsTrace(u) /\ u.alerts = t.alerts
  BY <1>2 DEF Shape, IsTrace, SameCounts
<1>6. Shape(u)
  BY <1>3, <1>4, <1>5 DEF Shape, SameCounts
<1>7. HandedOf(u) = HandedOf(t) \cup {ended}
  BY <1>4, <1>5 DEF HandedOf
<1>8. \A c \in DOMAIN t.spans : /\ u.spans[c].name = t.spans[c].name
                                /\ u.spans[c].parent = t.spans[c].parent
                                /\ u.spans[c].id = t.spans[c].id
                                /\ c # ended => u.spans[c] = t.spans[c]
  BY <1>1, <1>3, <1>5
<1> QED
  BY <1>1, <1>3, <1>5, <1>6, <1>7, <1>8 DEF u, h

(* The span of a report adds the report to those told of.                  *)
LEMMA ReportEnds ==
  ASSUME NEW t, Shape(t), NEW ended \in DOMAIN t.spans, ended \notin HandedOf(t),
         NEW status \in {"ok", "error"}, t.spans[ended].name = "publish.report"
  PROVE  LET u == End(t, ended, status)
         IN  ReportsOf(u, "ok") = IF status = "ok" THEN ReportsOf(t, "ok") \cup {t.spans[ended].id}
                                  ELSE ReportsOf(t, "ok")
<1> DEFINE u == End(t, ended, status)
<1>1. /\ \A c \in DOMAIN t.spans : /\ u.spans[c].name = t.spans[c].name
                                   /\ u.spans[c].id = t.spans[c].id
                                   /\ c # ended => u.spans[c] = t.spans[c]
      /\ u.spans[ended].status = status
      /\ HandedOf(u) = HandedOf(t) \cup {ended}
      /\ HandedOf(t) \subseteq DOMAIN t.spans
  BY SpanEnds, HandedStarted
<1> HIDE DEF u
<1>2. \A c \in HandedOf(t) : u.spans[c] = t.spans[c]
  BY <1>1
<1>3. CASE status = "ok"
  BY <1>1, <1>2, <1>3 DEF ReportsOf, u
<1>4. CASE status = "error"
  BY <1>1, <1>2, <1>4 DEF ReportsOf, u
<1> QED
  BY <1>3, <1>4

(* Any other span leaves them as they are.                                 *)
LEMMA OtherEnds ==
  ASSUME NEW t, Shape(t), NEW ended \in DOMAIN t.spans, ended \notin HandedOf(t),
         NEW status \in {"ok", "error"}, t.spans[ended].name # "publish.report"
  PROVE  ReportsOf(End(t, ended, status), "ok") = ReportsOf(t, "ok")
<1> DEFINE u == End(t, ended, status)
<1>1. /\ \A c \in DOMAIN t.spans : /\ u.spans[c].name = t.spans[c].name
                                   /\ c # ended => u.spans[c] = t.spans[c]
      /\ HandedOf(u) = HandedOf(t) \cup {ended}
      /\ HandedOf(t) \subseteq DOMAIN t.spans
  BY SpanEnds, HandedStarted
<1> HIDE DEF u
<1>2. \A c \in HandedOf(t) : u.spans[c] = t.spans[c]
  BY <1>1
<1>3. ReportsOf(u, "ok") = ReportsOf(t, "ok")
  BY <1>1, <1>2 DEF ReportsOf
<1> QED
  BY <1>3 DEF u


-----------------------------------------------------------------------------
(***************************************************************************)
(* The order of a trace.                                                   *)
(***************************************************************************)
InPlace(t) ==
    \A c \in DOMAIN t.spans : /\ t.spans[c].name = Place(c).name
                              /\ t.spans[c].parent = Place(c).parent

(* Every span is handed over before the one around it.                     *)
InOrder(t) ==
    \A c \in DOMAIN t.spans \ {Root} :
        LET p == t.spans[c].parent
        IN  /\ t.spans[p].name = Above[t.spans[c].name]
            /\ p \in HandedOf(t) =>
                 \E i, j \in DOMAIN t.handed :
                    i < j /\ t.handed[i] = c /\ t.handed[j] = p

(* What the places are.                                                    *)
LEMMA PlacesAre ==
  /\ Root = 1 /\ PublishSpan = 2
  /\ Place(1).name = "schedule.run" /\ Place(1).parent = 0
  /\ Place(2).name = "publish.run" /\ Place(2).parent = 1
  /\ \A c \in Nat : c > 2 => Place(c).name = "publish.report" /\ Place(c).parent = 2
  BY DEF Place, Root, PublishSpan, NoSpan

(* The names around the spans of a trace are the right ones.               *)
LEMMA NamesAbove ==
  ASSUME NEW t, Shape(t), InPlace(t), NEW c \in DOMAIN t.spans \ {Root}
  PROVE  /\ c \in 2..Len(t.spans) /\ t.spans[c].parent = IF c = 2 THEN 1 ELSE 2
         /\ t.spans[t.spans[c].parent].name = Above[t.spans[c].name]
<1>1. c \in 2..Len(t.spans) /\ Len(t.spans) \in Nat /\ DOMAIN t.spans = 1..Len(t.spans)
  BY HandedStarted DEF Root
<1>2. CASE c = 2
  <2>1. /\ t.spans[c].parent = 1 /\ t.spans[c].name = "publish.run"
        /\ t.spans[1].name = "schedule.run"
    BY <1>1, <1>2, PlacesAre DEF InPlace
  <2> QED
    BY <1>1, <1>2, <2>1 DEF Above
<1>3. CASE c # 2
  <2>1. c > 2 /\ c \in Nat
    BY <1>1, <1>3
  <2>2. /\ t.spans[c].parent = 2 /\ t.spans[c].name = "publish.report"
        /\ t.spans[2].name = "publish.run"
    BY <1>1, <2>1, PlacesAre DEF InPlace
  <2> QED
    BY <1>1, <1>3, <2>2 DEF Above
<1> QED
  BY <1>2, <1>3

(* As long as neither function above has returned nothing is out of order. *)
LEMMA OpenIsInOrder ==
  ASSUME NEW t, Shape(t), InPlace(t), HandedOf(t) \cap {Root, PublishSpan} = {}
  PROVE  InOrder(t)
<1> SUFFICES ASSUME NEW c \in DOMAIN t.spans \ {Root}
             PROVE  /\ t.spans[t.spans[c].parent].name = Above[t.spans[c].name]
                    /\ t.spans[c].parent \notin HandedOf(t)
  BY DEF InOrder
<1> QED
  BY NamesAbove, PlacesAre

(* An alert leaves the spans and the counts.                               *)
LEMMA AlertTells ==
  ASSUME NEW t, Shape(t), NEW type \in Alerts
  PROVE  LET u == Alert(t, type)
         IN  Shape(u) /\ u.spans = t.spans /\ u.handed = t.handed /\ SameCounts(t, u)
<1> DEFINE a == t.alerts \cup {type}
           u == Alert(t, type)
<1>1. a \subseteq Alerts /\ u = [t EXCEPT !.alerts = a]
  BY DEF Shape, IsTrace, Alert
<1> HIDE DEF a, u
<1>2. IsTrace(u) /\ u.alerts = a /\ u.spans = t.spans /\ u.handed = t.handed /\ SameCounts(t, u)
  BY <1>1 DEF Shape, IsTrace, SameCounts
<1>3. Shape(u)
  BY <1>1, <1>2 DEF Shape, SameCounts
<1> QED
  BY <1>2, <1>3 DEF u

(* The tail of Publish sets the counts and ends its span.                  *)
LEMMA PublishTells ==
  ASSUME NEW t, Shape(t), NEW ok \in BOOLEAN, Cardinality(job.attempted) - t.published \in Nat
  PROVE  \E v : /\ Shape(v) /\ v.spans = t.spans /\ v.handed = t.handed
                /\ v.published = t.published /\ v.died = t.died
                /\ v.told = [published |-> t.published,
                             failed |-> Cardinality(job.attempted) - t.published]
                /\ EndPublish(t, ok) = End(v, PublishSpan, IF ok THEN "ok" ELSE "error")
<1> DEFINE capped == IF t.deferred > 0 THEN Alert(t, "publish.cap_hit") ELSE t
           counts == [published |-> t.published,
                      failed |-> Cardinality(job.attempted) - t.published]
           told == [capped EXCEPT !.told = counts]
           Like(v) == /\ Shape(v) /\ v.spans = t.spans /\ v.handed = t.handed
                      /\ v.published = t.published /\ v.died = t.died
<1>1. "publish.cap_hit" \in Alerts /\ "publish.run_failed" \in Alerts
  BY DEF Alerts
<1>2. Like(capped)
  BY <1>1, AlertTells DEF SameCounts
<1>3. Like(told) /\ told.told = counts
  <2>1. counts \in Counts
    BY DEF Counts, Shape
  <2> HIDE DEF capped, counts
  <2> QED
    BY <1>2, <2>1 DEF Shape, IsTrace
<1>4. EndPublish(t, ok) = IF ok THEN End(told, PublishSpan, "ok")
                          ELSE End(Alert(told, "publish.run_failed"), PublishSpan, "error")
  BY DEF EndPublish
<1> HIDE DEF told, capped
<1>5. CASE ok
  BY <1>3, <1>4, <1>5
<1>6. CASE ~ok
  <2> DEFINE v == Alert(told, "publish.run_failed")
  <2>1. Like(v) /\ v.told = counts
    BY <1>1, <1>3, AlertTells DEF SameCounts
  <2>2. EndPublish(t, ok) = End(v, PublishSpan, "error")
    BY <1>4, <1>6
  <2> HIDE DEF v
  <2> QED
    BY <1>6, <2>1, <2>2
<1> QED
  BY <1>5, <1>6

(* The tail of Run ends the span of Run.                                   *)
LEMMA ScheduleTells ==
  ASSUME NEW t, Shape(t), NEW ok \in BOOLEAN
  PROVE  \E v : /\ Shape(v) /\ v.spans = t.spans /\ v.handed = t.handed /\ SameCounts(t, v)
                /\ EndSchedule(t, ok) = End(v, Root, IF ok THEN "ok" ELSE "error")
<1>1. CASE ok
  BY <1>1 DEF EndSchedule, SameCounts
<1>2. CASE ~ok
  <2> DEFINE v == Alert(t, "schedule.run_failed")
  <2>1. Shape(v) /\ v.spans = t.spans /\ v.handed = t.handed /\ SameCounts(t, v)
    BY AlertTells DEF Alerts
  <2>2. EndSchedule(t, ok) = End(v, Root, "error")
    BY <1>2 DEF EndSchedule
  <2> HIDE DEF v
  <2> QED
    BY <1>2, <2>1, <2>2
<1> QED
  BY <1>1, <1>2

(* What a trace says that is handed over whole.                            *)
IsWhole(t, u, status) ==
    /\ Shape(u) /\ InPlace(u) /\ InOrder(u)
    /\ HandedOf(u) = DOMAIN u.spans
    /\ SameCounts(t, u)
    /\ ReportsOf(u, "ok") = ReportsOf(t, "ok")
    /\ DOMAIN u.spans = DOMAIN t.spans
    /\ \A c \in DOMAIN t.spans : u.spans[c].id = t.spans[c].id
    /\ PublishSpan \in DOMAIN u.spans => u.spans[PublishSpan].status = status

(* Once its reports have ended, a run hands over its own two spans, the    *)
(* one of Publish before the one of Run.                                   *)
LEMMA RunEnds ==
  ASSUME NEW t, Shape(t), InPlace(t), Len(t.spans) >= 2, HandedOf(t) = 3..Len(t.spans),
         NEW ok \in BOOLEAN
  PROVE  LET status == IF ok THEN "ok" ELSE "error"
         IN  IsWhole(t, EndSchedule(End(t, PublishSpan, status), ok), status)
<1> DEFINE status == IF ok THEN "ok" ELSE "error"
           p == End(t, PublishSpan, status)
           n == Len(t.spans)
<1>0. /\ DOMAIN t.spans = 1..n /\ n \in Nat /\ status \in {"ok", "error"} /\ PublishSpan = 2 /\ Root = 1
      /\ t.spans[2].name = "publish.run" /\ t.spans[1].name = "schedule.run"
  <2>1. DOMAIN t.spans = 1..n /\ n \in Nat
    BY HandedStarted
  <2> QED
    BY <2>1, PlacesAre DEF InPlace
<1> HIDE DEF status
<1>1. /\ Shape(p) /\ p.handed = Append(t.handed, 2) /\ SameCounts(t, p)
      /\ Len(p.spans) = n /\ DOMAIN p.spans = 1..n
      /\ \A c \in 1..n : /\ p.spans[c].name = t.spans[c].name
                         /\ p.spans[c].parent = t.spans[c].parent
                         /\ p.spans[c].id = t.spans[c].id
      /\ p.spans[2].status = status
      /\ HandedOf(p) = 2..n
      /\ ReportsOf(p, "ok") = ReportsOf(t, "ok")
  <2>1. 2 \in DOMAIN t.spans /\ 2 \notin HandedOf(t)
    BY <1>0
  <2>2. HandedOf(t) \cup {2} = 2..n
    BY <1>0
  <2>3. PICK ended \in DOMAIN t.spans : ended = 2 /\ ended \notin HandedOf(t)
    BY <2>1
  <2>4. t.spans[ended].name # "publish.report"
    BY <1>0, <2>3
  <2>5. p = End(t, ended, status)
    BY <1>0, <2>3
  <2> HIDE DEF p
  <2>6. /\ Shape(p) /\ p.handed = Append(t.handed, ended) /\ SameCounts(t, p)
        /\ Len(p.spans) = Len(t.spans) /\ DOMAIN p.spans = DOMAIN t.spans
        /\ \A c \in DOMAIN t.spans : /\ p.spans[c].name = t.spans[c].name
                                     /\ p.spans[c].parent = t.spans[c].parent
                                     /\ p.spans[c].id = t.spans[c].id
                                     /\ c # ended => p.spans[c] = t.spans[c]
        /\ p.spans[ended].status = status
        /\ HandedOf(p) = HandedOf(t) \cup {ended}
    <3> DEFINE q == End(t, ended, status)
    <3>1. /\ Shape(q) /\ q.handed = Append(t.handed, ended) /\ SameCounts(t, q)
          /\ Len(q.spans) = Len(t.spans) /\ DOMAIN q.spans = DOMAIN t.spans
          /\ HandedOf(q) = HandedOf(t) \cup {ended}
      BY <1>0, <2>3, SpanEnds
    <3>2. q.spans[ended].status = status
      BY <1>0, <2>3, SpanEnds
    <3>3. \A c \in DOMAIN t.spans : /\ q.spans[c].name = t.spans[c].name
                                    /\ q.spans[c].parent = t.spans[c].parent
                                    /\ q.spans[c].id = t.spans[c].id
                                    /\ c # ended => q.spans[c] = t.spans[c]
      BY <1>0, <2>3, SpanEnds
    <3>4. p = q
      BY <2>5
    <3> HIDE DEF q
    <3> QED
      BY <3>1, <3>2, <3>3, <3>4
  <2>7. ReportsOf(p, "ok") = ReportsOf(t, "ok")
    BY <1>0, <2>3, <2>4, <2>5, OtherEnds
  <2> QED
    BY <1>0, <2>2, <2>3, <2>6, <2>7
<1> HIDE DEF p
<1>2. PICK v : /\ Shape(v) /\ v.spans = p.spans /\ v.handed = p.handed /\ SameCounts(p, v)
               /\ EndSchedule(p, ok) = End(v, 1, status)
  BY <1>0, <1>1, ScheduleTells DEF status
<1> DEFINE u == End(v, 1, status)
<1>3. HandedOf(v) = 2..n /\ ReportsOf(v, "ok") = ReportsOf(t, "ok") /\ 1 \in DOMAIN v.spans
  <2>1. HandedOf(v) = HandedOf(p)
    BY <1>2 DEF HandedOf
  <2>2. ReportsOf(v, "ok") = ReportsOf(p, "ok")
    BY <1>2, <2>1 DEF ReportsOf
  <2> QED
    BY <1>0, <1>1, <1>2, <2>1, <2>2
<1>4. /\ Shape(u) /\ u.handed = Append(p.handed, 1) /\ SameCounts(t, u)
      /\ DOMAIN u.spans = 1..n
      /\ \A c \in 1..n : /\ u.spans[c].name = t.spans[c].name
                         /\ u.spans[c].parent = t.spans[c].parent
                         /\ u.spans[c].id = t.spans[c].id
      /\ u.spans[2].status = status
      /\ HandedOf(u) = 1..n
      /\ ReportsOf(u, "ok") = ReportsOf(t, "ok")
  <2>1. 1 \in DOMAIN v.spans /\ 1 \notin HandedOf(v) /\ DOMAIN v.spans = 1..n
    BY <1>1, <1>2, <1>3
  <2>2. HandedOf(v) \cup {1} = 1..n
    BY <1>0, <1>3
  <2>3. PICK ended \in DOMAIN v.spans : ended = 1 /\ ended \notin HandedOf(v)
    BY <2>1
  <2>4. v.spans[ended].name # "publish.report"
    BY <1>0, <1>1, <1>2, <2>1, <2>3
  <2>5. u = End(v, ended, status)
    BY <2>3
  <2> HIDE DEF u
  <2>6. /\ Shape(u) /\ u.handed = Append(v.handed, ended) /\ SameCounts(v, u)
        /\ DOMAIN u.spans = DOMAIN v.spans
        /\ \A c \in DOMAIN v.spans : /\ u.spans[c].name = v.spans[c].name
                                     /\ u.spans[c].parent = v.spans[c].parent
                                     /\ u.spans[c].id = v.spans[c].id
                                     /\ c # ended => u.spans[c] = v.spans[c]
        /\ HandedOf(u) = HandedOf(v) \cup {ended}
    <3> DEFINE q == End(v, ended, status)
    <3>0. Shape(v) /\ ended \notin HandedOf(v) /\ status \in {"ok", "error"}
      BY <1>0, <1>2, <2>3
    <3>1. /\ Shape(q) /\ q.handed = Append(v.handed, ended) /\ SameCounts(v, q)
          /\ DOMAIN q.spans = DOMAIN v.spans
          /\ HandedOf(q) = HandedOf(v) \cup {ended}
      BY <3>0, SpanEnds
    <3>2. \A c \in DOMAIN v.spans : /\ q.spans[c].name = v.spans[c].name
                                    /\ q.spans[c].parent = v.spans[c].parent
                                    /\ q.spans[c].id = v.spans[c].id
                                    /\ c # ended => q.spans[c] = v.spans[c]
      BY <3>0, SpanEnds
    <3>3. u = q
      BY <2>5
    <3> HIDE DEF q
    <3> QED
      BY <3>1, <3>2, <3>3
  <2>7. ReportsOf(u, "ok") = ReportsOf(v, "ok")
    BY <1>0, <1>2, <2>3, <2>4, <2>5, OtherEnds
  <2>8. SameCounts(t, u)
    BY <1>1, <1>2, <2>6 DEF SameCounts
  <2>9. 2 \in 1..n
    BY <1>0
  <2> QED
    BY <1>1, <1>2, <1>3, <2>1, <2>2, <2>3, <2>6, <2>7, <2>8, <2>9
<1> HIDE DEF u
<1>5. InPlace(u)
  BY <1>0, <1>4 DEF InPlace
<1>6. InOrder(u)
  <2> SUFFICES ASSUME NEW c \in DOMAIN u.spans \ {Root}
               PROVE  /\ u.spans[u.spans[c].parent].name = Above[u.spans[c].name]
                      /\ \E i, j \in DOMAIN u.handed :
                           i < j /\ u.handed[i] = c /\ u.handed[j] = u.spans[c].parent
    BY DEF InOrder
  <2>1. /\ c \in 2..n /\ u.spans[c].parent = IF c = 2 THEN 1 ELSE 2
        /\ u.spans[u.spans[c].parent].name = Above[u.spans[c].name]
    BY <1>0, <1>4, <1>5, NamesAbove
  <2> DEFINE k == Len(t.handed)
  <2>2. /\ k \in Nat /\ DOMAIN t.handed = 1..k /\ DOMAIN u.handed = 1..(k + 2)
        /\ u.handed[k + 1] = 2 /\ u.handed[k + 2] = 1
        /\ \A i \in 1..k : u.handed[i] = t.handed[i]
    <3>1. t.handed \in Seq(Nat) /\ u.handed = Append(Append(t.handed, 2), 1)
      BY <1>0, <1>1, <1>4 DEF Shape
    <3> QED
      BY <3>1
  <2> HIDE DEF k
  <2>3. CASE c = 2
    <3>1. k + 1 < k + 2 /\ k + 1 \in DOMAIN u.handed /\ k + 2 \in DOMAIN u.handed
      BY <2>2
    <3> QED
      BY <2>1, <2>2, <2>3, <3>1
  <2>4. CASE c # 2
    <3>1. c \in HandedOf(t)
      BY <2>1, <2>4
    <3>2. PICK i \in 1..k : t.handed[i] = c
      BY <2>2, <3>1 DEF HandedOf
    <3>3. i < k + 1 /\ i \in DOMAIN u.handed /\ k + 1 \in DOMAIN u.handed
      BY <2>2
    <3> QED
      BY <2>1, <2>2, <2>4, <3>2, <3>3
  <2> QED
    BY <2>1, <2>3, <2>4
<1> QED
  BY <1>0, <1>2, <1>4, <1>5, <1>6 DEF IsWhole, p, status, u


-----------------------------------------------------------------------------
(***************************************************************************)
(* The invariant of the trace under every step of the run.                 *)
(***************************************************************************)
TelInv == TelIInv /\ IsTrace(tel)

(* What it says of the trace as it stands.                                 *)
LEMMA TraceKnown ==
  ASSUME TelInv
  PROVE  /\ Shape(tel) /\ InPlace(tel) /\ JobIInv /\ AlertsInv
         /\ job \in Jobs /\ job.batch \subseteq job.attempted /\ job.attempted \subseteq Ids
         /\ DOMAIN tel.spans = 1..Len(tel.spans) /\ Len(tel.spans) \in Nat
         /\ confirmed \in [Ids -> Nat]
<1>1. Shape(tel) /\ InPlace(tel) /\ JobIInv /\ AlertsInv
  BY DEF TelInv, TelIInv, TelTypeOK, OpenSpansAreAtHand, InPlace, Shape, AlertsInv
<1>2. job \in Jobs /\ job.batch \subseteq job.attempted /\ job.attempted \subseteq Ids
      /\ confirmed \in [Ids -> Nat]
  BY <1>1 DEF JobIInv, JobTypeOK, Jobs
<1> QED
  BY <1>1, <1>2, HandedStarted

(* Issues are only ever added.                                             *)
LEMMA ConfirmedGrows ==
  ASSUME confirmed \in [Ids -> Nat], [TelNext]_telVars, NEW id \in Ids, confirmed[id] > 0
  PROVE  confirmed'[id] > 0
<1>1. [JobNext]_jobVars
  BY TelStepIsJobStep
<1>2. CASE CreateConfirmed
  BY <1>2 DEF CreateConfirmed
<1>3. CASE UNCHANGED confirmed
  BY <1>3
<1> QED
  BY <1>1, <1>2, <1>3 DEF JobNext, JobStep, JobFailure, AdminStep, StoreStep, jobVars, githubVars, vars,
     StartRun, BuildPublish, BuildPublishFails, List, ListFails, EnsureLabels, EnsureLabelsFails,
     FetchReport, FetchFails, Cancelled, CreateLost, CreateFails, Marked, EndRun, RunCrashes

(* What is told of a published report stays true.                          *)
LEMMA PublishedStaysTrue ==
  ASSUME TelInv, [TelNext]_telVars, NEW id \in Reports("ok")
  PROVE  id \in Ids /\ <<id, "published">> \in acked' /\ confirmed'[id] > 0
<1>1. \A c \in Handed : tel.spans[c].name = "publish.report" => tel.spans[c].id \in Ids
  <2> SUFFICES ASSUME NEW c \in Handed, tel.spans[c].name = "publish.report"
               PROVE  tel.spans[c].id \in Ids
    OBVIOUS
  <2>1. c \in 1..Len(tel.spans) /\ Len(tel.spans) \in Nat
    BY TraceKnown, HandedStarted, HandedAre
  <2>2. c > 2
    BY <2>1, TraceKnown, PlacesAre DEF InPlace
  <2>3. tel.spans[c].id \in job.attempted
    BY <2>2 DEF TelInv, TelIInv, EndedReportsAreDone, PublishSpan
  <2> QED
    BY <2>3, TraceKnown
<1>2. id \in Ids /\ <<id, "published">> \in acked /\ confirmed[id] > 0
  BY <1>1 DEF TelInv, TelIInv, CountsAddUp, Reports
<1>3. acked \subseteq acked'
  BY TelStepIsJobStep, StepSettles, TraceKnown DEF JobIInv, Settles
<1> QED
  BY <1>2, <1>3, ConfirmedGrows, TraceKnown

(* Before the run returns the properties ask for the order of the spans    *)
(* and for the truth of the reports told of.                               *)
LEMMA UnderWay ==
  ASSUME Shape(tel'), InPlace(tel'), HandedOf(tel') \cap {Root, PublishSpan} = {},
         job'.pc # "done" \/ tel'.died \/ tel'.spans = <<>>,
         \A id \in ReportsOf(tel', "ok") : <<id, "published">> \in acked' /\ confirmed'[id] > 0
  PROVE  TraceIsWhole' /\ CountsAddUp'
<1>1. InOrder(tel')
  BY OpenIsInOrder
<1>2. TraceIsWhole'
  BY <1>1, HandedAre DEF TraceIsWhole, InOrder, Returned
<1>3. CountsAddUp'
  BY HandedAre DEF CountsAddUp
<1> QED
  BY <1>2, <1>3

(* What a step must leave of the trace.                                    *)
TraceGoal ==
    Shape(tel') /\ OpenSpansAreAtHand' /\ EndedReportsAreDone' /\ TraceIsWhole' /\ CountsAddUp'

(* A step beside the run leaves its trace true.                            *)
LEMMA TraceAside ==
  ASSUME TelInv, [TelNext]_telVars, UNCHANGED <<job, tel>>
  PROVE  TraceGoal
<1>1. Handed' = Handed /\ \A status : Reports(status)' = Reports(status)
  BY DEF Handed, Reports
<1>2. OpenSpansAreAtHand'
  BY <1>1 DEF TelInv, TelIInv, OpenSpansAreAtHand
<1>3. EndedReportsAreDone'
  BY <1>1 DEF TelInv, TelIInv, EndedReportsAreDone
<1>4. TraceIsWhole'
  BY <1>1 DEF TelInv, TelIInv, TraceIsWhole, Returned
<1>5. CountsAddUp'
  BY <1>1, PublishedStaysTrue DEF TelInv, TelIInv, CountsAddUp
<1>6. Shape(tel')
  BY TraceKnown DEF Shape, IsTrace
<1> QED
  BY <1>2, <1>3, <1>4, <1>5, <1>6 DEF TraceGoal

(* So does one that moves the run on without a span: the labels are there  *)
(* or the issue is.                                                        *)
LEMMA TraceWaits ==
  ASSUME TelInv, [TelNext]_telVars, UNCHANGED tel,
         job'.attempted = job.attempted, job'.batch = job.batch, job'.ok => job.ok,
         \/ job.pc = "labels" /\ job'.pc = "next"
         \/ job.pc = "create" /\ job'.pc = "mark" /\ job'.id = job.id
  PROVE  TraceGoal
<1>0. Shape(tel') /\ InPlace(tel') /\ Handed' = Handed /\ \A status : Reports(status)' = Reports(status)
  BY TraceKnown DEF Handed, Reports, Shape, IsTrace, InPlace
<1>1. OpenSpansAreAtHand'
  BY <1>0 DEF TelInv, TelIInv, OpenSpansAreAtHand
<1>2. EndedReportsAreDone'
  BY <1>0 DEF TelInv, TelIInv, EndedReportsAreDone
<1>3. HandedOf(tel') \cap {1, 2} = {}
  BY <1>0, TraceKnown, HandedAre DEF TelInv, TelIInv, OpenSpansAreAtHand
<1>4. TraceIsWhole' /\ CountsAddUp'
  BY <1>0, <1>3, PublishedStaysTrue, UnderWay, HandedAre DEF Root, PublishSpan
<1> QED
  BY <1>0, <1>1, <1>2, <1>4 DEF TraceGoal


(* A report is left: its span ends, and what it says is told.              *)
LEMMA ReportLeaves ==
  ASSUME TelInv, [TelNext]_telVars,
         NEW t, Shape(t), InPlace(t), Len(t.spans) >= 3, HandedOf(t) = 3..(Len(t.spans) - 1),
         ReportsOf(t, "ok") = Reports("ok"),
         \A c \in HandedOf(t) : t.spans[c].id \in job.attempted \ job.batch,
         NEW id \in job.batch, t.spans[Len(t.spans)].id = id,
         NEW status \in {"ok", "error"}, tel' = End(t, Len(t.spans), status),
         t.published = IF status = "ok" THEN tel.published + 1 ELSE tel.published,
         status = "ok" => <<id, "published">> \in acked' /\ confirmed'[id] > 0,
         job'.pc = "next", job'.batch = job.batch \ {id}, job'.attempted = job.attempted,
         job'.ok => job.ok /\ status = "ok"
  PROVE  TraceGoal
<1> DEFINE n == Len(t.spans)
<1>1. /\ n \in Nat /\ DOMAIN t.spans = 1..n /\ n \in DOMAIN t.spans /\ n \notin HandedOf(t)
      /\ n > 2 /\ t.spans[n].name = "publish.report"
  <2>1. n \in Nat /\ DOMAIN t.spans = 1..n
    BY HandedStarted
  <2> QED
    BY <2>1, PlacesAre DEF InPlace
<1> HIDE DEF n
<1>2. /\ Shape(tel') /\ SameCounts(t, tel')
      /\ Len(tel'.spans) = n /\ DOMAIN tel'.spans = 1..n
      /\ \A c \in 1..n : /\ tel'.spans[c].name = t.spans[c].name
                         /\ tel'.spans[c].parent = t.spans[c].parent
                         /\ tel'.spans[c].id = t.spans[c].id
      /\ HandedOf(tel') = HandedOf(t) \cup {n}
  <2> DEFINE u == End(t, n, status)
  <2>1. /\ Shape(u) /\ SameCounts(t, u) /\ Len(u.spans) = n /\ DOMAIN u.spans = 1..n
        /\ HandedOf(u) = HandedOf(t) \cup {n}
    <3>1. n \in DOMAIN t.spans /\ n \notin HandedOf(t) /\ Len(t.spans) = n
      BY <1>1 DEF n
    <3>2. /\ Shape(u) /\ SameCounts(t, u) /\ Len(u.spans) = Len(t.spans)
          /\ DOMAIN u.spans = DOMAIN t.spans /\ HandedOf(u) = HandedOf(t) \cup {n}
      BY <3>1, SpanEnds
    <3> HIDE DEF u
    <3> QED
      BY <1>1, <3>1, <3>2
  <2>2. \A c \in 1..n : /\ u.spans[c].name = t.spans[c].name
                        /\ u.spans[c].parent = t.spans[c].parent
                        /\ u.spans[c].id = t.spans[c].id
    BY <1>1, SpanEnds
  <2>3. tel' = u
    BY DEF n
  <2> HIDE DEF u
  <2> QED
    BY <2>1, <2>2, <2>3
<1>3. ReportsOf(tel', "ok") = IF status = "ok" THEN Reports("ok") \cup {id} ELSE Reports("ok")
  <2>1. tel' = End(t, n, status) /\ t.spans[n].id = id
    BY DEF n
  <2>2. ReportsOf(tel', "ok") = IF status = "ok" THEN ReportsOf(t, "ok") \cup {t.spans[n].id}
                                ELSE ReportsOf(t, "ok")
    BY <1>1, <2>1, ReportEnds
  <2> QED
    BY <2>1, <2>2
<1>4. HandedOf(tel') = 3..n /\ InPlace(tel') /\ HandedOf(tel') \cap {1, 2} = {}
  BY <1>1, <1>2 DEF InPlace, n
<1>5. OpenSpansAreAtHand'
  <2>1. \A c \in DOMAIN tel'.spans : /\ tel'.spans[c].name = Place(c).name
                                     /\ tel'.spans[c].parent = Place(c).parent
    BY <1>4 DEF InPlace
  <2>2. job'.pc = "next" /\ Len(tel'.spans) = n /\ n >= 2
    BY <1>1, <1>2
  <2>3. Handed' = 3..n /\ Handed' \cap {1, 2} = {}
    BY <1>4, HandedAre
  <2> HIDE DEF TraceGoal
  <2> QED
    BY <2>1, <2>2, <2>3 DEF OpenSpansAreAtHand, Root, PublishSpan
<1>6. Reports("ok") \subseteq job.attempted \ job.batch
  <2>1. \A c \in HandedOf(t) : t.spans[c].id \in job.attempted \ job.batch
    OBVIOUS
  <2> QED
    BY <2>1 DEF ReportsOf
<1>7. tel'.published = Cardinality(Reports("ok")')
  <2>1. IsFiniteSet(Reports("ok")) /\ id \notin Reports("ok") /\ tel.published = Cardinality(Reports("ok"))
    <3>1. IsFiniteSet(job.attempted) /\ tel.published = Cardinality(Reports("ok"))
      BY DEF TelInv, TelIInv, BatchIsFinite, EndedReportsAreDone
    <3> QED
      BY <1>6, <3>1, FS_Subset
  <2>2. Cardinality(Reports("ok") \cup {id}) = Cardinality(Reports("ok")) + 1
    BY <2>1, FS_AddElement
  <2>3. tel'.published = t.published
    BY <1>2 DEF SameCounts
  <2> QED
    BY <1>3, <2>1, <2>2, <2>3, HandedAre
<1>8. EndedReportsAreDone'
  <2>1. ASSUME NEW c \in HandedOf(tel')
        PROVE  tel'.spans[c].id \in job.attempted \ job'.batch
    <3>1. c \in 1..n /\ tel'.spans[c].id = t.spans[c].id
      BY <1>1, <1>2, <1>4, <2>1
    <3>2. CASE c = n
      BY <3>1, <3>2, TraceKnown DEF n
    <3>3. CASE c # n
      BY <1>2, <2>1, <3>1, <3>3
    <3> QED
      BY <3>2, <3>3
  <2>2. job'.ok => ReportsOf(tel', "ok") = job.attempted \ job'.batch
    <3> SUFFICES ASSUME job'.ok PROVE ReportsOf(tel', "ok") = job.attempted \ job'.batch
      OBVIOUS
    <3>1. Reports("ok") = job.attempted \ job.batch /\ status = "ok"
      BY DEF TelInv, TelIInv, EndedReportsAreDone
    <3> QED
      BY <1>3, <3>1, TraceKnown
  <2> QED
    BY <1>7, <2>1, <2>2, HandedAre DEF EndedReportsAreDone
<1>9. \A i \in ReportsOf(tel', "ok") : <<i, "published">> \in acked' /\ confirmed'[i] > 0
  BY <1>3, PublishedStaysTrue
<1>10. TraceIsWhole' /\ CountsAddUp'
  BY <1>2, <1>4, <1>9, UnderWay DEF Root, PublishSpan
<1> QED
  BY <1>2, <1>5, <1>8, <1>10 DEF TraceGoal


(* The span of the next report is the newest, under the one of Publish.    *)
LEMMA ReportStarts ==
  ASSUME TelInv, job.pc = "next", NEW id \in job.batch
  PROVE  LET t == StartReport(tel, id)
         IN  /\ Shape(t) /\ InPlace(t) /\ Len(t.spans) >= 3
             /\ HandedOf(t) = 3..(Len(t.spans) - 1) /\ t.spans[Len(t.spans)].id = id
             /\ t.published = tel.published /\ t.died = tel.died
             /\ \A status : ReportsOf(t, status) = Reports(status)
             /\ \A c \in HandedOf(t) : t.spans[c].id \in job.attempted \ job.batch
<1> DEFINE n == Len(tel.spans)
           t == StartReport(tel, id)
<1>1. /\ n \in Nat /\ n >= 2 /\ DOMAIN tel.spans = 1..n /\ Handed = 3..n
      /\ Shape(tel) /\ InPlace(tel) /\ id \in Ids
  BY TraceKnown DEF TelInv, TelIInv, OpenSpansAreAtHand
<1>2. /\ Shape(t) /\ t.handed = tel.handed /\ SameCounts(tel, t) /\ Len(t.spans) = n + 1
      /\ \A c \in 1..n : t.spans[c] = tel.spans[c]
      /\ t.spans[n + 1].name = "publish.report" /\ t.spans[n + 1].parent = 2
      /\ t.spans[n + 1].id = id
      /\ HandedOf(t) = HandedOf(tel)
      /\ \A status : ReportsOf(t, status) = ReportsOf(tel, status)
  <2>1. PublishSpan = 2 /\ PublishSpan \in Nat
    BY PlacesAre
  <2>2. t = StartSpan(tel, "publish.report", PublishSpan, id)
    BY DEF StartReport
  <2> HIDE DEF t, n
  <2> DEFINE u == StartSpan(tel, "publish.report", PublishSpan, id)
             m == Len(tel.spans)
  <2>3. /\ Shape(u) /\ u.handed = tel.handed /\ SameCounts(tel, u)
        /\ Len(u.spans) = m + 1
        /\ \A c \in 1..m : u.spans[c] = tel.spans[c]
        /\ u.spans[m + 1].name = "publish.report" /\ u.spans[m + 1].parent = PublishSpan
        /\ u.spans[m + 1].id = id
        /\ HandedOf(u) = HandedOf(tel)
        /\ \A status : ReportsOf(u, status) = ReportsOf(tel, status)
    <3>1. /\ Shape(tel) /\ id \in Ids \cup {None} /\ PublishSpan \in Nat
          /\ "publish.report" \in {"schedule.run", "publish.run", "publish.report"}
      BY <1>1, <2>1
    <3>2. Shape(u) /\ u.handed = tel.handed /\ SameCounts(tel, u)
      BY <3>1, SpanStarts
    <3>6. Len(u.spans) = m + 1
      BY <3>1, SpanStarts
    <3>5. \A c \in DOMAIN tel.spans : u.spans[c] = tel.spans[c]
      BY <3>1, SpansStay
    <3>3. /\ u.spans[m + 1].name = "publish.report" /\ u.spans[m + 1].parent = PublishSpan
          /\ u.spans[m + 1].id = id
      BY <3>1, SpanStarts
    <3>4. /\ HandedOf(u) = HandedOf(tel)
          /\ \A status : ReportsOf(u, status) = ReportsOf(tel, status)
      BY <3>1, SpanStarts
    <3> QED
      BY <1>1, <3>2, <3>3, <3>4, <3>5, <3>6
  <2> QED
    BY <2>1, <2>2, <2>3 DEF n
<1> HIDE DEF n, t
<1>3. DOMAIN t.spans = 1..(n + 1)
  BY <1>2, HandedStarted
<1>4. InPlace(t)
  <2> SUFFICES ASSUME NEW c \in 1..(n + 1)
               PROVE  t.spans[c].name = Place(c).name /\ t.spans[c].parent = Place(c).parent
    BY <1>3 DEF InPlace
  <2>1. CASE c \in 1..n
    BY <1>1, <1>2, <2>1 DEF InPlace
  <2>2. CASE c = n + 1
    <3>1. c \in Nat /\ c > 2
      BY <1>1, <2>2
    <3> QED
      BY <1>2, <2>2, <3>1, PlacesAre
  <2> QED
    BY <1>1, <2>1, <2>2
<1>5. \A c \in HandedOf(t) : t.spans[c].id \in job.attempted \ job.batch
  <2> SUFFICES ASSUME NEW c \in HandedOf(t) PROVE t.spans[c].id \in job.attempted \ job.batch
    OBVIOUS
  <2>1. c \in Handed /\ c \in 1..n /\ c > PublishSpan
    BY <1>1, <1>2, HandedAre DEF PublishSpan
  <2> QED
    BY <1>2, <2>1 DEF TelInv, TelIInv, EndedReportsAreDone
<1>6. /\ Len(t.spans) >= 3 /\ HandedOf(t) = 3..(Len(t.spans) - 1)
      /\ t.spans[Len(t.spans)].id = id
  BY <1>1, <1>2, HandedAre
<1> QED
  BY <1>2, <1>4, <1>5, <1>6, HandedAre DEF SameCounts, t


(* The next report is opened and its span stays open, or it is left.       *)
LEMMA TraceFetches ==
  ASSUME TelInv, [TelNext]_telVars, TelFetch \/ TelFetchFails
  PROVE  TraceGoal
<1> DEFINE id == Oldest(job.batch)
           t == StartReport(tel, id)
<1>1. /\ job.pc = "next" /\ id \in job.batch /\ job \in Jobs
      /\ \/ job' = [job EXCEPT !.pc = "create", !.id = id] /\ tel' = t
         \/ Advance(id, TRUE) /\ tel' = ReportFailed(t)
  <2>1. job.pc = "next" /\ job.batch # {} /\ job.batch \subseteq Ids /\ job \in Jobs
    BY TraceKnown DEF TelFetch, TelFetchFails, FetchReport, FetchFails
  <2>2. id \in job.batch
    BY <2>1, OldestIsThere
  <2>3. CASE TelFetchFails
    BY <2>1, <2>2, <2>3 DEF TelFetchFails, FetchFails
  <2>4. CASE TelFetch
    <3>1. CASE Fetched \in Unopenable \cup {None}
      <4>1. Advance(id, TRUE)
        BY <2>4, <3>1 DEF TelFetch, FetchReport
      <4>2. job'.pc = "next"
        BY <2>1, <4>1, AdvanceIs
      <4> QED
        BY <2>1, <2>2, <2>4, <4>1, <4>2 DEF TelFetch
    <3>2. CASE Fetched \notin Unopenable \cup {None}
      <4>1. job' = [job EXCEPT !.pc = "create", !.id = id]
        BY <2>4, <3>2 DEF TelFetch, FetchReport
      <4>2. job'.pc = "create"
        <5> HIDE DEF id
        <5> QED
          BY <2>1, <4>1 DEF Jobs
      <4> QED
        BY <2>1, <2>2, <2>4, <4>1, <4>2 DEF TelFetch
    <3> QED
      BY <3>1, <3>2
  <2> QED
    BY <2>3, <2>4
<1> HIDE DEF id
<1>2. /\ Shape(t) /\ InPlace(t) /\ Len(t.spans) >= 3
      /\ HandedOf(t) = 3..(Len(t.spans) - 1) /\ t.spans[Len(t.spans)].id = id
      /\ t.published = tel.published
      /\ ReportsOf(t, "ok") = Reports("ok")
      /\ \A c \in HandedOf(t) : t.spans[c].id \in job.attempted \ job.batch
  BY <1>1, ReportStarts
<1> HIDE DEF t
<1>3. CASE job' = [job EXCEPT !.pc = "create", !.id = id] /\ tel' = t
  <2>1. /\ job'.pc = "create" /\ job'.id = id /\ job'.batch = job.batch
        /\ job'.attempted = job.attempted /\ job'.ok = job.ok
    BY <1>1, <1>3 DEF Jobs
  <2>2. Handed' = HandedOf(t) /\ Reports("ok")' = Reports("ok")
    BY <1>2, <1>3, HandedAre
  <2>3. DOMAIN t.spans = 1..Len(t.spans) /\ Len(t.spans) \in Nat
    BY <1>2, HandedStarted
  <2>4. Handed' \cap {1, 2} = {}
    BY <1>2, <2>2, <2>3
  <2>5. OpenSpansAreAtHand'
    BY <1>2, <1>3, <2>1, <2>2, <2>4 DEF OpenSpansAreAtHand, InPlace, Root, PublishSpan
  <2>6. EndedReportsAreDone'
    BY <1>2, <1>3, <2>1, <2>2 DEF EndedReportsAreDone, TelInv, TelIInv
  <2>7. TraceIsWhole' /\ CountsAddUp'
    BY <1>2, <1>3, <2>1, <2>2, <2>4, UnderWay, PublishedStaysTrue, HandedAre DEF Root, PublishSpan
  <2> QED
    BY <1>2, <1>3, <2>5, <2>6, <2>7 DEF TraceGoal
<1>4. CASE Advance(id, TRUE) /\ tel' = ReportFailed(t)
  <2>1. /\ job'.pc = "next" /\ job'.batch = job.batch \ {id} /\ job'.attempted = job.attempted
        /\ ~job'.ok
    BY <1>1, <1>4, AdvanceIs
  <2>2. tel' = End(t, Len(t.spans), "error")
    BY <1>4 DEF ReportFailed, Newest
  <2>3. PICK status \in {"ok", "error"} : status = "error"
    OBVIOUS
  <2> QED
    BY <1>1, <1>2, <2>1, <2>2, <2>3, ReportLeaves
<1> QED
  BY <1>1, <1>3, <1>4

(* The report at hand is not published, or it is and marked.               *)
LEMMA TraceLeaves ==
  ASSUME TelInv, [TelNext]_telVars, TelCreateFails \/ TelMarked
  PROVE  TraceGoal
<1> DEFINE n == Len(tel.spans)
           counted == [tel EXCEPT !.published = tel.published + 1]
<1>1. /\ job \in Jobs /\ job.pc \in {"create", "mark"} /\ job.id \in job.batch
      /\ n >= 3 /\ n \in Nat /\ Handed = 3..(n - 1) /\ tel.spans[n].id = job.id
      /\ Shape(tel) /\ InPlace(tel)
  <2>1. job \in Jobs /\ job.pc \in {"create", "mark"}
    BY TraceKnown DEF TelCreateFails, TelMarked, CreateFails, Marked
  <2>2. job.id \in job.batch
    BY <2>1, TraceKnown DEF JobIInv, JobTypeOK
  <2> QED
    BY <2>1, <2>2, TraceKnown DEF TelInv, TelIInv, OpenSpansAreAtHand
<1>2. \A c \in Handed : tel.spans[c].id \in job.attempted \ job.batch
  <2> SUFFICES ASSUME NEW c \in Handed PROVE tel.spans[c].id \in job.attempted \ job.batch
    OBVIOUS
  <2>1. c > PublishSpan
    BY <1>1 DEF PublishSpan
  <2> QED
    BY <2>1 DEF TelInv, TelIInv, EndedReportsAreDone
<1> HIDE DEF n
<1>3. ASSUME Advance(job.id, TRUE), tel' = ReportFailed(tel)
      PROVE  TraceGoal
  <2>1. /\ job'.pc = "next" /\ job'.batch = job.batch \ {job.id} /\ job'.attempted = job.attempted
        /\ ~job'.ok
    BY <1>1, <1>3, AdvanceIs
  <2>2. tel' = End(tel, Len(tel.spans), "error")
    BY <1>3 DEF ReportFailed, Newest
  <2>3. PICK status \in {"ok", "error"} : status = "error"
    OBVIOUS
  <2>4. /\ Len(tel.spans) >= 3 /\ HandedOf(tel) = 3..(Len(tel.spans) - 1)
        /\ ReportsOf(tel, "ok") = Reports("ok")
        /\ \A c \in HandedOf(tel) : tel.spans[c].id \in job.attempted \ job.batch
        /\ tel.spans[Len(tel.spans)].id = job.id
    BY <1>1, <1>2, HandedAre DEF n
  <2> QED
    BY <1>1, <2>1, <2>2, <2>3, <2>4, ReportLeaves
<1>4. CASE TelCreateFails
  BY <1>3, <1>4 DEF TelCreateFails, CreateFails
<1>5. CASE TelMarked /\ call[Cron].res # "nil"
  <2>1. Advance(job.id, TRUE)
    <3>1. Advance(job.id, call[Cron].res # "nil") /\ (call[Cron].res # "nil") = TRUE
      BY <1>5 DEF TelMarked, Marked
    <3> QED
      BY <3>1
  <2> QED
    BY <1>3, <1>5, <2>1 DEF TelMarked
<1>6. CASE TelMarked /\ call[Cron].res = "nil"
  <2>1. /\ job'.pc = "next" /\ job'.batch = job.batch \ {job.id} /\ job'.attempted = job.attempted
        /\ (job'.ok => job.ok)
    <3>1. Advance(job.id, FALSE)
      <4>1. Advance(job.id, call[Cron].res # "nil") /\ (call[Cron].res # "nil") = FALSE
        BY <1>6 DEF TelMarked, Marked
      <4> QED
        BY <4>1
    <3> QED
      BY <1>1, <3>1, AdvanceIs
  <2>2. <<job.id, "published">> \in acked' /\ confirmed'[job.id] > 0
    <3>1. call[Cron].pc = "done" /\ job.pc = "mark" /\ UNCHANGED <<acked, confirmed>>
      BY <1>6 DEF TelMarked, Marked, githubVars
    <3>2. <<job.id, "published">> \in acked /\ confirmed[job.id] > 0
      BY <1>6, <3>1, TraceKnown DEF JobIInv, OutcomeIsTrue, CronIsSound
    <3> QED
      BY <3>1, <3>2
  <2>3. tel' = End(counted, Len(tel.spans), "ok")
    BY <1>1, <1>6 DEF TelMarked, ReportPublished, Newest, Shape, IsTrace
  <2>4. /\ Shape(counted) /\ counted.spans = tel.spans /\ counted.handed = tel.handed
        /\ counted.published = tel.published + 1
    <3> DEFINE m == tel.published + 1
    <3>1. m \in Nat /\ counted = [tel EXCEPT !.published = m]
      BY <1>1 DEF Shape
    <3> HIDE DEF m, counted
    <3>2. /\ IsTrace(counted) /\ counted.spans = tel.spans /\ counted.handed = tel.handed
          /\ counted.published = m /\ counted.alerts = tel.alerts
          /\ counted.deferred = tel.deferred /\ counted.told = tel.told /\ counted.died = tel.died
      BY <1>1, <3>1 DEF Shape, IsTrace
    <3> QED
      BY <1>1, <3>1, <3>2 DEF Shape, m
  <2> HIDE DEF counted
  <2>5. /\ HandedOf(counted) = Handed /\ ReportsOf(counted, "ok") = Reports("ok") /\ InPlace(counted)
    BY <1>1, <2>4, HandedAre DEF HandedOf, ReportsOf, InPlace
  <2>6. PICK status \in {"ok", "error"} : status = "ok"
    OBVIOUS
  <2>7. /\ Len(counted.spans) >= 3 /\ HandedOf(counted) = 3..(Len(counted.spans) - 1)
        /\ \A c \in HandedOf(counted) : counted.spans[c].id \in job.attempted \ job.batch
        /\ counted.spans[Len(counted.spans)].id = job.id
        /\ tel' = End(counted, Len(counted.spans), status)
    BY <1>1, <1>2, <2>3, <2>4, <2>5, <2>6 DEF n
  <2> QED
    BY <1>1, <2>1, <2>2, <2>4, <2>5, <2>6, <2>7, ReportLeaves
<1> QED
  BY <1>4, <1>5, <1>6


(* The empty trace.                                                        *)
LEMMA NoTraceIs ==
  /\ Shape(NoTrace) /\ NoTrace.spans = <<>> /\ NoTrace.published = 0 /\ ~NoTrace.died
  /\ InPlace(NoTrace) /\ HandedOf(NoTrace) = {} /\ \A status : ReportsOf(NoTrace, status) = {}
<1>1. /\ NoTrace.spans = <<>> /\ NoTrace.handed = <<>> /\ NoTrace.published = 0
      /\ NoTrace.died = FALSE
      /\ NoTrace.alerts = {} /\ NoTrace.deferred = 0
      /\ NoTrace.told = [published |-> 0, failed |-> 0] /\ IsTrace(NoTrace)
  BY DEF NoTrace, IsTrace
<1>2. [published |-> 0, failed |-> 0] \in Counts
  BY DEF Counts
<1>3. DOMAIN NoTrace.spans = {} /\ DOMAIN NoTrace.handed = {}
  BY <1>1
<1>4. HandedOf(NoTrace) = {} /\ \A status : ReportsOf(NoTrace, status) = {}
  BY <1>3 DEF HandedOf, ReportsOf
<1>5. NoTrace.spans \in Seq(Spans) /\ NoTrace.handed \in Seq(DOMAIN NoTrace.spans)
  BY <1>1
<1>6. Shape(NoTrace)
  <2>1. NoTrace.published \in Nat /\ NoTrace.deferred \in Nat
    BY <1>1
  <2>2. NoTrace.alerts \subseteq Alerts /\ NoTrace.told \in Counts /\ NoTrace.died \in BOOLEAN
    <3> DEFINE t == NoTrace
    <3>1. t.alerts = {} /\ t.told = [published |-> 0, failed |-> 0] /\ t.died = FALSE
      BY <1>1
    <3> HIDE DEF t
    <3> QED
      BY <1>2, <3>1 DEF t
  <2> QED
    BY <1>1, <1>5, <2>1, <2>2 DEF Shape
<1>7. InPlace(NoTrace)
  BY <1>3 DEF InPlace
<1> QED
  BY <1>1, <1>4, <1>6, <1>7

(* A run starts with an empty trace, and keeps it if it cannot be wired.   *)
LEMMA TraceBegins ==
  ASSUME TelInv, [TelNext]_telVars, TelStart \/ TelBuildFails
  PROVE  TraceGoal
<1>1. /\ tel' = NoTrace /\ job'.pc \in {"wire", "done"}
      /\ job'.ok => job'.attempted = {}
  <2>1. CASE TelStart
    BY <2>1 DEF TelStart, StartRun
  <2>2. CASE TelBuildFails
    <3>1. job.pc = "wire" /\ FinishRun(FALSE) /\ tel' = tel
      BY <2>2 DEF TelBuildFails, BuildPublishFails
    <3>2. tel = NoTrace
      BY <3>1 DEF TelInv, TelIInv, AlertsAreSound
    <3>3. job'.pc = "done" /\ ~job'.ok
      BY <3>1, TraceKnown, FinishIs
    <3> QED
      BY <3>1, <3>2, <3>3
  <2> QED
    BY <2>1, <2>2
<1>2. /\ Shape(tel') /\ InPlace(tel') /\ tel'.spans = <<>> /\ Handed' = {} /\ HandedOf(tel') = {}
      /\ ReportsOf(tel', "ok") = {} /\ Reports("ok")' = {} /\ tel'.published = 0
  BY <1>1, NoTraceIs, HandedAre
<1>3. OpenSpansAreAtHand'
  BY <1>1, <1>2 DEF OpenSpansAreAtHand, InPlace
<1>4. EndedReportsAreDone'
  BY <1>1, <1>2, FS_EmptySet DEF EndedReportsAreDone
<1>5. TraceIsWhole' /\ CountsAddUp'
  BY <1>2, UnderWay
<1> QED
  BY <1>2, <1>3, <1>4, <1>5 DEF TraceGoal

(* The span of Run is the first, once the run is wired.                    *)
LEMMA TraceIsWired ==
  ASSUME TelInv, [TelNext]_telVars, TelBuild
  PROVE  TraceGoal
<1> DEFINE t == StartSpan(NoTrace, "schedule.run", NoSpan, None)
<1>1. /\ tel' = t /\ job'.pc = "list" /\ job'.attempted = {}
  <2>1. job.pc = "wire" /\ job' = [job EXCEPT !.pc = "list"] /\ tel' = StartSpan(tel, "schedule.run", NoSpan, None)
    BY DEF TelBuild, BuildPublish
  <2>2. tel = NoTrace /\ job.attempted = {}
    BY <2>1, TraceKnown DEF TelInv, TelIInv, AlertsAreSound, JobIInv, BatchIsSound
  <2> QED
    BY <2>1, <2>2, TraceKnown DEF Jobs
<1>2. /\ Shape(t) /\ SameCounts(NoTrace, t) /\ Len(t.spans) = 1
      /\ t.spans[1].name = "schedule.run" /\ t.spans[1].parent = 0
      /\ HandedOf(t) = {} /\ ReportsOf(t, "ok") = {}
  <2>1. /\ Shape(NoTrace) /\ NoSpan \in Nat /\ None \in Ids \cup {None}
        /\ "schedule.run" \in {"schedule.run", "publish.run", "publish.report"}
    BY NoTraceIs DEF NoSpan
  <2>2. /\ Shape(t) /\ SameCounts(NoTrace, t) /\ Len(t.spans) = Len(NoTrace.spans) + 1
    BY <2>1, SpanStarts
  <2>3. t.spans[Len(NoTrace.spans) + 1].name = "schedule.run"
        /\ t.spans[Len(NoTrace.spans) + 1].parent = NoSpan
    BY <2>1, SpanStarts
  <2>4. HandedOf(t) = HandedOf(NoTrace) /\ ReportsOf(t, "ok") = ReportsOf(NoTrace, "ok")
    BY <2>1, SpanStarts
  <2>5. Len(NoTrace.spans) + 1 = 1
    BY NoTraceIs
  <2> HIDE DEF t
  <2> QED
    BY <2>2, <2>3, <2>4, <2>5, NoTraceIs DEF NoSpan
<1> HIDE DEF t
<1>3. DOMAIN t.spans = {1}
  <2>1. DOMAIN t.spans = 1..Len(t.spans)
    BY <1>2, HandedStarted
  <2> QED
    BY <1>2, <2>1
<1>4. InPlace(t) /\ t.published = 0
  BY <1>2, <1>3, PlacesAre, NoTraceIs DEF InPlace, SameCounts
<1>5. OpenSpansAreAtHand'
  BY <1>1, <1>2, <1>4, HandedAre DEF OpenSpansAreAtHand, InPlace
<1>6. EndedReportsAreDone'
  BY <1>1, <1>2, <1>4, HandedAre, FS_EmptySet DEF EndedReportsAreDone, SameCounts
<1>7. TraceIsWhole' /\ CountsAddUp'
  BY <1>1, <1>2, <1>4, UnderWay
<1> QED
  BY <1>1, <1>2, <1>5, <1>6, <1>7 DEF TraceGoal


(* A run that returned handed its trace over whole, and true.              *)
LEMMA TraceReturns ==
  ASSUME TelInv, [TelNext]_telVars, NEW t, NEW status, IsWhole(t, tel', status), ~t.died,
         ReportsOf(t, "ok") = Reports("ok"),
         \A c \in DOMAIN t.spans : c > 2 => t.spans[c].id \in job'.attempted,
         t.published = Cardinality(Reports("ok")),
         PublishSpan \in DOMAIN t.spans =>
            /\ t.told.published = t.published
            /\ t.told.published + t.told.failed = Cardinality(job'.attempted),
         job'.pc = "done", job'.batch = {},
         job'.ok => Reports("ok") = job'.attempted, status = "ok" => job'.ok
  PROVE  TraceGoal
<1>1. /\ Shape(tel') /\ InPlace(tel') /\ InOrder(tel') /\ Handed' = DOMAIN tel'.spans
      /\ SameCounts(t, tel') /\ Reports("ok")' = Reports("ok")
      /\ DOMAIN tel'.spans = DOMAIN t.spans
      /\ \A c \in DOMAIN t.spans : tel'.spans[c].id = t.spans[c].id
      /\ PublishSpan \in DOMAIN tel'.spans => tel'.spans[PublishSpan].status = status
  BY HandedAre DEF IsWhole
<1>2. OpenSpansAreAtHand'
  BY <1>1 DEF OpenSpansAreAtHand, InPlace, SameCounts
<1>3. EndedReportsAreDone'
  BY <1>1 DEF EndedReportsAreDone, SameCounts, PublishSpan
<1>4. TraceIsWhole'
  BY <1>1, HandedAre DEF TraceIsWhole, InOrder
<1>5. CountsAddUp'
  <2>1. \A id \in Reports("ok")' : <<id, "published">> \in acked' /\ confirmed'[id] > 0
    BY <1>1, PublishedStaysTrue
  <2>2. ASSUME (PublishSpan \in Handed)'
        PROVE  /\ tel'.told.published = Cardinality(Reports("ok")')
               /\ tel'.told.published + tel'.told.failed = Cardinality(job'.attempted)
               /\ tel'.spans[PublishSpan].status = "ok" => Reports("ok")' = job'.attempted
    BY <1>1, <2>2 DEF SameCounts
  <2> QED
    BY <2>1, <2>2 DEF CountsAddUp
<1> QED
  BY <1>1, <1>2, <1>3, <1>4, <1>5 DEF TraceGoal

(* The lister fails: the span of Run is the only one.                      *)
LEMMA TraceListFails ==
  ASSUME TelInv, [TelNext]_telVars, TelListFails
  PROVE  TraceGoal
<1>1. /\ job.pc = "list" /\ Len(tel.spans) = 1 /\ Handed = {} /\ Reports("ok") = {}
      /\ Shape(tel) /\ InPlace(tel) /\ ~tel.died /\ tel.published = Cardinality(Reports("ok"))
      /\ tel' = EndSchedule(tel, FALSE) /\ FinishRun(FALSE)
  <2>1. job.pc = "list" /\ tel' = EndSchedule(tel, FALSE) /\ FinishRun(FALSE)
    BY DEF TelListFails, ListFails
  <2>2. /\ Len(tel.spans) = 1 /\ Handed = {} /\ ~tel.died
        /\ tel.published = Cardinality(Reports("ok"))
    BY <2>1 DEF TelInv, TelIInv, OpenSpansAreAtHand, AlertsAreSound, EndedReportsAreDone
  <2> QED
    BY <2>1, <2>2, TraceKnown DEF Reports
<1>2. job'.pc = "done" /\ job'.batch = {} /\ ~job'.ok
  BY <1>1, TraceKnown, FinishIs
<1>3. PICK v : /\ Shape(v) /\ v.spans = tel.spans /\ v.handed = tel.handed /\ SameCounts(tel, v)
               /\ tel' = End(v, Root, "error")
  BY <1>1, ScheduleTells
<1>4. /\ DOMAIN v.spans = {1} /\ HandedOf(v) = {} /\ ReportsOf(v, "ok") = {}
      /\ v.spans[1].name = "schedule.run" /\ InPlace(v)
  <2>1. DOMAIN tel.spans = {1}
    BY <1>1, TraceKnown
  <2>2. HandedOf(v) = {} /\ ReportsOf(v, "ok") = {}
    BY <1>1, <1>3, HandedAre DEF HandedOf, ReportsOf
  <2> QED
    BY <1>1, <1>3, <2>1, <2>2, PlacesAre DEF InPlace
<1> DEFINE u == End(v, Root, "error")
<1>5. /\ Shape(u) /\ SameCounts(tel, u) /\ DOMAIN u.spans = {1} /\ HandedOf(u) = {1}
      /\ ReportsOf(u, "ok") = {} /\ u.spans[1].id = tel.spans[1].id /\ InPlace(u)
  <2>1. PICK ended \in DOMAIN v.spans : ended = Root /\ ended \notin HandedOf(v)
    BY <1>4, PlacesAre
  <2>2. PICK status \in {"ok", "error"} : status = "error"
    OBVIOUS
  <2>3. u = End(v, ended, status) /\ v.spans[ended].name # "publish.report"
    BY <1>4, <2>1, <2>2, PlacesAre
  <2> HIDE DEF u
  <2>4. /\ Shape(u) /\ SameCounts(v, u) /\ DOMAIN u.spans = DOMAIN v.spans
        /\ \A c \in DOMAIN v.spans : /\ u.spans[c].name = v.spans[c].name
                                     /\ u.spans[c].parent = v.spans[c].parent
                                     /\ u.spans[c].id = v.spans[c].id
        /\ HandedOf(u) = HandedOf(v) \cup {ended}
    <3> DEFINE q == End(v, ended, status)
    <3>0. Shape(v) /\ ended \notin HandedOf(v)
      BY <1>3, <2>1
    <3>1. /\ Shape(q) /\ SameCounts(v, q) /\ DOMAIN q.spans = DOMAIN v.spans
          /\ HandedOf(q) = HandedOf(v) \cup {ended}
      BY <3>0, SpanEnds
    <3>2. \A c \in DOMAIN v.spans : /\ q.spans[c].name = v.spans[c].name
                                    /\ q.spans[c].parent = v.spans[c].parent
                                    /\ q.spans[c].id = v.spans[c].id
      BY <3>0, SpanEnds
    <3>3. u = q
      BY <2>3
    <3> HIDE DEF q
    <3> QED
      BY <3>1, <3>2, <3>3
  <2>5. ReportsOf(u, "ok") = ReportsOf(v, "ok")
    BY <1>3, <2>1, <2>2, <2>3, OtherEnds
  <2>6. SameCounts(tel, u)
    BY <1>3, <2>4 DEF SameCounts
  <2>7. InPlace(u)
    BY <1>4, <2>4 DEF InPlace
  <2> QED
    BY <1>3, <1>4, <2>1, <2>4, <2>5, <2>6, <2>7, PlacesAre
<1>6. tel' = u
  BY <1>3
<1> HIDE DEF u
<1>7. IsWhole(tel, tel', "error")
  <2>1. InOrder(u) /\ PublishSpan \notin DOMAIN u.spans
    BY <1>5, PlacesAre DEF InOrder
  <2>2. DOMAIN tel.spans = {1} /\ ReportsOf(tel, "ok") = {}
    BY <1>1, TraceKnown, HandedAre
  <2> QED
    BY <1>5, <1>6, <2>1, <2>2 DEF IsWhole
<1>8. /\ ReportsOf(tel, "ok") = Reports("ok") /\ DOMAIN tel.spans = {1}
      /\ PublishSpan \notin DOMAIN tel.spans
      /\ \A c \in DOMAIN tel.spans : c > 2 => tel.spans[c].id \in job'.attempted
  BY <1>1, TraceKnown, HandedAre, PlacesAre
<1>9. PICK status : status = "error"
  OBVIOUS
<1> QED
  BY <1>1, <1>2, <1>7, <1>8, <1>9, TraceReturns


(* Only finitely many reports are pending, and a cap leaves no fewer.      *)
LEMMA PendingIsFinite ==
  ASSUME TelInv
  PROVE  /\ IsFiniteSet(ListPending)
         /\ \A cap \in Caps : /\ IsFiniteSet(Capped(ListPending, cap))
                              /\ Cardinality(ListPending) - Cardinality(Capped(ListPending, cap)) \in Nat
<1>1. ListPending \subseteq {id \in Ids : sealed[id] # None}
  BY TraceKnown DEF JobIInv, IInv, CopiesAreFaithful, ListPending, Statuses
<1>2. IsFiniteSet(ListPending)
  <2>1. IsFiniteSet({id \in Ids : sealed[id] # None})
    BY DEF TelInv, TelIInv, BatchIsFinite
  <2> QED
    BY <1>1, <2>1, FS_Subset
<1>3. ASSUME NEW cap \in Caps
      PROVE  /\ IsFiniteSet(Capped(ListPending, cap))
             /\ Cardinality(ListPending) - Cardinality(Capped(ListPending, cap)) \in Nat
  <2>1. Capped(ListPending, cap) \subseteq ListPending
    BY DEF Capped
  <2> DEFINE C == Capped(ListPending, cap)
             L == ListPending
  <2>2. C \subseteq L /\ IsFiniteSet(L)
    BY <1>2, <2>1
  <2> HIDE DEF C, L
  <2>3. IsFiniteSet(C) /\ Cardinality(C) <= Cardinality(L)
    BY <2>2, FS_Subset
  <2>4. Cardinality(C) \in Nat /\ Cardinality(L) \in Nat
    BY <2>2, <2>3, FS_CardinalityType
  <2>5. Cardinality(L) - Cardinality(C) \in Nat
    BY <2>3, <2>4
  <2> QED
    BY <2>3, <2>5 DEF C, L
<1> QED
  BY <1>2, <1>3

(* The span of Publish is the second. With nothing pending both end;       *)
(* otherwise they stay open around the batch.                              *)
LEMMA TraceLists ==
  ASSUME TelInv, [TelNext]_telVars, TelList
  PROVE  TraceGoal
<1> DEFINE t == StartSpan(tel, "publish.run", Root, None)
<1>1. /\ job.pc = "list" /\ Len(tel.spans) = 1 /\ Handed = {} /\ Reports("ok") = {}
      /\ Shape(tel) /\ InPlace(tel) /\ ~tel.died /\ tel.published = 0
      /\ tel.told = NoTrace.told /\ job \in Jobs /\ job.attempted = {}
  <2>1. job.pc = "list"
    BY DEF TelList, List
  <2>2. /\ Len(tel.spans) = 1 /\ Handed = {} /\ ~tel.died /\ tel.told = NoTrace.told
        /\ tel.published = Cardinality(Reports("ok"))
    BY <2>1 DEF TelInv, TelIInv, OpenSpansAreAtHand, AlertsAreSound, EndedReportsAreDone
  <2>3. Reports("ok") = {}
    BY <2>2 DEF Reports
  <2>4. job.attempted = {}
    BY <2>1, TraceKnown DEF JobIInv, BatchIsSound
  <2> QED
    BY <2>1, <2>2, <2>3, <2>4, TraceKnown, FS_EmptySet
<1>2. /\ Shape(t) /\ SameCounts(tel, t) /\ Len(t.spans) = 2
      /\ t.spans[1] = tel.spans[1]
      /\ t.spans[2].name = "publish.run" /\ t.spans[2].parent = 1
      /\ HandedOf(t) = {} /\ ReportsOf(t, "ok") = {}
  <2>1. /\ Shape(tel) /\ Root \in Nat /\ None \in Ids \cup {None}
        /\ "publish.run" \in {"schedule.run", "publish.run", "publish.report"}
    BY <1>1, PlacesAre
  <2>2. /\ Shape(t) /\ SameCounts(tel, t) /\ Len(t.spans) = Len(tel.spans) + 1
    BY <2>1, SpanStarts
  <2>3. t.spans[Len(tel.spans) + 1].name = "publish.run"
        /\ t.spans[Len(tel.spans) + 1].parent = Root
    BY <2>1, SpanStarts
  <2>4. HandedOf(t) = HandedOf(tel) /\ ReportsOf(t, "ok") = ReportsOf(tel, "ok")
    BY <2>1, SpanStarts
  <2>6. PICK c \in DOMAIN tel.spans : c = 1
    BY <1>1, TraceKnown
  <2>7. t.spans[c] = tel.spans[c]
    BY <2>1, SpansStay
  <2>8. Len(tel.spans) + 1 = 2
    BY <1>1
  <2> HIDE DEF t
  <2>9. t.spans[1] = tel.spans[1]
    BY <2>6, <2>7
  <2> QED
    BY <1>1, <2>2, <2>3, <2>4, <2>8, <2>9, HandedAre, PlacesAre
<1>3. /\ IF ListPending = {}
         THEN tel' = EndSchedule(End(t, PublishSpan, "ok"), TRUE) /\ FinishRun(TRUE)
         ELSE \E cap \in Caps :
                /\ job' = [job EXCEPT !.pc = "labels", !.batch = Capped(ListPending, cap),
                                      !.attempted = Capped(ListPending, cap)]
                /\ tel' = [t EXCEPT !.deferred = Cardinality(ListPending)
                                                 - Cardinality(job'.attempted)]
  BY DEF TelList, List
<1> HIDE DEF t
<1>4. /\ DOMAIN t.spans = 1..2 /\ InPlace(t) /\ HandedOf(t) = 3..Len(t.spans)
      /\ t.published = 0 /\ t.told = NoTrace.told /\ ~t.died
  <2>1. DOMAIN t.spans = 1..2 /\ DOMAIN tel.spans = 1..1
    BY <1>1, <1>2, HandedStarted
  <2>2. tel.spans[1].name = Place(1).name /\ tel.spans[1].parent = Place(1).parent
    BY <1>1, <2>1 DEF InPlace
  <2>3. t.spans[1].name = Place(1).name /\ t.spans[1].parent = Place(1).parent
    BY <1>2, <2>2
  <2>4. t.spans[2].name = Place(2).name /\ t.spans[2].parent = Place(2).parent
    BY <1>2, PlacesAre
  <2>5. InPlace(t)
    BY <2>1, <2>3, <2>4 DEF InPlace
  <2> QED
    BY <1>1, <1>2, <2>1, <2>5 DEF SameCounts
<1>5. CASE ListPending = {}
  <2>1. /\ job'.pc = "done" /\ job'.batch = {} /\ job'.ok /\ job'.attempted = {}
    BY <1>1, <1>3, <1>5, FinishIs
  <2>2. PICK ok \in BOOLEAN : ok = TRUE
    OBVIOUS
  <2>3. PICK status \in {"ok", "error"} : status = "ok"
    OBVIOUS
  <2>4. IsWhole(t, tel', status)
    <3>1. Len(t.spans) >= 2
      BY <1>2
    <3>2. status = IF ok THEN "ok" ELSE "error"
      BY <2>2, <2>3
    <3>3. IsWhole(t, EndSchedule(End(t, PublishSpan, status), ok), status)
      BY <1>2, <1>4, <3>1, <3>2, RunEnds
    <3>4. tel' = EndSchedule(End(t, PublishSpan, status), ok)
      <4>1. tel' = EndSchedule(End(t, PublishSpan, "ok"), TRUE) /\ ok = TRUE /\ status = "ok"
        BY <1>3, <1>5, <2>2, <2>3
      <4> QED
        BY <4>1
    <3> QED
      BY <3>3, <3>4
  <2>5. /\ ReportsOf(t, "ok") = Reports("ok") /\ t.published = Cardinality(Reports("ok"))
        /\ Reports("ok") = job'.attempted
        /\ t.told.published = t.published
        /\ t.told.published + t.told.failed = Cardinality(job'.attempted)
    BY <1>1, <1>2, <1>4, <2>1, FS_EmptySet DEF NoTrace
  <2>6. \A c \in DOMAIN t.spans : c > 2 => t.spans[c].id \in job'.attempted
    BY <1>4
  <2> QED
    BY <1>4, <2>1, <2>4, <2>5, <2>6, TraceReturns
<1>6. CASE ListPending # {}
  <2>1. PICK cap \in Caps :
           job' = [job EXCEPT !.pc = "labels", !.batch = Capped(ListPending, cap),
                              !.attempted = Capped(ListPending, cap)]
    BY <1>3, <1>6
  <2> DEFINE C == Capped(ListPending, cap)
             d == Cardinality(ListPending) - Cardinality(C)
  <2>2. d \in Nat
    BY PendingIsFinite
  <2>3. job'.pc = "labels" /\ job'.batch = C /\ job'.attempted = C
    <3> HIDE DEF C
    <3>1. job' = [job EXCEPT !.pc = "labels", !.batch = C, !.attempted = C]
      BY <2>1 DEF C
    <3> QED
      BY <1>1, <3>1 DEF Jobs
  <2>4. tel' = [t EXCEPT !.deferred = d]
    BY <1>3, <1>6, <2>3
  <2> HIDE DEF C, d
  <2>5. /\ IsTrace(tel') /\ tel'.spans = t.spans /\ tel'.handed = t.handed /\ tel'.alerts = t.alerts
        /\ tel'.published = t.published /\ tel'.deferred = d /\ tel'.told = t.told
        /\ tel'.died = t.died
    BY <1>2, <2>4 DEF Shape, IsTrace
  <2>6. Shape(tel') /\ InPlace(tel') /\ HandedOf(tel') = {} /\ ReportsOf(tel', "ok") = {}
    <3>1. Shape(tel')
      BY <1>2, <2>2, <2>5 DEF Shape
    <3>2. HandedOf(tel') = HandedOf(t) /\ InPlace(tel')
      BY <1>4, <2>5 DEF HandedOf, InPlace
    <3>3. ReportsOf(tel', "ok") = ReportsOf(t, "ok")
      BY <2>5, <3>2 DEF ReportsOf
    <3> QED
      BY <1>2, <3>1, <3>2, <3>3
  <2>7. OpenSpansAreAtHand'
    <3>1. Handed' = {} /\ tel'.spans = t.spans /\ 3..Len(t.spans) = {} /\ Len(t.spans) >= 2
      BY <1>2, <1>4, <2>5, <2>6, HandedAre
    <3> QED
      BY <2>3, <2>6, <3>1 DEF OpenSpansAreAtHand, InPlace
  <2>8. EndedReportsAreDone'
    BY <1>4, <2>3, <2>5, <2>6, HandedAre, FS_EmptySet DEF EndedReportsAreDone
  <2>9. TraceIsWhole' /\ CountsAddUp'
    BY <2>3, <2>6, UnderWay
  <2> QED
    BY <2>6, <2>7, <2>8, <2>9 DEF TraceGoal
<1> QED
  BY <1>5, <1>6


(* No more reports are told as published than were attempted.              *)
LEMMA CountsAreNatural ==
  ASSUME TelInv, Handed \cap {Root, PublishSpan} = {}
  PROVE  Cardinality(job.attempted) - tel.published \in Nat
<1>1. Reports("ok") \subseteq job.attempted
  <2> SUFFICES ASSUME NEW c \in Handed, tel.spans[c].name = "publish.report"
               PROVE  tel.spans[c].id \in job.attempted
    BY DEF Reports
  <2>1. c \in 1..Len(tel.spans) /\ Len(tel.spans) \in Nat /\ c \notin {1, 2}
    BY TraceKnown, HandedStarted, HandedAre, PlacesAre
  <2>2. c > PublishSpan
    BY <2>1 DEF PublishSpan
  <2> QED
    BY <2>2 DEF TelInv, TelIInv, EndedReportsAreDone
<1>2. IsFiniteSet(job.attempted) /\ tel.published = Cardinality(Reports("ok"))
  BY DEF TelInv, TelIInv, BatchIsFinite, EndedReportsAreDone
<1> DEFINE R == Reports("ok")
           A == job.attempted
<1>3. R \subseteq A /\ IsFiniteSet(A)
  BY <1>1, <1>2
<1> HIDE DEF R, A
<1>4. IsFiniteSet(R) /\ Cardinality(R) <= Cardinality(A)
  BY <1>3, FS_Subset
<1>5. Cardinality(R) \in Nat /\ Cardinality(A) \in Nat
  BY <1>3, <1>4, FS_CardinalityType
<1>6. Cardinality(A) - Cardinality(R) \in Nat
  BY <1>4, <1>5
<1> QED
  BY <1>2, <1>6 DEF R, A

(* The loop is left: Publish tells what became of the batch, and both of   *)
(* the run's own spans end.                                                *)
LEMMA TraceEnds ==
  ASSUME TelInv, [TelNext]_telVars, TelEnd \/ TelCancelled
  PROVE  TraceGoal
<1>1. PICK ok \in BOOLEAN : /\ tel' = EndSchedule(EndPublish(tel, ok), ok) /\ FinishRun(ok)
                            /\ job.pc = "next" /\ (ok => job.ok /\ job.batch = {})
  <2>1. CASE TelEnd
    BY <2>1, TraceKnown DEF TelEnd, EndRun, Jobs
  <2>2. CASE TelCancelled
    <3>1. FALSE \in BOOLEAN
      OBVIOUS
    <3> QED
      BY <2>2, <3>1 DEF TelCancelled, Cancelled
  <2> QED
    BY <2>1, <2>2
<1>2. /\ Len(tel.spans) >= 2 /\ Handed = 3..Len(tel.spans) /\ Shape(tel) /\ InPlace(tel)
      /\ ~tel.died /\ tel.published = Cardinality(Reports("ok"))
      /\ DOMAIN tel.spans = 1..Len(tel.spans) /\ Len(tel.spans) \in Nat
      /\ job.ok => Reports("ok") = job.attempted \ job.batch
  BY <1>1, TraceKnown
     DEF TelInv, TelIInv, OpenSpansAreAtHand, AlertsAreSound, EndedReportsAreDone
<1>3. /\ job'.pc = "done" /\ job'.batch = {} /\ (job'.ok <=> ok) /\ job'.attempted = job.attempted
  BY <1>1, TraceKnown, FinishIs
<1> DEFINE status == IF ok THEN "ok" ELSE "error"
           failed == Cardinality(job.attempted) - tel.published
<1>4. failed \in Nat /\ tel.published \in Nat
  <2>1. Handed \cap {1, 2} = {}
    BY <1>2
  <2> QED
    BY <1>2, <2>1, CountsAreNatural, PlacesAre DEF Shape
<1>5. PICK v : /\ Shape(v) /\ v.spans = tel.spans /\ v.handed = tel.handed
               /\ v.published = tel.published /\ v.died = tel.died
               /\ v.told = [published |-> tel.published, failed |-> failed]
               /\ EndPublish(tel, ok) = End(v, PublishSpan, status)
  BY <1>2, <1>4, PublishTells
<1>6. /\ HandedOf(v) = 3..Len(v.spans) /\ ReportsOf(v, "ok") = Reports("ok") /\ InPlace(v)
  BY <1>2, <1>5, HandedAre DEF HandedOf, ReportsOf, InPlace
<1>7. IsWhole(v, tel', status)
  <2>1. IsWhole(v, EndSchedule(End(v, PublishSpan, status), ok), status)
    BY <1>2, <1>5, <1>6, RunEnds
  <2> HIDE DEF status
  <2> QED
    BY <1>1, <1>5, <2>1
<1>8. \A c \in DOMAIN v.spans : c > 2 => v.spans[c].id \in job'.attempted
  <2> SUFFICES ASSUME NEW c \in DOMAIN tel.spans, c > 2
               PROVE  tel.spans[c].id \in job.attempted
    BY <1>3, <1>5
  <2>1. c \in Handed
    BY <1>2
  <2> QED
    BY <2>1 DEF TelInv, TelIInv, EndedReportsAreDone, PublishSpan
<1>9. v.told.published = v.published /\ v.told.published + v.told.failed = Cardinality(job'.attempted)
  <2>1. v.told.published = tel.published /\ v.told.failed = failed
    BY <1>5
  <2>2. IsFiniteSet(job.attempted)
    BY DEF TelInv, TelIInv, BatchIsFinite
  <2>3. Cardinality(job.attempted) \in Nat
    BY <2>2, FS_CardinalityType
  <2>4. tel.published + failed = Cardinality(job.attempted)
    BY <1>4, <2>3
  <2> QED
    BY <1>3, <1>5, <2>1, <2>4
<1>10. /\ job'.ok => Reports("ok") = job'.attempted
       /\ status = "ok" => job'.ok
  BY <1>1, <1>2, <1>3
<1>11. ~v.died /\ v.published = Cardinality(Reports("ok"))
  BY <1>2, <1>5
<1> HIDE DEF status
<1> QED
  BY <1>3, <1>6, <1>7, <1>8, <1>9, <1>10, <1>11, TraceReturns

(* The isolate is evicted: what is handed over by then stays, in order.    *)
LEMMA TraceCrashes ==
  ASSUME TelInv, [TelNext]_telVars, TelCrash
  PROVE  TraceGoal
<1>1. job.pc # "done" /\ FinishRun(FALSE) /\ tel' = [tel EXCEPT !.died = TRUE]
  BY DEF TelCrash, RunCrashes
<1>2. /\ job'.pc = "done" /\ ~job'.ok /\ job'.batch = {} /\ job'.attempted = job.attempted
  BY <1>1, TraceKnown, FinishIs
<1>3. /\ IsTrace(tel') /\ tel'.spans = tel.spans /\ tel'.handed = tel.handed
      /\ tel'.alerts = tel.alerts /\ tel'.published = tel.published
      /\ tel'.deferred = tel.deferred /\ tel'.told = tel.told /\ tel'.died = TRUE
  BY <1>1, TraceKnown DEF Shape, IsTrace
<1>4. Shape(tel') /\ InPlace(tel')
  BY <1>3, TraceKnown DEF Shape, InPlace
<1>5. Handed' = Handed /\ Reports("ok")' = Reports("ok")
  BY <1>3 DEF Handed, Reports
<1>6. Handed \cap {Root, PublishSpan} = {}
  <2>1. CASE job.pc = "wire"
    <3>1. tel = NoTrace
      BY <2>1 DEF TelInv, TelIInv, AlertsAreSound
    <3> QED
      BY <3>1, NoTraceIs, HandedAre
  <2>2. CASE job.pc \in {"list", "labels", "next", "create", "mark"}
    BY <2>2, TraceKnown, PlacesAre DEF TelInv, TelIInv, OpenSpansAreAtHand
  <2> QED
    BY <1>1, <2>1, <2>2, TraceKnown DEF Jobs
<1>7. OpenSpansAreAtHand'
  BY <1>2, <1>4, <1>5, <1>6 DEF OpenSpansAreAtHand, InPlace
<1>8. EndedReportsAreDone'
  <2>1. \A c \in Handed : c > PublishSpan => tel.spans[c].id \in job.attempted
    BY DEF TelInv, TelIInv, EndedReportsAreDone
  <2>2. tel.published = Cardinality(Reports("ok"))
    BY DEF TelInv, TelIInv, EndedReportsAreDone
  <2> QED
    BY <1>2, <1>3, <1>5, <2>1, <2>2 DEF EndedReportsAreDone
<1>9. TraceIsWhole' /\ CountsAddUp'
  BY <1>3, <1>4, <1>5, <1>6, PublishedStaysTrue, UnderWay, HandedAre
<1> QED
  BY <1>4, <1>7, <1>8, <1>9 DEF TraceGoal


(* Every step leaves the trace whole and true.                             *)
LEMMA TraceStep ==
  ASSUME TelInv, [TelNext]_telVars
  PROVE  TraceGoal
<1>1. job \in Jobs
  BY TraceKnown
<1>2. CASE (EnsureLabels \/ EnsureLabelsFails \/ CreateConfirmed) /\ UNCHANGED tel
  <2>1. /\ job'.attempted = job.attempted /\ job'.batch = job.batch /\ (job'.ok => job.ok)
        /\ \/ job.pc = "labels" /\ job'.pc = "next"
           \/ job.pc = "create" /\ job'.pc = "mark" /\ job'.id = job.id
    BY <1>1, <1>2 DEF EnsureLabels, EnsureLabelsFails, CreateConfirmed, Jobs
  <2> QED
    BY <1>2, <2>1, TraceWaits
<1>3. CASE UNCHANGED <<job, tel>>
  BY <1>3, TraceAside
<1>4. CASE TelStep
  BY <1>2, <1>3, <1>4, TraceBegins, TraceIsWired, TraceLists, TraceFetches, TraceLeaves, TraceEnds
     DEF TelStep
<1>5. CASE TelFailure
  BY <1>2, <1>3, <1>5, TraceBegins, TraceListFails, TraceFetches, TraceLeaves, TraceEnds,
     TraceCrashes DEF TelFailure, CreateLost
<1> QED
  BY <1>3, <1>4, <1>5 DEF TelNext, AdminStep, StoreStep, telVars, jobVars

(* A step seals at most one report, and a batch is of reports pending.     *)
LEMMA BatchStaysFinite ==
  ASSUME TelInv, [TelNext]_telVars
  PROVE  BatchIsFinite'
<1> DEFINE S == {id \in Ids : sealed[id] # None}
<1>1. [JobNext]_jobVars /\ job \in Jobs /\ IsFiniteSet(S) /\ IsFiniteSet(job.attempted)
  BY TelStepIsJobStep, TraceKnown DEF TelInv, TelIInv, BatchIsFinite
<1>2. IsFiniteSet(S')
  <2>1. CASE UNCHANGED sealed
    BY <1>1, <2>1
  <2>2. CASE Ingest
    <3>1. PICK id \in Ids, f \in Frames : StoreReport(id, f) \/ StoreReportFails(id, f)
      BY <2>2 DEF Ingest
    <3>2. sealed' = [sealed EXCEPT ![id] = f] /\ sealed \in [Ids -> Frames \cup {None}]
      BY <3>1, TraceKnown DEF StoreReport, StoreReportFails, JobIInv, IInv, TypeOK
    <3>3. S' \subseteq S \cup {id}
      BY <3>2
    <3> QED
      <4> HIDE DEF S
      <4>1. IsFiniteSet(S \cup {id})
        BY <1>1, FS_AddElement
      <4> QED
        BY <3>3, <4>1, FS_Subset
  <2>3. UNCHANGED sealed \/ Ingest
    BY <1>1
       DEF JobNext, JobStep, JobFailure, AdminStep, StoreStep, jobVars, vars, storeVars,
           StartRun, BuildPublish, BuildPublishFails, List, ListFails, EnsureLabels,
           EnsureLabelsFails, FetchReport, FetchFails, Cancelled, CreateConfirmed, CreateLost,
           CreateFails, Marked, EndRun, RunCrashes, TransitionStep, GetSource, ProbeFinds,
           ProbeMisses, PutDestination, DeleteSource, Failure, ProbeFails, StoreFails, Crash,
           Begin, Retry, GiveUp, Land
  <2> QED
    BY <2>1, <2>2, <2>3
<1>3. IsFiniteSet(job'.attempted)
  <2>1. CASE job'.attempted = job.attempted
    BY <1>1, <2>1
  <2>2. CASE job'.attempted = {}
    BY <2>2, FS_EmptySet
  <2>3. CASE \E cap \in Caps : job'.attempted = Capped(ListPending, cap)
    BY <2>3, PendingIsFinite
  <2>4. CASE List
    <3>1. CASE ListPending = {}
      <4>1. FinishRun(TRUE)
        BY <2>4, <3>1 DEF List
      <4> QED
        BY <1>1, <2>1, <4>1, FinishIs
    <3>2. CASE ListPending # {}
      <4>1. PICK cap \in Caps :
              job' = [job EXCEPT !.pc = "labels", !.batch = Capped(ListPending, cap),
                                 !.attempted = Capped(ListPending, cap)]
        BY <2>4, <3>2 DEF List
      <4> DEFINE C == Capped(ListPending, cap)
      <4>2. job' = [job EXCEPT !.pc = "labels", !.batch = C, !.attempted = C]
        BY <4>1
      <4> HIDE DEF C
      <4>3. job'.attempted = C
        BY <1>1, <4>2 DEF Jobs
      <4> QED
        BY <2>3, <4>3 DEF C
    <3> QED
      BY <3>1, <3>2
  <2>5. ASSUME NEW ok \in BOOLEAN, FinishRun(ok) PROVE job'.attempted = job.attempted
    BY <1>1, <2>5, FinishIs
  <2>6. ASSUME NEW id, NEW err \in BOOLEAN, Advance(id, err) PROVE job'.attempted = job.attempted
    BY <1>1, <2>6, AdvanceIs
  <2>7. ASSUME StartRun PROVE job'.attempted = {}
    BY <2>7 DEF StartRun
  <2>8. ASSUME BuildPublish \/ EnsureLabels \/ EnsureLabelsFails \/ CreateConfirmed \/ CreateLost
        PROVE  job'.attempted = job.attempted
    BY <1>1, <2>8 DEF BuildPublish, EnsureLabels, EnsureLabelsFails, CreateConfirmed, CreateLost, Jobs
  <2>9. ASSUME FetchReport PROVE job'.attempted = job.attempted
    <3>1. CASE Advance(Oldest(job.batch), TRUE)
      BY <2>6, <3>1
    <3>2. CASE job' = [job EXCEPT !.pc = "create", !.id = Oldest(job.batch)]
      BY <1>1, <3>2 DEF Jobs
    <3> QED
      BY <2>9, <3>1, <3>2 DEF FetchReport
  <2>10. ASSUME Marked PROVE job'.attempted = job.attempted
    <3>1. (call[Cron].res # "nil") \in BOOLEAN
      OBVIOUS
    <3> QED
      BY <2>6, <2>10, <3>1 DEF Marked
  <2>11. ASSUME EndRun PROVE job'.attempted = job.attempted
    BY <1>1, <2>5, <2>11 DEF EndRun, Jobs
  <2>12. ASSUME BuildPublishFails \/ ListFails \/ Cancelled \/ RunCrashes
         PROVE  job'.attempted = job.attempted
    BY <2>5, <2>12 DEF BuildPublishFails, ListFails, Cancelled, RunCrashes
  <2>13. ASSUME FetchFails \/ CreateFails PROVE job'.attempted = job.attempted
    BY <2>6, <2>13 DEF FetchFails, CreateFails
  <2>14. CASE UNCHANGED job
    BY <2>1, <2>14
  <2> QED
    BY <1>1, <2>1, <2>2, <2>4, <2>7, <2>8, <2>9, <2>10, <2>11, <2>12, <2>13, <2>14
       DEF JobNext, JobStep, JobFailure, AdminStep, StoreStep, jobVars
<1> QED
  BY <1>2, <1>3 DEF BatchIsFinite

-----------------------------------------------------------------------------
(* Spans start and end without a count.                                    *)
LEMMA CountsStay ==
  ASSUME NEW t, IsTrace(t)
  PROVE  /\ \A name, parent, id : LET u == StartSpan(t, name, parent, id)
                                  IN  IsTrace(u) /\ SameCounts(t, u)
         /\ \A ended, status : LET u == End(t, ended, status)
                               IN  IsTrace(u) /\ SameCounts(t, u)
<1>1. ASSUME NEW name, NEW parent, NEW id
      PROVE  LET u == StartSpan(t, name, parent, id) IN IsTrace(u) /\ SameCounts(t, u)
  <2> DEFINE s == Append(t.spans, [name |-> name, parent |-> parent, id |-> id,
                                   status |-> "unset"])
  <2>1. StartSpan(t, name, parent, id) = [t EXCEPT !.spans = s]
    BY DEF StartSpan
  <2> HIDE DEF s
  <2> QED
    BY <2>1 DEF IsTrace, SameCounts
<1>2. ASSUME NEW ended, NEW status
      PROVE  LET u == End(t, ended, status) IN IsTrace(u) /\ SameCounts(t, u)
  <2>1. CASE \E i \in DOMAIN t.handed : t.handed[i] = ended
    BY <2>1 DEF End, SameCounts
  <2>2. CASE ~ \E i \in DOMAIN t.handed : t.handed[i] = ended
    <3> DEFINE s == [t.spans EXCEPT ![ended].status = status]
               h == Append(t.handed, ended)
    <3>1. End(t, ended, status) = [t EXCEPT !.spans = s, !.handed = h]
      BY <2>2 DEF End, IsTrace
    <3> HIDE DEF s, h
    <3> QED
      BY <3>1 DEF IsTrace, SameCounts
  <2> QED
    BY <2>1, <2>2
<1> QED
  BY <1>1, <1>2

(* The tail of Run changes no count.                                       *)
LEMMA ScheduleCounts ==
  ASSUME NEW t, IsTrace(t), NEW ok \in BOOLEAN
  PROVE  IsTrace(EndSchedule(t, ok)) /\ SameCounts(t, EndSchedule(t, ok))
<1>1. CASE ok
  BY <1>1, CountsStay DEF EndSchedule
<1>2. CASE ~ok
  <2> DEFINE v == Alert(t, "schedule.run_failed")
  <2>1. IsTrace(v) /\ SameCounts(t, v)
    BY DEF Alert, IsTrace, SameCounts
  <2>2. EndSchedule(t, ok) = End(v, Root, "error")
    BY <1>2 DEF EndSchedule
  <2> HIDE DEF v
  <2> QED
    BY <2>1, <2>2, CountsStay DEF SameCounts
<1> QED
  BY <1>1, <1>2

(* Steps of the others mark no report published.                           *)
LEMMA OthersMarkNone ==
  ASSUME TypeOK, CronIsSound,
         (\E c \in Callers \ {Cron} : AdminStep(c)) \/ StoreStep \/ UNCHANGED jobVars
  PROVE  \A id : <<id, "published">> \in acked' => <<id, "published">> \in acked
<1>1. ASSUME NEW c \in Callers \ {Cron}, AdminStep(c)
      PROVE  acked' = acked \/ acked' = acked \cup {<<call[c].id, "removed">>}
  <2>1. call[c].to = "removed"
    BY DEF CronIsSound
  <2> QED
    BY <1>1, <2>1 DEF AdminStep, Begin, Retry, GiveUp, TransitionStep, GetSource, ProbeFinds,
       ProbeMisses, PutDestination, DeleteSource, Failure, ProbeFails, StoreFails, Crash
<1>2. CASE StoreStep
  BY <1>2 DEF StoreStep, Ingest, StoreReport, StoreReportFails, Land
<1>3. CASE UNCHANGED jobVars
  BY <1>3 DEF jobVars, vars
<1> QED
  BY <1>1, <1>2, <1>3

(* The run's own call marks the report at hand, when it returns nil.       *)
LEMMA CallMarks ==
  ASSUME IInv, JobTypeOK, CronIsSound, UNCHANGED <<job, githubVars>>,
         TransitionStep(Cron) \/ ProbeFails(Cron) \/ StoreFails(Cron)
  PROVE  /\ job.pc = "mark" /\ ~Acking
         /\ \/ acked' = acked /\ ~Acking'
            \/ acked' = acked \cup {<<job.id, "published">>} /\ Acking'
<1> USE CronAssumption
<1>1. call[Cron] \in Calls /\ call \in [Callers -> Calls]
  BY DEF IInv, TypeOK
<1>2. call[Cron].pc \in InFlight
  BY DEF TransitionStep, GetSource, ProbeFinds, ProbeMisses, PutDestination, DeleteSource,
         ProbeFails, StoreFails, InFlight
<1>3. job.pc = "mark" /\ call[Cron].id = job.id /\ call[Cron].to = "published"
  BY <1>2 DEF CronIsSound, Idle, InFlight
<1>4. ~Acking
  BY <1>2 DEF Acking, InFlight
<1>5. CASE GetSource(Cron) \/ PutDestination(Cron)
  <2>1. acked' = acked /\ call'[Cron].pc # "done"
    BY <1>1, <1>5 DEF GetSource, PutDestination, Calls
  <2> QED
    BY <1>3, <1>4, <2>1 DEF Acking
<1>6. CASE ProbeFinds(Cron) \/ DeleteSource(Cron)
  <2>1. Return(Cron, "nil") /\ acked' = acked \cup {<<job.id, "published">>}
    BY <1>3, <1>6 DEF ProbeFinds, DeleteSource
  <2>2. call'[Cron].pc = "done" /\ call'[Cron].res = "nil"
    BY <1>1, <2>1 DEF Return, Calls
  <2> QED
    BY <1>3, <1>4, <2>1, <2>2 DEF Acking
<1>7. CASE ProbeMisses(Cron) \/ ProbeFails(Cron) \/ StoreFails(Cron)
  <2>1. acked' = acked /\ (Return(Cron, "unknown") \/ Return(Cron, "error"))
    BY <1>7 DEF ProbeMisses, ProbeFails, StoreFails
  <2>2. call'[Cron].res # "nil"
    BY <1>1, <2>1 DEF Return, Calls
  <2> QED
    BY <1>3, <1>4, <2>1, <2>2 DEF Acking
<1> QED
  BY <1>5, <1>6, <1>7 DEF TransitionStep

(* What is marked of a batch can be counted.                               *)
LEMMA MarkedAreCounted ==
  ASSUME TelInv
  PROVE  /\ IsFiniteSet(MarkedOfBatch) /\ Cardinality(MarkedOfBatch) \in Nat
         /\ tel.published \in Nat
<1>1. IsFiniteSet(MarkedOfBatch)
  <2> DEFINE A == job.attempted
             M == MarkedOfBatch
  <2>1. IsFiniteSet(A) /\ M \in SUBSET A
    BY DEF TelInv, TelIInv, BatchIsFinite, MarkedOfBatch
  <2> HIDE DEF A, M
  <2>2. IsFiniteSet(M)
    BY <2>1, FS_Subset
  <2> QED
    BY <2>2 DEF M
<1> QED
  BY <1>1, FS_CardinalityType DEF TelInv, TelIInv, TelTypeOK

(* Nothing changes in a step beside the run;                               *)
LEMMA MarksAside ==
  ASSUME TelInv, UNCHANGED <<job, tel>>, call'[Cron] = call[Cron],
         \A id : <<id, "published">> \in acked' <=> <<id, "published">> \in acked
  PROVE  MarksAreCounted'
<1>1. MarkedOfBatch' = MarkedOfBatch /\ (Acking' <=> Acking) /\ Handed' = Handed
  BY DEF MarkedOfBatch, Acking, Handed
<1> QED
  BY <1>1 DEF TelInv, TelIInv, MarksAreCounted

(* in one of its call, one more may be marked;                             *)
LEMMA MarksCalled ==
  ASSUME TelInv, UNCHANGED <<job, githubVars, tel>>,
         TransitionStep(Cron) \/ ProbeFails(Cron) \/ StoreFails(Cron)
  PROVE  MarksAreCounted'
<1>1. IInv /\ JobTypeOK /\ CronIsSound
  BY DEF TelInv, TelIInv, JobIInv
<1>2. /\ job.pc = "mark" /\ ~Acking
      /\ \/ acked' = acked /\ ~Acking'
         \/ acked' = acked \cup {<<job.id, "published">>} /\ Acking'
  BY <1>1, CallMarks
<1>3. Handed' = Handed /\ PublishSpan \notin Handed
  <2>1. Handed' = Handed
    BY DEF Handed
  <2>2. Handed = 3..(Len(tel.spans) - 1) /\ Len(tel.spans) \in Nat
    BY <1>2, TraceKnown DEF TelInv, TelIInv, OpenSpansAreAtHand
  <2> QED
    BY <2>1, <2>2 DEF PublishSpan
<1>4. CASE acked' = acked /\ ~Acking'
  <2>1. MarkedOfBatch' = MarkedOfBatch
    BY <1>4 DEF MarkedOfBatch
  <2> QED
    BY <1>2, <1>3, <1>4, <2>1 DEF TelInv, TelIInv, MarksAreCounted
<1>5. CASE acked' = acked \cup {<<job.id, "published">>} /\ Acking'
  <2> DEFINE M == MarkedOfBatch
             x == job.id
  <2>1. x \in job.batch /\ x \in job.attempted
    BY <1>1, <1>2 DEF JobTypeOK
  <2>2. <<x, "published">> \notin acked
    BY <1>2, <2>1 DEF TelInv, TelIInv, MarksAreCounted
  <2>3. x \notin M /\ MarkedOfBatch' = M \cup {x}
    BY <1>5, <2>1, <2>2 DEF MarkedOfBatch
  <2>4. IsFiniteSet(M) /\ Cardinality(M) \in Nat
    BY MarkedAreCounted
  <2>5. Cardinality(M) = tel.published /\ tel.published \in Nat
    BY <1>2, MarkedAreCounted DEF TelInv, TelIInv, MarksAreCounted
  <2> HIDE DEF M
  <2>6. Cardinality(M \cup {x}) = Cardinality(M) + 1
    BY <2>3, <2>4, FS_AddElement
  <2>7. Cardinality(MarkedOfBatch') = tel'.published + 1
    BY <2>3, <2>5, <2>6
  <2>8. \A id \in job'.batch : <<id, "published">> \in acked' => id = job'.id
    BY <1>2, <1>5 DEF TelInv, TelIInv, MarksAreCounted
  <2> QED
    BY <1>3, <1>5, <2>7, <2>8 DEF MarksAreCounted
<1> QED
  BY <1>2, <1>4, <1>5

(* none while a report is opened or posted or another taken up,            *)
LEMMA MarksGoOn ==
  ASSUME TelInv, TraceGoal, acked' = acked, ~Acking',
         job'.attempted = job.attempted, job'.batch \subseteq job.batch,
         job.pc \notin {"done", "mark"}, job'.pc \in {"list", "labels", "next", "create", "mark"},
         tel'.published = tel.published
  PROVE  MarksAreCounted'
<1>1. MarkedOfBatch' = MarkedOfBatch /\ ~Acking
  BY DEF MarkedOfBatch, Acking
<1>2. PublishSpan \notin Handed'
  BY PlacesAre, HandedStarted, HandedAre DEF TraceGoal, OpenSpansAreAtHand, PublishSpan
<1> QED
  BY <1>1, <1>2, MarkedAreCounted DEF TelInv, TelIInv, MarksAreCounted

(* or when the run is left: then the count is told.                        *)
LEMMA MarksAreTold ==
  ASSUME TelInv, acked' = acked, job'.attempted = job.attempted,
         job'.pc = "done", job'.batch = {}, job.pc # "done",
         PublishSpan \in Handed' => tel'.told.published = tel.published /\ job.pc # "mark"
  PROVE  MarksAreCounted'
<1>1. MarkedOfBatch' = MarkedOfBatch
  BY DEF MarkedOfBatch
<1>2. PublishSpan \in Handed' => Cardinality(MarkedOfBatch) = tel.published
  BY MarkedAreCounted DEF TelInv, TelIInv, MarksAreCounted, Acking
<1> QED
  BY <1>1, <1>2 DEF MarksAreCounted

(* A listed report was never marked.                                       *)
LEMMA MarksOfBatch ==
  ASSUME TelInv, TraceGoal, TelList
  PROVE  MarksAreCounted'
<1>1. /\ job.pc = "list" /\ job.attempted = {} /\ job \in Jobs /\ acked' = acked /\ IsTrace(tel)
      /\ tel.told.published = 0 /\ tel.published = 0 /\ call' = call
  <2>1. job.pc = "list" /\ acked' = acked /\ call' = call
    BY DEF TelList, List, vars
  <2>2. job.attempted = {} /\ tel.told = NoTrace.told
    BY <2>1 DEF TelInv, TelIInv, JobIInv, BatchIsSound, EndedReportsAreDone
  <2>3. MarkedOfBatch = {} /\ ~Acking
    BY <2>1, <2>2 DEF MarkedOfBatch, Acking
  <2>4. tel.published = 0
    BY <2>1, <2>3, MarkedAreCounted, FS_EmptySet DEF TelInv, TelIInv, MarksAreCounted
  <2> QED
    BY <2>1, <2>2, <2>4, TraceKnown DEF NoTrace, TelInv
<1> DEFINE t == StartSpan(tel, "publish.run", Root, None)
<1>2. IsTrace(t) /\ SameCounts(tel, t)
  BY <1>1, CountsStay
<1> HIDE DEF t
<1>3. CASE ListPending = {}
  <2>1. FinishRun(TRUE) /\ tel' = EndSchedule(End(t, PublishSpan, "ok"), TRUE)
    BY <1>3 DEF TelList, List, t
  <2>2. SameCounts(tel, tel')
    <3>1. IsTrace(End(t, PublishSpan, "ok")) /\ SameCounts(t, End(t, PublishSpan, "ok"))
      BY <1>2, CountsStay
    <3> QED
      BY <1>2, <2>1, <3>1, ScheduleCounts DEF SameCounts
  <2>3. job'.pc = "done" /\ job'.batch = {} /\ job'.attempted = job.attempted
    BY <1>1, <2>1, FinishIs
  <2> QED
    BY <1>1, <2>2, <2>3, MarksAreTold DEF SameCounts
<1>4. CASE ListPending # {}
  <2>1. PICK cap \in Caps :
              job' = [job EXCEPT !.pc = "labels", !.batch = Capped(ListPending, cap),
                                 !.attempted = Capped(ListPending, cap)]
    BY <1>4 DEF TelList, List
  <2>2. /\ job'.pc = "labels" /\ job'.batch = Capped(ListPending, cap)
        /\ job'.attempted = Capped(ListPending, cap)
    BY <1>1, <2>1 DEF Jobs
  <2>3. \A id \in Capped(ListPending, cap) : <<id, "published">> \notin acked
    <3>1. Capped(ListPending, cap) \subseteq ListPending
      BY DEF Capped
    <3>2. \A id \in ListPending : <<id, "published">> \notin acked
      BY DEF TelInv, TelIInv, JobIInv, IInv, AckedIsSettled, ListPending
    <3> QED
      BY <3>1, <3>2
  <2>4. MarkedOfBatch' = {} /\ ~Acking'
    BY <1>1, <2>2, <2>3 DEF MarkedOfBatch, Acking
  <2>5. tel'.published = 0
    <3> DEFINE d == Cardinality(ListPending) - Cardinality(job'.attempted)
    <3>1. tel' = [t EXCEPT !.deferred = d]
      BY <1>4 DEF TelList, t
    <3> HIDE DEF d
    <3> QED
      BY <1>1, <1>2, <3>1 DEF IsTrace, SameCounts
  <2>6. PublishSpan \notin Handed'
    BY <2>2, PlacesAre, HandedStarted, HandedAre DEF TraceGoal, OpenSpansAreAtHand, PublishSpan
  <2>7. \A id \in job'.batch : <<id, "published">> \notin acked'
    BY <1>1, <2>2, <2>3
  <2> QED
    BY <2>2, <2>4, <2>5, <2>6, <2>7, FS_EmptySet DEF MarksAreCounted
<1> QED
  BY <1>3, <1>4

(* What the call acknowledged is counted when it is looked at.             *)
LEMMA MarksSeen ==
  ASSUME TelInv, TraceGoal, TelMarked
  PROVE  MarksAreCounted'
<1>1. /\ job.pc = "mark" /\ call[Cron].pc = "done" /\ acked' = acked /\ job \in Jobs
      /\ Advance(job.id, call[Cron].res # "nil") /\ IsTrace(tel)
  BY TraceKnown DEF TelMarked, Marked, TelInv
<1>2. /\ job'.pc = "next" /\ job'.batch = job.batch \ {job.id} /\ job'.attempted = job.attempted
  BY <1>1, AdvanceIs
<1>3. MarkedOfBatch' = MarkedOfBatch /\ ~Acking' /\ PublishSpan \notin Handed'
  <2>1. MarkedOfBatch' = MarkedOfBatch /\ ~Acking'
    BY <1>1, <1>2 DEF MarkedOfBatch, Acking
  <2>2. PublishSpan \notin Handed'
    BY <1>2, PlacesAre, HandedStarted, HandedAre DEF TraceGoal, OpenSpansAreAtHand, PublishSpan
  <2> QED
    BY <2>1, <2>2
<1>4. \A id \in job'.batch : <<id, "published">> \notin acked'
  BY <1>1, <1>2 DEF TelInv, TelIInv, MarksAreCounted
<1>5. CASE call[Cron].res = "nil"
  <2> DEFINE t == [tel EXCEPT !.published = @ + 1]
  <2>1. IsTrace(t) /\ t.published = tel.published + 1
    BY <1>1 DEF IsTrace
  <2>2. tel' = End(t, Newest(tel), "ok")
    BY <1>5 DEF TelMarked, ReportPublished
  <2> HIDE DEF t
  <2>3. tel'.published = tel.published + 1
    BY <2>1, <2>2, CountsStay DEF SameCounts
  <2>4. Cardinality(MarkedOfBatch) = tel.published + 1
    BY <1>1, <1>5 DEF TelInv, TelIInv, MarksAreCounted, Acking
  <2>5. Cardinality(MarkedOfBatch') = tel'.published /\ tel'.published \in Nat
    BY <1>3, <2>3, <2>4, MarkedAreCounted
  <2> QED
    BY <1>2, <1>3, <1>4, <2>5 DEF MarksAreCounted
<1>6. CASE call[Cron].res # "nil"
  <2>1. tel' = End(tel, Newest(tel), "error")
    BY <1>6 DEF TelMarked, ReportFailed
  <2>2. tel'.published = tel.published
    BY <1>1, <2>1, CountsStay DEF SameCounts
  <2>3. Cardinality(MarkedOfBatch) = tel.published
    BY <1>1, <1>6, MarkedAreCounted DEF TelInv, TelIInv, MarksAreCounted, Acking
  <2>4. Cardinality(MarkedOfBatch') = tel'.published /\ tel'.published \in Nat
    BY <1>3, <2>2, <2>3, MarkedAreCounted
  <2> QED
    BY <1>2, <1>3, <1>4, <2>4 DEF MarksAreCounted
<1> QED
  BY <1>5, <1>6

(* The loop is left and the counts are told, or the run ends before it.    *)
LEMMA MarksAtTheEnd ==
  ASSUME TelInv, TraceGoal, TelEnd \/ TelCancelled \/ TelListFails \/ TelBuildFails \/ TelCrash
  PROVE  MarksAreCounted'
<1>0. job \in Jobs /\ IsTrace(tel)
  BY TraceKnown DEF TelInv
<1>1. ASSUME NEW ok \in BOOLEAN, FinishRun(ok)
      PROVE  job'.pc = "done" /\ job'.batch = {} /\ job'.attempted = job.attempted
  BY <1>0, <1>1, FinishIs
<1>2. CASE TelEnd \/ TelCancelled
  <2>1. PICK ok \in BOOLEAN : /\ tel' = EndSchedule(EndPublish(tel, ok), ok) /\ FinishRun(ok)
                              /\ job.pc = "next" /\ acked' = acked
    <3>1. CASE TelEnd
      BY <1>0, <3>1 DEF TelEnd, EndRun, Jobs, vars
    <3>2. CASE TelCancelled
      <4>1. FALSE \in BOOLEAN
        OBVIOUS
      <4> QED
        BY <3>2, <4>1 DEF TelCancelled, Cancelled
    <3> QED
      BY <1>2, <3>1, <3>2
  <2>2. Cardinality(job.attempted) - tel.published \in Nat
    <3>1. Handed \cap {1, 2} = {}
      BY <2>1, TraceKnown DEF TelInv, TelIInv, OpenSpansAreAtHand
    <3> QED
      BY <3>1, CountsAreNatural, PlacesAre
  <2>3. PICK v : /\ Shape(v) /\ v.told = [published |-> tel.published,
                                 failed |-> Cardinality(job.attempted) - tel.published]
                 /\ EndPublish(tel, ok) = End(v, PublishSpan, IF ok THEN "ok" ELSE "error")
    BY <2>1, <2>2, PublishTells, TraceKnown
  <2> DEFINE w == EndPublish(tel, ok)
  <2>4. IsTrace(w) /\ w.told.published = tel.published
    BY <2>3, CountsStay DEF SameCounts, Shape
  <2> HIDE DEF w
  <2>5. tel'.told.published = tel.published
    BY <2>1, <2>4, ScheduleCounts DEF w, SameCounts
  <2> QED
    BY <1>1, <2>1, <2>5, MarksAreTold
<1>3. CASE TelListFails
  <2>1. /\ tel' = EndSchedule(tel, FALSE) /\ FinishRun(FALSE) /\ job.pc = "list" /\ acked' = acked
    BY <1>3 DEF TelListFails, ListFails
  <2>2. SameCounts(tel, tel')
    BY <1>0, <2>1, ScheduleCounts
  <2>3. tel.told.published = 0 /\ tel.published = 0
    <3>1. job.attempted = {} /\ tel.told = NoTrace.told
      BY <2>1 DEF TelInv, TelIInv, JobIInv, BatchIsSound, EndedReportsAreDone
    <3>2. MarkedOfBatch = {} /\ ~Acking
      BY <2>1, <3>1 DEF MarkedOfBatch, Acking
    <3> QED
      BY <2>1, <3>1, <3>2, MarkedAreCounted, FS_EmptySet
         DEF TelInv, TelIInv, MarksAreCounted, NoTrace
  <2> QED
    BY <1>1, <2>1, <2>2, <2>3, MarksAreTold DEF SameCounts
<1>4. CASE TelBuildFails
  <2>1. tel' = tel /\ FinishRun(FALSE) /\ job.pc = "wire" /\ acked' = acked
    BY <1>4 DEF TelBuildFails, BuildPublishFails
  <2>2. tel = NoTrace
    BY <2>1 DEF TelInv, TelIInv, AlertsAreSound
  <2>3. PublishSpan \notin Handed'
    <3>1. HandedOf(tel') = {}
      BY <2>1, <2>2, NoTraceIs
    <3> QED
      BY <3>1, HandedAre
  <2> QED
    BY <1>1, <2>1, <2>3, MarksAreTold
<1>5. CASE TelCrash
  <2>1. FinishRun(FALSE) /\ job.pc # "done" /\ acked' = acked /\ tel' = [tel EXCEPT !.died = TRUE]
    BY <1>5 DEF TelCrash, RunCrashes
  <2>2. tel'.died
    BY <1>0, <2>1 DEF IsTrace
  <2>3. PublishSpan \notin Handed'
    BY <2>2 DEF TraceGoal, OpenSpansAreAtHand
  <2> QED
    BY <1>1, <2>1, <2>3, MarksAreTold
<1> QED
  BY <1>2, <1>3, <1>4, <1>5

(* Every step keeps the count of the marks.                                *)
LEMMA MarksStep ==
  ASSUME TelInv, [TelNext]_telVars
  PROVE  MarksAreCounted'
<1>0. /\ job \in Jobs /\ IsTrace(tel) /\ TraceGoal /\ TypeOK /\ CronIsSound
      /\ job.batch \subseteq job.attempted /\ call \in [Callers -> Calls]
  BY TraceKnown, TraceStep DEF TelInv, JobIInv, IInv, TypeOK
<1>1. CASE TelStart
  <2>1. job'.pc = "wire" /\ job'.batch = {} /\ job'.attempted = {} /\ tel' = NoTrace
    BY <1>1 DEF TelStart, StartRun
  <2>2. MarkedOfBatch' = {} /\ ~Acking'
    BY <2>1 DEF MarkedOfBatch, Acking
  <2>3. tel'.published = 0 /\ HandedOf(tel') = {}
    BY <2>1, NoTraceIs
  <2>4. PublishSpan \notin Handed'
    BY <2>3, HandedAre
  <2> QED
    BY <2>1, <2>2, <2>3, <2>4, FS_EmptySet DEF MarksAreCounted
<1>2. CASE TelBuild
  <2>1. /\ job.pc = "wire" /\ job'.pc = "list" /\ job'.batch = job.batch
        /\ job'.attempted = job.attempted /\ acked' = acked
        /\ tel' = StartSpan(tel, "schedule.run", NoSpan, None)
    BY <1>0, <1>2 DEF TelBuild, BuildPublish, Jobs, vars
  <2> QED
    BY <1>0, <2>1, CountsStay, MarksGoOn DEF SameCounts, Acking
<1>3. CASE (EnsureLabels \/ EnsureLabelsFails) /\ UNCHANGED tel
  <2>1. /\ job.pc = "labels" /\ job'.pc = "next" /\ job'.batch = job.batch
        /\ job'.attempted = job.attempted /\ acked' = acked
    BY <1>0, <1>3 DEF EnsureLabels, EnsureLabelsFails, Jobs, vars
  <2> QED
    BY <1>0, <1>3, <2>1, MarksGoOn DEF Acking
<1>4. CASE CreateConfirmed /\ UNCHANGED tel
  <2>1. /\ job.pc = "create" /\ job'.pc = "mark" /\ job'.batch = job.batch
        /\ job'.attempted = job.attempted /\ acked' = acked
        /\ call' = [call EXCEPT ![Cron] = Calling(job.id, "published")]
    BY <1>0, <1>4 DEF CreateConfirmed, Jobs, vars
  <2>2. call'[Cron].pc # "done"
    BY <1>0, <2>1, CronAssumption DEF Calling
  <2> QED
    BY <1>0, <1>4, <2>1, <2>2, MarksGoOn DEF Acking
<1>5. CASE TelFetch
  <2> DEFINE t == StartReport(tel, Oldest(job.batch))
  <2>1. IsTrace(t) /\ SameCounts(tel, t)
    BY <1>0, CountsStay DEF StartReport
  <2>2. tel' = t \/ tel' = ReportFailed(t)
    BY <1>5 DEF TelFetch
  <2> HIDE DEF t
  <2>3. tel'.published = tel.published
    BY <2>1, <2>2, CountsStay DEF ReportFailed, SameCounts
  <2>4. /\ job.pc = "next" /\ job'.pc \in {"next", "create"} /\ job'.batch \subseteq job.batch
        /\ job'.attempted = job.attempted /\ acked' = acked
    <3>1. job.pc = "next" /\ acked' = acked
      BY <1>5 DEF TelFetch, FetchReport, vars
    <3>2. CASE Advance(Oldest(job.batch), TRUE)
      BY <1>0, <3>1, <3>2, AdvanceIs
    <3>3. CASE job' = [job EXCEPT !.pc = "create", !.id = Oldest(job.batch)]
      BY <1>0, <3>1, <3>3 DEF Jobs
    <3> QED
      BY <1>5, <3>2, <3>3 DEF TelFetch, FetchReport
  <2> QED
    BY <1>0, <2>3, <2>4, MarksGoOn DEF Acking
<1>6. CASE TelFetchFails
  <2> DEFINE t == StartReport(tel, Oldest(job.batch))
  <2>1. IsTrace(t) /\ SameCounts(tel, t) /\ tel' = ReportFailed(t)
    BY <1>0, <1>6, CountsStay DEF StartReport, TelFetchFails
  <2> HIDE DEF t
  <2>2. tel'.published = tel.published
    BY <2>1, CountsStay DEF ReportFailed, SameCounts
  <2>3. job.pc = "next" /\ acked' = acked /\ Advance(Oldest(job.batch), TRUE)
    BY <1>6 DEF TelFetchFails, FetchFails
  <2>4. job'.pc = "next" /\ job'.batch \subseteq job.batch /\ job'.attempted = job.attempted
    BY <1>0, <2>3, AdvanceIs
  <2> QED
    BY <1>0, <2>2, <2>3, <2>4, MarksGoOn DEF Acking
<1>7. CASE TelCreateFails
  <2>1. job.pc = "create" /\ acked' = acked /\ Advance(job.id, TRUE) /\ tel' = ReportFailed(tel)
    BY <1>7 DEF TelCreateFails, CreateFails
  <2>2. job'.pc = "next" /\ job'.batch \subseteq job.batch /\ job'.attempted = job.attempted
    BY <1>0, <2>1, AdvanceIs
  <2>3. tel'.published = tel.published
    BY <1>0, <2>1, CountsStay DEF ReportFailed, SameCounts
  <2> QED
    BY <1>0, <2>1, <2>2, <2>3, MarksGoOn DEF Acking
<1>8. CASE /\ TransitionStep(Cron) \/ ProbeFails(Cron) \/ StoreFails(Cron)
           /\ UNCHANGED <<job, githubVars, tel>>
  BY <1>8, MarksCalled
<1>9. CASE \/ ((\E c \in Callers \ {Cron} : AdminStep(c)) \/ StoreStep) /\ UNCHANGED tel
           \/ UNCHANGED telVars
  <2>1. (\E c \in Callers \ {Cron} : AdminStep(c)) \/ StoreStep \/ UNCHANGED jobVars
    BY <1>9 DEF telVars
  <2>2. \A id : <<id, "published">> \in acked' <=> <<id, "published">> \in acked
    <3>1. acked \subseteq acked'
      BY TelStepIsJobStep, StepSettles, TraceKnown DEF JobIInv, Settles
    <3> QED
      BY <1>0, <2>1, <3>1, OthersMarkNone
  <2>3. UNCHANGED <<job, tel>> /\ call'[Cron] = call[Cron]
    BY <1>0, <1>9, <2>1, ElsewhereStep DEF Elsewhere, telVars
  <2> QED
    BY <2>2, <2>3, MarksAside
<1>10. CASE CreateLost /\ UNCHANGED tel
  BY <1>10, MarksAside DEF CreateLost
<1> QED
  BY <1>1, <1>2, <1>3, <1>4, <1>5, <1>6, <1>7, <1>8, <1>9, <1>10,
     <1>0, MarksOfBatch, MarksSeen, MarksAtTheEnd
     DEF TelNext, TelStep, TelFailure

-----------------------------------------------------------------------------
(* Before the first run there is no trace.                                 *)
LEMMA InitTelInv == TelInit => TelInv
<1> SUFFICES ASSUME TelInit PROVE TelInv
  OBVIOUS
<1>1. JobIInv /\ tel = NoTrace /\ job.pc = "done" /\ job.attempted = {} /\ job.batch = {}
  BY JobInitIInv DEF TelInit, JobInit
<1>2. /\ Shape(tel) /\ InPlace(tel) /\ Handed = {} /\ tel.spans = <<>> /\ tel.published = 0
      /\ ~tel.died /\ Reports("ok") = {}
  BY <1>1, NoTraceIs, HandedAre
<1>3. AlertsAreSound
  BY <1>1, <1>2 DEF AlertsAreSound, FailuresAlert, Returned
<1>4. TelTypeOK
  BY <1>1, <1>2 DEF TelTypeOK, Shape, JobIInv
<1>5. OpenSpansAreAtHand /\ EndedReportsAreDone
  BY <1>1, <1>2, FS_EmptySet DEF OpenSpansAreAtHand, InPlace, EndedReportsAreDone
<1>6. BatchIsFinite
  <2>1. {id \in Ids : sealed[id] # None} = {}
    BY DEF TelInit, JobInit, Init
  <2> QED
    BY <1>1, <2>1, FS_EmptySet DEF BatchIsFinite
<1>7. TraceIsWhole /\ CountsAddUp
  BY <1>2 DEF TraceIsWhole, CountsAddUp, Returned
<1>8. MarksAreCounted
  BY <1>1, <1>2 DEF MarksAreCounted
<1> QED
  BY <1>1, <1>2, <1>3, <1>4, <1>5, <1>6, <1>7, <1>8 DEF TelInv, TelIInv, Shape

(* Every step of a traced run keeps the invariant of the trace.            *)
LEMMA TelInvStep == TelInv /\ [TelNext]_telVars => TelInv'
<1> SUFFICES ASSUME TelInv, [TelNext]_telVars PROVE TelInv'
  OBVIOUS
<1>1. JobIInv'
  BY TraceKnown, TelStepIsJobStep, JobIInvStep
<1>2. AlertsAreSound'
  BY TraceKnown, AlertsStep
<1>3. /\ Shape(tel') /\ OpenSpansAreAtHand' /\ EndedReportsAreDone'
      /\ TraceIsWhole' /\ CountsAddUp'
  BY TraceStep DEF TraceGoal
<1>4. TelTypeOK'
  BY <1>1, <1>3 DEF TelTypeOK, Shape, JobIInv
<1>5. BatchIsFinite'
  BY BatchStaysFinite
<1>6. IsTrace(tel)'
  BY <1>3 DEF Shape, IsTrace
<1>7. MarksAreCounted'
  BY MarksStep
<1> QED
  BY <1>1, <1>2, <1>3, <1>4, <1>5, <1>6, <1>7 DEF TelInv, TelIInv

(* The trace of the run under way names the functions it is in and the     *)
(* report at hand, and what it told of is what left the batch: the         *)
(* invariant of RunTelemetry, in every reachable state.                    *)
THEOREM TraceInductive == TelSpec => []TelIInv
<1>1. TelSpec => []TelInv
  BY InitTelInv, TelInvStep, PTL DEF TelSpec
<1> QED
  BY <1>1, PTL DEF TelInv

(* The spans, counts and alerts of a trace are of their types.             *)
THEOREM TelTypeCorrect == TelSpec => []TelTypeOK
  BY TraceInductive, PTL DEF TelIInv

(* A run that returned has handed over every span it started, on every     *)
(* path out of Run and Publish, each after those below it and under the    *)
(* span of the function around it (publish.go:206-209, 244-266).           *)
THEOREM TracesAreWhole == TelSpec => []TraceIsWhole
  BY TraceInductive, PTL DEF TelIInv

(* A report told as published has its issue and was marked, published is   *)
(* the number of those, failed that of the reports of the batch that were  *)
(* not marked, tried or not, and a run is told as succeeded only if all of *)
(* its batch was published (publish.go:241-244, 288-309).                  *)
THEOREM TracesAreTrue == TelSpec => []TraceIsTrue
<1>1. TelIInv => TraceIsTrue
  <2> SUFFICES ASSUME TelIInv, PublishSpan \in Handed
               PROVE  tel.told.failed = Cardinality(job.attempted \ MarkedOfBatch)
    BY DEF TelIInv, CountsAddUp, TraceIsTrue
  <2> DEFINE A == job.attempted
             M == MarkedOfBatch
  <2>1. IsFiniteSet(A) /\ M \subseteq A
    BY DEF TelIInv, BatchIsFinite, MarkedOfBatch
  <2>2. /\ tel.told.published + tel.told.failed = Cardinality(A)
        /\ tel.told.published = Cardinality(M)
        /\ tel.told \in Counts
    BY DEF TelIInv, CountsAddUp, MarksAreCounted, TelTypeOK
  <2> HIDE DEF A, M
  <2>3. tel.told.published \in Nat /\ tel.told.failed \in Nat
    BY <2>2 DEF Counts
  <2>4. A \cap M = M
    BY <2>1
  <2>5. Cardinality(A \ M) = Cardinality(A) - Cardinality(M) /\ Cardinality(A) \in Nat
    BY <2>1, <2>4, FS_Difference, FS_CardinalityType
  <2>6. tel.told.failed = Cardinality(A \ M)
    BY <2>2, <2>3, <2>5
  <2> QED
    BY <2>6 DEF A, M
<1> QED
  BY <1>1, TraceInductive, PTL

-----------------------------------------------------------------------------
(***************************************************************************)
(* ReportApi.                                                              *)
(*                                                                         *)
(* An answer is given on what one call learned at one moment, and must     *)
(* stay true under every later step of every other request and isolate.    *)
(* Two facts carry that: what is learned of the bucket only ever settles   *)
(* (Settles), and an id that was never sealed is sealed only by a request  *)
(* that holds it alone (HoldsItAlone).                                     *)
(***************************************************************************)

(* What is known of a call, a request or the store by their types.         *)
LEMMA Typed ==
  ASSUME ApiIInv
  PROVE  /\ TypeOK /\ CopiesAreFaithful /\ CallsAreSound /\ LateIsSound /\ AckedIsSettled
         /\ \A c \in Callers : call[c] \in Calls
         /\ \A h \in Handlers : req[h] \in Reqs /\ h \in Callers
  BY HandlersAssumption DEF ApiIInv, IInv, TypeOK, ApiTypeOK

(* A step that leaves the bucket and the calls alone, but may count a      *)
(* failure.                                                                *)
Outside ==
    /\ UNCHANGED <<objects, sealed, accepted, call, late, acked>>
    /\ faults' \in 0..MaxFaults /\ faults <= faults'

(* It keeps the invariant of Lifecycle.                                    *)
LEMMA OutsideStep == IInv /\ Outside => IInv'
<1> SUFFICES ASSUME IInv, Outside PROVE IInv'
  OBVIOUS
<1>1. TypeOK'
  BY DEF IInv, TypeOK, Outside
<1>2. CopiesAreFaithful' /\ AcceptedIsHeld' /\ AckedIsSettled'
  BY DEF IInv, Outside, CopiesAreFaithful, AcceptedIsHeld, AckedIsSettled, Stored
<1>3. CallsAreSound'
  BY DEF IInv, Outside, CallsAreSound, CallIsSound, Stored
<1>4. LateIsSound'
  BY DEF IInv, Outside, LateIsSound, Stored
<1> QED
  BY <1>1, <1>2, <1>3, <1>4 DEF IInv

(* A request forgets the call that returned to it.                         *)
LEMMA ForgetStep ==
  ASSUME IInv, NEW h \in Callers, call' = [call EXCEPT ![h] = Idle],
         UNCHANGED <<storeVars, acked, faults>>
  PROVE  IInv'
<1>1. TypeOK'
  BY DEF IInv, TypeOK, Idle, Calls, InFlight, storeVars, Terminal
<1>2. CopiesAreFaithful' /\ AcceptedIsHeld' /\ AckedIsSettled'
  BY DEF IInv, storeVars, CopiesAreFaithful, AcceptedIsHeld, AckedIsSettled, Stored
<1>3. CallsAreSound'
  <2>1. \A c \in Callers : call'[c] = call[c] \/ call'[c] = Idle
    BY DEF IInv, TypeOK
  <2> QED
    BY <2>1 DEF IInv, CallsAreSound, CallIsSound, Idle, Stored, InFlight, storeVars
<1>4. LateIsSound'
  BY DEF IInv, LateIsSound, Stored, storeVars
<1> QED
  BY <1>1, <1>2, <1>3, <1>4 DEF IInv

(* An eviction is the crash of every call of the isolate at once: each     *)
(* write that was under way is sound, and may land.                        *)
LEMMA EvictStep == ApiIInv /\ Evict => IInv'
<1> SUFFICES ASSUME ApiIInv, Evict PROVE IInv'
  OBVIOUS
<1> DEFINE Dead(c) == [call[c] EXCEPT !.pc = "done", !.data = None, !.res = "crashed"]
<1>0. UNCHANGED <<objects, sealed, accepted, acked>> /\ faults' \in 0..MaxFaults
  <2>1. faults \in 0..MaxFaults
    BY DEF ApiIInv, IInv, TypeOK
  <2>2. Fault /\ UNCHANGED <<objects, sealed, accepted, acked>>
    BY DEF Evict
  <2> QED
    BY <2>1, <2>2, FaultsAssumption DEF Fault
<1>1. /\ \A c \in Callers : call[c] \in Calls /\ CallIsSound(c)
      /\ IInv
  BY Typed DEF CallsAreSound, ApiIInv
<1>2. \A c \in Callers : Dead(c) \in Calls
  BY <1>1 DEF Calls
<1>3. \A c \in Callers : \/ call'[c] = call[c]
                         \/ call[c].pc \in InFlight /\ call'[c] = Dead(c)
  BY DEF Evict
<1>4. \A r \in late' : r \in late \/ \E h \in Callers : r \in Outstanding(h)
  BY HandlersAssumption DEF Evict
<1>5. ASSUME NEW c \in Callers, NEW r \in Outstanding(c)
      PROVE  /\ r \in Requests
             /\ r.op = "put" => r.data # None /\ r.data = sealed[r.id]
             /\ r.op = "put" => r.to \in Terminal /\ Stored(r.id)
             /\ r.op = "delete" => r.to \in Terminal /\ objects[r.to][r.id] # None
  <2>1. call[c].pc \in {"put", "delete"} /\ r = [op |-> call[c].pc, id |-> call[c].id,
                                                 to |-> call[c].to, data |-> call[c].data]
    BY <1>5 DEF Outstanding
  <2>2. call[c].id \in Ids /\ call[c].to \in Terminal /\ call[c].data \in Frames \cup {None}
    BY <1>1, <2>1 DEF CallIsSound, Calls
  <2>3. call[c].pc = "put" => call[c].data # None /\ call[c].data = sealed[call[c].id]
                              /\ Stored(call[c].id)
    BY <1>1, <2>2, NoneAssumption DEF CallIsSound
  <2>4. call[c].pc = "delete" => objects[call[c].to][call[c].id] # None
    BY <1>1 DEF CallIsSound
  <2> QED
    BY <2>1, <2>2, <2>3, <2>4 DEF Requests, Statuses
<1>6. TypeOK'
  <2>1. call' \in [Callers -> Calls]
    BY <1>1, <1>2, <1>3 DEF Evict
  <2>2. late' \subseteq Requests
    BY <1>1, <1>4, <1>5 DEF IInv, TypeOK
  <2> QED
    BY <1>0, <1>1, <2>1, <2>2 DEF IInv, TypeOK
<1>7. CopiesAreFaithful' /\ AcceptedIsHeld' /\ AckedIsSettled'
  BY <1>0, <1>1 DEF IInv, CopiesAreFaithful, AcceptedIsHeld, AckedIsSettled, Stored
<1>8. CallsAreSound'
  <2>1. \A c \in Callers : call[c].pc \in InFlight =>
          Dead(c).pc = "done" /\ Dead(c).id = call[c].id
    BY <1>1 DEF Calls
  <2> HIDE DEF Dead
  <2>2. \A c \in Callers : call[c].pc \in InFlight => call[c].pc # "idle"
    BY DEF InFlight
  <2> QED
    BY <1>0, <1>1, <1>3, <2>1, <2>2 DEF CallsAreSound, CallIsSound, Stored, InFlight
<1>9. LateIsSound'
  <2> SUFFICES ASSUME NEW r \in late'
               PROVE  /\ r.op = "put" => r.data # None /\ r.data = sealed[r.id]
                      /\ r.op = "put" => (r.to = "pending" <=> ~Stored(r.id))
                      /\ r.op = "delete" => r.to \in Terminal /\ objects[r.to][r.id] # None
    BY <1>0 DEF LateIsSound, Stored
  <2>1. CASE r \in late
    BY <1>1, <2>1 DEF IInv, LateIsSound
  <2>2. CASE \E h \in Callers : r \in Outstanding(h)
    BY <1>5, <2>2 DEF Terminal
  <2> QED
    BY <1>4, <2>1, <2>2
<1> QED
  BY <1>6, <1>7, <1>8, <1>9 DEF IInv

-----------------------------------------------------------------------------
(* Each action of the composition is a step of Lifecycle, a step beside    *)
(* it, the return of a call to its request, or an eviction.                *)
Forgets(h) ==
    /\ req[h].pc = "call" /\ call[h].pc = "done"
    /\ call' = [call EXCEPT ![h] = Idle]
    /\ UNCHANGED <<storeVars, acked, faults>>

(* The actions of one request that touch neither the bucket nor a call.    *)
Beside(h) ==
    \/ Arrive(h) \/ Resend(h) \/ HasProvider(h) \/ ReadHeaders(h) \/ BuildProvider(h)
    \/ Ingested(h) \/ Dispatch(h) \/ Authorize(h) \/ Finish(h)
    \/ BuildBareProvider(h) \/ SealFails(h) \/ AdminFails(h)

(* They are steps beside Lifecycle.                                        *)
LEMMA BesideIsOutside ==
  ASSUME IInv, NEW h \in Handlers, Beside(h)
  PROVE  Outside
<1>0. faults \in 0..MaxFaults
  BY DEF IInv, TypeOK
<1>1. CASE Arrive(h) \/ Resend(h)
  <2>1. UNCHANGED vars
    BY <1>1 DEF Arrive, Resend, Request
  <2> QED
    BY <1>0, <2>1 DEF Outside, vars
<1>2. CASE HasProvider(h) \/ ReadHeaders(h) \/ BuildProvider(h)
           \/ Ingested(h) \/ Dispatch(h) \/ Authorize(h) \/ Finish(h)
  <2>1. UNCHANGED vars
    BY <1>2 DEF HasProvider, ReadHeaders, BuildProvider, Ingested, Dispatch, Authorize, Finish
  <2> QED
    BY <1>0, <2>1 DEF Outside, vars
<1>3. CASE BuildBareProvider(h) \/ SealFails(h) \/ AdminFails(h)
  <2>1. Fault /\ UNCHANGED <<storeVars, call, acked>>
    BY <1>3 DEF BuildBareProvider, SealFails, AdminFails
  <2> QED
    BY <1>0, <2>1, FaultsAssumption DEF Outside, Fault, storeVars
<1> QED
  BY <1>1, <1>2, <1>3 DEF Beside

(* A request stores its report as Lifecycle does.                          *)
LEMMA StoreIsIngest ==
  ASSUME ApiIInv, NEW h \in Handlers, Store(h) \/ StoreRefused(h)
  PROVE  Ingest
<1>1. req[h].id \in Ids
  BY DEF Store, StoreRefused, ApiIInv, RequestsAreSound, RequestIsSound
<1> QED
  BY <1>1 DEF Store, StoreRefused, Ingest

(* A request moves its report as Lifecycle does.                           *)
LEMMA RemoveIsBegin ==
  ASSUME ApiIInv, NEW h \in Handlers, Remove(h)
  PROVE  Next
<1>1. req[h].id \in Ids /\ h \in Callers
  BY HandlersAssumption DEF Remove, ApiIInv, RequestsAreSound, RequestIsSound
<1>2. Continue(h)
  BY <1>1 DEF Remove, Continue, Terminal
<1> QED
  BY <1>1, <1>2 DEF Next

(* So do the callers of the other isolates.                                *)
LEMMA OtherIsNext ==
  ASSUME NEW c \in Callers, OtherStep(c)
  PROVE  Next
  BY DEF OtherStep, Next, Continue, Terminal

(* What a call returned is forgotten, or kept to be repeated.              *)
LEMMA RemovedForgets ==
  ASSUME IInv, NEW h \in Handlers, Removed(h)
  PROVE  Forgets(h) \/ Outside
<1>1. CASE Failed(h)
  <2>1. UNCHANGED <<storeVars, call, acked, faults>> /\ faults \in 0..MaxFaults
    BY <1>1 DEF Removed, Forget, IInv, TypeOK
  <2> QED
    BY <2>1 DEF Outside, storeVars
<1>2. CASE ~Failed(h)
  BY <1>2 DEF Removed, Forget, Forgets
<1> QED
  BY <1>1, <1>2

(* The kinds together.                                                     *)
LEMMA ApiStepKinds ==
  ASSUME ApiIInv, [ApiNext]_apiVars
  PROVE  [Next]_vars \/ Outside \/ Evict \/ \E h \in Handlers : Forgets(h)
<1>0. IInv /\ Handlers \subseteq Callers
  BY HandlersAssumption DEF ApiIInv
<1>1. ASSUME NEW h \in Handlers, Beside(h) PROVE Outside
  BY <1>0, <1>1, BesideIsOutside
<1>2. ASSUME NEW h \in Handlers, Store(h) \/ StoreRefused(h) PROVE Next
  BY <1>2, StoreIsIngest DEF Next
<1>3. ASSUME NEW h \in Handlers, Remove(h) PROVE Next
  BY <1>3, RemoveIsBegin
<1>4. ASSUME NEW h \in Handlers, TransitionStep(h) \/ ProbeFails(h) \/ StoreFails(h) PROVE Next
  BY <1>0, <1>4 DEF Next, Continue, Failure
<1>5. ASSUME NEW h \in Handlers, Removed(h) PROVE Forgets(h) \/ Outside
  BY <1>0, <1>5, RemovedForgets
<1>6. ASSUME NEW c \in Callers \ Handlers, OtherStep(c) PROVE Next
  BY <1>6, OtherIsNext
<1>7. ASSUME NEW r \in late, Land(r) PROVE Next
  BY <1>7 DEF Next
<1>8. CASE UNCHANGED apiVars
  BY <1>8 DEF apiVars
<1> QED
  BY <1>1, <1>2, <1>3, <1>4, <1>5, <1>6, <1>7, <1>8
     DEF ApiNext, HandlerStep, HandlerFails, Beside

(* Every step of the composition keeps the invariant of the lifecycle.     *)
LEMMA ApiBaseStep == ApiIInv /\ [ApiNext]_apiVars => IInv'
  BY ApiStepKinds, IInvStep, OutsideStep, EvictStep, ForgetStep, HandlersAssumption
     DEF Forgets, ApiIInv

(* And settles the bucket.                                                 *)
LEMMA ApiSettles == ApiIInv /\ [ApiNext]_apiVars => Settles
<1> SUFFICES ASSUME ApiIInv, [ApiNext]_apiVars PROVE Settles
  OBVIOUS
<1>0. IInv
  BY DEF ApiIInv
<1>1. CASE [Next]_vars
  BY <1>0, <1>1, NextSettles
<1>2. faults \in 0..MaxFaults
  BY <1>0 DEF IInv, TypeOK
<1>3. ASSUME UNCHANGED <<objects, acked>>, faults' \in {faults, faults + 1} \/ faults <= faults',
             faults' \in Nat
      PROVE  Settles
  BY <1>2, <1>3, FaultsAssumption DEF Settles, Stored, Gone
<1>4. CASE Outside
  BY <1>3, <1>4, FaultsAssumption DEF Outside
<1>5. CASE Evict
  <2>1. Fault /\ UNCHANGED <<objects, acked>>
    BY <1>5 DEF Evict
  <2> QED
    BY <1>2, <1>3, <2>1, FaultsAssumption DEF Fault
<1>6. ASSUME NEW h \in Handlers, Forgets(h) PROVE Settles
  <2>1. UNCHANGED <<objects, acked, faults>>
    BY <1>6 DEF Forgets, storeVars
  <2> QED
    BY <1>2, <1>3, <2>1, FaultsAssumption
<1> QED
  BY <1>1, <1>4, <1>5, <1>6, ApiStepKinds

-----------------------------------------------------------------------------
(***************************************************************************)
(* What a step may do to a request, to the id of a call and to what was    *)
(* sealed.                                                                 *)
(***************************************************************************)
GoesOn(h) ==
    /\ req'[h].id = req[h].id /\ req'[h].op = req[h].op
    /\ req'[h].bearer \in {req[h].bearer, "empty"}
    /\ req'[h].pc \in Unsealed => req[h].pc \in Unsealed

(* A request goes on with its report, or is gone with its isolate; unless  *)
(* it arrives.                                                             *)
LEMMA RequestsGoOn ==
  ASSUME ApiIInv, [ApiNext]_apiVars, \A h \in Handlers : ~Arrive(h) /\ ~Resend(h)
  PROVE  \A h \in Handlers : GoesOn(h) \/ req'[h] = NoRequest
<1>0. /\ req \in [Handlers -> Reqs]
      /\ \A h \in Handlers : req[h] \in Reqs
  BY Typed DEF ApiIInv, ApiTypeOK
<1>1. ASSUME UNCHANGED req PROVE \A h \in Handlers : GoesOn(h)
  BY <1>1 DEF GoesOn
<1> DEFINE Moved(h, r) == /\ req' = [req EXCEPT ![h] = r]
                          /\ r.id = req[h].id /\ r.op = req[h].op
                          /\ r.bearer \in {req[h].bearer, "empty"}
                          /\ r.pc \in Unsealed => req[h].pc \in Unsealed
<1>2. ASSUME NEW h \in Handlers, \E r : Moved(h, r) PROVE \A g \in Handlers : GoesOn(g)
  BY <1>0, <1>2 DEF GoesOn
<1>3. ASSUME NEW h \in Handlers, NEW pc, req[h].pc \in Unsealed \/ pc \notin Unsealed,
             req' = [req EXCEPT ![h].pc = pc]
      PROVE  \E r : Moved(h, r)
  <2>1. Moved(h, [req[h] EXCEPT !.pc = pc])
    BY <1>0, <1>3 DEF Reqs
  <2> QED
    BY <2>1
<1>4. ASSUME NEW h \in Handlers, NEW pc, req[h].pc \in Unsealed \/ pc \notin Unsealed, NEW traced,
             req' = [req EXCEPT ![h].pc = pc, ![h].traced = traced]
      PROVE  \E r : Moved(h, r)
  <2>1. Moved(h, [req[h] EXCEPT !.pc = pc, !.traced = traced])
    BY <1>0, <1>4 DEF Reqs
  <2> QED
    BY <2>1
<1>5. ASSUME NEW h \in Handlers, NEW status, Answer(h, status)
      PROVE  \E r : Moved(h, r)
  <2>1. Moved(h, [req[h] EXCEPT !.pc = "finish", !.status = status])
    BY <1>0, <1>5 DEF Reqs, Answer, Unsealed
  <2> QED
    BY <2>1
<1>6. ASSUME NEW h \in Handlers, HasProvider(h) \/ ReadHeaders(h) \/ BuildProvider(h)
                                   \/ BuildBareProvider(h) \/ Authorize(h) \/ Dispatch(h) \/ Remove(h)
      PROVE  \E r : Moved(h, r)
  BY <1>3, <1>4, <1>5, <1>6
     DEF HasProvider, ReadHeaders, BuildProvider, BuildBareProvider, Traced, Authorize, Dispatch,
         Remove, Unsealed
<1>7. ASSUME NEW h \in Handlers, Ingested(h) PROVE \E r : Moved(h, r)
  <2>1. PICK flaws \in SUBSET Flaws :
               req' = [req EXCEPT ![h].pc = IF Refusal(flaws) = 0 THEN "store" ELSE "finish",
                                  ![h].status = Refusal(flaws),
                                  ![h].flawed = flaws # {}]
    BY <1>7 DEF Ingested
  <2> DEFINE r == [req[h] EXCEPT !.pc = IF Refusal(flaws) = 0 THEN "store" ELSE "finish",
                                 !.status = Refusal(flaws), !.flawed = flaws # {}]
  <2>2. req' = [req EXCEPT ![h] = r]
    BY <2>1
  <2>3. r.id = req[h].id /\ r.op = req[h].op /\ r.bearer = req[h].bearer
    BY <1>0 DEF Reqs
  <2>4. req[h].pc \in Unsealed
    BY <1>7 DEF Ingested, Unsealed
  <2> QED
    BY <2>2, <2>3, <2>4
<1>8. ASSUME NEW h \in Handlers, Store(h) \/ StoreRefused(h) \/ SealFails(h) \/ AdminFails(h)
                                   \/ Removed(h)
      PROVE  \E r : Moved(h, r)
  BY <1>5, <1>8 DEF Store, StoreRefused, SealFails, AdminFails, Removed
<1>9. ASSUME NEW h \in Handlers, Finish(h) PROVE \E r : Moved(h, r)
  <2>1. Moved(h, [req[h] EXCEPT !.pc = "answered", !.bearer = "empty", !.traced = FALSE])
    BY <1>0, <1>9 DEF Reqs, Finish, Close, Unsealed
  <2> QED
    BY <2>1
<1>10. CASE Evict
  <2>1. \A h \in Handlers : req'[h] \in {NoRequest, req[h]}
    BY <1>10 DEF Evict
  <2> QED
    BY <2>1 DEF GoesOn
<1> HIDE DEF Moved
<1>11. CASE UNCHANGED apiVars
  BY <1>1, <1>11 DEF apiVars, requestVars
<1> QED
  BY <1>1, <1>2, <1>6, <1>7, <1>8, <1>9, <1>10, <1>11
     DEF ApiNext, HandlerStep, HandlerFails, OtherStep, requestVars

(* A call keeps its id, or is about a report that is in the bucket, or     *)
(* about the one its request wants removed.                                *)
LEMMA CallIds ==
  ASSUME ApiIInv, [ApiNext]_apiVars, NEW c \in Callers
  PROVE  \/ call'[c].id \in {call[c].id, None}
         \/ Stored(call'[c].id)
         \/ c \in Handlers /\ req[c].op = "remove" /\ call'[c].id = req[c].id
<1> DEFINE Goal == \/ call'[c].id \in {call[c].id, None}
                   \/ Stored(call'[c].id)
                   \/ c \in Handlers /\ req[c].op = "remove" /\ call'[c].id = req[c].id
<1>0. /\ call \in [Callers -> Calls] /\ call[c] \in Calls
      /\ Handlers \subseteq Callers
  BY HandlersAssumption DEF ApiIInv, IInv, TypeOK
<1>1. ASSUME UNCHANGED call PROVE Goal
  BY <1>1
<1>2. ASSUME NEW d \in Callers, NEW res, Return(d, res) PROVE Goal
  BY <1>0, <1>2 DEF Return, Calls
<1>3. ASSUME NEW d \in Callers, TransitionStep(d) \/ Failure(d) PROVE Goal
  BY <1>0, <1>2, <1>3 DEF TransitionStep, Failure, GetSource, ProbeFinds, ProbeMisses, PutDestination,
     DeleteSource, ProbeFails, StoreFails, Crash, Calls
<1>4. ASSUME NEW d \in Callers, Retry(d) \/ GiveUp(d) PROVE Goal
  BY <1>0, <1>4 DEF Retry, GiveUp, Calling, Idle
<1>5. ASSUME NEW d \in Callers, NEW id \in Ids, NEW to, Begin(d, id, to),
             Stored(id) \/ (d \in Handlers /\ req[d].op = "remove" /\ id = req[d].id)
      PROVE  Goal
  <2>1. call' = [call EXCEPT ![d] = Calling(id, to)]
    BY <1>5 DEF Begin
  <2>2. CASE c = d
    <3>1. call'[c].id = id
      BY <1>0, <2>1, <2>2 DEF Calling
    <3> QED
      BY <1>5, <2>2, <3>1
  <2>3. CASE c # d
    BY <1>0, <2>1, <2>3
  <2> QED
    BY <2>2, <2>3
<1>6. ASSUME NEW h \in Handlers, Remove(h) PROVE Goal
  <2>1. req[h].op = "remove" /\ req[h].id \in Ids
    BY <1>6 DEF Remove, ApiIInv, RequestsAreSound, RequestIsSound
  <2> QED
    BY <1>0, <1>4, <1>5, <1>6, <2>1 DEF Remove
<1>7. ASSUME NEW h \in Handlers, Removed(h) PROVE Goal
  BY <1>0, <1>7 DEF Removed, Forget, Idle
<1>8. ASSUME NEW d \in Callers, OtherStep(d) PROVE Goal
  BY <1>3, <1>4, <1>5, <1>8 DEF OtherStep
<1>9. ASSUME Evict PROVE Goal
  <2>1. \/ call'[c] = call[c]
        \/ call'[c] = [call[c] EXCEPT !.pc = "done", !.data = None, !.res = "crashed"]
    BY <1>9 DEF Evict
  <2> QED
    BY <1>0, <2>1 DEF Calls
<1>10. ASSUME NEW h \in Handlers, Beside(h) PROVE Goal
  BY <1>1, <1>10, BesideIsOutside DEF Outside, ApiIInv
<1>11. ASSUME NEW h \in Handlers, Store(h) \/ StoreRefused(h) PROVE Goal
  BY <1>1, <1>11 DEF Store, StoreRefused, StoreReport, StoreReportFails
<1>12. ASSUME UNCHANGED apiVars \/ \E r \in late : Land(r) PROVE Goal
  BY <1>1, <1>12 DEF apiVars, vars, Land
<1> HIDE DEF Goal
<1>13. ASSUME NEW h \in Handlers,
              TransitionStep(h) \/ ProbeFails(h) \/ StoreFails(h)
       PROVE  Goal
  BY <1>0, <1>3, <1>13 DEF Failure
<1>14. Goal
  BY <1>6, <1>7, <1>8, <1>9, <1>10, <1>11, <1>12, <1>13
     DEF ApiNext, HandlerStep, HandlerFails, Beside
<1> QED
  BY <1>14 DEF Goal

(* Only the request that holds an id seals a report under it.              *)
LEMMA SealedByItsRequest ==
  ASSUME ApiIInv, [ApiNext]_apiVars, NEW id \in Ids, sealed'[id] # sealed[id]
  PROVE  \E h \in Handlers : /\ Store(h) \/ StoreRefused(h)
                             /\ req[h].id = id
<1>1. ASSUME NEW h \in Handlers, Beside(h) PROVE UNCHANGED sealed
  BY <1>1, BesideIsOutside DEF Outside, ApiIInv
<1>2. ASSUME NEW h \in Handlers, Store(h) \/ StoreRefused(h) PROVE req[h].id = id
  BY <1>2 DEF Store, StoreRefused, StoreReport, StoreReportFails, ApiIInv, IInv, TypeOK
<1>3. ASSUME NEW c \in Callers, TransitionStep(c) \/ Failure(c) \/ Retry(c) \/ GiveUp(c)
                                  \/ \E i, to : Begin(c, i, to)
      PROVE  UNCHANGED sealed
  BY <1>3 DEF TransitionStep, Failure, GetSource, ProbeFinds, ProbeMisses, PutDestination,
     DeleteSource, ProbeFails, StoreFails, Crash, Retry, GiveUp, Begin, storeVars
<1>4. ASSUME NEW h \in Handlers, Remove(h) \/ Removed(h) PROVE UNCHANGED sealed
  BY <1>3, <1>4, HandlersAssumption DEF Remove, Removed, storeVars
<1>5. ASSUME NEW c \in Callers, OtherStep(c) PROVE UNCHANGED sealed
  BY <1>3, <1>5 DEF OtherStep
<1>6. CASE Evict \/ UNCHANGED apiVars \/ \E r \in late : Land(r)
  BY <1>6 DEF Evict, apiVars, vars, Land
<1> QED
  BY <1>1, <1>2, <1>3, <1>4, <1>5, <1>6, HandlersAssumption
     DEF ApiNext, HandlerStep, HandlerFails, Beside, Failure

-----------------------------------------------------------------------------
(* An id is held alone until it is sealed: others only take up ids that    *)
(* are in the bucket, that are nobody's, or that they had.                 *)
LEMMA AloneStep ==
  ASSUME ApiIInv, [ApiNext]_apiVars, NEW g \in Handlers
  PROVE  HoldsItAlone(g)'
<1>0. /\ req \in [Handlers -> Reqs]
      /\ \A h \in Handlers : HoldsItAlone(h) /\ RequestIsSound(h)
      /\ \A id \in Ids : Stored(id) => sealed[id] # None
      /\ \A c \in Callers : call[c] \in Calls
      /\ Handlers \subseteq Callers
  <2>1. \A id \in Ids : Stored(id) => sealed[id] # None
    BY Typed DEF CopiesAreFaithful, Stored, Statuses
  <2> QED
    BY <2>1, Typed, HandlersAssumption DEF ApiIInv, ApiTypeOK, RequestsAreSound
<1>1. CASE \E h \in Handlers : Arrive(h) \/ Resend(h)
  <2>1. PICK h \in Handlers : Arrive(h) \/ Resend(h)
    BY <1>1
  <2>2. UNCHANGED <<objects, sealed, call>>
    BY <2>1 DEF Arrive, Resend, Request, vars
  <2>3. PICK op, id, bearer, flawed :
          /\ Request(h, op, id, bearer, flawed)
          /\ \/ op = "ingest" /\ id \in Ids /\ Minted(id)
             \/ op = "remove" /\ id \in Ids /\ Named(id)
             \/ op = "remove" /\ id = call[h].id /\ Failed(h)
    BY <2>1 DEF Arrive, Resend
  <2> DEFINE r == [NoRequest EXCEPT !.pc = "telemetry", !.op = op, !.id = id,
                                    !.bearer = bearer, !.flawed = flawed]
  <2>4. req' = [req EXCEPT ![h] = r] /\ r.id = id /\ r.op = op
    BY <2>3 DEF Request, NoRequest
  <2> HIDE DEF r
  <2>5. CASE g = h
    <3>1. op = "ingest" => Fresh(id) /\ \A i \in Handlers : req[i].id # id
      BY <2>3 DEF Minted
    <3>2. req'[g] = r /\ \A i \in Handlers \ {g} : req'[i] = req[i]
      BY <1>0, <2>4, <2>5
    <3> QED
      BY <2>2, <2>4, <3>1, <3>2 DEF HoldsItAlone, Fresh
  <2>6. CASE g # h
    <3>1. req'[g] = req[g] /\ req'[h] = r /\ \A i \in Handlers \ {h} : req'[i] = req[i]
      BY <1>0, <2>4, <2>6
    <3>2. SUFFICES ASSUME req[g].op = "ingest", req[g].pc \in Unsealed
                   PROVE  id # req[g].id
      BY <1>0, <2>2, <2>4, <3>1 DEF HoldsItAlone, Fresh
    <3>3. Fresh(req[g].id) /\ Open(g) /\ req[g].id \in Ids
      BY <1>0, <3>2 DEF HoldsItAlone, Open, Unsealed, RequestIsSound
    <3>4. CASE Minted(id)
      BY <3>4 DEF Minted
    <3>5. CASE id \in Ids /\ Named(id)
      BY <1>0, <3>2, <3>3, <3>5 DEF Named, Storing, Fresh
    <3>6. CASE id = call[h].id
      BY <1>0, <3>3, <3>6 DEF Fresh
    <3> QED
      BY <2>3, <3>4, <3>5, <3>6
  <2> QED
    BY <2>5, <2>6
<1>2. CASE \A h \in Handlers : ~Arrive(h) /\ ~Resend(h)
  <2> SUFFICES ASSUME req'[g].op = "ingest", req'[g].pc \in Unsealed
               PROVE  Fresh(req[g].id)' /\ \A h \in Handlers \ {g} : req'[h].id # req'[g].id
    BY DEF HoldsItAlone, Fresh
  <2>1. \A h \in Handlers : GoesOn(h) \/ req'[h] = NoRequest
    BY <1>2, RequestsGoOn
  <2>2. GoesOn(g) /\ req[g].op = "ingest" /\ req[g].pc \in Unsealed /\ req'[g].id = req[g].id
    BY <2>1 DEF GoesOn, NoRequest, Unsealed
  <2>3. /\ Fresh(req[g].id) /\ req[g].id \in Ids /\ req[g].id # None
        /\ \A h \in Handlers \ {g} : req[h].id # req[g].id
    BY <1>0, <2>2, NoneAssumption DEF HoldsItAlone, RequestIsSound, Unsealed
  <2>4. \A h \in Handlers \ {g} : req'[h].id # req'[g].id
    BY <2>1, <2>2, <2>3 DEF GoesOn, NoRequest
  <2>5. sealed'[req[g].id] = None
    <3>1. SUFFICES ASSUME sealed'[req[g].id] # sealed[req[g].id] PROVE FALSE
      BY <2>3 DEF Fresh
    <3>2. Store(g) \/ StoreRefused(g)
      <4>1. PICK h \in Handlers : (Store(h) \/ StoreRefused(h)) /\ req[h].id = req[g].id
        BY <2>3, <3>1, SealedByItsRequest
      <4>2. h = g
        BY <2>3, <4>1
      <4> QED
        BY <4>1, <4>2
    <3>3. req'[g].pc = "finish"
      <4>1. PICK status : Answer(g, status)
        BY <3>2 DEF Store, StoreRefused
      <4>2. req' = [req EXCEPT ![g] = [req[g] EXCEPT !.pc = "finish", !.status = status]]
        BY <4>1 DEF Answer
      <4>3. [req[g] EXCEPT !.pc = "finish", !.status = status].pc = "finish"
        BY <1>0 DEF Reqs
      <4> QED
        BY <1>0, <4>2, <4>3
    <3> QED
      BY <3>3 DEF Unsealed
  <2>6. ASSUME NEW c \in Callers PROVE call'[c].id # req[g].id
    BY <1>0, <2>2, <2>3, CallIds DEF Fresh
  <2> QED
    BY <2>2, <2>4, <2>5, <2>6 DEF Fresh
<1> QED
  BY <1>1, <1>2

-----------------------------------------------------------------------------
(* An id that a request has sealed, been refused for or only names is not  *)
(* sealed by another, nor is the id of a call.                             *)
LEMMA NotSealedNow ==
  ASSUME ApiIInv, [ApiNext]_apiVars, NEW id \in Ids,
         \/ \E g \in Handlers : req[g].id = id /\ req[g].pc # "store"
         \/ \E c \in Callers : call[c].id = id
  PROVE  sealed'[id] = sealed[id]
<1> SUFFICES ASSUME sealed'[id] # sealed[id] PROVE FALSE
  OBVIOUS
<1>1. PICK h \in Handlers : (Store(h) \/ StoreRefused(h)) /\ req[h].id = id
  BY SealedByItsRequest
<1>2. req[h].pc = "store" /\ req[h].op = "ingest"
  BY <1>1 DEF Store, StoreRefused, ApiIInv, RequestsAreSound, RequestIsSound
<1>3. Fresh(id) /\ \A g \in Handlers \ {h} : req[g].id # id
  BY <1>1, <1>2 DEF ApiIInv, RequestsAreSound, HoldsItAlone, Unsealed
<1> QED
  BY <1>2, <1>3 DEF Fresh

(* So what is off pending stays off it.                                    *)
LEMMA OffStays ==
  ASSUME ApiIInv, [ApiNext]_apiVars, NEW id \in Ids, OffPending(id),
         \/ \E g \in Handlers : req[g].id = id /\ req[g].pc # "store"
         \/ \E c \in Callers : call[c].id = id
  PROVE  OffPending(id)'
<1>1. sealed'[id] = sealed[id]
  BY NotSealedNow
<1>2. Gone(id) => Gone(id)'
  BY ApiSettles DEF Settles
<1> QED
  BY <1>1, <1>2 DEF OffPending

(* What is known of a request and its call survives the steps of others.   *)
LEMMA OthersKeep ==
  ASSUME ApiIInv, [ApiNext]_apiVars, asked \subseteq asked', UNCHANGED token,
         NEW g \in Handlers, req'[g] = req[g], span'[g] = span[g]
  PROVE  /\ RequestIsSound(g)'
         /\ AnswerIsFounded(g)'
         /\ call'[g] = call[g] => CallIsItsOwn(g)'
<1>0. /\ RequestIsSound(g) /\ AnswerIsFounded(g) /\ CallIsItsOwn(g) /\ CallIsSound(g)
      /\ call[g] \in Calls /\ g \in Callers
  BY Typed DEF ApiIInv, RequestsAreSound, CallsAreSound
<1>1. RequestIsSound(g)'
  BY <1>0 DEF RequestIsSound, Authorized
<1>2. Settles
  BY ApiSettles
<1>3. AnswerIsFounded(g)'
  <2> SUFFICES ASSUME req[g].pc \in {"finish", "answered"}
               PROVE  AnswerIsFounded(g)'
    BY DEF AnswerIsFounded
  <2>1. req[g].id \in Ids /\ req[g].pc # "store"
    BY <1>0 DEF RequestIsSound
  <2>2. sealed'[req[g].id] = sealed[req[g].id]
    BY <2>1, NotSealedNow
  <2>3. OffPending(req[g].id) => OffPending(req[g].id)'
    BY <2>1, OffStays
  <2>4. Stored(req[g].id) => Stored(req[g].id)'
    BY <1>2, <2>1 DEF Settles
  <2>5. acked \subseteq acked'
    BY <1>2 DEF Settles
  <2> QED
    BY <1>0, <2>2, <2>3, <2>4, <2>5 DEF AnswerIsFounded, Stored, OffPending, Gone
<1>4. ASSUME call'[g] = call[g] PROVE CallIsItsOwn(g)'
  <2>1. acked \subseteq acked'
    BY <1>2 DEF Settles
  <2>2. call[g].pc = "done" => call[g].id \in Ids
    BY <1>0 DEF CallIsSound
  <2>3. ASSUME NEW id \in Ids, id = call[g].id, OffPending(id) PROVE OffPending(id)'
    BY <1>0, <2>3, OffStays
  <2> QED
    BY <1>0, <1>4, <2>1, <2>2, <2>3
       DEF CallIsItsOwn, OffPending, Gone, Stored, Open, Failed
<1> QED
  BY <1>1, <1>3, <1>4

(* A request that is not waiting for its call has nothing new to know of it.*)
LEMMA OwnCallKept ==
  ASSUME ApiIInv, [ApiNext]_apiVars, NEW h \in Handlers, UNCHANGED call,
         req[h].pc # "call", req'[h].pc # "call",
         Open(h)' /\ Failed(h) => req'[h].op = "remove" /\ req'[h].id = call[h].id
  PROVE  CallIsItsOwn(h)'
<1>0. CallIsItsOwn(h) /\ CallIsSound(h) /\ h \in Callers
  BY Typed DEF ApiIInv, RequestsAreSound, CallsAreSound
<1>1. acked \subseteq acked'
  BY ApiSettles DEF Settles
<1>2. call[h].pc = "done" => call[h].id \in Ids
  BY <1>0 DEF CallIsSound
<1>3. ASSUME NEW id \in Ids, id = call[h].id, OffPending(id) PROVE OffPending(id)'
  BY <1>0, <1>3, OffStays
<1> QED
  BY <1>0, <1>1, <1>2, <1>3 DEF CallIsItsOwn, OffPending, Gone, Stored, Failed

(* The fields of a request after an answer is written to it.               *)
LEMMA AnswerIs ==
  ASSUME ApiIInv, NEW h \in Handlers, NEW status \in Answers, Answer(h, status)
  PROVE  /\ req'[h].pc = "finish" /\ req'[h].status = status
         /\ req'[h].op = req[h].op /\ req'[h].id = req[h].id /\ req'[h].bearer = req[h].bearer
         /\ req'[h].flawed = req[h].flawed
         /\ \A g \in Handlers \ {h} : req'[g] = req[g]
<1>1. req \in [Handlers -> Reqs] /\ req[h] \in Reqs
  BY Typed DEF ApiIInv, ApiTypeOK
<1>2. req' = [req EXCEPT ![h] = [req[h] EXCEPT !.pc = "finish", !.status = status]]
  BY DEF Answer
<1>3. req'[h] = [req[h] EXCEPT !.pc = "finish", !.status = status]
  BY <1>1, <1>2
<1> QED
  BY <1>1, <1>2, <1>3 DEF Reqs

(* What is known of the request of an Arrive or a Resend.                  *)
LEMMA ArriveIs ==
  ASSUME ApiIInv, [ApiNext]_apiVars, NEW h \in Handlers, Arrive(h) \/ Resend(h)
  PROVE  /\ RequestIsSound(h)' /\ AnswerIsFounded(h)' /\ CallIsItsOwn(h)'
         /\ \A g \in Handlers \ {h} : req'[g] = req[g] /\ span'[g] = span[g]
         /\ UNCHANGED <<call, token>> /\ asked \subseteq asked'
<1>0. /\ req \in [Handlers -> Reqs] /\ span \in [Handlers -> Outcomes]
      /\ CallIsSound(h)
  BY Typed DEF ApiIInv, ApiTypeOK, CallsAreSound
<1>1. UNCHANGED <<call, token>> /\ ~Open(h)
  BY DEF Arrive, Resend, Request, vars
<1>2. PICK op, id, bearer, flawed :
        /\ Request(h, op, id, bearer, flawed)
        /\ op \in {"ingest", "remove"} /\ id \in Ids
        /\ Failed(h) => op = "remove" /\ id = call[h].id
  BY <1>0 DEF Arrive, Resend, Failed, CallIsSound
<1> DEFINE r == [NoRequest EXCEPT !.pc = "telemetry", !.op = op, !.id = id,
                                  !.bearer = bearer, !.flawed = flawed]
<1>3. /\ req' = [req EXCEPT ![h] = r]
      /\ r.pc = "telemetry" /\ r.op = op /\ r.id = id /\ r.bearer = bearer
  BY <1>2 DEF Request, NoRequest
<1> HIDE DEF r
<1>4. req'[h] = r /\ \A g \in Handlers \ {h} : req'[g] = req[g]
  BY <1>0, <1>3
<1>5. span'[h] = "none" /\ \A g \in Handlers \ {h} : span'[g] = span[g]
  BY <1>0, <1>2 DEF Request
<1>6. asked \subseteq asked' /\ (op = "remove" /\ bearer = "right" => id \in asked')
  BY <1>2 DEF Request
<1>7. RequestIsSound(h)'
  BY <1>2, <1>3, <1>4, <1>5, <1>6 DEF RequestIsSound
<1>8. AnswerIsFounded(h)'
  BY <1>3, <1>4 DEF AnswerIsFounded
<1>9. CallIsItsOwn(h)'
  BY <1>1, <1>2, <1>3, <1>4, OwnCallKept DEF Open
<1> QED
  BY <1>1, <1>4, <1>5, <1>6, <1>7, <1>8, <1>9

(* A request on its way to an answer keeps its report, its token and its   *)
(* unexported span.                                                        *)
LEMMA MoveKeeps ==
  ASSUME ApiIInv, [ApiNext]_apiVars, NEW h \in Handlers, Open(h), GoesOn(h),
         UNCHANGED <<asked, token>>, span'[h] = span[h],
         req'[h].pc \notin {"idle", "answered"}, 
         req'[h].pc = "store" => req[h].op = "ingest" /\ ~req'[h].flawed,
         req'[h].pc \in {"token", "act", "call"} => req[h].op = "remove",
         req'[h].pc = "act" => Authorized(h)'
  PROVE  RequestIsSound(h)'
<1>0. RequestIsSound(h)
  BY DEF ApiIInv, RequestsAreSound
<1> QED
  BY <1>0 DEF RequestIsSound, GoesOn, Open

(* What a step of one request leaves behind: what is known of it and of    *)
(* its call holds again, and the others are as they were.                  *)
OwnStep(h) ==
    /\ RequestIsSound(h)' /\ AnswerIsFounded(h)' /\ CallIsItsOwn(h)'
    /\ \A g \in Handlers \ {h} : /\ req'[g] = req[g] /\ span'[g] = span[g]
                                 /\ call'[g] = call[g]
    /\ asked \subseteq asked' /\ UNCHANGED token

(* A step that moves a request on without an answer or a call.             *)
LEMMA MoveOn ==
  ASSUME ApiIInv, [ApiNext]_apiVars, NEW h \in Handlers, Open(h), UNCHANGED <<call, asked, token, span>>,
         NEW pc \in {"headers", "serve", "token", "act"}, req[h].pc \notin {"call", "finish"},
         NEW traced, 
         \/ req' = [req EXCEPT ![h].pc = pc]
         \/ req' = [req EXCEPT ![h].pc = pc, ![h].traced = traced],
         pc \in {"headers", "serve"} => req[h].pc \in Unsealed,
         pc \in {"token", "act"} => req[h].op = "remove",
         pc = "act" => Authorized(h)
  PROVE  OwnStep(h)
<1>0. req \in [Handlers -> Reqs] /\ req[h] \in Reqs /\ CallIsItsOwn(h)
  BY Typed DEF ApiIInv, ApiTypeOK, RequestsAreSound
<1>1. \A g \in Handlers \ {h} : req'[g] = req[g]
  BY <1>0
<1>2. /\ req'[h].pc = pc /\ req'[h].op = req[h].op /\ req'[h].id = req[h].id
      /\ req'[h].bearer = req[h].bearer
  <2>1. \/ req'[h] = [req[h] EXCEPT !.pc = pc]
        \/ req'[h] = [req[h] EXCEPT !.pc = pc, !.traced = traced]
    BY <1>0
  <2> QED
    BY <1>0, <2>1 DEF Reqs
<1>3. GoesOn(h)
  BY <1>2 DEF GoesOn, Unsealed
<1>4. Authorized(h)' <=> Authorized(h)
  BY <1>2 DEF Authorized
<1>5. RequestIsSound(h)'
  BY <1>2, <1>3, <1>4, MoveKeeps
<1>6. AnswerIsFounded(h)'
  BY <1>2 DEF AnswerIsFounded
<1>7. CallIsItsOwn(h)'
  BY <1>0, <1>2, OwnCallKept DEF CallIsItsOwn
<1> QED
  BY <1>1, <1>5, <1>6, <1>7 DEF OwnStep

(* A step that writes an answer which no call was made for.                *)
LEMMA AnswerOn ==
  ASSUME ApiIInv, [ApiNext]_apiVars, NEW h \in Handlers, Open(h), UNCHANGED <<call, asked, token, span>>,
         req[h].pc # "call", NEW status \in Answers, Answer(h, status), AnswerIsFounded(h)'
  PROVE  OwnStep(h)
<1>0. CallIsItsOwn(h)
  BY DEF ApiIInv, RequestsAreSound
<1>1. GoesOn(h)
  BY AnswerIs DEF GoesOn, Unsealed
<1>2. RequestIsSound(h)'
  BY <1>1, AnswerIs, MoveKeeps
<1>3. req'[h].pc = "finish" /\ req'[h].op = req[h].op /\ req'[h].id = req[h].id
  BY AnswerIs
<1>4. CallIsItsOwn(h)'
  BY <1>0, <1>3, OwnCallKept DEF CallIsItsOwn
<1> QED
  BY <1>2, <1>4, AnswerIs DEF OwnStep

(* The telemetry of a request and the checks of the admin API move it on.  *)
LEMMA PassesOn ==
  ASSUME ApiIInv, [ApiNext]_apiVars, NEW h \in Handlers,
         HasProvider(h) \/ ReadHeaders(h) \/ BuildProvider(h) \/ BuildBareProvider(h)
           \/ Dispatch(h) \/ Authorize(h)
  PROVE  OwnStep(h)
<1>1. UNCHANGED <<call, asked, token, span>>
  BY DEF HasProvider, ReadHeaders, BuildProvider, BuildBareProvider, Dispatch, Authorize, vars
<1>2. CASE HasProvider(h) \/ BuildProvider(h) \/ BuildBareProvider(h)
  <2>1. PICK traced : Traced(h, traced)
    BY <1>2 DEF HasProvider, BuildProvider, BuildBareProvider
  <2>2. req[h].pc \in {"telemetry", "headers"}
    BY <1>2 DEF HasProvider, BuildProvider, BuildBareProvider
  <2> QED
    BY <1>1, <2>1, <2>2, MoveOn DEF Traced, Open, Unsealed
<1>3. CASE ReadHeaders(h)
  <2>1. req[h].pc = "telemetry" /\ req' = [req EXCEPT ![h].pc = "headers"]
    BY <1>3 DEF ReadHeaders
  <2> QED
    BY <1>1, <2>1, MoveOn DEF Open, Unsealed
<1>4. CASE Dispatch(h)
  <2>1. req[h].pc = "serve" /\ req[h].op = "remove"
    BY <1>4 DEF Dispatch
  <2>2. CASE req[h].flawed
    <3>1. Answer(h, 405)
      BY <1>4, <2>2 DEF Dispatch
    <3>2. AnswerIsFounded(h)'
      <4>1. PICK status \in Answers : status = 405 /\ Answer(h, status)
        BY <3>1 DEF Answers
      <4>2. req'[h].status = status /\ req'[h].op = "remove"
        BY <2>1, <4>1, AnswerIs
      <4> QED
        BY <4>1, <4>2 DEF AnswerIsFounded
    <3> QED
      BY <1>1, <2>1, <3>1, <3>2, AnswerOn DEF Open, Answers
  <2>3. CASE ~req[h].flawed
    <3>1. req' = [req EXCEPT ![h].pc = "token"]
      BY <1>4, <2>3 DEF Dispatch
    <3> QED
      BY <1>1, <2>1, <3>1, MoveOn DEF Open
  <2> QED
    BY <2>2, <2>3
<1>5. CASE Authorize(h)
  <2>1. req[h].pc = "token" /\ req[h].op = "remove"
    BY <1>5 DEF Authorize, ApiIInv, RequestsAreSound, RequestIsSound
  <2>2. CASE Authorized(h)
    <3>1. req' = [req EXCEPT ![h].pc = "act"]
      BY <1>5, <2>2 DEF Authorize
    <3> QED
      BY <1>1, <2>1, <2>2, <3>1, MoveOn DEF Open
  <2>3. CASE ~Authorized(h)
    <3>1. Answer(h, 401)
      BY <1>5, <2>3 DEF Authorize
    <3>2. AnswerIsFounded(h)'
      <4>1. PICK status \in Answers : status = 401 /\ Answer(h, status)
        BY <3>1 DEF Answers
      <4>2. req'[h].status = status /\ req'[h].op = "remove"
        BY <2>1, <4>1, AnswerIs
      <4> QED
        BY <4>1, <4>2 DEF AnswerIsFounded
    <3> QED
      BY <1>1, <2>1, <3>1, <3>2, AnswerOn DEF Open, Answers
  <2> QED
    BY <2>2, <2>3
<1> QED
  BY <1>2, <1>3, <1>4, <1>5

(* The checks of the ingest endpoint refuse a report before it is sealed,  *)
(* and nothing is wrong with one they let through.                         *)
LEMMA IngestedOn ==
  ASSUME ApiIInv, [ApiNext]_apiVars, NEW h \in Handlers, Ingested(h)
  PROVE  OwnStep(h)
<1>0. /\ req \in [Handlers -> Reqs] /\ req[h] \in Reqs
      /\ req[h].pc = "serve" /\ req[h].op = "ingest" /\ Open(h)
      /\ HoldsItAlone(h) /\ RequestIsSound(h) /\ CallIsItsOwn(h)
  BY Typed DEF ApiIInv, ApiTypeOK, RequestsAreSound, Ingested, Open
<1>1. UNCHANGED <<sealed, call, asked, token, span>>
  BY DEF Ingested, vars
<1>2. PICK flaws \in SUBSET Flaws :
        req' = [req EXCEPT ![h].pc = IF Refusal(flaws) = 0 THEN "store" ELSE "finish",
                           ![h].status = Refusal(flaws),
                           ![h].flawed = flaws # {}]
  BY DEF Ingested
<1>3. /\ Refusal(flaws) \in {0, 400, 405, 413, 415}
      /\ Refusal(flaws) = 0 => flaws = {}
  BY DEF Refusal, Flaws
<1> DEFINE pc == IF Refusal(flaws) = 0 THEN "store" ELSE "finish"
           flawed == flaws # {}
           status == Refusal(flaws)
<1>4. req' = [req EXCEPT ![h] = [req[h] EXCEPT !.pc = pc, !.status = status, !.flawed = flawed]]
  BY <1>2
<1>5. pc = "store" => ~flawed
  BY <1>3
<1>6. pc \in {"store", "finish"} /\ (pc = "finish" => status \in {400, 405, 413, 415})
  BY <1>3
<1> HIDE DEF pc, flawed, status
<1>7. /\ req'[h].pc = pc /\ req'[h].status = status /\ req'[h].flawed = flawed
      /\ req'[h].op = req[h].op /\ req'[h].id = req[h].id /\ req'[h].bearer = req[h].bearer
      /\ \A g \in Handlers \ {h} : req'[g] = req[g]
  BY <1>0, <1>4 DEF Reqs
<1>8. GoesOn(h)
  BY <1>0, <1>7 DEF GoesOn, Unsealed
<1>9. RequestIsSound(h)'
  BY <1>0, <1>1, <1>5, <1>6, <1>7, <1>8, MoveKeeps
<1>10. AnswerIsFounded(h)'
  BY <1>0, <1>1, <1>6, <1>7 DEF AnswerIsFounded, HoldsItAlone, Unsealed, Fresh
<1>11. CallIsItsOwn(h)'
  BY <1>0, <1>1, <1>6, <1>7, OwnCallKept DEF CallIsItsOwn
<1> QED
  BY <1>1, <1>7, <1>9, <1>10, <1>11 DEF OwnStep

(* Storing a report is answered 202 once it is in the bucket; every        *)
(* failure is answered 503.                                                *)
LEMMA StoredOn ==
  ASSUME ApiIInv, [ApiNext]_apiVars, NEW h \in Handlers,
         Store(h) \/ StoreRefused(h) \/ SealFails(h) \/ AdminFails(h)
  PROVE  OwnStep(h)
<1>0. RequestIsSound(h) /\ TypeOK
  BY Typed DEF ApiIInv, RequestsAreSound
<1>1. UNCHANGED <<call, asked, token, span>>
  BY DEF Store, StoreRefused, SealFails, AdminFails, StoreReport, StoreReportFails
<1>2. Open(h) /\ req[h].pc # "call"
  BY DEF Store, StoreRefused, SealFails, AdminFails, Open
<1>3. CASE Store(h)
  <2>1. /\ Answer(h, 202) /\ req[h].op = "ingest" /\ ~req[h].flawed /\ req[h].id \in Ids
    BY <1>0, <1>3 DEF Store, RequestIsSound
  <2>2. PICK f \in Frames : StoreReport(req[h].id, f)
    BY <1>3 DEF Store
  <2>3. objects'["pending"][req[h].id] # None
    BY <1>0, <2>1, <2>2, NoneAssumption DEF StoreReport, TypeOK, Statuses
  <2>4. PICK status \in Answers : status = 202 /\ Answer(h, status)
    BY <2>1 DEF Answers
  <2>5. /\ req'[h].status = 202 /\ req'[h].op = "ingest" /\ ~req'[h].flawed
        /\ req'[h].id = req[h].id
    BY <2>1, <2>4, AnswerIs
  <2>6. AnswerIsFounded(h)'
    BY <2>3, <2>5 DEF AnswerIsFounded, Stored, Statuses
  <2> QED
    BY <1>1, <1>2, <2>4, <2>6, AnswerOn
<1>4. CASE StoreRefused(h) \/ SealFails(h) \/ AdminFails(h)
  <2>1. PICK status \in Answers : status = 503 /\ Answer(h, status)
    BY <1>4 DEF StoreRefused, SealFails, AdminFails, Answers
  <2>2. req'[h].status = 503
    BY <2>1, AnswerIs
  <2>3. AnswerIsFounded(h)'
    BY <2>2 DEF AnswerIsFounded
  <2> QED
    BY <1>1, <1>2, <2>1, <2>3, AnswerOn
<1> QED
  BY <1>3, <1>4

(* The request is closed and its span exported; the answer is as it was.   *)
LEMMA FinishOn ==
  ASSUME ApiIInv, [ApiNext]_apiVars, NEW h \in Handlers, Finish(h)
  PROVE  OwnStep(h)
<1>0. /\ req \in [Handlers -> Reqs] /\ req[h] \in Reqs /\ span \in [Handlers -> Outcomes]
      /\ RequestIsSound(h) /\ AnswerIsFounded(h) /\ CallIsItsOwn(h)
  BY Typed DEF ApiIInv, ApiTypeOK, RequestsAreSound
<1>1. /\ UNCHANGED <<objects, sealed, call, acked, asked, token>> /\ req[h].pc = "finish"
      /\ \A g \in Handlers \ {h} : span'[g] = span[g]
  BY <1>0 DEF Finish, vars
<1>2. req' = [req EXCEPT ![h] = [req[h] EXCEPT !.pc = "answered", !.bearer = "empty",
                                               !.traced = FALSE]]
  BY DEF Finish, Close
<1>3. \A g \in Handlers \ {h} : req'[g] = req[g]
  BY <1>0, <1>2
<1>4. /\ req'[h].pc = "answered" /\ req'[h].bearer = "empty" /\ req'[h].status = req[h].status
      /\ req'[h].op = req[h].op /\ req'[h].id = req[h].id /\ req'[h].flawed = req[h].flawed
  BY <1>0, <1>2 DEF Reqs
<1>5. RequestIsSound(h)'
  BY <1>0, <1>1, <1>4 DEF RequestIsSound
<1>6. AnswerIsFounded(h)'
  BY <1>0, <1>1, <1>4 DEF AnswerIsFounded, OffPending, Gone, Stored
<1>7. CallIsItsOwn(h)'
  BY <1>0, <1>1, <1>4, OwnCallKept DEF CallIsItsOwn, Open
<1> QED
  BY <1>1, <1>3, <1>5, <1>6, <1>7 DEF OwnStep

(* A request that may act calls MarkRemoved for its report.                *)
LEMMA RemoveOn ==
  ASSUME ApiIInv, [ApiNext]_apiVars, NEW h \in Handlers, Remove(h)
  PROVE  OwnStep(h)
<1>0. /\ req \in [Handlers -> Reqs] /\ req[h] \in Reqs /\ call \in [Callers -> Calls]
      /\ h \in Callers /\ Handlers \subseteq Callers
      /\ RequestIsSound(h) /\ CallIsItsOwn(h) /\ req[h].pc = "act" /\ Open(h)
  BY Typed, HandlersAssumption DEF ApiIInv, ApiTypeOK, RequestsAreSound, Remove, IInv, TypeOK, Open
<1>1. UNCHANGED <<asked, span, token>>
  BY DEF Remove
<1>2. req' = [req EXCEPT ![h] = [req[h] EXCEPT !.pc = "call"]]
  BY DEF Remove
<1>3. \A g \in Handlers \ {h} : req'[g] = req[g]
  BY <1>0, <1>2
<1>4. /\ req'[h].pc = "call" /\ req'[h].op = req[h].op /\ req'[h].id = req[h].id
      /\ req'[h].bearer = req[h].bearer
  BY <1>0, <1>2 DEF Reqs
<1>5. GoesOn(h)
  BY <1>4 DEF GoesOn, Unsealed
<1>6. RequestIsSound(h)'
  BY <1>0, <1>1, <1>4, <1>5, MoveKeeps DEF RequestIsSound
<1>7. AnswerIsFounded(h)'
  BY <1>4 DEF AnswerIsFounded
<1>8. call' = [call EXCEPT ![h] = Calling(req[h].id, "removed")]
  BY <1>0 DEF Remove, Begin, Retry, CallIsItsOwn
<1>9. /\ call'[h].pc = "get" /\ call'[h].id = req[h].id /\ call'[h].to = "removed"
      /\ call'[h].res = "none"
      /\ \A g \in Handlers \ {h} : call'[g] = call[g]
  BY <1>0, <1>8 DEF Calling
<1>10. CallIsItsOwn(h)'
  BY <1>4, <1>9 DEF CallIsItsOwn, Failed
<1> QED
  BY <1>1, <1>3, <1>6, <1>7, <1>9, <1>10 DEF OwnStep

(* The fields of a call after it returned.                                 *)
LEMMA ReturnIs ==
  ASSUME TypeOK, NEW c \in Callers, NEW res, Return(c, res)
  PROVE  /\ call'[c].pc = "done" /\ call'[c].res = res
         /\ call'[c].id = call[c].id /\ call'[c].to = call[c].to
         /\ \A d \in Callers \ {c} : call'[d] = call[d]
<1>1. call \in [Callers -> Calls] /\ call[c] \in Calls
  BY DEF TypeOK
<1>2. call' = [call EXCEPT ![c] = [call[c] EXCEPT !.pc = "done", !.data = None, !.res = res]]
  BY DEF Return
<1> QED
  BY <1>1, <1>2 DEF Calls

(* The steps of its call tell a request what stays true: nil that the      *)
(* report is acknowledged, unknown that it is off pending, also when the   *)
(* probe failed.                                                           *)
LEMMA CallOn ==
  ASSUME ApiIInv, [ApiNext]_apiVars, NEW h \in Handlers,
         TransitionStep(h) \/ ProbeFails(h) \/ StoreFails(h),
         UNCHANGED <<requestVars, token>>
  PROVE  OwnStep(h)
<1>0. /\ call \in [Callers -> Calls] /\ call[h] \in Calls /\ TypeOK
      /\ h \in Callers /\ Handlers \subseteq Callers
      /\ RequestIsSound(h) /\ CallIsItsOwn(h) /\ CallIsSound(h)
  BY Typed, HandlersAssumption DEF ApiIInv, IInv, TypeOK, RequestsAreSound, CallsAreSound
<1>1. call[h].pc \in InFlight /\ call[h].id \in Ids /\ call[h].to = "removed"
  BY <1>0 DEF TransitionStep, GetSource, ProbeFinds, ProbeMisses, PutDestination, DeleteSource,
     ProbeFails, StoreFails, InFlight, CallIsSound, CallIsItsOwn
<1>2. req[h].pc = "call" /\ req[h].op = "remove" /\ call[h].id = req[h].id
  BY <1>0, <1>1 DEF CallIsItsOwn, RequestIsSound
<1>3. UNCHANGED <<req, asked, span, token>>
  BY DEF requestVars
<1>4. RequestIsSound(h)' /\ AnswerIsFounded(h)'
  BY <1>3, OthersKeep
(* The call goes on.                                                       *)
<1>5. ASSUME GetSource(h) \/ PutDestination(h) PROVE OwnStep(h)
  <2>1. /\ call'[h].pc \in InFlight /\ call'[h].id = call[h].id /\ call'[h].to = call[h].to
        /\ \A d \in Callers \ {h} : call'[d] = call[d]
    BY <1>0, <1>5 DEF GetSource, PutDestination, Calls, InFlight
  <2>2. CallIsItsOwn(h)'
    BY <1>1, <1>2, <1>3, <2>1 DEF CallIsItsOwn, InFlight, Failed
  <2> QED
    BY <1>0, <1>3, <1>4, <2>1, <2>2 DEF OwnStep
(* The call returns.                                                       *)
<1>6. ASSUME NEW res \in {"nil", "unknown", "error"}, Return(h, res),
             res = "nil" => <<call[h].id, "removed">> \in acked',
             res = "unknown" => OffPending(call[h].id) /\ UNCHANGED <<objects, sealed>>
      PROVE  OwnStep(h)
  <2>1. /\ call'[h].pc = "done" /\ call'[h].res = res
        /\ call'[h].id = call[h].id /\ call'[h].to = call[h].to
        /\ \A d \in Callers \ {h} : call'[d] = call[d]
    BY <1>0, <1>6, ReturnIs
  <2>2. CallIsItsOwn(h)'
    BY <1>1, <1>2, <1>3, <1>6, <2>1 DEF CallIsItsOwn, InFlight, Failed, OffPending, Gone, Stored
  <2> QED
    BY <1>0, <1>3, <1>4, <2>1, <2>2 DEF OwnStep
<1>7. ASSUME ProbeMisses(h) \/ ProbeFails(h) PROVE OwnStep(h)
  <2>1. Return(h, "unknown") /\ UNCHANGED <<objects, sealed>> /\ call[h].pc = "probe"
    BY <1>7 DEF ProbeMisses, ProbeFails, storeVars
  <2>2. OffPending(call[h].id)
    BY <1>0, <1>1, <2>1, NoneAssumption DEF CallIsSound, OffPending, Gone
  <2> QED
    BY <1>6, <2>1, <2>2
<1>8. ASSUME ProbeFinds(h) \/ DeleteSource(h) PROVE OwnStep(h)
  <2>1. Return(h, "nil") /\ <<call[h].id, "removed">> \in acked'
    BY <1>1, <1>8 DEF ProbeFinds, DeleteSource
  <2> QED
    BY <1>6, <2>1
<1>9. ASSUME StoreFails(h) PROVE OwnStep(h)
  BY <1>6, <1>9 DEF StoreFails
<1> QED
  BY <1>5, <1>7, <1>8, <1>9 DEF TransitionStep

(* The answer to a removal says what its call returned.                    *)
LEMMA RemovedOn ==
  ASSUME ApiIInv, [ApiNext]_apiVars, NEW h \in Handlers, Removed(h)
  PROVE  OwnStep(h)
<1>0. /\ call \in [Callers -> Calls] /\ call[h] \in Calls /\ TypeOK
      /\ h \in Callers /\ Handlers \subseteq Callers
      /\ RequestIsSound(h) /\ CallIsItsOwn(h) /\ CallIsSound(h)
  BY Typed, HandlersAssumption DEF ApiIInv, IInv, TypeOK, RequestsAreSound, CallsAreSound
<1>1. /\ UNCHANGED <<objects, sealed, acked, asked, span, token>>
      /\ req[h].pc = "call" /\ call[h].pc = "done" /\ req[h].op = "remove" /\ Open(h)
      /\ call[h].id = req[h].id
  BY <1>0 DEF Removed, storeVars, RequestIsSound, Open, CallIsItsOwn
<1>2. PICK status \in Answers :
        /\ Answer(h, status)
        /\ status = 200 => call[h].res = "nil"
        /\ status = 404 => call[h].res = "unknown"
  BY DEF Removed, Answers
<1>3. /\ req'[h].pc = "finish" /\ req'[h].status = status
      /\ req'[h].op = "remove" /\ req'[h].id = req[h].id /\ req'[h].bearer = req[h].bearer
      /\ \A g \in Handlers \ {h} : req'[g] = req[g]
  BY <1>1, <1>2, AnswerIs
<1>4. GoesOn(h)
  BY <1>1, <1>3 DEF GoesOn, Unsealed
<1>5. RequestIsSound(h)'
  BY <1>1, <1>3, <1>4, MoveKeeps
<1>6. AnswerIsFounded(h)'
  BY <1>0, <1>1, <1>2, <1>3 DEF AnswerIsFounded, CallIsItsOwn, OffPending, Gone, Stored
<1>7. /\ call'[h] = IF Failed(h) THEN call[h] ELSE Idle
      /\ \A g \in Handlers \ {h} : call'[g] = call[g]
  BY <1>0 DEF Removed, Forget
<1>8. CallIsItsOwn(h)'
  <2>1. CASE Failed(h)
    BY <1>0, <1>1, <1>3, <1>7, <2>1 DEF CallIsItsOwn, Failed, InFlight
  <2>2. CASE ~Failed(h)
    BY <1>3, <1>7, <2>2 DEF CallIsItsOwn, Failed, InFlight, Idle
  <2> QED
    BY <2>1, <2>2
<1> QED
  BY <1>1, <1>3, <1>5, <1>6, <1>7, <1>8 DEF OwnStep

(* An eviction takes the open requests with it; the others keep what is    *)
(* known of them, and a call that was under way has failed.                *)
LEMMA EvictedOn ==
  ASSUME ApiIInv, [ApiNext]_apiVars, Evict, NEW g \in Handlers
  PROVE  RequestIsSound(g)' /\ AnswerIsFounded(g)' /\ CallIsItsOwn(g)'
<1>0. /\ call[g] \in Calls /\ g \in Callers
      /\ RequestIsSound(g) /\ CallIsItsOwn(g) /\ CallIsSound(g)
  BY Typed DEF ApiIInv, RequestsAreSound, CallsAreSound
<1>1. UNCHANGED <<asked, token>> /\ span'[g] = span[g]
  BY DEF Evict
<1>2. req'[g] = IF Open(g) THEN NoRequest ELSE req[g]
  BY DEF Evict
<1>3. \/ call[g].pc \in InFlight /\ call'[g] = [call[g] EXCEPT !.pc = "done", !.data = None,
                                                               !.res = "crashed"]
      \/ call[g].pc \notin InFlight /\ call'[g] = call[g]
  BY <1>0 DEF Evict
<1>4. CASE ~Open(g)
  <2>1. call'[g] = call[g] /\ req'[g] = req[g]
    BY <1>0, <1>2, <1>3, <1>4 DEF CallIsItsOwn, Open
  <2> QED
    BY <1>1, <2>1, OthersKeep
<1>5. CASE Open(g)
  <2>1. req'[g] = NoRequest /\ span'[g] = "none"
    BY <1>0, <1>1, <1>2, <1>5 DEF RequestIsSound, Open
  <2>2. RequestIsSound(g)' /\ AnswerIsFounded(g)'
    BY <2>1 DEF RequestIsSound, AnswerIsFounded, NoRequest
  <2>3. CASE call'[g] = call[g] /\ call[g].pc \notin InFlight
    <3>1. acked \subseteq acked'
      BY ApiSettles DEF Settles
    <3>2. call[g].pc = "done" => call[g].id \in Ids
      BY <1>0 DEF CallIsSound
    <3>3. ASSUME NEW id \in Ids, id = call[g].id, OffPending(id) PROVE OffPending(id)'
      BY <1>0, <3>3, OffStays
    <3> QED
      BY <1>0, <2>1, <2>2, <2>3, <3>1, <3>2, <3>3
         DEF CallIsItsOwn, NoRequest, Open, OffPending, Gone, Stored
  <2>4. CASE call'[g] = [call[g] EXCEPT !.pc = "done", !.data = None, !.res = "crashed"]
    <3>1. call'[g].pc = "done" /\ call'[g].res = "crashed" /\ call'[g].to = call[g].to
      BY <1>0, <2>4 DEF Calls
    <3> QED
      BY <1>0, <2>1, <2>2, <3>1 DEF CallIsItsOwn, NoRequest, Open, InFlight
  <2> QED
    BY <1>3, <2>3, <2>4
<1> QED
  BY <1>4, <1>5

(* Every step of a request is one of these.                                *)
LEMMA HandlerOwns ==
  ASSUME ApiIInv, [ApiNext]_apiVars, NEW h \in Handlers,
         Arrive(h) \/ Resend(h) \/ HandlerStep(h) \/ HandlerFails(h)
  PROVE  OwnStep(h)
<1>1. CASE Arrive(h) \/ Resend(h)
  BY <1>1, ArriveIs DEF OwnStep
<1>2. CASE HasProvider(h) \/ ReadHeaders(h) \/ BuildProvider(h) \/ BuildBareProvider(h)
           \/ Dispatch(h) \/ Authorize(h)
  BY <1>2, PassesOn
<1>3. CASE Store(h) \/ StoreRefused(h) \/ SealFails(h) \/ AdminFails(h)
  BY <1>3, StoredOn
<1>4. CASE /\ TransitionStep(h) \/ ProbeFails(h) \/ StoreFails(h)
           /\ UNCHANGED <<requestVars, token, telemetryVars>>
  BY <1>4, CallOn
<1> QED
  BY <1>1, <1>2, <1>3, <1>4, IngestedOn, FinishOn, RemoveOn, RemovedOn
     DEF HandlerStep, HandlerFails

(* What is known of every request holds after every step.                  *)
LEMMA RequestsStep == ApiIInv /\ [ApiNext]_apiVars => RequestsAreSound'
<1> SUFFICES ASSUME ApiIInv, [ApiNext]_apiVars PROVE RequestsAreSound'
  OBVIOUS
<1> DEFINE Known == \A g \in Handlers :
                      RequestIsSound(g)' /\ AnswerIsFounded(g)' /\ CallIsItsOwn(g)'
<1>1. ASSUME NEW h \in Handlers, Arrive(h) \/ Resend(h) \/ HandlerStep(h) \/ HandlerFails(h)
      PROVE  Known
  <2>1. OwnStep(h)
    BY <1>1, HandlerOwns
  <2>2. ASSUME NEW g \in Handlers PROVE RequestIsSound(g)' /\ AnswerIsFounded(g)' /\ CallIsItsOwn(g)'
    <3>1. CASE g = h
      BY <2>1, <3>1 DEF OwnStep
    <3>2. CASE g # h
      <4>1. /\ req'[g] = req[g] /\ span'[g] = span[g] /\ call'[g] = call[g]
            /\ asked \subseteq asked' /\ UNCHANGED token
        BY <2>1, <3>2 DEF OwnStep
      <4> QED
        BY <4>1, OthersKeep
    <3> QED
      BY <3>1, <3>2
  <2> QED
    BY <2>2
<1>2. ASSUME Evict PROVE Known
  BY <1>2, EvictedOn
<1>3. ASSUME UNCHANGED <<requestVars, token>>, \A g \in Handlers : call'[g] = call[g] PROVE Known
  <2>1. ASSUME NEW g \in Handlers PROVE RequestIsSound(g)' /\ AnswerIsFounded(g)' /\ CallIsItsOwn(g)'
    BY <1>3, OthersKeep DEF requestVars
  <2> QED
    BY <2>1
<1>4. ASSUME NEW c \in Callers \ Handlers, OtherStep(c) PROVE Known
  <2>1. UNCHANGED <<requestVars, token>>
    BY <1>4 DEF OtherStep
  <2>2. \A g \in Handlers : call'[g] = call[g]
    <3>1. call \in [Callers -> Calls] /\ Handlers \subseteq Callers
      BY HandlersAssumption DEF ApiIInv, IInv, TypeOK
    <3> QED
      BY <1>4, <3>1 DEF OtherStep, Begin, GiveUp, TransitionStep, Failure, GetSource, ProbeFinds,
         ProbeMisses, PutDestination, DeleteSource, ProbeFails, StoreFails, Crash, Return
  <2> QED
    BY <1>3, <2>1, <2>2
<1>5. ASSUME NEW r \in late, Land(r) /\ UNCHANGED <<requestVars, token, telemetryVars>> PROVE Known
  BY <1>3, <1>5 DEF Land
<1>6. ASSUME UNCHANGED apiVars PROVE Known
  BY <1>3, <1>6 DEF apiVars, vars
<1> HIDE DEF Known
<1>7. Known
  BY <1>1, <1>2, <1>4, <1>5, <1>6 DEF ApiNext
<1> QED
  BY <1>7, AloneStep DEF Known, RequestsAreSound

-----------------------------------------------------------------------------
(***************************************************************************)
(* Nothing is removed that the maintainer did not ask for.                 *)
(***************************************************************************)

(* What the maintainer asked for only grows, and the token is fixed.       *)
LEMMA AskedGrows ==
  ASSUME [ApiNext]_apiVars
  PROVE  asked \subseteq asked' /\ UNCHANGED token
<1>1. ASSUME NEW h \in Handlers, Arrive(h) \/ Resend(h)
      PROVE  asked \subseteq asked' /\ UNCHANGED token
  BY <1>1 DEF Arrive, Resend, Request
<1>2. ASSUME NEW h \in Handlers, HandlerStep(h) \/ HandlerFails(h)
      PROVE  UNCHANGED <<asked, token>>
  BY <1>2 DEF HandlerStep, HandlerFails, HasProvider, ReadHeaders, BuildProvider, BuildBareProvider,
     Ingested, Store, StoreRefused, SealFails, Dispatch, Authorize, AdminFails, Remove, Removed, Finish,
     requestVars
<1>3. CASE Evict \/ UNCHANGED apiVars
  BY <1>3 DEF Evict, apiVars, requestVars
<1> QED
  BY <1>1, <1>2, <1>3 DEF ApiNext, OtherStep, requestVars

(* A call moves a report to removed because it did, or because a request   *)
(* with the right token makes it.                                          *)
LEMMA RemovalsStep == ApiIInv /\ [ApiNext]_apiVars => RemovalsAreAsked'
<1> SUFFICES ASSUME ApiIInv, [ApiNext]_apiVars, NEW c \in Callers,
                    call'[c].to = "removed", call'[c].pc # "idle"
             PROVE  call'[c].id \in asked /\ token = "right"
  BY AskedGrows DEF RemovalsAreAsked
<1> DEFINE Goal == call'[c].id \in asked /\ token = "right"
<1>0. /\ call \in [Callers -> Calls] /\ call[c] \in Calls
      /\ Handlers \subseteq Callers
      /\ token \in {"right", "empty"}
      /\ \A d \in Callers : call[d].to = "removed" /\ call[d].pc # "idle" =>
                              call[d].id \in asked /\ token = "right"
  BY HandlersAssumption DEF ApiIInv, IInv, TypeOK, ApiTypeOK, RemovalsAreAsked
<1>1. ASSUME UNCHANGED call PROVE Goal
  BY <1>0, <1>1
<1>2. ASSUME NEW d \in Callers, NEW res, Return(d, res), call[d].pc # "idle" PROVE Goal
  BY <1>0, <1>2 DEF Return, Calls
<1>3. ASSUME NEW d \in Callers, TransitionStep(d) \/ Failure(d) PROVE Goal
  <2>1. CASE GetSource(d) \/ PutDestination(d)
    BY <1>0, <2>1 DEF GetSource, PutDestination, Calls
  <2>2. CASE ~(GetSource(d) \/ PutDestination(d))
    BY <1>2, <1>3, <2>2 DEF TransitionStep, Failure, ProbeFinds, ProbeMisses, DeleteSource,
       ProbeFails, StoreFails, Crash, InFlight
  <2> QED
    BY <2>1, <2>2
<1>4. ASSUME NEW d \in Callers, Retry(d) \/ GiveUp(d) PROVE Goal
  BY <1>0, <1>4 DEF Retry, GiveUp, Calling, Idle, Failed
<1>5. ASSUME NEW d \in Callers, NEW id \in Ids, NEW to, Begin(d, id, to),
             to = "removed" => id \in asked /\ token = "right"
      PROVE  Goal
  <2>1. call' = [call EXCEPT ![d] = Calling(id, to)]
    BY <1>5 DEF Begin
  <2>2. CASE c = d
    <3>1. call'[c].id = id /\ call'[c].to = to
      BY <1>0, <2>1, <2>2 DEF Calling
    <3> QED
      BY <1>5, <3>1
  <2>3. CASE c # d
    BY <1>0, <2>1, <2>3
  <2> QED
    BY <2>2, <2>3
<1>6. ASSUME NEW h \in Handlers, Remove(h) PROVE Goal
  <2>1. RequestIsSound(h) /\ req[h].pc = "act"
    BY <1>6 DEF Remove, ApiIInv, RequestsAreSound
  <2>2. req[h].id \in asked /\ token = "right" /\ req[h].id \in Ids
    BY <1>0, <2>1 DEF RequestIsSound, Authorized
  <2> QED
    BY <1>0, <1>4, <1>5, <1>6, <2>2 DEF Remove
<1>7. ASSUME NEW h \in Handlers, Removed(h) PROVE Goal
  BY <1>0, <1>7 DEF Removed, Forget, Idle
<1>8. ASSUME NEW d \in Callers, OtherStep(d) PROVE Goal
  BY <1>3, <1>4, <1>5, <1>8 DEF OtherStep
<1>9. ASSUME Evict PROVE Goal
  <2>1. \/ call'[c] = call[c]
        \/ /\ call[c].pc \in InFlight
           /\ call'[c] = [call[c] EXCEPT !.pc = "done", !.data = None, !.res = "crashed"]
    BY <1>9 DEF Evict
  <2> QED
    BY <1>0, <2>1 DEF Calls, InFlight
<1>10. ASSUME NEW h \in Handlers, Beside(h) PROVE Goal
  BY <1>1, <1>10, BesideIsOutside DEF Outside, ApiIInv
<1>11. ASSUME NEW h \in Handlers, Store(h) \/ StoreRefused(h) PROVE Goal
  BY <1>1, <1>11 DEF Store, StoreRefused, StoreReport, StoreReportFails
<1>12. ASSUME UNCHANGED apiVars \/ \E r \in late : Land(r) PROVE Goal
  BY <1>1, <1>12 DEF apiVars, vars, Land
<1>13. ASSUME NEW h \in Handlers, TransitionStep(h) \/ ProbeFails(h) \/ StoreFails(h) PROVE Goal
  BY <1>0, <1>3, <1>13 DEF Failure
<1> HIDE DEF Goal
<1>14. Goal
  BY <1>6, <1>7, <1>8, <1>9, <1>10, <1>11, <1>12, <1>13
     DEF ApiNext, HandlerStep, HandlerFails, Beside
<1> QED
  BY <1>14 DEF Goal

(* A report is removed, or about to be by a write that may still land.     *)
IsRemoved(id) == \/ objects["removed"][id] # None
                 \/ \E w \in late : w.to = "removed" /\ w.id = id

(* It was before the step, or a call is moving it to removed.              *)
LEMMA RemovedBy ==
  ASSUME ApiIInv, [ApiNext]_apiVars, NEW id \in Ids, IsRemoved(id)'
  PROVE  \/ IsRemoved(id)
         \/ \E c \in Callers : call[c].to = "removed" /\ call[c].pc # "idle" /\ call[c].id = id
<1> DEFINE Goal == \/ IsRemoved(id)
                   \/ \E c \in Callers : call[c].to = "removed" /\ call[c].pc # "idle"
                                         /\ call[c].id = id
<1>0. /\ objects \in [Statuses -> [Ids -> Frames \cup {None}]] /\ IInv
      /\ \A c \in Callers : call[c] \in Calls
      /\ Handlers \subseteq Callers
  BY Typed, HandlersAssumption DEF ApiIInv, IInv, TypeOK
<1>1. ASSUME UNCHANGED <<objects, late>> PROVE Goal
  BY <1>1 DEF IsRemoved
<1>2. ASSUME objects'["removed"] = objects["removed"], NEW c \in Callers,
             late' \subseteq late \cup Outstanding(c)
      PROVE  Goal
  BY <1>2 DEF IsRemoved, Outstanding
<1>3. ASSUME NEW i \in Ids, NEW f \in Frames, StoreReport(i, f) \/ StoreReportFails(i, f) PROVE Goal
  BY <1>0, <1>3 DEF StoreReport, StoreReportFails, IsRemoved, Statuses, Terminal
<1>4. ASSUME NEW c \in Callers, PutDestination(c) PROVE Goal
  BY <1>0, <1>4 DEF PutDestination, IsRemoved, Statuses, Terminal, Calls
<1>5. ASSUME NEW c \in Callers, DeleteSource(c) PROVE Goal
  BY <1>0, <1>5 DEF DeleteSource, IsRemoved, Statuses, Terminal
<1>6. ASSUME NEW c \in Callers, StoreFails(c) \/ Crash(c) PROVE Goal
  BY <1>2, <1>6 DEF StoreFails, Crash
<1>7. ASSUME NEW r \in late, Land(r) PROVE Goal
  BY <1>0, <1>7 DEF Land, IsRemoved, Statuses, Terminal, IInv, TypeOK, Requests
<1>8. ASSUME Evict PROVE Goal
  <2>1. UNCHANGED objects /\ \A w \in late' : w \in late \/ \E h \in Callers : w \in Outstanding(h)
    BY <1>0, <1>8 DEF Evict
  <2> QED
    BY <2>1 DEF IsRemoved, Outstanding
<1>9. ASSUME Outside \/ UNCHANGED vars PROVE Goal
  BY <1>1, <1>9 DEF Outside, vars
<1>10. ASSUME NEW h \in Handlers, Forgets(h) PROVE Goal
  BY <1>1, <1>10 DEF Forgets, storeVars
<1>11. ASSUME Next PROVE Goal
  BY <1>1, <1>3, <1>4, <1>5, <1>6, <1>7, <1>11
     DEF Next, Ingest, Continue, TransitionStep, Failure, Begin, Retry, GiveUp, GetSource, ProbeFinds,
         ProbeMisses, ProbeFails, storeVars
<1> HIDE DEF Goal
<1>12. Goal
  BY <1>8, <1>9, <1>10, <1>11, ApiStepKinds
<1> QED
  BY <1>12 DEF Goal

(* The route fails closed under every step.                                *)
LEMMA ClosedStep == ApiIInv /\ [ApiNext]_apiVars => FailsClosed'
<1> SUFFICES ASSUME ApiIInv, [ApiNext]_apiVars PROVE FailsClosed'
  OBVIOUS
<1>1. token \in {"right", "empty"} /\ TypeOK /\ TypeOK'
  BY ApiBaseStep DEF ApiIInv, IInv, ApiTypeOK
<1>2. asked \subseteq asked' /\ UNCHANGED token
  BY AskedGrows
<1>3. \A id \in Ids : IsRemoved(id) => id \in asked /\ token = "right"
  <2>1. FailsClosed /\ \A w \in late : w.id \in Ids
    BY <1>1 DEF ApiIInv, TypeOK, Requests
  <2> QED
    BY <1>1, <2>1 DEF FailsClosed, IsRemoved
<1>4. \A id \in Ids : IsRemoved(id)' => id \in asked' /\ token' = "right"
  BY <1>2, <1>3, RemovedBy DEF ApiIInv, RemovalsAreAsked
<1>5. \A w \in late' : w.id \in Ids
  BY <1>1 DEF TypeOK, Requests
<1> QED
  BY <1>1, <1>2, <1>4, <1>5 DEF FailsClosed, IsRemoved

-----------------------------------------------------------------------------
(* A span tells of an answer: accepted of a report in the bucket, error of *)
(* a 503.                                                                  *)
LEMMA SpansStep == ApiIInv /\ [ApiNext]_apiVars => SpansTellTheTruth'
<1> SUFFICES ASSUME ApiIInv, [ApiNext]_apiVars, NEW g \in Handlers
             PROVE  /\ span'[g] = "accepted" => Stored(req[g].id)'
                    /\ span'[g] = "error" => req'[g].status = 503
  BY DEF SpansTellTheTruth
<1>0. /\ req \in [Handlers -> Reqs] /\ req[g] \in Reqs /\ span \in [Handlers -> Outcomes]
      /\ RequestIsSound(g) /\ AnswerIsFounded(g)
      /\ span[g] = "accepted" => Stored(req[g].id)
      /\ span[g] = "error" => req[g].status = 503
  BY Typed DEF ApiIInv, ApiTypeOK, RequestsAreSound, SpansTellTheTruth
<1> DEFINE Goal == /\ span'[g] = "accepted" => Stored(req[g].id)'
                   /\ span'[g] = "error" => req'[g].status = 503
<1>1. ASSUME req'[g] = req[g], span'[g] = span[g] PROVE Goal
  <2>1. span[g] # "none" => req[g].id \in Ids
    BY <1>0 DEF RequestIsSound
  <2>2. Settles
    BY ApiSettles
  <2> QED
    BY <1>0, <1>1, <2>1, <2>2 DEF Settles, Stored
<1>2. ASSUME span'[g] = "none" PROVE Goal
  BY <1>2
<1>3. ASSUME NEW h \in Handlers, h # g,
             Arrive(h) \/ Resend(h) \/ HandlerStep(h) \/ HandlerFails(h)
      PROVE  Goal
  <2>1. OwnStep(h)
    BY <1>3, HandlerOwns
  <2> QED
    BY <1>1, <1>3, <2>1 DEF OwnStep
<1>4. ASSUME Arrive(g) \/ Resend(g) PROVE Goal
  <2>1. span' = [span EXCEPT ![g] = "none"]
    BY <1>4 DEF Arrive, Resend, Request
  <2>2. span'[g] = "none"
    BY <1>0, <2>1
  <2> QED
    BY <1>2, <2>2
<1>5. ASSUME Finish(g) PROVE Goal
  <2>1. /\ UNCHANGED objects /\ req[g].pc = "finish"
        /\ span' = [span EXCEPT ![g] = Outcome(g, req[g].status)]
    BY <1>5 DEF Finish, vars
  <2>2. req'[g].id = req[g].id /\ req'[g].status = req[g].status
    BY <1>0, <1>5 DEF Finish, Close, Reqs
  <2>3. span'[g] = Outcome(g, req[g].status)
    BY <1>0, <2>1
  <2>4. span'[g] = "accepted" => req[g].op = "ingest" /\ req[g].status \in {200, 202}
    BY <2>3 DEF Outcome, Classify
  <2>5. span'[g] = "error" => req[g].status = 503
    BY <2>3 DEF Outcome, Classify
  <2>6. req[g].op = "ingest" /\ req[g].status \in {200, 202} => Stored(req[g].id)
    BY <1>0, <2>1 DEF AnswerIsFounded
  <2> QED
    BY <2>1, <2>2, <2>4, <2>5, <2>6 DEF Stored
<1>6. ASSUME HandlerStep(g) \/ HandlerFails(g), ~Finish(g) PROVE Goal
  <2>1. UNCHANGED span
    BY <1>6 DEF HandlerStep, HandlerFails, HasProvider, ReadHeaders, BuildProvider, BuildBareProvider,
       Ingested, Store, StoreRefused, SealFails, Dispatch, Authorize, AdminFails, Remove, Removed,
       requestVars
  <2>2. req[g].pc # "answered"
    <3>1. TransitionStep(g) \/ ProbeFails(g) \/ StoreFails(g) => req[g].pc = "call"
      BY DEF TransitionStep, GetSource, ProbeFinds, ProbeMisses, PutDestination, DeleteSource,
         ProbeFails, StoreFails, InFlight, ApiIInv, RequestsAreSound, CallIsItsOwn
    <3> QED
      BY <1>6, <3>1 DEF HandlerStep, HandlerFails, HasProvider, ReadHeaders, BuildProvider,
         BuildBareProvider, Ingested, Store, StoreRefused, SealFails, Dispatch, Authorize, AdminFails,
         Remove, Removed
  <2> QED
    BY <1>0, <1>2, <2>1, <2>2 DEF RequestIsSound
<1>7. ASSUME Evict PROVE Goal
  <2>1. span'[g] = span[g] /\ (Open(g) \/ req'[g] = req[g])
    BY <1>7 DEF Evict
  <2> QED
    BY <1>0, <1>1, <1>2, <2>1 DEF RequestIsSound, Open
<1>8. ASSUME UNCHANGED requestVars PROVE Goal
  BY <1>1, <1>8 DEF requestVars
<1> HIDE DEF Goal
<1>9. ASSUME NEW h \in Handlers, Arrive(h) \/ Resend(h) \/ HandlerStep(h) \/ HandlerFails(h)
      PROVE  Goal
  BY <1>3, <1>4, <1>5, <1>6, <1>9
<1>10. Goal
  BY <1>7, <1>8, <1>9 DEF ApiNext, OtherStep, apiVars
<1> QED
  BY <1>10 DEF Goal


-----------------------------------------------------------------------------
(* A request that moves on stays a request.                                *)
LEMMA MovedIsTyped ==
  ASSUME NEW r \in Reqs, NEW status \in Answers \cup {0}, NEW flawed \in BOOLEAN, NEW traced \in BOOLEAN,
         NEW pc \in {"telemetry", "headers", "serve", "store", "token", "act", "call", "finish"}
  PROVE  /\ [r EXCEPT !.pc = pc] \in Reqs
         /\ [r EXCEPT !.pc = pc, !.status = status] \in Reqs
         /\ [r EXCEPT !.pc = pc, !.status = status, !.flawed = flawed] \in Reqs
         /\ [r EXCEPT !.pc = pc, !.traced = traced] \in Reqs
         /\ [r EXCEPT !.pc = "answered", !.bearer = "empty", !.traced = FALSE] \in Reqs
<1>1. /\ [r EXCEPT !.pc = pc] \in Reqs
      /\ [r EXCEPT !.pc = pc, !.status = status] \in Reqs
  BY DEF Reqs
<1>2. [r EXCEPT !.pc = pc, !.status = status, !.flawed = flawed] \in Reqs
  BY DEF Reqs
<1>3. [r EXCEPT !.pc = pc, !.traced = traced] \in Reqs
  BY DEF Reqs
<1>4. [r EXCEPT !.pc = "answered", !.bearer = "empty", !.traced = FALSE] \in Reqs
  BY DEF Reqs, Tokens
<1> QED
  BY <1>1, <1>2, <1>3, <1>4

(* Every step keeps the requests requests.                                 *)
LEMMA ReqsStep == ApiIInv /\ [ApiNext]_apiVars => req' \in [Handlers -> Reqs]
<1> SUFFICES ASSUME ApiIInv, [ApiNext]_apiVars PROVE req' \in [Handlers -> Reqs]
  OBVIOUS
<1>0. /\ req \in [Handlers -> Reqs] /\ provider \in BOOLEAN /\ Handlers \subseteq Callers
      /\ \A h \in Handlers : req[h] \in Reqs
  BY HandlersAssumption DEF ApiIInv, ApiTypeOK
<1>1. ASSUME NEW h \in Handlers, NEW r \in Reqs, req' = [req EXCEPT ![h] = r]
      PROVE  req' \in [Handlers -> Reqs]
  BY <1>0, <1>1
<1>2. ASSUME NEW h \in Handlers, NEW op \in {"ingest", "remove"}, NEW id \in Ids, NEW bearer \in Tokens,
             NEW flawed \in BOOLEAN, Request(h, op, id, bearer, flawed)
      PROVE  req' \in [Handlers -> Reqs]
  <2> DEFINE r == [NoRequest EXCEPT !.pc = "telemetry", !.op = op, !.id = id,
                                    !.bearer = bearer, !.flawed = flawed]
  <2>1. r \in Reqs
    BY DEF NoRequest, Reqs
  <2>2. req' = [req EXCEPT ![h] = r]
    BY <1>2 DEF Request
  <2> QED
    BY <1>1, <2>1, <2>2
<1>3. ASSUME NEW h \in Handlers, Arrive(h) PROVE req' \in [Handlers -> Reqs]
  BY <1>2, <1>3 DEF Arrive, Tokens
<1>4. ASSUME NEW h \in Handlers, Resend(h) PROVE req' \in [Handlers -> Reqs]
  <2>1. call[h].id \in Ids
    BY <1>0, <1>4, Typed DEF Resend, Failed, CallsAreSound, CallIsSound
  <2> QED
    BY <1>2, <1>4, <2>1 DEF Resend, Tokens
<1>5. ASSUME NEW h \in Handlers,
             NEW pc \in {"telemetry", "headers", "serve", "store", "token", "act", "call", "finish"},
             req' = [req EXCEPT ![h].pc = pc]
      PROVE  req' \in [Handlers -> Reqs]
  <2>1. [req[h] EXCEPT !.pc = pc] \in Reqs
    BY <1>0, MovedIsTyped
  <2> QED
    BY <1>1, <1>5, <2>1
<1>6. ASSUME NEW h \in Handlers, NEW traced \in BOOLEAN, Traced(h, traced)
      PROVE  req' \in [Handlers -> Reqs]
  <2>1. [req[h] EXCEPT !.pc = "serve", !.traced = traced] \in Reqs
    BY <1>0, MovedIsTyped
  <2>2. req' = [req EXCEPT ![h] = [req[h] EXCEPT !.pc = "serve", !.traced = traced]]
    BY <1>6 DEF Traced
  <2> QED
    BY <1>1, <2>1, <2>2
<1>7. ASSUME NEW h \in Handlers, NEW status \in Answers, Answer(h, status)
      PROVE  req' \in [Handlers -> Reqs]
  <2>1. [req[h] EXCEPT !.pc = "finish", !.status = status] \in Reqs
    BY <1>0, MovedIsTyped
  <2>2. req' = [req EXCEPT ![h] = [req[h] EXCEPT !.pc = "finish", !.status = status]]
    BY <1>7 DEF Answer
  <2> QED
    BY <1>1, <2>1, <2>2
<1>8. ASSUME NEW h \in Handlers, Ingested(h) PROVE req' \in [Handlers -> Reqs]
  <2>1. PICK flaws \in SUBSET Flaws :
               req' = [req EXCEPT ![h].pc = IF Refusal(flaws) = 0 THEN "store" ELSE "finish",
                                  ![h].status = Refusal(flaws),
                                  ![h].flawed = flaws # {}]
    BY <1>8 DEF Ingested
  <2>2. Refusal(flaws) \in Answers \cup {0} /\ (flaws # {}) \in BOOLEAN
    BY DEF Refusal, Answers
  <2>3. PICK status \in Answers \cup {0}, flawed \in BOOLEAN,
             pc \in {"telemetry", "headers", "serve", "store", "token", "act", "call", "finish"} :
               /\ status = Refusal(flaws) /\ flawed = (flaws # {})
               /\ pc = IF Refusal(flaws) = 0 THEN "store" ELSE "finish"
    BY <2>2
  <2>4. [req[h] EXCEPT !.pc = pc, !.status = status, !.flawed = flawed] \in Reqs
    BY <1>0, MovedIsTyped
  <2>5. req' = [req EXCEPT ![h] = [req[h] EXCEPT !.pc = pc, !.status = status, !.flawed = flawed]]
    BY <2>1, <2>3
  <2> QED
    BY <1>1, <2>4, <2>5
<1>9. ASSUME NEW h \in Handlers, Finish(h) PROVE req' \in [Handlers -> Reqs]
  <2>1. [req[h] EXCEPT !.pc = "answered", !.bearer = "empty", !.traced = FALSE] \in Reqs
    BY <1>0, MovedIsTyped
  <2>2. req' = [req EXCEPT ![h] = [req[h] EXCEPT !.pc = "answered", !.bearer = "empty",
                                                 !.traced = FALSE]]
    BY <1>9 DEF Finish, Close
  <2> QED
    BY <1>1, <2>1, <2>2
<1>10. ASSUME NEW h \in Handlers, HasProvider(h) \/ BuildProvider(h) \/ BuildBareProvider(h)
       PROVE  req' \in [Handlers -> Reqs]
  BY <1>0, <1>6, <1>10 DEF HasProvider, BuildProvider, BuildBareProvider
<1>11. ASSUME NEW h \in Handlers, ReadHeaders(h) \/ Dispatch(h) \/ Authorize(h) \/ Remove(h)
       PROVE  req' \in [Handlers -> Reqs]
  <2>1. \/ \E pc \in {"headers", "token", "act", "call"} : req' = [req EXCEPT ![h].pc = pc]
        \/ Answer(h, 405) \/ Answer(h, 401)
    BY <1>11 DEF ReadHeaders, Dispatch, Authorize, Remove
  <2>2. 405 \in Answers /\ 401 \in Answers
    BY DEF Answers
  <2> QED
    BY <1>5, <1>7, <2>1, <2>2
<1>12. ASSUME NEW h \in Handlers, Store(h) \/ StoreRefused(h) \/ SealFails(h) \/ AdminFails(h)
                                    \/ Removed(h)
       PROVE  req' \in [Handlers -> Reqs]
  <2>1. Answer(h, 202) \/ Answer(h, 503) \/ Answer(h, 200) \/ Answer(h, 404)
    BY <1>12 DEF Store, StoreRefused, SealFails, AdminFails, Removed
  <2>2. 202 \in Answers /\ 503 \in Answers /\ 200 \in Answers /\ 404 \in Answers
    BY DEF Answers
  <2> QED
    BY <1>7, <2>1, <2>2
<1>13. CASE Evict
  <2>1. NoRequest \in Reqs
    BY DEF NoRequest, Reqs, Tokens
  <2> QED
    BY <1>0, <1>13, <2>1 DEF Evict
<1>14. CASE UNCHANGED req
  BY <1>0, <1>14
<1>15. ASSUME NEW h \in Handlers, HandlerStep(h) \/ HandlerFails(h) PROVE req' \in [Handlers -> Reqs]
  BY <1>8, <1>9, <1>10, <1>11, <1>12, <1>14, <1>15 DEF HandlerStep, HandlerFails, requestVars
<1> QED
  BY <1>3, <1>4, <1>13, <1>14, <1>15 DEF ApiNext, OtherStep, apiVars, requestVars

(* telMu is held by a request that reads the headers.                      *)
LEMMA LockStep ==
  ApiIInv /\ [ApiNext]_apiVars =>
    /\ provider' \in BOOLEAN
    /\ telMu' \in Handlers \cup {None}
    /\ telMu' # None => req'[telMu'].pc = "headers"
<1> SUFFICES ASSUME ApiIInv, [ApiNext]_apiVars
             PROVE  /\ provider' \in BOOLEAN
                    /\ telMu' \in Handlers \cup {None}
                    /\ telMu' # None => req'[telMu'].pc = "headers"
  OBVIOUS
<1> DEFINE Goal == /\ provider' \in BOOLEAN
                   /\ telMu' \in Handlers \cup {None}
                   /\ telMu' # None => req'[telMu'].pc = "headers"
<1>0. /\ req \in [Handlers -> Reqs] /\ provider \in BOOLEAN /\ telMu \in Handlers \cup {None}
      /\ telMu # None => req[telMu].pc = "headers"
      /\ \A h \in Handlers : CallIsItsOwn(h)
  BY DEF ApiIInv, ApiTypeOK, RequestsAreSound
<1>1. ASSUME provider' \in BOOLEAN, telMu' = None PROVE Goal
  BY <1>1
<1>2. ASSUME UNCHANGED telemetryVars, UNCHANGED req PROVE Goal
  BY <1>0, <1>2 DEF telemetryVars
<1>3. ASSUME UNCHANGED telemetryVars, NEW h \in Handlers, req[h].pc # "headers",
             \A g \in Handlers \ {h} : req'[g] = req[g]
      PROVE  Goal
  BY <1>0, <1>3 DEF telemetryVars
<1>4. ASSUME NEW h \in Handlers, ReadHeaders(h) PROVE Goal
  <2>1. req' = [req EXCEPT ![h].pc = "headers"] /\ telMu' = h /\ UNCHANGED provider
    BY <1>4 DEF ReadHeaders
  <2>2. req'[h].pc = "headers"
    BY <1>0, <2>1 DEF Reqs
  <2> QED
    BY <1>0, <2>1, <2>2
<1>5. ASSUME NEW h \in Handlers, BuildProvider(h) \/ BuildBareProvider(h) PROVE Goal
  BY <1>1, <1>5 DEF BuildProvider, BuildBareProvider
<1>6. ASSUME Evict PROVE Goal
  BY <1>1, <1>6 DEF Evict
<1>7. ASSUME NEW h \in Handlers, Arrive(h) \/ Resend(h) \/ HasProvider(h) \/ Ingested(h) \/ Store(h)
               \/ StoreRefused(h) \/ SealFails(h) \/ Dispatch(h) \/ Authorize(h) \/ AdminFails(h)
               \/ Remove(h) \/ Removed(h) \/ Finish(h)
      PROVE  Goal
  <2>1. UNCHANGED telemetryVars
    BY <1>7 DEF Arrive, Resend, Request, HasProvider, Ingested, Store, StoreRefused, SealFails, Dispatch,
       Authorize, AdminFails, Remove, Removed, Finish
  <2>2. req[h].pc # "headers"
    BY <1>7 DEF Arrive, Resend, Open, HasProvider, Ingested, Store, StoreRefused, SealFails, Dispatch,
       Authorize, AdminFails, Remove, Removed, Finish
  <2>3. \A g \in Handlers \ {h} : req'[g] = req[g]
    <3>1. OwnStep(h)
      BY <1>7, HandlerOwns DEF HandlerStep, HandlerFails
    <3> QED
      BY <3>1 DEF OwnStep
  <2> QED
    BY <1>3, <2>1, <2>2, <2>3
<1>8. ASSUME UNCHANGED <<requestVars, telemetryVars>> PROVE Goal
  BY <1>2, <1>8 DEF requestVars
<1> HIDE DEF Goal
<1>9. ASSUME NEW h \in Handlers, Arrive(h) \/ Resend(h) \/ HandlerStep(h) \/ HandlerFails(h) PROVE Goal
  BY <1>4, <1>5, <1>7, <1>8, <1>9 DEF HandlerStep, HandlerFails
<1>10. Goal
  BY <1>6, <1>8, <1>9 DEF ApiNext, OtherStep, apiVars
<1> QED
  BY <1>10 DEF Goal

(* The types together.                                                     *)
LEMMA ApiTypeStep == ApiIInv /\ [ApiNext]_apiVars => ApiTypeOK'
<1> SUFFICES ASSUME ApiIInv, [ApiNext]_apiVars PROVE ApiTypeOK'
  OBVIOUS
<1>0. ApiTypeOK /\ Handlers \subseteq Callers
  BY HandlersAssumption DEF ApiIInv
<1>1. TypeOK'
  BY ApiBaseStep DEF IInv
<1>2. token' \in {"right", "empty"}
  BY <1>0, AskedGrows DEF ApiTypeOK
<1>3. asked' \subseteq Ids
  <2>1. ASSUME NEW h \in Handlers, Arrive(h) \/ Resend(h) PROVE asked' \subseteq Ids
    <3>1. Failed(h) => call[h].id \in Ids
      BY <1>0, Typed DEF Failed, CallsAreSound, CallIsSound
    <3> QED
      BY <1>0, <2>1, <3>1 DEF Arrive, Resend, Request, ApiTypeOK
  <2>2. ASSUME UNCHANGED asked PROVE asked' \subseteq Ids
    BY <1>0, <2>2 DEF ApiTypeOK
  <2> QED
    BY <2>1, <2>2 DEF ApiNext, HandlerStep, HandlerFails, HasProvider, ReadHeaders, BuildProvider,
       BuildBareProvider, Ingested, Store, StoreRefused, SealFails, Dispatch, Authorize, AdminFails,
       Remove, Removed, Finish, Evict, OtherStep, requestVars, apiVars
<1>4. span' \in [Handlers -> Outcomes]
  <2>1. ASSUME NEW h \in Handlers, NEW o \in Outcomes, span' = [span EXCEPT ![h] = o]
        PROVE  span' \in [Handlers -> Outcomes]
    BY <1>0, <2>1 DEF ApiTypeOK
  <2>2. ASSUME NEW h \in Handlers, Arrive(h) \/ Resend(h) PROVE span' \in [Handlers -> Outcomes]
    <3>1. span' = [span EXCEPT ![h] = "none"] /\ "none" \in Outcomes
      BY <2>2 DEF Arrive, Resend, Request, Outcomes
    <3> QED
      BY <2>1, <3>1
  <2>3. ASSUME NEW h \in Handlers, Finish(h) PROVE span' \in [Handlers -> Outcomes]
    <3>1. Outcome(h, req[h].status) \in Outcomes
      BY DEF Outcome, Classify, Outcomes
    <3>2. span' = [span EXCEPT ![h] = Outcome(h, req[h].status)]
      BY <2>3 DEF Finish
    <3> QED
      BY <2>1, <3>1, <3>2
  <2>4. ASSUME UNCHANGED span PROVE span' \in [Handlers -> Outcomes]
    BY <1>0, <2>4 DEF ApiTypeOK
  <2> QED
    BY <2>2, <2>3, <2>4 DEF ApiNext, HandlerStep, HandlerFails, HasProvider, ReadHeaders, BuildProvider,
       BuildBareProvider, Ingested, Store, StoreRefused, SealFails, Dispatch, Authorize, AdminFails,
       Remove, Removed, Evict, OtherStep, requestVars, apiVars
<1> QED
  BY <1>1, <1>2, <1>3, <1>4, ReqsStep, LockStep DEF ApiTypeOK

-----------------------------------------------------------------------------
(* The invariant holds before the first request.                           *)
LEMMA ApiStart == ApiInit => ApiIInv
<1> SUFFICES ASSUME ApiInit PROVE ApiIInv
  OBVIOUS
<1>1. IInv /\ TypeOK
  BY InitIInv DEF ApiInit, IInv
<1>2. \A h \in Handlers : req[h] = NoRequest /\ span[h] = "none"
  BY DEF ApiInit
<1>3. \A c \in Callers : call[c] = Idle
  BY DEF ApiInit, Init
<1>4. ApiTypeOK
  BY <1>1 DEF ApiTypeOK, ApiInit, NoRequest, Reqs, Tokens, Outcomes
<1>5. RequestsAreSound
  BY <1>2, <1>3, HandlersAssumption
     DEF RequestsAreSound, HoldsItAlone, RequestIsSound, AnswerIsFounded, CallIsItsOwn, NoRequest, Idle,
         InFlight, Open, Failed
<1>6. RemovalsAreAsked
  BY <1>3 DEF RemovalsAreAsked, Idle
<1>7. FailsClosed
  BY DEF FailsClosed, ApiInit, Init, Statuses, Terminal
<1>8. SpansTellTheTruth
  BY <1>2 DEF SpansTellTheTruth
<1> QED
  BY <1>1, <1>4, <1>5, <1>6, <1>7, <1>8 DEF ApiIInv


(* Every step keeps the invariant.                                         *)
LEMMA ApiIInvStep == ApiIInv /\ [ApiNext]_apiVars => ApiIInv'
  BY ApiBaseStep, ApiTypeStep, RequestsStep, RemovalsStep, ClosedStep, SpansStep DEF ApiIInv

(* ApiIInv is inductive: it holds from the first request on.               *)
THEOREM ApiInductive == ApiSpec => []ApiIInv
  BY ApiStart, ApiIInvStep, PTL DEF ApiSpec

-----------------------------------------------------------------------------
(* The store, the calls and the requests have their types, and whoever     *)
(* holds telMu is reading the headers (telemetry_wasm.go:71-108).          *)
THEOREM ApiTypeCorrect == ApiSpec => []ApiTypeOK
<1>1. ApiIInv => ApiTypeOK
  BY DEF ApiIInv
<1> QED
  BY <1>1, ApiInductive, PTL

(* What an answer was given on is enough for it to stay true.              *)
LEMMA FoundedAnswersHold == ApiIInv => AnswersHold
<1> SUFFICES ASSUME ApiIInv, NEW h \in Handlers, req[h].pc \in {"finish", "answered"}
             PROVE  /\ req[h].op = "ingest" /\ req[h].status = 202 => Stored(req[h].id) /\ ~req[h].flawed
                    /\ req[h].op = "ingest" /\ req[h].status \notin {202, 503} => sealed[req[h].id] = None
                    /\ req[h].op = "remove" /\ req[h].status = 200 =>
                         objects["removed"][req[h].id] # None
                    /\ req[h].op = "remove" /\ req[h].status \in {200, 404} =>
                         objects["pending"][req[h].id] = None
  BY DEF AnswersHold
<1>1. AnswerIsFounded(h) /\ RequestIsSound(h) /\ CopiesAreFaithful /\ AckedIsSettled /\ TypeOK
  BY Typed DEF ApiIInv, RequestsAreSound
<1>2. req[h].id \in Ids
  BY <1>1 DEF RequestIsSound
<1>3. req[h].op = "remove" /\ req[h].status = 200 =>
        objects["removed"][req[h].id] # None /\ objects["pending"][req[h].id] = None
  BY <1>1 DEF AnswerIsFounded, AckedIsSettled
<1>4. OffPending(req[h].id) => objects["pending"][req[h].id] = None
  BY <1>1, <1>2 DEF OffPending, Gone, CopiesAreFaithful, Statuses
<1> QED
  BY <1>1, <1>3, <1>4 DEF AnswerIsFounded

(* What the app and the maintainer were answered stays true whatever the   *)
(* other requests, the weekly run and the failures do: a report answered   *)
(* 202 is in the bucket, nothing is there under the id of a refused one,   *)
(* a report answered 200 is removed and one answered 404 is not pending    *)
(* (ingest.go:53-60, admin.go:10-13).                                      *)
THEOREM AnswersStayTrue == ApiSpec => []AnswersHold
  BY ApiInductive, FoundedAnswersHold, PTL

(* A report is removed, or has a removed copy on its way, only if the      *)
(* maintainer asked for it with the configured token, and never when none  *)
(* is configured (admin.go:24-29).                                         *)
THEOREM OnlyTheMaintainerRemoves == ApiSpec => []FailsClosed
<1>1. ApiIInv => FailsClosed
  BY DEF ApiIInv
<1> QED
  BY <1>1, ApiInductive, PTL

(* An exported outcome of accepted is of a stored report, one of error of  *)
(* a request that was answered 503 (ingest.go:62-67, 196-224).             *)
THEOREM SpansAreTrue == ApiSpec => []SpansTellTheTruth
<1>1. ApiIInv => SpansTellTheTruth
  BY DEF ApiIInv
<1> QED
  BY <1>1, ApiInductive, PTL
=============================================================================
