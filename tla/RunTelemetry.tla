---------------------------- MODULE RunTelemetry ----------------------------
(***************************************************************************)
(* The trace of a weekly run (internal/telemetry as schedule.Run and       *)
(* Publisher.Publish use it), superposed on PublishJob: every step of the  *)
(* run is taken with what it starts, ends and logs.  schedule.run is the   *)
(* root, publish.run its child, and one publish.report per report a child  *)
(* of that.  A span is handed to the exporter when it ends; what the       *)
(* exporter does with it goes to an error handler and never to the run.    *)
(*                                                                         *)
(* The provider is configured: without one every call here is a no-op.     *)
(***************************************************************************)
EXTENDS PublishJob, Sequences

VARIABLE tel          \* the trace of the run under way, or of the last one

telVars == <<jobVars, tel>>

(***************************************************************************)
(* spans are in the order of StartSpan, and a span is named by its place   *)
(* there.  handed lists those that ended, in that order.  published counts *)
(* as the loop does, deferred is what the cap left out, told what the      *)
(* finished publish.run span says.  died is an observation: the isolate    *)
(* was evicted before the run returned.                                    *)
(***************************************************************************)
NoSpan == 0
Spans == [name : {"schedule.run", "publish.run", "publish.report"},
          parent : Nat, id : Ids \cup {None}, status : {"unset", "ok", "error"}]
Alerts == {"schedule.run_failed", "publish.run_failed", "publish.cap_hit"}
Counts == [published : Nat, failed : Nat]

NoTrace == [spans |-> <<>>, handed |-> <<>>, alerts |-> {}, published |-> 0,
            deferred |-> 0, told |-> [published |-> 0, failed |-> 0],
            died |-> FALSE]

TelTypeOK ==
    /\ JobTypeOK
    /\ tel.spans \in Seq(Spans)
    /\ tel.handed \in Seq(DOMAIN tel.spans)
    /\ tel.alerts \subseteq Alerts
    /\ tel.published \in Nat /\ tel.deferred \in Nat
    /\ tel.told \in Counts
    /\ tel.died \in BOOLEAN

TelInit == JobInit /\ tel = NoTrace

-----------------------------------------------------------------------------
(***************************************************************************)
(* Telemetry.  The contexts of Run, Publish and publishOne each carry the  *)
(* span their function started.                                            *)
(***************************************************************************)
Root == 1
PublishSpan == 2
Newest(t) == Len(t.spans)

StartSpan(t, name, parent, id) ==
    [t EXCEPT !.spans = Append(@, [name |-> name, parent |-> parent, id |-> id,
                                   status |-> "unset"])]

(* SetStatus and End; End is idempotent.                                   *)
End(t, span, status) ==
    IF \E i \in DOMAIN t.handed : t.handed[i] = span THEN t
    ELSE [t EXCEPT !.spans[span].status = status, !.handed = Append(@, span)]

Alert(t, type) == [t EXCEPT !.alerts = @ \cup {type}]

StartReport(t, id) == StartSpan(t, "publish.report", PublishSpan, id)

ReportFailedOpen(t) == t        \* mutant: continue without rspan.End()

ReportFailed(t) == End(t, Newest(t), "error")

ReportPublished(t) ==
    End([t EXCEPT !.published = @ + 1], Newest(t), "ok")

EndPublishCapLast(t, ok) ==     \* mutant: the cap is told of only on success
    LET told == [t EXCEPT !.told =
                    [published |-> t.published,
                     failed |-> Cardinality(job.attempted) - t.published]]
    IN  IF ~ok THEN End(Alert(told, "publish.run_failed"), PublishSpan, "error")
        ELSE End(IF t.deferred > 0 THEN Alert(told, "publish.cap_hit") ELSE told,
                 PublishSpan, "ok")

EndPublishCountsErrors(t, ok) ==    \* mutant: failed counts the turns that failed
    LET capped == IF t.deferred > 0 THEN Alert(t, "publish.cap_hit") ELSE t
        turns == {c \in DOMAIN t.spans : t.spans[c].name = "publish.report"}
        told == [capped EXCEPT !.told =
                    [published |-> t.published,
                     failed |-> Cardinality(turns) - t.published]]
    IN  IF ok THEN End(told, PublishSpan, "ok")
        ELSE End(Alert(told, "publish.run_failed"), PublishSpan, "error")

(* The tail of Publish: after the loop, however it was left.               *)
EndPublish(t, ok) ==
    LET capped == IF t.deferred > 0 THEN Alert(t, "publish.cap_hit") ELSE t
        told == [capped EXCEPT !.told =
                    [published |-> t.published,
                     failed |-> Cardinality(job.attempted) - t.published]]
    IN  IF ok THEN End(told, PublishSpan, "ok")
        ELSE End(Alert(told, "publish.run_failed"), PublishSpan, "error")

(* The tail of Run: its error is the lister's or the publisher's.          *)
EndSchedule(t, ok) ==
    IF ok THEN End(t, Root, "ok")
    ELSE End(Alert(t, "schedule.run_failed"), Root, "error")

-----------------------------------------------------------------------------
TelStart == StartRun /\ tel' = NoTrace

(* The provider is put into the context once the wiring is there, so that  *)
(* a failed wiring leaves no trace.                                        *)
TelBuild == BuildPublish /\ tel' = StartSpan(tel, "schedule.run", NoSpan, None)

TelBuildFails == BuildPublishFails /\ UNCHANGED tel

TelList ==
    /\ List
    /\ LET t == StartSpan(tel, "publish.run", Root, None)
       IN  tel' = IF ListPending = {}
                  THEN EndSchedule(End(t, PublishSpan, "ok"), TRUE)
                  ELSE [t EXCEPT !.deferred = Cardinality(ListPending)
                                              - Cardinality(job'.attempted)]

TelListFails == ListFails /\ tel' = EndSchedule(tel, FALSE)

TelFetch ==
    /\ FetchReport
    /\ LET t == StartReport(tel, Oldest(job.batch))
       IN  tel' = IF job'.pc = "create" THEN t ELSE ReportFailed(t)

TelFetchFails == FetchFails /\ tel' = ReportFailed(StartReport(tel, Oldest(job.batch)))

TelCreateFails == CreateFails /\ tel' = ReportFailed(tel)

TelMarked ==
    /\ Marked
    /\ tel' = IF call[Cron].res = "nil" THEN ReportPublished(tel) ELSE ReportFailed(tel)

TelEnd == EndRun /\ tel' = EndSchedule(EndPublish(tel, job.ok), job.ok)

TelCancelled == Cancelled /\ tel' = EndSchedule(EndPublish(tel, FALSE), FALSE)

(* Spans that have not ended are never exported.                           *)
TelCrash == RunCrashes /\ tel' = [tel EXCEPT !.died = TRUE]

TelStep ==
    \/ TelStart
    \/ TelBuild
    \/ TelList
    \/ EnsureLabels /\ UNCHANGED tel
    \/ TelFetch
    \/ CreateConfirmed /\ UNCHANGED tel
    \/ TransitionStep(Cron) /\ UNCHANGED <<job, githubVars, tel>>
    \/ TelMarked
    \/ TelEnd

TelFailure ==
    \/ TelBuildFails
    \/ TelListFails
    \/ EnsureLabelsFails /\ UNCHANGED tel
    \/ TelFetchFails
    \/ TelCancelled
    \/ CreateLost /\ UNCHANGED tel
    \/ TelCreateFails
    \/ TelCrash
    \/ (ProbeFails(Cron) \/ StoreFails(Cron)) /\ UNCHANGED <<job, githubVars, tel>>

TelNext ==
    \/ TelStep
    \/ TelFailure
    \/ (\E c \in Callers \ {Cron} : AdminStep(c)) /\ UNCHANGED tel
    \/ StoreStep /\ UNCHANGED tel

TelSpec == TelInit /\ [][TelNext]_telVars

(* As in PublishJob: the cron keeps firing and a run goes on.  Each JobStep *)
(* is one TelStep.                                                         *)
FairTelSpec == TelSpec /\ WF_jobVars(JobStep)

-----------------------------------------------------------------------------
(***************************************************************************)
(* Properties.                                                             *)
(***************************************************************************)
Handed == {tel.handed[i] : i \in DOMAIN tel.handed}
Above == [s \in {"publish.run", "publish.report"} |->
            IF s = "publish.run" THEN "schedule.run" ELSE "publish.run"]

(* Traced and not cut short by an eviction.                                *)
Returned == job.pc = "done" /\ tel.spans # <<>> /\ ~tel.died

(* A run that returned has handed over every span it started, on every     *)
(* path out of Run and Publish, each after the spans below it and each     *)
(* under the span of the function around it (publish.go:206-209, 244-266). *)
TraceIsWhole ==
    /\ Returned => Handed = DOMAIN tel.spans
    /\ \A c \in DOMAIN tel.spans \ {Root} :
          LET p == tel.spans[c].parent
          IN  /\ tel.spans[p].name = Above[tel.spans[c].name]
              /\ p \in Handed =>
                    \E i, j \in DOMAIN tel.handed :
                        i < j /\ tel.handed[i] = c /\ tel.handed[j] = p

Reports(status) ==
    {tel.spans[i].id : i \in {j \in Handed : /\ tel.spans[j].name = "publish.report"
                                             /\ tel.spans[j].status = status}}

MarkedOfBatch == {id \in job.attempted : <<id, "published">> \in acked}

(* What the trace says is what happened to the bucket and to GitHub: a     *)
(* report told as published has its issue and was marked; published counts *)
(* those reports, and failed the rest of the batch, none of which was      *)
(* marked, whether its turn failed or a cancellation left it without one;  *)
(* and the run is told as succeeded only if all of its batch was published *)
(* (publish.go:241-244, 288-309).                                          *)
TraceIsTrue ==
    /\ \A id \in Reports("ok") : <<id, "published">> \in acked /\ confirmed[id] > 0
    /\ PublishSpan \in Handed =>
          /\ tel.told.published = Cardinality(Reports("ok"))
          /\ tel.told.failed = Cardinality(job.attempted \ MarkedOfBatch)
          /\ tel.spans[PublishSpan].status = "ok" => Reports("ok") = job.attempted

(* Every traced run that returns an error raises the alert the maintainer  *)
(* is woken by, no other run does, and reports the cap left behind are     *)
(* announced by every run that did not die (schedule.go:78-82,             *)
(* publish.go:269-286).                                                    *)
FailuresAlert ==
    Returned =>
        /\ ~job.ok <=> "schedule.run_failed" \in tel.alerts
        /\ tel.deferred > 0 <=> "publish.cap_hit" \in tel.alerts
        /\ "publish.run_failed" \in tel.alerts => "schedule.run_failed" \in tel.alerts

(* What makes FailuresAlert inductive: until it returns, a run raises      *)
(* nothing, and before it is wired nothing is traced.                      *)
AlertsAreSound ==
    /\ job.pc = "wire" => tel = NoTrace
    /\ job.pc = "list" => tel.deferred = 0
    /\ job.pc # "done" => tel.alerts = {} /\ ~tel.died
    /\ FailuresAlert


(***************************************************************************)
(* What makes TraceIsWhole and TraceIsTrue inductive.                      *)
(***************************************************************************)

(* The spans of a run start in the order of its functions.                 *)
Place(c) ==
    CASE c = Root -> [name |-> "schedule.run", parent |-> NoSpan]
      [] c = PublishSpan -> [name |-> "publish.run", parent |-> Root]
      [] OTHER -> [name |-> "publish.report", parent |-> PublishSpan]

(* A run under way keeps the spans of its functions open, and of its       *)
(* reports only that of the report at hand.                                *)
OpenSpansAreAtHand ==
    LET n == Len(tel.spans)
    IN  /\ \A c \in DOMAIN tel.spans : /\ tel.spans[c].name = Place(c).name
                                       /\ tel.spans[c].parent = Place(c).parent
        /\ job.pc = "list" => n = 1 /\ Handed = {}
        /\ job.pc \in {"labels", "next"} => n >= 2 /\ Handed = 3..n
        /\ job.pc \in {"create", "mark"} =>
             n >= 3 /\ Handed = 3..(n - 1) /\ tel.spans[n].id = job.id
        /\ tel.died => Handed \cap {Root, PublishSpan} = {}

(* What ended is what left the batch, and nothing is told of before there  *)
(* is one.                                                                 *)
EndedReportsAreDone ==
    /\ job.pc = "list" => tel.told = NoTrace.told
    /\ \A c \in Handed : c > PublishSpan => tel.spans[c].id \in job.attempted \ job.batch
    /\ tel.published = Cardinality(Reports("ok"))
    /\ job.ok => Reports("ok") = job.attempted \ job.batch

(* What the counts say by themselves.                                      *)
CountsAddUp ==
    /\ \A id \in Reports("ok") : <<id, "published">> \in acked /\ confirmed[id] > 0
    /\ PublishSpan \in Handed =>
          /\ tel.told.published = Cardinality(Reports("ok"))
          /\ tel.told.published + tel.told.failed = Cardinality(job.attempted)
          /\ tel.spans[PublishSpan].status = "ok" => Reports("ok") = job.attempted

(* What is marked of the batch is what was counted, but for the report     *)
(* whose mark was acknowledged and not counted yet.                        *)
Acking == job.pc = "mark" /\ call[Cron].pc = "done" /\ call[Cron].res = "nil"

MarksAreCounted ==
    /\ \A id \in job.batch : <<id, "published">> \in acked => Acking /\ id = job.id
    /\ job.pc # "done" =>
          Cardinality(MarkedOfBatch) = tel.published + (IF Acking THEN 1 ELSE 0)
    /\ PublishSpan \in Handed => Cardinality(MarkedOfBatch) = tel.told.published

(* Only finitely many reports were ever sealed, so that a batch has a size.*)
BatchIsFinite ==
    /\ IsFiniteSet({id \in Ids : sealed[id] # None})
    /\ IsFiniteSet(job.attempted)

TelIInv ==
    /\ JobIInv
    /\ AlertsAreSound
    /\ TelTypeOK
    /\ OpenSpansAreAtHand
    /\ EndedReportsAreDone
    /\ BatchIsFinite
    /\ TraceIsWhole
    /\ CountsAddUp
    /\ MarksAreCounted
=============================================================================
