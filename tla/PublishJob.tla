----------------------------- MODULE PublishJob -----------------------------
(***************************************************************************)
(* The weekly publish run (internal/schedule, internal/publish) and the    *)
(* maintainer's removals (internal/handler/admin.go), composed over        *)
(* Lifecycle.  The run is the caller Cron and only ever marks published;   *)
(* every other caller is an admin request and only ever marks removed.     *)
(* They run in different isolates and share nothing but the bucket.        *)
(*                                                                         *)
(* GitHub is external: it counts the issues that exist for each report.    *)
(* confirmed issues were answered with a 201 the client could read;        *)
(* orphaned ones were created by a POST whose answer never arrived (a      *)
(* transport error, a 5xx, an unreadable 201), so nobody here knows them.  *)
(***************************************************************************)
EXTENDS Lifecycle

CONSTANTS Cron,        \* the caller that is the weekly run
          Caps,        \* caps a run may be built with; 0 disables the cap
          Unopenable   \* frames crypto.Open rejects under the run's keyring

ASSUME CronAssumption == Cron \in Callers
ASSUME OrderAssumption == Ids \subseteq Nat  \* ids sort by their timestamp
ASSUME CapAssumption == Caps # {} /\ Caps \subseteq Nat

VARIABLES job,         \* the run: where it is and what is left of its batch
          confirmed,   \* confirmed[id]: issues created and answered 201
          orphaned     \* orphaned[id]: issues created without an answer

githubVars == <<confirmed, orphaned>>
jobVars == <<vars, job, githubVars>>

(***************************************************************************)
(* batch holds the ids still to do, attempted all of the run's batch, id   *)
(* the report at hand; ok is FALSE once an error was collected.  pulled is *)
(* an observation: the reports whose removal had been confirmed to the     *)
(* maintainer when the run started.                                        *)
(***************************************************************************)
Jobs == [pc : {"done", "wire", "list", "labels", "next", "create", "mark"},
         batch : SUBSET Ids, attempted : SUBSET Ids, id : Ids \cup {None},
         ok : BOOLEAN, pulled : SUBSET Ids]

JobTypeOK ==
    /\ TypeOK
    /\ job \in Jobs
    /\ job.batch \subseteq job.attempted
    /\ job.pc \in {"create", "mark"} => job.id \in job.batch
    /\ confirmed \in [Ids -> Nat]
    /\ orphaned \in [Ids -> Nat]

JobInit ==
    /\ Init
    /\ job = [pc |-> "done", batch |-> {}, attempted |-> {}, id |-> None,
              ok |-> TRUE, pulled |-> {}]
    /\ confirmed = [id \in Ids |-> 0]
    /\ orphaned = [id \in Ids |-> 0]

Oldest(S) == CHOOSE id \in S : \A other \in S : id <= other

CappedShort(S, cap) ==          \* mutant: off by one in the slice
    IF cap = 0 THEN S
    ELSE {id \in S : Cardinality({older \in S : older < id}) + 1 < cap}

(* ids[:maxPerRun] of the ascending listing, the oldest first.             *)
Capped(S, cap) ==
    IF cap = 0 THEN S
    ELSE {id \in S : Cardinality({older \in S : older < id}) < cap}

FinishRun(ok) == job' = [job EXCEPT !.pc = "done", !.batch = {}, !.id = None, !.ok = ok]

(* Done with the report at hand; err tells whether its error is collected. *)
Advance(id, err) ==
    job' = [job EXCEPT !.pc = "next", !.batch = @ \ {id}, !.id = None,
                       !.ok = @ /\ ~err]

-----------------------------------------------------------------------------
(* The cron fires and the gate is open (Schedule).                         *)
StartRun ==
    /\ job.pc = "done"
    /\ job' = [pc |-> "wire", batch |-> {}, attempted |-> {}, id |-> None, ok |-> TRUE,
               pulled |-> {id \in Ids : <<id, "removed">> \in acked}]
    /\ UNCHANGED <<vars, githubVars>>

(* The bucket, the keyring, the token and the target repository are read.  *)
BuildPublish ==
    /\ job.pc = "wire"
    /\ job' = [job EXCEPT !.pc = "list"]
    /\ UNCHANGED <<vars, githubVars>>

(* Any of them may be missing, unreadable or malformed.                    *)
BuildPublishFails ==
    /\ job.pc = "wire"
    /\ Fault
    /\ FinishRun(FALSE)
    /\ UNCHANGED <<storeVars, call, acked, githubVars>>

List ==
    /\ job.pc = "list"
    /\ IF ListPending = {}
       THEN FinishRun(TRUE)
       ELSE \E cap \in Caps :
                job' = [job EXCEPT !.pc = "labels", !.batch = Capped(ListPending, cap),
                                   !.attempted = Capped(ListPending, cap)]
    /\ UNCHANGED <<vars, githubVars>>

ListFails ==
    /\ job.pc = "list"
    /\ Fault
    /\ FinishRun(FALSE)
    /\ UNCHANGED <<storeVars, call, acked, githubVars>>

(* Best effort: a failure fails the run in the end but stops nothing.      *)
EnsureLabels ==
    /\ job.pc = "labels"
    /\ job' = [job EXCEPT !.pc = "next"]
    /\ UNCHANGED <<vars, githubVars>>

EnsureLabelsFails ==
    /\ job.pc = "labels"
    /\ Fault
    /\ job' = [job EXCEPT !.pc = "next", !.ok = FALSE]
    /\ UNCHANGED <<storeVars, call, acked, githubVars>>

-----------------------------------------------------------------------------
(* GetPending and crypto.Open of the oldest report left.                   *)
Fetched == objects["pending"][Oldest(job.batch)]

FetchReportUnchecked ==         \* mutant: what GetPending did not find is posted
    /\ job.pc = "next"
    /\ job.batch # {}
    /\ job' = [job EXCEPT !.pc = "create",
                          !.id = IF Fetched = None THEN None ELSE Oldest(job.batch)]
    /\ UNCHANGED <<vars, githubVars>>

FetchReport ==
    /\ job.pc = "next"
    /\ job.batch # {}
    /\ IF Fetched \in Unopenable \cup {None}
       THEN Advance(Oldest(job.batch), TRUE)
       ELSE job' = [job EXCEPT !.pc = "create", !.id = Oldest(job.batch)]
    /\ UNCHANGED <<vars, githubVars>>

FetchFails ==
    /\ job.pc = "next"
    /\ job.batch # {}
    /\ Fault
    /\ Advance(Oldest(job.batch), TRUE)
    /\ UNCHANGED <<storeVars, call, acked, githubVars>>

(* ctx.Err() at the top of the loop.                                       *)
Cancelled ==
    /\ job.pc = "next"
    /\ job.batch # {}
    /\ Fault
    /\ FinishRun(FALSE)
    /\ UNCHANGED <<storeVars, call, acked, githubVars>>

CreateConfirmedUnhooked ==      \* mutant: WithMarkPublished is not wired
    /\ job.pc = "create"
    /\ confirmed' = [confirmed EXCEPT ![job.id] = @ + 1]
    /\ Advance(job.id, FALSE)
    /\ UNCHANGED <<vars, orphaned>>

(* A readable 201: onPublished calls MarkPublished.                        *)
CreateConfirmed ==
    /\ job.pc = "create"
    /\ confirmed' = [confirmed EXCEPT ![job.id] = @ + 1]
    /\ call' = [call EXCEPT ![Cron] = Calling(job.id, "published")]
    /\ job' = [job EXCEPT !.pc = "mark"]
    /\ UNCHANGED <<storeVars, acked, faults, orphaned>>

(* The POST took effect but its answer did not arrive; do() posts again.   *)
CreateLost ==
    /\ job.pc = "create"
    /\ Fault
    /\ orphaned' = [orphaned EXCEPT ![job.id] = @ + 1]
    /\ UNCHANGED <<storeVars, call, acked, job, confirmed>>

CreateFailsMarked ==            \* mutant: the hook runs on an error too
    /\ job.pc = "create"
    /\ Fault
    /\ call' = [call EXCEPT ![Cron] = Calling(job.id, "published")]
    /\ job' = [job EXCEPT !.pc = "mark", !.ok = FALSE]
    /\ UNCHANGED <<storeVars, acked, githubVars>>

(* An error status, or the attempt budget is spent.                        *)
CreateFails ==
    /\ job.pc = "create"
    /\ Fault
    /\ Advance(job.id, TRUE)
    /\ UNCHANGED <<storeVars, call, acked, githubVars>>

MarkedRegardless ==             \* mutant: the hook's error is dropped
    /\ job.pc = "mark"
    /\ call[Cron].pc = "done"
    /\ Advance(job.id, FALSE)
    /\ call' = [call EXCEPT ![Cron] = Idle]
    /\ UNCHANGED <<storeVars, acked, faults, githubVars>>

(* MarkPublished returned; ErrUnknownReport is collected like any error.   *)
Marked ==
    /\ job.pc = "mark"
    /\ call[Cron].pc = "done"
    /\ Advance(job.id, call[Cron].res # "nil")
    /\ call' = [call EXCEPT ![Cron] = Idle]
    /\ UNCHANGED <<storeVars, acked, faults, githubVars>>

EndRun ==
    /\ job.pc = "next"
    /\ job.batch = {}
    /\ FinishRun(job.ok)
    /\ UNCHANGED <<vars, githubVars>>

(* The isolate of the run is evicted.                                      *)
RunCrashes ==
    /\ job.pc # "done"
    /\ Fault
    /\ FinishRun(FALSE)
    /\ late' = late \cup Outstanding(Cron)
    /\ call' = [call EXCEPT ![Cron] = Idle]
    /\ UNCHANGED <<objects, sealed, accepted, acked, githubVars>>

-----------------------------------------------------------------------------
JobStep ==
    \/ StartRun
    \/ BuildPublish
    \/ List
    \/ EnsureLabels
    \/ FetchReport
    \/ CreateConfirmed
    \/ TransitionStep(Cron) /\ UNCHANGED <<job, githubVars>>
    \/ Marked
    \/ EndRun

JobFailure ==
    \/ BuildPublishFails
    \/ ListFails
    \/ EnsureLabelsFails
    \/ FetchFails
    \/ Cancelled
    \/ CreateLost
    \/ CreateFails
    \/ RunCrashes
    \/ (ProbeFails(Cron) \/ StoreFails(Cron)) /\ UNCHANGED <<job, githubVars>>

AdminStep(c) ==
    /\ \/ \E id \in Ids : Begin(c, id, "removed")
       \/ Retry(c)
       \/ GiveUp(c)
       \/ TransitionStep(c)
       \/ Failure(c)
    /\ UNCHANGED <<job, githubVars>>

StoreStep ==
    /\ Ingest \/ \E r \in late : Land(r)
    /\ UNCHANGED <<job, githubVars>>

JobNext ==
    \/ JobStep
    \/ JobFailure
    \/ \E c \in Callers \ {Cron} : AdminStep(c)
    \/ StoreStep

JobSpec == JobInit /\ [][JobNext]_jobVars

(* The cron keeps firing every week and a run that is not interrupted goes *)
(* on; MaxFaults makes the failures stop.  Nothing else is assumed fair.   *)
FairJobSpec == JobSpec /\ WF_jobVars(JobStep)

-----------------------------------------------------------------------------
(***************************************************************************)
(* Properties.                                                             *)
(***************************************************************************)
Issues(id) == confirmed[id] + orphaned[id]

(* A report is marked published, now or by a write still under way, only   *)
(* after a confirmed 201 (labels-and-abuse.md 3.2, publish.go:187-190).    *)
PublishedHasIssue ==
    /\ \A id \in Ids : objects["published"][id] # None => confirmed[id] > 0
    /\ \A r \in late : r.to = "published" => confirmed[r.id] > 0

(* A run that returned nil created and marked every report of its batch,   *)
(* and none of them is pending any more, whatever the maintainer and the   *)
(* store did meanwhile (publish.go:195-200).                               *)
CleanRunPublishedAll ==
    job.pc = "done" /\ job.ok =>
        \A id \in job.attempted : <<id, "published">> \in acked /\ confirmed[id] > 0

(* A removal confirmed to the maintainer before a run starts keeps the     *)
(* report out of that run: no issue is created for it (admin.go:10-13).    *)
PulledStaysOut ==
    [][\A id \in job.pulled : confirmed'[id] = confirmed[id]
                              /\ orphaned'[id] = orphaned[id]]_jobVars

(* No duplicate issue without a failure to blame: every issue beyond a     *)
(* report's first goes with a failed call, a lost answer or a crash        *)
(* (publish.go:84-100, 102-112).                                           *)
DuplicatesNeedFaults == \A id \in Ids : Issues(id) <= 1 + faults

(* A report leaves pending, the oldest first and whatever the cap: only    *)
(* reports no run can open may keep their place, and only as many of them  *)
(* as the cap may keep a newer one waiting (publish.go:14-17, 222).        *)
Blocking(id) == {other \in ListPending : other <= id /\ sealed[other] \in Unopenable}
Blocked(id) ==
    \/ id \in Blocking(id)
    \/ \E cap \in Caps \ {0} : Cardinality(Blocking(id)) >= cap
BacklogDrains == \A id \in Ids : id \in ListPending ~> id \notin ListPending \/ Blocked(id)

(* A report that can be opened leaves pending even if others cannot be:    *)
(* "oldest-first; remainder drains next run" (publish.go:222) has no       *)
(* exception for a backlog that holds reports no run can publish.          *)
OpenableDrains ==
    \A id \in Ids :
        (id \in ListPending /\ sealed[id] \notin Unopenable) ~> id \notin ListPending

(***************************************************************************)
(* What makes PublishedHasIssue, CleanRunPublishedAll and                  *)
(* DuplicatesNeedFaults inductive.                                         *)
(***************************************************************************)

(* The run calls MarkPublished for the report at hand and nothing else,    *)
(* and nobody else marks published.                                        *)
CronIsSound ==
    /\ \A c \in Callers \ {Cron} : call[c].to = "removed"
    /\ job.pc # "mark" => call[Cron] = Idle
    /\ job.pc = "mark" => /\ call[Cron].pc # "idle" /\ call[Cron].id = job.id
                          /\ call[Cron].to = "published" /\ confirmed[job.id] > 0
    /\ job.pc \in {"create", "mark"} => Stored(job.id)

(* Without an error so far, what left the batch was created and marked.    *)
BatchIsSound ==
    /\ job.pc \in {"wire", "list"} => job.attempted = {}
    /\ job.pc \in {"done", "wire", "list"} => job.batch = {}
    /\ \A id \in job.pulled : id \notin job.batch /\ <<id, "removed">> \in acked
    /\ job.ok => \A id \in job.attempted \ job.batch :
                    <<id, "published">> \in acked /\ confirmed[id] > 0

OutcomeIsTrue ==
    job.pc = "mark" /\ call[Cron].pc = "done" =>
        \/ call[Cron].res = "nil" /\ <<job.id, "published">> \in acked
        \/ call[Cron].res = "unknown" /\ Gone(job.id)
        \/ call[Cron].res = "error" /\ Issues(job.id) <= faults

(* A report a later run may still pick up has at most one issue for each   *)
(* failure; only one that left pending, or is about to, has one more.      *)
IssuesAreAccounted ==
    /\ \A id \in Ids :
          \/ Issues(id) <= faults
          \/ /\ Issues(id) <= 1 + faults
             /\ Gone(id) \/ (job.pc = "mark" /\ job.id = id)
    /\ job.pc = "create" => Issues(job.id) <= faults

JobIInv ==
    /\ IInv
    /\ JobTypeOK
    /\ CronIsSound
    /\ BatchIsSound
    /\ OutcomeIsTrue
    /\ IssuesAreAccounted
    /\ PublishedHasIssue
=============================================================================
