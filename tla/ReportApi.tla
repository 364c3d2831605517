----------------------------- MODULE ReportApi -----------------------------
(***************************************************************************)
(* The fetch side of the Worker, composed over Lifecycle: what one isolate *)
(* answers to the app and to the maintainer (internal/ingest,              *)
(* internal/handler, worker/admin.go), with the telemetry every request    *)
(* passes through (worker/telemetry_wasm.go).                              *)
(*                                                                         *)
(* Handlers are requests under way in the isolate, each a goroutine that   *)
(* yields at every await.  The other callers of Lifecycle run in other     *)
(* isolates and mark reports published.  The routes that only read, the    *)
(* listing of pending reports and the health check, are left out: what     *)
(* they answer is Lifecycle!ListPending and changes nothing.               *)
(***************************************************************************)
EXTENDS Lifecycle

CONSTANTS Handlers,    \* requests under way in the isolate
          Endpoint     \* whether an OTLP endpoint is configured

ASSUME HandlersAssumption == Handlers \subseteq Callers
ASSUME EndpointAssumption == Endpoint \in BOOLEAN

VARIABLES req,         \* req[h]: the request and the answer to it
          token,       \* the admin secret in the Secrets Store
          provider,    \* telBuilt: the isolate has built its provider
          telMu,       \* the request that holds telMu
          asked,       \* ids whose removal the maintainer asked for, with the
                       \* right token (observation)
          span         \* span[h]: outcome of the span exported for it

telemetryVars == <<provider, telMu>>
requestVars == <<req, asked, span>>
apiVars == <<vars, requestVars, token, telemetryVars>>

(* What can be wrong with a report that is posted: its method, its media   *)
(* type, its declared length, the length it really has, the connection it  *)
(* comes over, its JSON or its fields.                                     *)
Flaws == {"method", "type", "declared", "long", "unread", "schema"}

Answers == {200, 202, 400, 401, 404, 405, 413, 415, 503}
Tokens == {"right", "wrong", "empty"}

(* id is the report the request is about, bearer the token it carries;     *)
(* flawed tells that something is wrong with it, which for an admin route  *)
(* is the method; traced that its context carries a provider.              *)
Reqs == [pc     : {"idle", "telemetry", "headers", "serve", "store", "token", "act", "call",
                   "finish", "answered"},
         op     : {"none", "ingest", "remove"},
         id     : Ids \cup {None},
         bearer : Tokens,
         flawed : BOOLEAN,
         traced : BOOLEAN,
         status : Answers \cup {0}]

Outcomes == {"none", "accepted", "rejected", "error"}

ApiTypeOK ==
    /\ TypeOK
    /\ req \in [Handlers -> Reqs]
    /\ token \in {"right", "empty"}
    /\ provider \in BOOLEAN
    /\ telMu \in Handlers \cup {None}
    /\ telMu # None => req[telMu].pc = "headers"
    /\ asked \subseteq Ids
    /\ span \in [Handlers -> Outcomes]

NoRequest == [pc |-> "idle", op |-> "none", id |-> None, bearer |-> "empty",
              flawed |-> FALSE, traced |-> FALSE, status |-> 0]

ApiInit ==
    /\ Init
    /\ req = [h \in Handlers |-> NoRequest]
    /\ token \in {"right", "empty"}
    /\ provider = FALSE
    /\ telMu = None
    /\ asked = {}
    /\ span = [h \in Handlers |-> "none"]

-----------------------------------------------------------------------------
(***************************************************************************)
(* Requests arrive.  The id of a report is minted while it is stored; it   *)
(* is drawn here so that two requests do not mint the same.  A maintainer  *)
(* names a report from a listing, or an id that was never minted.          *)
(***************************************************************************)
Open(h) == req[h].pc \notin {"idle", "answered"}
Storing(id) == \E h \in Handlers : Open(h) /\ req[h].op = "ingest" /\ req[h].id = id
Minted(id) == Fresh(id) /\ \A h \in Handlers : req[h].id # id
Named(id) == Stored(id) \/ (sealed[id] = None /\ ~Storing(id))

Request(h, op, id, bearer, flawed) ==
    /\ req' = [req EXCEPT ![h] = [NoRequest EXCEPT !.pc = "telemetry", !.op = op, !.id = id,
                                                   !.bearer = bearer, !.flawed = flawed]]
    /\ asked' = IF op = "remove" /\ bearer = "right" THEN asked \cup {id} ELSE asked
    /\ span' = [span EXCEPT ![h] = "none"]
    /\ UNCHANGED <<vars, token, telemetryVars>>

Arrive(h) ==
    /\ ~Open(h)
    /\ ~Failed(h)
    /\ \/ \E id \in Ids : Minted(id) /\ Request(h, "ingest", id, "empty", FALSE)
       \/ \E id \in Ids, bearer \in Tokens : Named(id) /\ Request(h, "remove", id, bearer, FALSE)
       \/ \E id \in Ids : Named(id) /\ Request(h, "remove", id, "empty", TRUE)

(* The maintainer asks again, with the same token, for a removal that was  *)
(* answered 503 or not at all.                                             *)
Resend(h) ==
    /\ ~Open(h)
    /\ Failed(h)
    /\ Request(h, "remove", call[h].id, "right", FALSE)

-----------------------------------------------------------------------------
(***************************************************************************)
(* withWorkerTelemetry and workerTelemetry.  The first request that finds  *)
(* no provider builds it, and holds telMu while it awaits the headers.     *)
(***************************************************************************)
Traced(h, traced) == req' = [req EXCEPT ![h].pc = "serve", ![h].traced = traced]

HasProvider(h) ==
    /\ req[h].pc = "telemetry" /\ telMu = None
    /\ provider \/ ~Endpoint
    /\ Traced(h, provider)
    /\ UNCHANGED <<vars, asked, span, token, telemetryVars>>

ReadHeaders(h) ==
    /\ req[h].pc = "telemetry" /\ telMu = None
    /\ ~provider /\ Endpoint
    /\ telMu' = h
    /\ req' = [req EXCEPT ![h].pc = "headers"]
    /\ UNCHANGED <<vars, asked, span, token, provider>>

BuildProvider(h) ==
    /\ req[h].pc = "headers"
    /\ provider' = TRUE
    /\ telMu' = None
    /\ Traced(h, TRUE)
    /\ UNCHANGED <<vars, asked, span, token>>

BuildBareProviderLocked(h) ==   \* mutant: an early return without the Unlock
    /\ req[h].pc = "headers"
    /\ Fault
    /\ Traced(h, FALSE)
    /\ UNCHANGED <<storeVars, call, acked, asked, span, token, telemetryVars>>

BuildBareProviderRereads(h) ==  \* mutant: an unbound secret is read again and again
    /\ req[h].pc = "headers"
    /\ telMu' = None
    /\ req' = [req EXCEPT ![h].pc = "telemetry"]
    /\ UNCHANGED <<vars, asked, span, token, provider>>

(* The secret is unavailable: the provider is built without auth headers,  *)
(* and is the isolate's from then on.                                      *)
BuildBareProvider(h) ==
    /\ req[h].pc = "headers"
    /\ Fault
    /\ provider' = TRUE
    /\ telMu' = None
    /\ Traced(h, TRUE)
    /\ UNCHANGED <<storeVars, call, acked, asked, span, token>>

-----------------------------------------------------------------------------
(* Writing the answer.  An ingest span is ended after it; see Finish.      *)
Answer(h, status) == req' = [req EXCEPT ![h].pc = "finish", ![h].status = status]

(***************************************************************************)
(* POST /v1/reports: the checks in the order the handler makes them.       *)
(***************************************************************************)
RefusalUncapped(flaws) ==       \* mutant: MaxBytesReader is left out
    IF "method" \in flaws THEN 405
    ELSE IF "type" \in flaws THEN 415
    ELSE IF "declared" \in flaws THEN 413
    ELSE IF flaws \cap {"unread", "schema"} # {} THEN 400
    ELSE 0

Refusal(flaws) ==
    IF "method" \in flaws THEN 405
    ELSE IF "type" \in flaws THEN 415
    ELSE IF flaws \cap {"declared", "long"} # {} THEN 413
    ELSE IF flaws \cap {"unread", "schema"} # {} THEN 400
    ELSE 0

Ingested(h) ==
    /\ req[h].pc = "serve" /\ req[h].op = "ingest"
    /\ \E flaws \in SUBSET Flaws :
         req' = [req EXCEPT ![h].pc = IF Refusal(flaws) = 0 THEN "store" ELSE "finish",
                            ![h].status = Refusal(flaws),
                            ![h].flawed = flaws # {}]
    /\ UNCHANGED <<vars, asked, span, token, telemetryVars>>

Store(h) ==
    /\ req[h].pc = "store"
    /\ \E f \in Frames : StoreReport(req[h].id, f)
    /\ Answer(h, 202)
    /\ UNCHANGED <<asked, span, token, telemetryVars>>

StoreRefused(h) ==
    /\ req[h].pc = "store"
    /\ \E f \in Frames : StoreReportFails(req[h].id, f)
    /\ Answer(h, 503)
    /\ UNCHANGED <<asked, span, token, telemetryVars>>

(* Scrubbing, the keyring or the seal fail before anything is put.         *)
SealFails(h) ==
    /\ req[h].pc = "store"
    /\ Fault
    /\ Answer(h, 503)
    /\ UNCHANGED <<storeVars, call, acked, asked, span, token, telemetryVars>>

-----------------------------------------------------------------------------
(***************************************************************************)
(* The admin API.  A route takes one method; authorize awaits the token,   *)
(* and only then is anything looked up.                                    *)
(***************************************************************************)
Dispatch(h) ==
    /\ req[h].pc = "serve" /\ req[h].op = "remove"
    /\ IF req[h].flawed THEN Answer(h, 405) ELSE req' = [req EXCEPT ![h].pc = "token"]
    /\ UNCHANGED <<vars, asked, span, token, telemetryVars>>

AuthorizedUnset(h) ==           \* mutant: an empty secret matches an empty token
    req[h].bearer = token

(* secret # "" and bearerMatches.                                          *)
Authorized(h) == token # "empty" /\ req[h].bearer = token

Authorize(h) ==
    /\ req[h].pc = "token"
    /\ IF Authorized(h) THEN req' = [req EXCEPT ![h].pc = "act"] ELSE Answer(h, 401)
    /\ UNCHANGED <<vars, asked, span, token, telemetryVars>>

(* The secret or, once authorized, the bucket binding cannot be read.      *)
AdminFails(h) ==
    /\ req[h].pc = "token" \/ req[h].pc = "act"
    /\ Fault
    /\ Answer(h, 503)
    /\ UNCHANGED <<storeVars, call, acked, asked, span, token, telemetryVars>>

(* MarkRemoved: a transition of Lifecycle with this request as its caller. *)
Remove(h) ==
    /\ req[h].pc = "act"
    /\ IF Failed(h) THEN Retry(h) ELSE Begin(h, req[h].id, "removed")
    /\ req' = [req EXCEPT ![h].pc = "call"]
    /\ UNCHANGED <<asked, span, token, telemetryVars>>

(* The goroutine of the request forgets the call it made, unless it failed *)
(* and the maintainer is going to repeat it.                               *)
Forget(h) == call' = IF Failed(h) THEN call ELSE [call EXCEPT ![h] = Idle]

RemovedOrNot(h) ==              \* mutant: only unknown reports are told apart
    /\ req[h].pc = "call" /\ call[h].pc = "done"
    /\ Answer(h, IF call[h].res = "unknown" THEN 404 ELSE 200)
    /\ Forget(h)
    /\ UNCHANGED <<storeVars, acked, faults, asked, span, token, telemetryVars>>

Removed(h) ==
    /\ req[h].pc = "call" /\ call[h].pc = "done"
    /\ Answer(h, IF call[h].res = "nil" THEN 200
                 ELSE IF call[h].res = "unknown" THEN 404
                 ELSE 503)
    /\ Forget(h)
    /\ UNCHANGED <<storeVars, acked, faults, asked, span, token, telemetryVars>>

-----------------------------------------------------------------------------
(* classifyIngest, of the status the recorder saw.                         *)
Classify(status) ==
    IF status \in {200, 202} THEN "accepted"
    ELSE IF status = 503 THEN "error"
    ELSE "rejected"

(* finishIngestSpan: only an ingest request whose provider is enabled has  *)
(* a span to put the outcome on.                                           *)
Outcome(h, status) ==
    IF req[h].traced /\ req[h].op = "ingest" THEN Classify(status) ELSE "none"

(* The goroutine returns, and what it knew of its caller is gone.          *)
Close(h) == req' = [req EXCEPT ![h].pc = "answered", ![h].bearer = "empty", ![h].traced = FALSE]

FinishUnrecorded(h) ==          \* mutant: the recorder is not handed to serve
    /\ req[h].pc = "finish"
    /\ Close(h)
    /\ span' = [span EXCEPT ![h] = Outcome(h, 200)]
    /\ UNCHANGED <<vars, asked, token, telemetryVars>>

(* The answer is written, the deferred End exports the span, and a failing *)
(* export goes to the error handler and changes nothing.                   *)
Finish(h) ==
    /\ req[h].pc = "finish"
    /\ Close(h)
    /\ span' = [span EXCEPT ![h] = Outcome(h, req[h].status)]
    /\ UNCHANGED <<vars, asked, token, telemetryVars>>

(* The runtime evicts the isolate: its requests and its provider are gone, *)
(* and a write that was under way may still land.                          *)
Evict ==
    /\ Fault
    /\ late' = late \cup UNION {Outstanding(h) : h \in Handlers}
    /\ call' = [c \in Callers |-> IF c \in Handlers /\ call[c].pc \in InFlight
                                  THEN [call[c] EXCEPT !.pc = "done", !.data = None,
                                                       !.res = "crashed"]
                                  ELSE call[c]]
    /\ req' = [h \in Handlers |-> IF Open(h) THEN NoRequest ELSE req[h]]
    /\ provider' = FALSE
    /\ telMu' = None
    /\ UNCHANGED <<objects, sealed, accepted, acked, asked, span, token>>

-----------------------------------------------------------------------------
HandlerStep(h) ==
    \/ HasProvider(h)
    \/ ReadHeaders(h)
    \/ BuildProvider(h)
    \/ Ingested(h)
    \/ Store(h)
    \/ Dispatch(h)
    \/ Authorize(h)
    \/ Remove(h)
    \/ TransitionStep(h) /\ UNCHANGED <<requestVars, token, telemetryVars>>
    \/ Removed(h)
    \/ Finish(h)

HandlerFails(h) ==
    \/ BuildBareProvider(h)
    \/ StoreRefused(h)
    \/ SealFails(h)
    \/ AdminFails(h)
    \/ (ProbeFails(h) \/ StoreFails(h)) /\ UNCHANGED <<requestVars, token, telemetryVars>>

(* The weekly run, in its own isolate: it marks reports it has listed.     *)
OtherStep(c) ==
    /\ \/ \E id \in Ids : Stored(id) /\ Begin(c, id, "published")
       \/ GiveUp(c)
       \/ TransitionStep(c)
       \/ Failure(c)
    /\ UNCHANGED <<requestVars, token, telemetryVars>>

ApiNext ==
    \/ \E h \in Handlers : Arrive(h) \/ Resend(h) \/ HandlerStep(h) \/ HandlerFails(h)
    \/ Evict
    \/ \E c \in Callers \ Handlers : OtherStep(c)
    \/ \E r \in late : Land(r) /\ UNCHANGED <<requestVars, token, telemetryVars>>

ApiSpec == ApiInit /\ [][ApiNext]_apiVars

(* A goroutine goes on, every await returns, and the maintainer repeats a  *)
(* removal that failed; MaxFaults makes the failures and evictions stop.   *)
FairApiSpec ==
    /\ ApiSpec
    /\ \A h \in Handlers : WF_apiVars(HandlerStep(h) \/ Resend(h))

-----------------------------------------------------------------------------
(***************************************************************************)
(* Properties.                                                             *)
(***************************************************************************)

(* An answer stays true however the report goes on: 202 means a sound      *)
(* report that is stored, a refusal that nothing was sealed, 200 to a      *)
(* removal that the report is removed and 404 that it is not pending, so   *)
(* that no run which lists the reports later finds it; one that holds it   *)
(* already may still post it (ingest.go:53-60, admin.go:10-13).            *)
AnswersHold ==
    \A h \in Handlers :
        LET r == req[h]
        IN  r.pc \in {"finish", "answered"} =>
              /\ r.op = "ingest" /\ r.status = 202 => Stored(r.id) /\ ~r.flawed
              /\ r.op = "ingest" /\ r.status \notin {202, 503} => sealed[r.id] = None
              /\ r.op = "remove" /\ r.status = 200 => objects["removed"][r.id] # None
              /\ r.op = "remove" /\ r.status \in {200, 404} => objects["pending"][r.id] = None

(* Only the maintainer removes: a removed copy exists, or is on its way,   *)
(* only of a report whose removal was asked for with the configured token, *)
(* and never while no token is configured (admin.go:24-29).                *)
FailsClosed ==
    LET removed == {id \in Ids : objects["removed"][id] # None}
                     \cup {r.id : r \in {w \in late : w.to = "removed"}}
    IN  removed \subseteq asked /\ (token = "empty" => removed = {})

(* The span of an ingest request tells what became of the report: an       *)
(* outcome of accepted is never reported for a report that is not stored,  *)
(* and the alert of a failure never without the app being told 503         *)
(* (ingest.go:62-67, 196-224).                                             *)
SpansTellTheTruth ==
    \A h \in Handlers :
        /\ span[h] = "accepted" => Stored(req[h].id)
        /\ span[h] = "error" => req[h].status = 503

(***************************************************************************)
(* What makes the invariants above inductive.                              *)
(***************************************************************************)

(* A request to ingest holds its id alone until it has sealed a report     *)
(* under it, so that what another request or call knows of an id that was  *)
(* never sealed stays true.                                                *)
Unsealed == {"telemetry", "headers", "serve", "store"}

HoldsItAlone(h) ==
    req[h].op = "ingest" /\ req[h].pc \in Unsealed =>
        Fresh(req[h].id) /\ \A g \in Handlers \ {h} : req[g].id # req[h].id

(* What was established by the checks a request has passed.                *)
RequestIsSound(h) ==
    /\ req[h].pc # "idle" => req[h].op # "none" /\ req[h].id \in Ids
    /\ req[h].pc = "store" => req[h].op = "ingest" /\ ~req[h].flawed
    /\ req[h].pc \in {"token", "act", "call"} => req[h].op = "remove"
    /\ req[h].op = "remove" /\ req[h].bearer = "right" => req[h].id \in asked
    /\ req[h].pc = "act" => Authorized(h)
    /\ req[h].pc # "answered" => span[h] = "none"

(* Not pending now nor later: it left, or there was never such a report.   *)
OffPending(id) == Gone(id) \/ sealed[id] = None

(* What an answer was given on.                                            *)
AnswerIsFounded(h) ==
    req[h].pc \in {"finish", "answered"} =>
        /\ req[h].op = "ingest" =>
              /\ req[h].status # 200
              /\ req[h].status = 202 => Stored(req[h].id) /\ ~req[h].flawed
              /\ req[h].status \notin {202, 503} => sealed[req[h].id] = None
        /\ req[h].op = "remove" =>
              /\ req[h].status = 200 => <<req[h].id, "removed">> \in acked
              /\ req[h].status = 404 => OffPending(req[h].id)

(* The call of a request is about the same report, and a call that failed  *)
(* is only ever repeated for the report it failed for.                     *)
CallIsItsOwn(h) ==
    /\ call[h].to = "removed"
    /\ call[h].pc \in InFlight => req[h].pc = "call"
    /\ req[h].pc = "call" => call[h].pc # "idle" /\ call[h].id = req[h].id
    /\ Open(h) /\ Failed(h) => req[h].op = "remove" /\ call[h].id = req[h].id
    /\ call[h].pc = "done" /\ call[h].res = "nil" => <<call[h].id, "removed">> \in acked
    /\ call[h].pc = "done" /\ call[h].res = "unknown" => OffPending(call[h].id)

(* Whoever is moving a report to removed was asked to.                     *)
RemovalsAreAsked ==
    \A c \in Callers : call[c].to = "removed" /\ call[c].pc # "idle" =>
        call[c].id \in asked /\ token = "right"

RequestsAreSound ==
    \A h \in Handlers : /\ HoldsItAlone(h)
                        /\ RequestIsSound(h)
                        /\ AnswerIsFounded(h)
                        /\ CallIsItsOwn(h)

ApiIInv ==
    /\ IInv
    /\ ApiTypeOK
    /\ RequestsAreSound
    /\ RemovalsAreAsked
    /\ FailsClosed
    /\ SpansTellTheTruth

(* Every request is answered unless its isolate is evicted: nobody keeps   *)
(* telMu for good (telemetry_wasm.go:71-108).                              *)
EveryRequestIsAnswered ==
    \A h \in Handlers : req[h].pc = "telemetry" ~> req[h].pc \in {"idle", "answered"}

(* A removal that the maintainer repeats for as long as it fails takes the *)
(* report out of pending, whatever the weekly run does with it meanwhile   *)
(* (lifecycle.go:33-36: "re-running the same transition converges").       *)
RemovalConverges ==
    \A h \in Handlers, id \in Ids :
        (call[h].pc = "get" /\ call[h].id = id) ~> objects["pending"][id] = None
=============================================================================
