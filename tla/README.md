# Verification of the LibreMail bug-report ingest Worker

TLA+ modules that model the program in `src/`, TLC configurations that check them on small
instances, and TLAPS proofs of the properties that matter most. Paths below are relative to
`src/`.

```
tlc -workers 2 -config Lifecycle.cfg MCLifecycle.tla     # one run
tlapm LifecycleProofs.tla                                # one proof module
```

## 1. The system

A Cloudflare Worker (Go compiled to Wasm) takes bug reports from the LibreMail app over HTTP,
scrubs, encrypts and stores them in an R2 bucket, lets one maintainer pull reports out of the
queue, and every Friday at 17:00 Central posts what is left as GitHub issues. Requests and
cron events run in isolates that the runtime starts and evicts as it likes. Isolates share
nothing but the bucket, the Secrets Store and GitHub. There is no lock, no queue and no
transaction between them.

| component | code | state | operations | talks to |
|---|---|---|---|---|
| ingest endpoint | `internal/ingest`, `internal/handler/handler.go` | none | `POST /v1/reports`: 202, 400, 405, 413, 415, 503 | storage sink |
| storage sink, object store | `internal/storage/{sink,store,memory,r2_wasm,worker_sink_wasm}.go` | the bucket; per isolate a cached keyring behind a mutex | `Store`, `Put`, `Get`, `List`, `Delete`, `loadKeyring` | R2, Secrets Store, crypto |
| report lifecycle | `internal/lifecycle`, `internal/storage/status.go` | none of its own: the key `reports/<status>/<id>` is the status | `ListPending`, `GetPending`, `MarkRemoved`, `MarkPublished` | object store |
| maintainer admin API | `internal/handler/admin.go`, `worker/admin.go` | none | list, remove (POST, DELETE) | lifecycle |
| weekly trigger | `internal/schedule`, `worker/scheduled_wasm.go` | none | gate on a cron's scheduled time, then run | publish run |
| publish run | `internal/publish/publish.go` | one run: batch, errors so far | list, cap, ensure labels, open, format, post, mark | lifecycle, crypto, GitHub client |
| GitHub client | `internal/publish/github.go` | time of the last POST | `EnsureLabels`, `CreateIssue`: pacing, retries, waits | GitHub |
| issue format | `internal/publish/format.go` | none | fence, budget and truncation of a body | publish run |
| encryption keyring | `internal/crypto/frame.go` | versions, the active one | parse, seal, open | Secrets Store |
| PII scrubbing | `internal/scrub` | none | ordered rules over the raw payload | storage sink |
| telemetry | `internal/telemetry`, `worker/telemetry_wasm.go` | spans of a run; a provider per isolate | observe-only | OTLP endpoint |
| AES-GCM backends | `internal/crypto/gcm_*.go` | none | seal, open | WebCrypto |
| Worker entry, dev server | `worker/main.go`, `cmd/devserver` | none | wiring | all |
| infrastructure | `infra` | none | declares crons, limits, bindings | Cloudflare |

What is hard here, and what each component owes:

* **Lifecycle.** A change of status is Get, Put, Delete, three calls that other callers,
  failures and evictions get between, and a call that failed may take effect later. It owes
  that no accepted report is lost, that ciphertext is moved and never changed, that an
  acknowledged move stays, and that a retry converges.
* **Publish run.** It holds ids and frames it read earlier while the maintainer removes the
  same reports; the issue is created in one system and marked in another; a POST may work and
  not be answered. It owes that published means an issue exists, that a run which returns nil
  did all of its batch, that a removal confirmed earlier keeps a report out, and that a
  backlog drains under the cap.
* **GitHub client.** One clock of mutations for labels, issues and retries, four sources of a
  wait, an attempt budget and a context. It owes spacing from the moment an answer's headers are
  there, obedience to what an answer asked, and an honest outcome.
* **Weekly trigger.** Two UTC crons and a hand-written daylight-saving rule. It owes exactly
  one run each Friday.
* **Keyring.** A cached copy in each isolate is stale as soon as the secret is written. It
  owes that every stored frame can be opened with the secret the next run reads.
* **Listing.** Pages of a bucket that changes between them. It owes completeness and order.
* **PII scrubbing.** Rules that each see what the ones before them left, applied to JSON they
  do not parse. It owes that what has a shape of its own is masked, that a second pass changes
  nothing, and that the payload stays a payload.
* **Issue format.** A budget of sections of variable length, and a fence that the reporter's
  text must not close. It owes the size limit and the block's integrity.
* **Telemetry of a run.** One span per report, six ways for it to fail, a loop that may be left
  early. It owes a whole trace that tells what happened, and an alert for every run that failed.
* **Ingest, admin API, telemetry.** Requests share an isolate, a secret and a provider that the
  first of them builds under a mutex, and the bucket with the weekly run. They owe answers that
  stay true, removals by nobody but the maintainer, spans that tell what happened, and an
  answer to everyone.

`PROJECT.json` lists every hazard with its line and the properties that would notice it.

## 2. The modules

| module | models | composes |
|---|---|---|
| `ReportStatus` | what the lifecycle promises about a report (abstract) | |
| `Lifecycle` | the lifecycle over the object store, with callers, failures, evictions, late writes | refines `ReportStatus` |
| `PublishJob` | the weekly run and the admin's removals | EXTENDS `Lifecycle` |
| `IssueCall` | what the run relies on from `CreateIssue` (abstract) | |
| `GitHubClient` | pacing, retries and waits of one run's POSTs | refines `IssueCall` |
| `Schedule` | the gate, the crons, and a Chicago clock to check it against | |
| `KeyRotation` | keyring caches, requests, runs and the maintainer's rotations | |
| `BucketListing` | `R2Store.List` over pages | |
| `RunTelemetry` | the spans, counts and alerts of a weekly run | EXTENDS `PublishJob` |
| `Scrub` | the scrubbing rules over lexemes (operators, no state) | |
| `IssueFormat` | the body of an issue (operators, no state) | |
| `ReportText` | a report's text from the payload to the issue | EXTENDS `Scrub`, `IssueFormat` |
| `ReportApi` | the requests of an isolate: ingest, removals, bearer check, telemetry provider | EXTENDS `Lifecycle` |
| `MC*` | finite instances for TLC | |
| `*Proofs` | TLAPS proofs about the module they extend | |

Definitions named as mutants in a comment are broken variants of the definition that follows
them: swapping one in makes a property fail, which shows that the property watches it.

### Lifecycle

`objects[status][id]` is the bucket, with the frame stored under each key. `call[c]` is the
transition caller `c` is in: `pc` names the next store call, `data` the frame it read. One
action is one store call with the branch that follows it: `GetSource`, `ProbeFinds`,
`ProbeMisses`, `PutDestination`, `DeleteSource`. `StoreFails` and `ProbeFails` are a call that
returns an error, `Crash` an eviction. A write whose outcome nobody learnt goes to `late` and
lands in a later step (`Land`) or never. `sealed`, `accepted` and `acked` remember what ingest
sealed, who was answered 202 and which transitions returned nil. R2 is strongly consistent, so
a read sees every write that has landed. Ids are fresh: 80 random bits behind a timestamp.
`Begin` lets a caller name a report in the bucket or an id that was never minted; a caller
whose transition failed may retry or give up.

### PublishJob

The run is the caller `Cron` of `Lifecycle`, every other caller an admin request. `job` holds
its place, what is left of the batch, and whether an error was collected. `CreateConfirmed` is
a readable 201, after which the hook `MarkPublished` runs step by step as `TransitionStep`;
`CreateLost` is a POST that took effect unanswered, after which `do` posts again;
`CreateFails` an error. A run begins with its wiring (`BuildPublish`), which may fail before
anything is listed. `Caps` are the caps a run may be built with, 0 for none. `Unopenable` frames are those `crypto.Open` rejects. The listing is one
step here: `BucketListing` says what the pages owe it. Two runs at a time are left out: the
runs are a week apart, and `Schedule` shows that two crons of a Friday start one.

### GitHubClient

Time is a number of ticks. A run is a serial list of calls: labels first, then issues. `pc`
follows `do`: `space` is `spaceMutations`, `post` the exchange with its answer, `wait` the
backoff. An answer has a status, `Retry-After`, a reset, a remaining count and the secondary
limit's text, and may be any of them; a POST may also fail before or after it took effect.
An exchange has two lags, up to `MaxLag` each: the headers come, which is when `recordMutation`
stamps `last` (`github.go:323`), and then the body, read by `io.ReadAll`, which may also break off.
Sleeps may end late, by `MaxLag`, and never early. `prev` and `sent` observe the exchanges.
Issues are created by GitHub (`Creates`), with or without the client reading a 201.

### Schedule

`utc` runs hour by hour through a year. `wall` is a second clock that ticks with it and is
put forward and back by its own local rule, so that the gate, computed from UTC alone, has
something independent to be compared with. `fires` are cron events that were due and are not
delivered yet; they arrive up to `MaxDelay` hours late, in either order.

### KeyRotation

`secret` is the keyring in the Secrets Store; `cached[i]` and `mutex[i]` are those of the
`WorkerSink` in isolate `i`; `req[id]` is an ingest request through `loadKeyring`, `Seal` and
`Put`. A frame is known by the version it was sealed under. The maintainer adds a version and
activates it in one write, botches the secret, or retires a version under the documented
rule. `WaitForIsolates` adds the condition that no isolate still encrypts under it (see
section 6). A run reads the secret before it lists, and looks a frame's version up in what it
read. An isolate may be recycled at any time, and a put that failed may still land.

### RunTelemetry

Every step of `PublishJob` with what it does to the trace `tel`: `spans` in the order they were
started, each with its parent, and `handed`, the order in which `End` gave them to the exporter.
`published` counts as the loop does, `told` is what the `publish.run` span said at its end.
`schedule.run` is started after the wiring, as in the code, so a run whose wiring fails has no
trace at all; a run whose isolate is evicted (`died`) never ends its spans. Exporting is left out:
its errors go to a handler and nowhere else.

### BucketListing

A page is any answer R2 may give (`IsPage`): the next keys after the cursor, at most `Limit`,
from the bucket as it is then. Puts and deletes happen between pages.

### Scrub, IssueFormat, ReportText

A text is a sequence of lexemes, and a lexeme stands for the strings the expressions treat alike:
an address, a JWT, a provider key, a secret-named key, a name-like key, a long opaque run, a
quote, an escaped newline's `n`, and so on. Each rule is an operator from a text and a position to
the match found there, with the boundaries and character classes of its expression; `Rewrite` is
`ReplaceAllString`; `ScrubString` composes them in the code's order. The lexemes were compared
with the expressions themselves by writing each one out (`email` as `q@x.io`, `ip6` as `fe80::1`,
`long` as twenty letters, ...): on all clear texts of up to three lexemes and on 4000 random ones
of up to nine, as free text and inside a payload, the model and the expressions gave the same
result. Clear means that no two words touch (except behind the `n` of an escape), which is
`Lexed`, and no separator touches an IPv6 address or another separator. `ip6` is an address that a
credential's match leaves an address (`fe80::1` without `fe80` is `::1`), `full6` one of eight
groups, of which it leaves seven, which is none. `MaxName` stands for the 120 characters of a quoted
name (`scrub.go:245`), counted in lexemes.

`IssueFormat` looks at backticks and newlines only; fixed sections are lengths. `ReportText` puts
the two together: `Store` scrubs the payload as it came, which is the JSON the app wrote around
the text; `Publish` takes the report field if what was stored still parses, the whole of it
otherwise. `Parses` and `Decoded` are `encoding/json` as far as one string field can disturb it.
What matters to the rules about an escape is whether letters or digits follow the backslash. So
`nl` stands for a newline and for every other character the app writes as backslash and letters or
digits (`\t`, `\r`, `\u003c`), and reads `bs`, `n` in the payload; a quote reads `bs`, `quote`; a
backslash or slash that is escaped is a mark no rule looks at, like the backtick. What this leaves
out is in section 7.

### ReportApi

`req[h]` is a request and its goroutine: `pc` is where it awaits, from the telemetry provider
(`HasProvider`, `ReadHeaders`, `BuildProvider`) through the handler to the deferred end of its
span (`Finish`). `Refusal` is the order of the ingest handler's checks over any set of flaws a
post may have; `Authorize` is the one check of the admin routes, against `token`, the secret,
which may be empty. A removal is a transition of `Lifecycle` whose caller is the request, so
that all its store calls, failures and late writes are here too. The other callers of
`Lifecycle` run in other isolates: they are the weekly run marking what it listed. `Evict`
ends every request of the isolate at once, with its provider. `asked` and `span` observe what
the maintainer asked for and what was exported. The keyring and its mutex are in `KeyRotation`;
here they are a seal that may fail. The secret stays what it is. The listing and the health check change nothing and are
left out.

## 3. The runs

| run | asks | bounds | states |
|---|---|---|---|
| `lifecycle` | do accepted reports survive, acknowledged moves stay, replies tell the truth, and does every history refine `ReportStatus`? | 2 ids, 2 frames, 2 callers, 2 faults, symmetric | 407 072 |
| `report_api` | do answers and spans stay true, do removals need the token, is everyone answered, does a repeated removal converge? | 1 id, 2 requests at a time, 1 weekly run, 1 fault | 267 466 |
| `publish` | published has an issue, a clean run did its batch, duplicates have a cause, a removed report stays out, a backlog drains; the trace is whole and true, failures alert | 2 ids, one frame unopenable, no cap or one, 1 admin, 1 fault | 177 493 |
| `github` | spacing, waits, attempts, cancellation, `IssueCall` | 1 label, 1 issue, 3 attempts | 165 928 |
| `schedule` | does the gate agree with the wall clock, and does the job run once for every Friday, late fires included? | each hour of 28 years, delays up to 3h, past midnight too | 261 491 |
| `key_rotation` | do frames stay openable, are caches sane, are requests answered, is what is stored published? | 2 requests, 2 isolates, 2 versions | 109 714 |
| `bucket_listing` | complete and in order, ends | 5 keys, 2 to a page | 27 290 |
| `report_text` | fence holds, tail kept, shapes masked, a second pass changes nothing, the payload survives | texts of up to 7 backticks, newlines and words; clear texts of up to 4 lexemes, of up to 6 over five smaller alphabets | 378 133 |
| `two_terminals`, `starved`, `retired_early`, `scrub_json` | disagreements, section 6 | minimal | |

Why the bounds are enough. Two callers over two reports are all a race in `Lifecycle` needs:
no code path relates three callers or compares reports. Two faults allow a failed write that
lands late behind another failure, and a crash in a retry. A cap of one with two reports makes
a run leave something behind, and no cap lets it take both, one of which may fail. One fault in
`publish` is a failed call, a cancellation, an unanswered POST or an eviction at any step; two
failures of one transition are in `lifecycle`. One label and one issue give the two kinds of call, the step
from a call to the next and three attempts each; the tick values keep the order of the code's
constants (spacing below backoff cap, cap below the 60s floor, delays on both sides). Twenty-
eight years meet each weekday of 1 January in common and leap years, so every date the
daylight rule can compute. Two requests and one report meet every pair of a post, a removal and
a repeated removal, in one isolate, with the weekly run between them; one fault is an eviction,
a failed secret or a failed store call at any point, and `lifecycle` has two. Three pages let keys come and go before, in and after a page. With 36
runes for a body and heads of three lengths a text of seven runes meets every case of the budget:
whole, cut, marker only, and no room. A rule of the scrub looks at a key, a quote, a separator, a
quote and a value, with the rule before it at most one lexeme more; `MaxName` is two, so that names
within the bound and over it are among the texts. What the instances leave open, the theorems of section 5 settle for every size where
there is one.

Deadlock is checked except where the system really stops: the client at the end of its run,
the clock at the end of its year, a text that is an issue.

Named bounds: `MaxFaults` caps failed calls and evictions, `MaxVersion` key versions, `MaxLag`
late headers, a late body or a late timer, `MaxDelay` a late cron. `Caps`, `MaxAttempts`, `Limit`,
`MaxIssueBodyRunes` and `MaxName` are the code's own.

## 4. Fairness

* `FairApiSpec`: a request under way goes on, because it is a goroutine whose awaits return, and
  the maintainer repeats a removal that failed, which `lifecycle.go:33-41` invites callers to
  do. Nothing is assumed of new requests, of the weekly run or of late writes. Failures and
  evictions stop because `MaxFaults` bounds them. Weak fairness is enough for `telMu`: it is
  held once in the life of an isolate, after that the provider is there.
* `FairJobSpec` and `FairTelSpec`: the cron keeps firing and a run that is not interrupted goes
  on. Nothing is assumed of the maintainer, of ingest or of late writes, and failures stop because
  `MaxFaults` bounds them. `BacklogDrains` asks no more than that: a report leaves pending unless
  reports no run can open stand before it, as many as a cap.
* `KeyRotation!FairSpec`: a request that entered `loadKeyring` goes on and runs go on. Weak
  fairness of each request is enough although they contend for a mutex, because each request
  comes once. The maintainer and the recycling are not fair. `StoredIsPublished` therefore
  assumes that the secret is well formed for good from some time on.
* `BucketListing!FairSpec`: the loop goes on. Puts and deletes may go on for ever.

No action is assumed strongly fair.

## 5. What is proved

All for arbitrary constants under the ASSUMEs of the module, by an inductive invariant
that was first checked with TLC on the instance of the component's run (called `IInv`, or
`JobIInv`, `TelIInv`, `ApiIInv`, `ScheduleIInv`, `TextIInv` where it speaks of another module's
state or strengthens another invariant; `Init => IInv`, `IInv /\ [Next]_vars => IInv'`,
`IInv => property`). Each stands in the module it is about.

* **`LifecycleProofs`**, from `NoneAssumption` and `FaultsAssumption`. `CopiesAreFaithful`,
  `AcceptedIsHeld`, `AckedIsSettled`, `UnknownIsTruthful` and the refinement of
  `ReportStatus`. None of them is inductive: a delete about to be issued, or a late write of a
  caller long gone, could undo each. `CallsAreSound` says what a caller between two store calls
  knows (with a put it has the sealed frame, with a delete the destination is written), and
  `LateIsSound` says the same of outstanding writes (a late delete has a destination behind it,
  a late put of pending is the only write of its report). The refinement proof maps each store
  call to a step of `ReportStatus` or to none.
* **`GitHubClientProofs`**, from `CountAssumption` and `TimeAssumption`. `Spaced`,
  `RetriesHonourAnswer`, `GivesUpOnlyWhenSpent`, `CancelIsPrompt` and the refinement of
  `IssueCall`. `Spaced` counts from the headers of the answer before, because the code does: the
  body of that answer may come later and the next POST then follows it sooner. `ClockIsSound`
  carries the time of the headers to the next POST, `RetryIsSound` shows
  that a wait, once slept, covers the silence asked for, `CountIsSound` ties attempts to POSTs.
  `DecisionIsSound` is the lemma about the decision itself.
* **`KeyRotationProofs`**, from `WaitForIsolates`. `StoredStaysOpenable` and
  `RunOpensWhatItFound`; and `CachesAreWellFormed` without it. `HeldIsKept` is the
  strengthening: every version in a cache, in a request or in a put under way is in the secret.
* **`ScheduleProofs`**, from `YearsAssumption` and `DelayAssumption`, for any years. Lemmas about
  the calendar (weekdays follow each other from month to month and year to year, the second
  Sunday of March and the first of November are the days the code computes) lead to `ClocksAgree`,
  the invariant that the wall clock, which knows nothing of UTC, reads UTC less the gate's offset
  at every hour; `GateReadsTheWall` follows. `OneRunAFriday` says of every hour from a Friday's
  second cron to the next Friday's first that the job has run once, if no fire is still waiting,
  so also of the hours after midnight in which a late fire comes. It rests on `ClocksAgree`, on
  `FiresAreRecent` (what is not delivered yet is of one Friday, today's or yesterday's) and on
  `RunIsOwed` (the run
  has been or its fire waits). `OneCronOpensTheGate` says
  which: of the two crons of any Friday exactly one, because the offset cannot change after 08:00
  UTC of a day.
* **`LifecycleCallersProofs`, the publish run**, from the assumptions of `Lifecycle`,
  `CronAssumption` and `OrderAssumption`. `PublishedHasIssue`, `CleanRunPublishedAll`,
  `DuplicatesNeedFaults` and `PulledStaysOut`, over `LifecycleProofs`: every step is one of `Lifecycle` or one beside the
  bucket (`StepKinds`), so its invariant carries over. Of the rest, `CronIsSound` says that only
  the run's call marks published, and only the report it has an issue for; `BatchIsSound` that
  what left the batch without an error is acknowledged, and that no report pulled before is in
  it; `OutcomeIsTrue` that the answer of the mark is still true when it is read;
  `IssuesAreAccounted` that a report has an issue more than there were faults only once it is
  about to leave pending, or has left, so that no later run picks it up. That the loop takes the
  oldest of its batch needs that numbers are well ordered, which is `WFMin` of the library.
  A traced run is a run (`TracedRunIsARun`), so that all this holds of the specification the run
  `publish` checks. `FailuresAlert` follows by `AlertsAreSound`: until it returns a run has raised
  nothing. `TraceIsWhole` and `TraceIsTrue` are about the end of a run and need `TelIInv`:
  `OpenSpansAreAtHand` says which spans are open at each place of the run (its functions' and that
  of the report at hand, and no others), so that on every path out each `End` finds what it ends;
  `EndedReportsAreDone` ties the report spans that ended to the reports that left the batch. That
  the run tells as failed as many reports as its batch has unmarked ones is a statement about the
  bucket, which the run's counters never look at: `MarksAreCounted` follows `published` step by
  step beside the acknowledged marks of the batch (they differ only between the acknowledgement
  and the loop's next look, `Acking`), `CountsAddUp` that the two counts are the batch, and
  `BatchIsFinite` lets them be subtracted, by the library's theorems about finite sets.
* **`LifecycleCallersProofs`, the requests**, from the assumptions of `Lifecycle` and
  `HandlersAssumption`. The two parts share a module because both rest on `LifecycleProofs`; neither
  cites an assumption of the other.
  `AnswersHold`, `FailsClosed`, `SpansTellTheTruth` and `ApiTypeOK`. Every
  step is one of `Lifecycle` or one beside it, so that its invariant carries over, except that an
  isolate forgets: `EvictStep` shows that an eviction, which ends all its requests at once, leaves
  of each only the write it had under way. `RequestsAreSound` ties a request to its call: the call
  of a request is about the request's report, a call that failed is repeated for that report only,
  and what a reply is founded on (the frame stored, the acknowledged move, the report off pending)
  is never undone. `RemovalsAreAsked` says that whoever moves a report to removed was asked to
  with the token, also when the answer was lost and the write lands after everyone left.
* **`BucketListingProofs`**, from `KeysAssumption` and `LimitAssumption`. `ListingIsComplete`, for
  any page size and traffic. `ProgressIsSound` is the loop invariant: what stayed up to the cursor
  is listed, and nothing beyond it.
* **`ReportTextProofs`**, from `LengthAssumption`, `ReportsAssumption` and `HeadsAssumption`, for
  texts of any length. `NothingClosesTheFence`, `TailSurvives` and `ShapesAreMasked`. The loops of
  the code are functions of the position in a text; `LoopRuns` shows once that such a function is
  what its body says, and `LoopKeeps` that what each step keeps holds to the end, because a first
  step that broke it would have one before it. So `LongestRunIsLongest`: no run of backticks is
  longer than the loop finds. `UncutIs` says where things stand in a body and `BodyIs` what the
  backstop leaves of it. For the scrub, `RewritingIs` says what a pass of a rule can put out, given
  what each match puts out; every rule keeps to the lexemes it is given and its placeholders, and
  the passes for JWTs, addresses and IPv6 addresses leave none of them. `TextIInv` carries this
  from the payload to the issue, whether what was stored still parses or not.

  The module also has what `StructureProofs` needs to say that a second pass changes nothing:
  each of ten rules could find something in what the others leave next to each other. The
  argument has three parts.
  `PassIs` and `MaskingPass`: whatever the rule, a pass is a sequence of stops, at each of which it
  copies a lexeme or puts out a key it keeps, the gap behind it and a placeholder; so no word in
  the outcome is new, words stand as far apart as before (`LexedStays`), and what a rule sees
  behind a stop is what it saw, or a placeholder (`StopSees`, `SepShifts`, `OpensShifts`).
  `AuthStays`, `BearerStays`, `ShapeStays`, `SecretStays`, `NameQuotedStays`, `NameBareStays`: what
  one rule no longer finds no other pass brings back. And the `After...` lemmas, one for each pass,
  add up what is gone (`TokensGone`, `AddressesGone`, `QuotedGone`, `BareGone`) to `Scrubbed`, of
  which `ScrubbedStays` says that each rule finds nothing but masked secrets, and puts those out
  as they are.
* **`StructureProofs`**, from `ReportsAssumption`, `LexedAssumption` and `MaxNameAssumption`, over
  `ReportTextProofs`: `ScrubTwiceIsOnce` and `StructureSurvives`, for texts of any length.

  A second pass is not idle on every text: a quoted name over `MaxName` that an inner match shortens
  is within the bound the second time. `ScrubIsIdempotent` therefore has a premise, `QuotesBelong`:
  a quote behind space or a separator follows a quoted key that is no name, or ends a string. With
  it the rule for quoted names finds nothing, in any pass (`NameQuoted` needs such a quote behind a
  name). A payload satisfies it, because every quote of the text has a backslash before it
  (`PayloadBelongs`), and the passes keep it, because their matches take neither a quote nor a comma
  from where it stands (`PassesKeepQuotes`). So `ScrubTwiceIsOnce` holds of every payload, whatever
  `MaxName` is.

  `StructureSurvives` says what `scrub.go:24-30` promises of the
  payload. `Framed` is what must not break: the fields around the text are there, and inside it each backslash stands with what it
  escapes. A pass keeps it (`FramedStays`) if its matches stay in the field and end behind no
  backslash (`InField`), and the strengthening `Kempt` with `SecretsEnd` is why they do: no address
  behind the `n` of an escape, a comma behind every name, and no quote that a secret runs into.
  `KemptStays` carries it through the passes over tokens and addresses; that over secrets needs
  `SecretsEnd` and is the last that does, and no rule finds a quoted name, because every quote in
  the field is escaped (`NoNameQuoted`). `PayloadFramed` says that it holds of the payload of every
  report but the three kinds the property excludes, by following each lexeme to its place in the
  payload (`Laid`); `FramedParses` that what is framed parses. For a text without escapes the
  second half follows the pass over the payload beside the pass over the text: `Inner(s, b)` says
  that `b` is the field of `s`. The `...Inner` lemma of each rule says that it finds at a position of
  the field what it finds at that of the text (the text ends where the payload has a quote and a
  comma, and no rule can tell), `PassInside` that the outcomes then agree, and `ScrubInner` adds up
  the passes. The three exclusions are those the proof needs; `SecretAtQuote` leaves out the space
  behind the scheme word, which the bearer rule takes with it before the secrets are looked for.

Out of the prover's reach, and left to TLC: liveness under fairness (`RemovalConverges`,
`EveryRequestIsAnswered`, `BacklogDrains`, `RequestsAreAnswered`, `StoredIsPublished`, `ListingEnds`) and ENABLED.
Every invariant, action property and refinement that a passing run checks is a theorem.

## 6. Where the code and its documents disagree

Shown by a run:

* `two_terminals`: a removal and a publication that both read a report as pending leave it under
  both terminal statuses; `lifecycle.go:8-9` says exactly one. The maintainer is told
  "removed" of a report that has an issue.
* `starved`: a report that cannot be opened stays the oldest pending one and takes a place under
  the cap in every run; with as many of them as the cap nothing is published any more, while
  `publish.go:222` says the remainder drains next run.
* `retired_early`: an isolate seals under the keyring it cached, so the documented condition for
  retiring a version (no stored object references it) is not enough: a frame sealed under the
  retired version can still arrive. The theorems hold with the additional wait.
* `scrub_json`: the scrub sees JSON, where a newline is a backslash and an `n`. The `n` is a word
  character, so the rules that ask for a word boundary (IPv4 addresses, secrets, provider keys,
  names) do not match at the start of a line, while `scrub.go:17-19` says that the pass works the
  same on JSON as on free text. `StructureSurvives` names what else follows from it: an address at
  the start of a line, or behind any character written as backslash and letters or digits (`\t`,
  `\r`, `\u003c`), takes these with it and leaves a lone backslash, a bare name takes the
  string's closing quote, a secret the backslash of an escaped quote. The payload then does not
  parse and the issue shows it raw; `scrub.go:28-30` promises the structure.

Seen in the models, without a run of their own:

* A mark that fails week after week opens one more issue a week (`DuplicatesNeedFaults` is the
  bound the code gives); `publish.go:111-112` says at most one duplicate.
* A POST may leave less than the spacing after the exchange before it ended: the stamp is taken
  when the headers are there and the body is read after it (`github.go:323, 332`), while the comment
  above the call (`github.go:310-311`) counts since the last mutation. `Spaced` states what holds.
* After a POST that took effect unanswered nothing looks for the issue, and the next run posts
  again; `docs/decisions/labels-and-abuse.md:186-188` asks for de-duplication.
* A call that gives up on its last attempt forgets `Retry-After`: the next call of the run posts
  after the 1s spacing (`labels-and-abuse.md:175-180`).
* A store error in the probe of the destination is answered "unknown report", 404
  (`lifecycle.go:126`), also for a report that is there.
* A run whose wiring fails (an unreadable secret, a malformed keyring or repository) returns its
  error before the telemetry is in the context: no span, no alert (`scheduled_wasm.go:80-89`),
  while the comment there says that a failed run surfaces as an alertable signal.
* The second pass of the scrub is not always the first (`scrub.go:32-33`): `::1token=x` and a
  quoted name of more than 120 characters that an inner name shortens are masked further by it.
  The first is no clear text; the second is, as free text, but in a payload its quotes are escaped,
  so that no rule takes it for a quoted name (`ScrubIsIdempotent`, `ScrubTwiceIsOnce`).
* A character of an address, a JWT or a key that is itself written as an escape is not seen by the
  scrub, which reads the stored bytes, and is decoded into the issue (`format.go:36`): of
  `q\u0040x.io` nothing is masked. JSON allows it and the ingest handler accepts it. The models'
  texts have no such escapes, and `ShapesAreMasked` is about addresses written out.
* An IPv6 address of all eight groups behind `Authorization:` loses its first group to that rule;
  the seven that stay are no address to the IPv6 rule and are shown (`scrub.go:139, 208`). They are
  the `at` of the models, which no property counts as a shape, like the `@x.io` of an address in
  that place.
* A text whose longest run of backticks is about half the cap asks for two fences that do not
  fit, and the backstop cuts the closing one; `TailSurvives` states when the tail is kept.

## 7. What is not modelled

* The routes that only read (`GET /v1/admin/reports`, `/healthz`, `/`), and which of a report's
  fields is unsound: `Refusal` knows that one is.
* Within the scrub: alternatives of one rule (the eight provider keys, the spellings of a
  secret-named key), upper and lower case, and texts that are not clear. An equals sign, which is a
  separator and a part of a credential at once, stands in no text but inside `long`, `jwt` and `key`.
  The lengths a rule counts are abstracted to its lexemes: `long` reaches the 16 characters of a
  bearer token, and 120 characters are `MaxName` lexemes.
* JSON escapes inside a word, and what a text is when the app is not the app: a payload is the JSON
  of a text whose escapes are those of section 2, in one field, and the one behind it.
* AES-GCM and the bytes of a frame; titles and the metadata table of an issue, which are built
  from single values without a choice that anything depends on.
* The OTLP encoding and the export request; the wording of logs.
* Two weekly runs at a time: they are a week apart and an invocation is far shorter.
* Infrastructure, wiring, dev server. Edge rate limits act before the Worker runs.

## 8. Plan

The order was chosen by what a failure would cost: the bucket first (`ReportStatus`,
`Lifecycle`), the run that composes everything over it (`PublishJob`), the client whose
promises the run needs (`IssueCall`, `GitHubClient`), its trigger (`Schedule`), the keys
(`KeyRotation`), the listing (`BucketListing`), the requests that reach all of it (`ReportApi`),
what a run tells of itself (`RunTelemetry`) and what becomes of the words of a report (`Scrub`,
`IssueFormat`, `ReportText`); then the proofs, in the same order. Ahead:

1. `WorksTheSameOnJson` for the texts it does hold of besides those without escapes: which rules
   may meet the `n` of an escaped newline and do the same.
2. `KeyRotation!SealAndPut` in two steps, if the seal ever awaits something that changes.
