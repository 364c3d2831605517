---------------------------- MODULE GitHubClient ----------------------------
(***************************************************************************)
(* internal/publish/github.go: the pacing, retry and rate-limit policy of  *)
(* the client over one publish run, which is a serial list of POSTs: the   *)
(* labels, then an issue for each report of the batch.                     *)
(*                                                                         *)
(* Time is a number of ticks.  It passes until the headers of an answer    *)
(* are there, again until its body is read, while the run reads and marks  *)
(* a report between two calls, and in sleeps, which never end early.       *)
(* GitHub is external: it may answer anything.                             *)
(***************************************************************************)
EXTENDS Integers

CONSTANTS Labels,        \* number of labels the run ensures
          Issues,        \* number of reports in the batch
          MaxAttempts,   \* POSTs per call (defaultMaxAttempts)
          MinSpacing,    \* defaultMinSpacing
          BaseBackoff,   \* defaultBaseBackoff
          CapBackoff,    \* defaultCapBackoff
          SecondaryMin,  \* defaultSecondaryMin
          Second,        \* one second
          Delays,        \* values of Retry-After
          Resets,        \* X-RateLimit-Reset, as an offset from the decision
          MaxLag,        \* bound on a round trip, a body and a late timer
          None           \* no such header, no mutation yet

ASSUME CountAssumption == Labels \in Nat /\ {Issues, MaxAttempts} \subseteq Nat \ {0}
ASSUME TimeAssumption ==
    /\ {MinSpacing, BaseBackoff, CapBackoff, SecondaryMin, Second, MaxLag} \subseteq Nat
    /\ Delays \subseteq Nat /\ Resets \subseteq Int
    /\ None \notin Int

Calls == 1..(Labels + Issues)
Reports == (Labels + 1)..(Labels + Issues)

VARIABLES now,         \* the clock
          cancelled,   \* the run's context has been cancelled
          client,      \* where the run is: call, attempt and wait chosen
          last,        \* Client.lastMutation
          result,      \* result[i]: what call i returned
          confirmed,   \* confirmed[r]: issues created and answered 201
          orphaned,    \* orphaned[r]: issues created and not confirmed
          sent,        \* sent[i]: POSTs of call i that left (observation)
          prev         \* the last exchange: when it was answered or failed,
                       \* until when GitHub asked for silence, whether it
                       \* may be retried (observation)

githubVars == <<result, confirmed, orphaned, sent, prev>>
vars == <<now, cancelled, client, last, githubVars>>

Clients == [pc : {"between", "space", "post", "wait", "over"},
            call : 0..(Labels + Issues), attempt : 0..(MaxAttempts - 1), wait : Nat]

TypeOK ==
    /\ now \in Nat
    /\ cancelled \in BOOLEAN
    /\ client \in Clients
    /\ client.pc \in {"space", "post", "wait"} => client.call \in Calls
    /\ last \in Nat \cup {None}
    /\ result \in [Calls -> {"open", "created", "exists", "error"}]
    /\ confirmed \in [Reports -> Nat]
    /\ orphaned \in [Reports -> Nat]
    /\ sent \in [Calls -> 0..MaxAttempts]
    /\ prev \in [at : Nat, until : Nat, transient : BOOLEAN]

Init ==
    /\ now = 0
    /\ cancelled = FALSE
    /\ client = [pc |-> "between", call |-> 0, attempt |-> 0, wait |-> 0]
    /\ last = None
    /\ result = [i \in Calls |-> "open"]
    /\ confirmed = [r \in Reports |-> 0]
    /\ orphaned = [r \in Reports |-> 0]
    /\ sent = [i \in Calls |-> 0]
    /\ prev = [at |-> 0, until |-> 0, transient |-> FALSE]

-----------------------------------------------------------------------------
(***************************************************************************)
(* The answers of GitHub the policy tells apart.  garbled is a 201 whose   *)
(* body does not parse; other stands for every 4xx but 403, 422 and 429.   *)
(***************************************************************************)
Codes == {"201", "garbled", "422", "other", "403", "429", "5xx"}
Limits == {"403", "429"}
Responses == [code : Codes, after : Delays \cup {None}, exhausted : BOOLEAN,
              reset : Resets \cup {None}, secondary : BOOLEAN]

Larger(a, b) == IF a > b THEN a ELSE b

(* Full jitter: a random share of min(cap, base * 2^attempt), which may be *)
(* nothing.  The shift does not overflow within the attempts made.         *)
JitteredBackoff(attempt) == {d \in 0..CapBackoff : d = 0 \/ d <= BaseBackoff * 2^attempt}

UntilReset(reset) == Larger(reset, 0) + Second

RetryDecisionHeadersOnly(resp, attempt) ==  \* mutant: a bare limit is final
    IF resp.code = "5xx" THEN JitteredBackoff(attempt)
    ELSE IF resp.code \notin Limits THEN {}
    ELSE IF resp.after # None THEN {resp.after}
    ELSE IF resp.exhausted /\ resp.reset # None THEN {UntilReset(resp.reset)}
    ELSE {}

RetryDecisionNoFloor(resp, attempt) ==      \* mutant: secondary limits like 429
    IF resp.code = "5xx" THEN JitteredBackoff(attempt)
    ELSE IF resp.code \notin Limits THEN {}
    ELSE IF resp.after # None THEN {resp.after}
    ELSE IF resp.exhausted /\ resp.reset # None THEN {UntilReset(resp.reset)}
    ELSE IF resp.exhausted \/ resp.code = "429" THEN JitteredBackoff(attempt)
    ELSE IF resp.secondary THEN JitteredBackoff(attempt)
    ELSE {}

(* The waits the policy may choose; none when it does not retry.           *)
RetryDecision(resp, attempt) ==
    IF resp.code = "5xx" THEN JitteredBackoff(attempt)
    ELSE IF resp.code \notin Limits THEN {}
    ELSE IF resp.after # None THEN {resp.after}
    ELSE IF resp.exhausted /\ resp.reset # None THEN {UntilReset(resp.reset)}
    ELSE IF resp.exhausted \/ resp.code = "429" THEN JitteredBackoff(attempt)
    ELSE IF resp.secondary THEN {Larger(d, SecondaryMin) : d \in JitteredBackoff(attempt)}
    ELSE {}

(* What the answer asks for, read without the policy: the silence and the  *)
(* retry labels-and-abuse.md 3.2 derives from its headers and its body.    *)
Asked(resp) ==
    IF resp.code \notin Limits THEN 0
    ELSE IF resp.after # None THEN resp.after
    ELSE IF resp.exhausted THEN IF resp.reset = None THEN 0 ELSE Larger(resp.reset, 0)
    ELSE IF resp.code = "403" /\ resp.secondary THEN SecondaryMin
    ELSE 0

Transient(resp) ==
    \/ resp.code \in {"5xx", "429"}
    \/ resp.code = "403" /\ (resp.after # None \/ resp.exhausted \/ resp.secondary)

-----------------------------------------------------------------------------
TimePasses(from) == \E lag \in 0..MaxLag : now' = from + lag

Return(res) ==
    /\ result' = [result EXCEPT ![client.call] = res]
    /\ client' = [client EXCEPT !.pc = "between"]

(* The outcome a status has for the caller of do().                        *)
Meaning(code) ==
    IF code = "201" THEN "created"
    ELSE IF client.call \notin Reports /\ code = "garbled" THEN "created"
    ELSE IF client.call \notin Reports /\ code = "422" THEN "exists"
    ELSE "error"

(* EnsureLabels runs through its labels whatever happens; the loop over    *)
(* the batch stops at a cancelled context.                                 *)
StartCall ==
    /\ client.pc = "between"
    /\ client.call + 1 \in Calls
    /\ client.call + 1 \in Reports => ~cancelled
    /\ client' = [pc |-> "space", call |-> client.call + 1, attempt |-> 0, wait |-> 0]
    /\ TimePasses(now)
    /\ UNCHANGED <<cancelled, last, githubVars>>

EndRun ==
    /\ client.pc = "between"
    /\ \/ client.call + 1 \notin Calls
       \/ client.call + 1 \in Reports /\ cancelled
    /\ client' = [client EXCEPT !.pc = "over"]
    /\ UNCHANGED <<now, cancelled, last, githubVars>>

TooSoon == last # None /\ now - last < MinSpacing

SpaceMutationsOnce ==           \* mutant: only a call's first POST is spaced
    /\ client.pc = "space"
    /\ TooSoon => ~cancelled
    /\ client' = [client EXCEPT !.pc = "post"]
    /\ IF TooSoon /\ client.attempt = 0 THEN TimePasses(last + MinSpacing)
                                        ELSE UNCHANGED now
    /\ UNCHANGED <<cancelled, last, githubVars>>

SpaceMutations ==
    /\ client.pc = "space"
    /\ TooSoon => ~cancelled
    /\ client' = [client EXCEPT !.pc = "post"]
    /\ IF TooSoon THEN TimePasses(last + MinSpacing) ELSE UNCHANGED now
    /\ UNCHANGED <<cancelled, last, githubVars>>

(* c.sleep returns ctx.Err(), in the spacing or in the backoff.            *)
SleepCancelled ==
    /\ \/ client.pc = "space" /\ TooSoon
       \/ client.pc = "wait"
    /\ cancelled
    /\ Return("error")
    /\ UNCHANGED <<now, cancelled, last, confirmed, orphaned, sent, prev>>

(* The loop's last attempt gives up; any other waits.                      *)
RetryIn(waits) ==
    IF client.attempt = MaxAttempts - 1
    THEN Return("error")
    ELSE /\ \E d \in waits : client' = [client EXCEPT !.pc = "wait", !.wait = d]
         /\ UNCHANGED result

(* recordMutation stamps the time at which Do returns, with the headers or *)
(* with an error; reading the body takes its own time after that.          *)
Exchange ==
    /\ client.pc = "post"
    /\ ~cancelled
    /\ \E lag \in 0..MaxLag : last' = now + lag
    /\ TimePasses(last')
    /\ sent' = [sent EXCEPT ![client.call] = @ + 1]
    /\ UNCHANGED cancelled

Creates(counter) ==
    IF client.call \in Reports THEN [counter EXCEPT ![client.call] = @ + 1] ELSE counter

AnsweredKeepsTrying(resp) ==    \* mutant: a 201 is retried like the rest
    /\ Exchange
    /\ prev' = [at |-> last', until |-> now' + Asked(resp), transient |-> Transient(resp)]
    /\ RetryIn(RetryDecision(resp, client.attempt) \cup {0})
    /\ confirmed' = IF resp.code = "201" THEN Creates(confirmed) ELSE confirmed
    /\ orphaned' = IF resp.code = "garbled" THEN Creates(orphaned) ELSE orphaned

Answered(resp) ==
    /\ Exchange
    /\ prev' = [at |-> last', until |-> now' + Asked(resp), transient |-> Transient(resp)]
    /\ LET waits == RetryDecision(resp, client.attempt)
       IN  IF waits = {} THEN Return(Meaning(resp.code)) ELSE RetryIn(waits)
    /\ confirmed' = IF resp.code = "201" THEN Creates(confirmed) ELSE confirmed
    /\ orphaned' = IF resp.code = "garbled" THEN Creates(orphaned) ELSE orphaned

(* A transport error or a body cut short: GitHub may have acted.           *)
Unanswered ==
    /\ Exchange
    /\ prev' = [at |-> last', until |-> now', transient |-> TRUE]
    /\ RetryIn(JitteredBackoff(client.attempt))
    /\ orphaned' \in {orphaned, Creates(orphaned)}
    /\ UNCHANGED confirmed

(* httpClient.Do under a cancelled context sends nothing and fails.        *)
NotSent ==
    /\ client.pc = "post"
    /\ cancelled
    /\ last' = now
    /\ RetryIn(JitteredBackoff(client.attempt))
    /\ UNCHANGED <<now, cancelled, confirmed, orphaned, sent, prev>>

BackoffDeaf ==                  \* mutant: time.Sleep instead of c.sleep
    /\ client.pc = "wait"
    /\ client' = [client EXCEPT !.pc = "space", !.attempt = @ + 1, !.wait = 0]
    /\ TimePasses(now + client.wait)
    /\ UNCHANGED <<cancelled, last, githubVars>>

Backoff ==
    /\ client.pc = "wait"
    /\ ~cancelled
    /\ client' = [client EXCEPT !.pc = "space", !.attempt = @ + 1, !.wait = 0]
    /\ TimePasses(now + client.wait)
    /\ UNCHANGED <<cancelled, last, githubVars>>

Cancel ==
    /\ ~cancelled
    /\ client.pc # "over"
    /\ cancelled' = TRUE
    /\ UNCHANGED <<now, client, last, githubVars>>

Next ==
    \/ StartCall
    \/ SpaceMutations
    \/ SleepCancelled
    \/ \E resp \in Responses : Answered(resp)
    \/ Unanswered
    \/ NotSent
    \/ Backoff
    \/ EndRun
    \/ Cancel

Spec == Init /\ [][Next]_vars

-----------------------------------------------------------------------------
(***************************************************************************)
(* Properties.                                                             *)
(***************************************************************************)

Posted == \E i \in Calls : sent[i] > 0

(* No POST leaves sooner than MinSpacing after the previous one was        *)
(* answered or failed, whichever call and attempt either belonged to and   *)
(* whatever came of it (github.go:412-432).  The time is that of the       *)
(* answer's headers: a body that is slow to read counts towards it.        *)
Spaced ==
    [][sent' # sent /\ Posted => now >= prev.at + MinSpacing]_vars

(* A call posts again only after an answer that may be retried, and not    *)
(* before the silence GitHub asked for is over: Retry-After, the reset of  *)
(* an exhausted limit, 60s for a secondary limit (github.go:369-378).      *)
RetriesHonourAnswer ==
    [][\A i \in Calls : sent'[i] # sent[i] /\ sent[i] > 0
                            => prev.transient /\ now >= prev.until]_vars

(* Once the context is cancelled nothing more is posted and no sleep is    *)
(* sat out: time moves on by a late step at most (github.go:174-188, 312,  *)
(* 351).                                                                   *)
CancelIsPrompt == [][cancelled => sent' = sent /\ now' <= now + MaxLag]_vars

(* A call whose last exchange may be retried returns an error only once    *)
(* all its attempts are spent, unless the run was cancelled                *)
(* (github.go:297-301, 347).                                               *)
GivesUpOnlyWhenSpent ==
    client.call \in Calls /\ result[client.call] = "error" /\ prev.transient /\ ~cancelled
        => sent[client.call] = MaxAttempts

(* What makes the properties above inductive: a POST about to leave is     *)
(* spaced, a wait covers the silence asked for, and attempts are counted.  *)
ClockIsSound ==
    /\ Posted => last # None /\ last >= prev.at
    /\ last # None => last <= now
    /\ client.pc = "post" /\ last # None => now - last >= MinSpacing

CountIsSound ==
    /\ \A i \in Calls : i > client.call => sent[i] = 0
    /\ client.pc \in {"space", "post"} => sent[client.call] <= client.attempt
    /\ client.pc = "wait" => /\ sent[client.call] <= client.attempt + 1
                             /\ client.attempt < MaxAttempts - 1
    /\ ~cancelled /\ client.pc \in {"space", "post"} => sent[client.call] = client.attempt

RetryIsSound ==
    ~cancelled =>
        /\ client.pc = "wait" => prev.transient /\ now + client.wait >= prev.until
                                 /\ sent[client.call] = client.attempt + 1
        /\ client.pc \in {"space", "post"} /\ client.attempt > 0
              => prev.transient /\ now >= prev.until

OpenIsSound ==
    /\ \A i \in Calls : i > client.call => result[i] = "open"
    /\ client.pc \in {"space", "post", "wait"} => result[client.call] = "open"

IInv ==
    /\ TypeOK
    /\ ClockIsSound
    /\ CountIsSound
    /\ RetryIsSound
    /\ OpenIsSound
    /\ GivesUpOnlyWhenSpent

(* The client is a correct implementation of what the publish run relies   *)
(* on: success is exactly one confirmed issue, an error is none, and       *)
(* nothing is posted for a report after its call returned                  *)
(* (github.go:270-290).                                                    *)
Issue == INSTANCE IssueCall WITH result <- [r \in Reports |-> result[r]]
ImplementsIssueCall == Issue!Spec
=============================================================================
