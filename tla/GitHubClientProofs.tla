------------------------- MODULE GitHubClientProofs -------------------------
(***************************************************************************)
(* The properties of GitHubClient, for any number of labels and reports,   *)
(* any attempt budget, any delays and any latency.                         *)
(***************************************************************************)
EXTENDS GitHubClient, TLAPS

(* The policy retries exactly the answers that may be retried, and never   *)
(* sooner than the answer asks (github.go:379-410).                        *)
LEMMA DecisionIsSound ==
    ASSUME NEW resp \in Responses, NEW attempt \in Nat
    PROVE  /\ RetryDecision(resp, attempt) \subseteq Nat
           /\ \A d \in RetryDecision(resp, attempt) : d >= Asked(resp)
           /\ RetryDecision(resp, attempt) = {} <=> ~Transient(resp)
           /\ Asked(resp) \in Nat
           /\ Transient(resp) \in BOOLEAN
<1> DEFINE J == JitteredBackoff(attempt)
<1>1. J \subseteq Nat /\ 0 \in J
  BY TimeAssumption DEF JitteredBackoff
<1>2. /\ resp.code \in Codes
      /\ resp.after \in Delays \cup {None}
      /\ resp.reset \in Resets \cup {None}
      /\ resp.exhausted \in BOOLEAN /\ resp.secondary \in BOOLEAN
  BY DEF Responses
<1>3. resp.after # None => resp.after \in Nat
  BY <1>2, TimeAssumption
<1>4. resp.reset # None => resp.reset \in Int
  BY <1>2, TimeAssumption
<1>5. SecondaryMin \in Nat /\ Second \in Nat
  BY TimeAssumption
<1>6. Asked(resp) \in Nat
  BY <1>3, <1>4, <1>5 DEF Asked, Larger
<1>7. Transient(resp) \in BOOLEAN
  BY DEF Transient
<1>8. CASE resp.code = "5xx"
  BY <1>1, <1>6, <1>7, <1>8 DEF RetryDecision, Asked, Transient, Limits
<1>9. CASE resp.code # "5xx" /\ resp.code \notin Limits
  BY <1>6, <1>7, <1>9 DEF RetryDecision, Asked, Transient, Limits
<1>10. CASE resp.code \in Limits /\ resp.after # None
  <2>1. RetryDecision(resp, attempt) = {resp.after} /\ Asked(resp) = resp.after
    BY <1>10 DEF RetryDecision, Asked, Limits
  <2>2. Transient(resp)
    BY <1>10 DEF Transient, Limits
  <2> QED BY <2>1, <2>2, <1>3, <1>6, <1>7, <1>10
<1>11. CASE resp.code \in Limits /\ resp.after = None /\ resp.exhausted
  <2>1. Transient(resp)
    BY <1>11 DEF Transient, Limits
  <2>2. CASE resp.reset # None
    <3>1. /\ RetryDecision(resp, attempt) = {UntilReset(resp.reset)}
          /\ Asked(resp) = Larger(resp.reset, 0)
      BY <1>11, <2>2 DEF RetryDecision, Asked, Limits
    <3>2. UntilReset(resp.reset) \in Nat /\ UntilReset(resp.reset) >= Larger(resp.reset, 0)
      BY <1>4, <1>5, <2>2 DEF UntilReset, Larger
    <3> QED BY <3>1, <3>2, <2>1, <1>6, <1>7
  <2>3. CASE resp.reset = None
    <3>1. RetryDecision(resp, attempt) = J /\ Asked(resp) = 0
      BY <1>11, <2>3 DEF RetryDecision, Asked, Limits
    <3> QED BY <3>1, <2>1, <1>1
  <2> QED BY <2>2, <2>3
<1>12. CASE resp.code = "429" /\ resp.after = None /\ ~resp.exhausted
  <2>1. RetryDecision(resp, attempt) = J /\ Asked(resp) = 0
    BY <1>12 DEF RetryDecision, Asked, Limits
  <2> QED BY <2>1, <1>1, <1>12 DEF Transient
<1>13. CASE resp.code = "403" /\ resp.after = None /\ ~resp.exhausted /\ resp.secondary
  <2>1. /\ RetryDecision(resp, attempt) = {Larger(d, SecondaryMin) : d \in J}
        /\ Asked(resp) = SecondaryMin
    BY <1>13 DEF RetryDecision, Asked, Limits
  <2>2. \A d \in J : Larger(d, SecondaryMin) \in Nat /\ Larger(d, SecondaryMin) >= SecondaryMin
    BY <1>1, <1>5 DEF Larger
  <2> QED BY <2>1, <2>2, <1>1, <1>5, <1>13 DEF Transient
<1>14. CASE resp.code = "403" /\ resp.after = None /\ ~resp.exhausted /\ ~resp.secondary
  <2>1. RetryDecision(resp, attempt) = {} /\ ~Transient(resp)
    BY <1>14 DEF RetryDecision, Transient, Limits
  <2> QED BY <2>1, <1>6, <1>7
<1> QED BY <1>2, <1>8, <1>9, <1>10, <1>11, <1>12, <1>13, <1>14 DEF Limits

(* Reports are calls, and the counts of the run are natural numbers.       *)
LEMMA CallsFacts ==
    /\ Calls \subseteq Nat /\ Reports \subseteq Calls
    /\ MaxAttempts \in Nat /\ MaxAttempts >= 1
    /\ MinSpacing \in Nat /\ MaxLag \in Nat
    /\ Labels + Issues \in Nat
BY CountAssumption, TimeAssumption DEF Calls, Reports

(* A clock that moves from a natural number stays one and does not go back.*)
LEMMA TimeMoves ==
    ASSUME NEW from \in Nat, TimePasses(from)
    PROVE  now' \in Nat /\ now' >= from /\ now' <= from + MaxLag
BY TimeAssumption DEF TimePasses

(* The arithmetic of the clock.                                            *)
LEMMA ClockArithmetic ==
    \A t, u, v, w \in Nat :
        /\ t + u >= t
        /\ t >= u + w => t - u >= w
        /\ t >= u + w /\ v - u < w => t >= v
OBVIOUS

(* The initial state of a run satisfies the inductive invariant.           *)
LEMMA InitIInv == Init => IInv
<1> SUFFICES ASSUME Init PROVE IInv
  OBVIOUS
<1>1. TypeOK
  <2>1. client \in Clients
    BY CallsFacts DEF Init, Clients
  <2>2. sent \in [Calls -> 0..MaxAttempts]
    BY CallsFacts DEF Init
  <2>3. prev \in [at : Nat, until : Nat, transient : BOOLEAN]
    BY DEF Init
  <2> QED BY <2>1, <2>2, <2>3 DEF Init, TypeOK
<1> QED
  BY <1>1, CallsFacts DEF Init, IInv, ClockIsSound, CountIsSound, RetryIsSound, OpenIsSound,
     GivesUpOnlyWhenSpent, Posted, Calls

(* What every exchange does to the clocks and counters (do, recordMutation)*)
LEMMA ExchangeFacts ==
    ASSUME IInv, Exchange
    PROVE  /\ last' \in Nat /\ now' \in Nat /\ now' >= last' /\ last' >= now
           /\ cancelled' = FALSE /\ ~cancelled
           /\ client.pc = "post" /\ client.call \in Calls
           /\ sent[client.call] = client.attempt
           /\ sent' = [sent EXCEPT ![client.call] = client.attempt + 1]
           /\ sent' \in [Calls -> 0..MaxAttempts]
<1>1. TypeOK /\ client.pc = "post" /\ ~cancelled /\ client.call \in Calls
  BY DEF IInv, TypeOK, Exchange
<1>2. last' \in Nat /\ last' >= now
  BY <1>1, CallsFacts DEF TypeOK, Exchange
<1>8. now' \in Nat /\ now' >= last'
  <2>1. PICK from \in Nat : from = last' /\ TimePasses(from)
    BY <1>2 DEF Exchange
  <2> QED
    BY <2>1, TimeMoves
<1>3. sent[client.call] = client.attempt
  BY <1>1 DEF IInv, CountIsSound
<1>4. client.attempt \in 0..(MaxAttempts - 1)
  BY <1>1 DEF TypeOK, Clients
<1>5. sent' = [sent EXCEPT ![client.call] = client.attempt + 1]
  BY <1>3 DEF Exchange
<1>6. client.attempt + 1 \in 0..MaxAttempts
  BY <1>4, CallsFacts
<1>7. sent' \in [Calls -> 0..MaxAttempts]
  BY <1>5, <1>6, <1>1 DEF TypeOK
<1> QED BY <1>1, <1>2, <1>3, <1>5, <1>7, <1>8 DEF Exchange

(* The two ends of an exchange that may be retried: it waits, or gives up. *)
LEMMA RetryFacts ==
    ASSUME TypeOK, client.pc = "post", NEW waits \in SUBSET Nat, RetryIn(waits)
    PROVE  \/ /\ client.attempt = MaxAttempts - 1
              /\ Return("error")
           \/ /\ client.attempt < MaxAttempts - 1
              /\ result' = result
              /\ \E d \in waits : client' = [client EXCEPT !.pc = "wait", !.wait = d]
<1>1. client.attempt \in 0..(MaxAttempts - 1)
  BY DEF TypeOK, Clients
<1>2. client.attempt # MaxAttempts - 1 => client.attempt < MaxAttempts - 1
  BY <1>1, CallsFacts
<1> QED BY <1>2, Zenon DEF RetryIn

(* Giving a call its result.                                               *)
LEMMA ReturnFacts ==
    ASSUME TypeOK, client.call \in Calls,
           NEW res \in {"created", "exists", "error"}, Return(res)
    PROVE  /\ result' = [result EXCEPT ![client.call] = res]
           /\ result' \in [Calls -> {"open", "created", "exists", "error"}]
           /\ client' \in Clients
           /\ client'.pc = "between" /\ client'.call = client.call
           /\ client'.attempt = client.attempt
BY DEF TypeOK, Clients, Return

(* Deciding to wait.                                                       *)
LEMMA WaitFacts ==
    ASSUME TypeOK, NEW d \in Nat, client' = [client EXCEPT !.pc = "wait", !.wait = d]
    PROVE  /\ client' \in Clients
           /\ client'.pc = "wait" /\ client'.wait = d
           /\ client'.call = client.call /\ client'.attempt = client.attempt
BY DEF TypeOK, Clients

(* The two ways the client goes on after an exchange.                      *)
EndsCall(res) ==
    /\ Return(res)
    /\ res = "error" /\ prev'.transient => client.attempt = MaxAttempts - 1

WaitsFor(d) ==
    /\ client.attempt < MaxAttempts - 1
    /\ result' = result
    /\ prev'.transient
    /\ client' = [client EXCEPT !.pc = "wait", !.wait = d]
    /\ now' + d >= prev'.until

(* An exchange preserves the invariant, whether its call returns or waits  *)
(* for the next attempt (github.go:322-354).                               *)
LEMMA ExchangeStep ==
    ASSUME IInv, Exchange,
           confirmed' \in [Reports -> Nat], orphaned' \in [Reports -> Nat],
           prev' \in [at : Nat, until : Nat, transient : BOOLEAN], prev'.at = last',
           \/ \E res \in {"created", "exists", "error"} : EndsCall(res)
           \/ \E d \in Nat : WaitsFor(d)
    PROVE  IInv'
<1>1. TypeOK
  BY DEF IInv
<1>2. /\ now' \in Nat /\ last' \in Nat /\ last' <= now' /\ cancelled' = FALSE /\ ~cancelled
      /\ client.pc = "post" /\ client.call \in Calls
      /\ sent[client.call] = client.attempt
      /\ sent' = [sent EXCEPT ![client.call] = client.attempt + 1]
      /\ sent' \in [Calls -> 0..MaxAttempts]
  BY ExchangeFacts
<1>3. /\ client.attempt \in 0..(MaxAttempts - 1) /\ client.call \in Nat
      /\ sent \in [Calls -> 0..MaxAttempts] /\ now \in Nat
  BY <1>1, <1>2, CallsFacts DEF TypeOK, Clients
<1>4. /\ sent'[client.call] = client.attempt + 1
      /\ \A i \in Calls : i > client.call => sent'[i] = 0
  BY <1>2, <1>3, CallsFacts DEF IInv, CountIsSound
<1>5. last' # None
  BY <1>2, TimeAssumption
<1>6. CASE \E res \in {"created", "exists", "error"} : EndsCall(res)
  <2>1. PICK res \in {"created", "exists", "error"} : EndsCall(res)
    BY <1>6
  <2>2. /\ result' = [result EXCEPT ![client.call] = res]
        /\ result' \in [Calls -> {"open", "created", "exists", "error"}]
        /\ client' \in Clients
        /\ client'.pc = "between" /\ client'.call = client.call
        /\ client'.attempt = client.attempt
    BY <2>1, <1>1, <1>2, ReturnFacts DEF EndsCall
  <2>3. TypeOK'
    BY <1>2, <2>2 DEF TypeOK
  <2>4. ClockIsSound'
    BY <1>2, <1>5, <2>2 DEF ClockIsSound
  <2>5. CountIsSound' /\ RetryIsSound'
    BY <1>4, <2>2 DEF CountIsSound, RetryIsSound
  <2>6. OpenIsSound'
    BY <1>1, <1>2, <1>3, <2>2, CallsFacts DEF IInv, OpenIsSound, TypeOK
  <2>7. result'[client.call] = res
    BY <1>1, <1>2, <2>2 DEF TypeOK
  <2>8. GivesUpOnlyWhenSpent'
    BY <1>3, <1>4, <2>1, <2>2, <2>7, CallsFacts DEF GivesUpOnlyWhenSpent, EndsCall
  <2> QED BY <2>3, <2>4, <2>5, <2>6, <2>8 DEF IInv
<1>7. CASE \E d \in Nat : WaitsFor(d)
  <2>1. PICK d \in Nat : WaitsFor(d)
    BY <1>7
  <2>2. /\ client' \in Clients
        /\ client'.pc = "wait" /\ client'.wait = d
        /\ client'.call = client.call /\ client'.attempt = client.attempt
    BY <1>1, <2>1, WaitFacts DEF WaitsFor
  <2>3. TypeOK'
    BY <1>1, <1>2, <2>1, <2>2 DEF TypeOK, WaitsFor
  <2>4. ClockIsSound'
    BY <1>2, <1>5, <2>2 DEF ClockIsSound
  <2>5. CountIsSound'
    <3>1. client.attempt < MaxAttempts - 1
      BY <2>1 DEF WaitsFor
    <3> QED BY <1>3, <1>4, <2>2, <3>1 DEF CountIsSound
  <2>6. RetryIsSound'
    BY <1>4, <2>1, <2>2 DEF RetryIsSound, WaitsFor
  <2>7. result[client.call] = "open"
    BY <1>2 DEF IInv, OpenIsSound
  <2>8. OpenIsSound'
    BY <2>1, <2>2, <2>7 DEF IInv, OpenIsSound, WaitsFor
  <2>9. GivesUpOnlyWhenSpent'
    BY <2>1, <2>2, <2>7 DEF GivesUpOnlyWhenSpent, WaitsFor
  <2> QED BY <2>3, <2>4, <2>5, <2>6, <2>8, <2>9 DEF IInv
<1> QED BY <1>6, <1>7

(* Every answer preserves it: the policy waits as long as the answer asks. *)
LEMMA AnsweredStep ==
    ASSUME IInv, NEW resp \in Responses, Answered(resp)
    PROVE  IInv'
<1>1. /\ TypeOK /\ Exchange /\ client.attempt \in Nat
      /\ client.pc = "post" /\ client.call \in Calls
  BY DEF IInv, TypeOK, Clients, Answered, Exchange
<1>2. now' \in Nat /\ last' \in Nat
  BY <1>1, ExchangeFacts
<1> DEFINE waits == RetryDecision(resp, client.attempt)
<1>3. /\ waits \subseteq Nat
      /\ \A d \in waits : d >= Asked(resp)
      /\ waits = {} <=> ~Transient(resp)
      /\ Asked(resp) \in Nat
      /\ Transient(resp) \in BOOLEAN
  BY <1>1, DecisionIsSound
<1>4. prev' = [at |-> last', until |-> now' + Asked(resp), transient |-> Transient(resp)]
  BY DEF Answered
<1>5. /\ prev' \in [at : Nat, until : Nat, transient : BOOLEAN] /\ prev'.at = last'
      /\ prev'.until = now' + Asked(resp) /\ prev'.transient = Transient(resp)
  <2>1. now' + Asked(resp) \in Nat
    BY <1>2, <1>3
  <2> QED BY <1>2, <1>3, <1>4, <2>1, Zenon
<1>6. confirmed' \in [Reports -> Nat] /\ orphaned' \in [Reports -> Nat]
  BY <1>1 DEF Answered, Creates, TypeOK
<1>7. CASE waits = {}
  <2>1. Return(Meaning(resp.code))
    BY <1>7 DEF Answered
  <2>2. Meaning(resp.code) \in {"created", "exists", "error"}
    BY DEF Meaning
  <2>3. EndsCall(Meaning(resp.code))
    BY <1>3, <1>5, <1>7, <2>1, Zenon DEF EndsCall
  <2> QED BY <1>1, <1>5, <1>6, <2>2, <2>3, ExchangeStep
<1>8. CASE waits # {}
  <2>1. RetryIn(waits)
    BY <1>8 DEF Answered
  <2>2. CASE client.attempt = MaxAttempts - 1 /\ Return("error")
    <3>1. EndsCall("error")
      BY <2>2 DEF EndsCall
    <3> QED BY <1>1, <1>5, <1>6, <3>1, ExchangeStep
  <2>3. CASE /\ client.attempt < MaxAttempts - 1
             /\ result' = result
             /\ \E d \in waits : client' = [client EXCEPT !.pc = "wait", !.wait = d]
    <3>1. PICK d \in waits : client' = [client EXCEPT !.pc = "wait", !.wait = d]
      BY <2>3
    <3>2. d \in Nat /\ d >= Asked(resp)
      BY <1>3
    <3>3. now' + d >= prev'.until
      BY <1>2, <1>3, <1>5, <3>2
    <3>4. prev'.transient
      BY <1>3, <1>5, <1>8
    <3>5. WaitsFor(d)
      BY <2>3, <3>1, <3>3, <3>4, Zenon DEF WaitsFor
    <3> QED BY <1>1, <1>5, <1>6, <3>2, <3>5, ExchangeStep
  <2>4. waits \in SUBSET Nat
    BY <1>3
  <2> QED BY <1>1, <2>1, <2>2, <2>3, <2>4, RetryFacts
<1> QED BY <1>7, <1>8

(* So does a POST without a usable answer.                                 *)
LEMMA UnansweredStep ==
    ASSUME IInv, Unanswered
    PROVE  IInv'
<1>1. /\ TypeOK /\ Exchange
      /\ client.pc = "post" /\ client.call \in Calls
  BY DEF IInv, TypeOK, Unanswered, Exchange
<1>2. now' \in Nat /\ last' \in Nat
  BY <1>1, ExchangeFacts
<1> DEFINE waits == JitteredBackoff(client.attempt)
<1>3. waits \in SUBSET Nat
  BY TimeAssumption DEF JitteredBackoff
<1>4. prev' = [at |-> last', until |-> now', transient |-> TRUE]
  BY DEF Unanswered
<1>5. /\ prev' \in [at : Nat, until : Nat, transient : BOOLEAN] /\ prev'.at = last'
      /\ prev'.until = now' /\ prev'.transient
  BY <1>2, <1>4
<1>6. confirmed' \in [Reports -> Nat] /\ orphaned' \in [Reports -> Nat]
  BY <1>1 DEF Unanswered, Creates, TypeOK
<1>7. RetryIn(waits)
  BY DEF Unanswered
<1>8. CASE client.attempt = MaxAttempts - 1 /\ Return("error")
  <2>1. EndsCall("error")
    BY <1>8 DEF EndsCall
  <2> QED BY <1>1, <1>5, <1>6, <2>1, ExchangeStep
<1>9. CASE /\ client.attempt < MaxAttempts - 1
           /\ result' = result
           /\ \E d \in waits : client' = [client EXCEPT !.pc = "wait", !.wait = d]
  <2>1. PICK d \in waits : client' = [client EXCEPT !.pc = "wait", !.wait = d]
    BY <1>9
  <2>2. d \in Nat
    BY <1>3
  <2>3. now' + d >= prev'.until
    <3>1. prev'.until = now'
      BY <1>4
    <3>2. now' + d >= now'
      BY <1>2, <2>2, ClockArithmetic
    <3> QED BY <3>1, <3>2
  <2>4. WaitsFor(d)
    BY <1>5, <1>9, <2>1, <2>3, Zenon DEF WaitsFor
  <2> QED BY <1>1, <1>5, <1>6, <2>2, <2>4, ExchangeStep
<1> QED BY <1>1, <1>3, <1>7, <1>8, <1>9, RetryFacts

(* The steps that send nothing preserve it too: starting a call.           *)
LEMMA StartCallStep == ASSUME IInv, StartCall PROVE IInv'
<1>1. /\ TypeOK /\ now \in Nat /\ client.call + 1 \in Calls /\ client.call \in Nat
      /\ \A i \in Calls : i \in Nat /\ (i > client.call + 1 => i > client.call)
  BY CallsFacts DEF IInv, TypeOK, Clients, StartCall
<1>2. now' \in Nat /\ now' >= now
  BY <1>1, TimeMoves DEF StartCall
<1>3. /\ client'.pc = "space" /\ client'.call = client.call + 1
      /\ client'.attempt = 0 /\ client'.wait = 0
      /\ UNCHANGED <<cancelled, last, result, confirmed, orphaned, sent, prev>>
  BY DEF StartCall, githubVars
<1>4. client' \in Clients
  BY <1>1, CallsFacts DEF StartCall, Clients, Calls
<1>5. TypeOK'
  BY <1>1, <1>2, <1>3, <1>4 DEF TypeOK
<1>6. sent[client.call + 1] = 0 /\ result[client.call + 1] = "open"
  BY <1>1 DEF IInv, CountIsSound, OpenIsSound
<1>7. ClockIsSound'
  BY <1>1, <1>2, <1>3 DEF IInv, ClockIsSound, TypeOK, Posted
<1>8. CountIsSound'
  BY <1>1, <1>3, <1>6 DEF IInv, CountIsSound
<1>9. RetryIsSound'
  BY <1>3 DEF RetryIsSound
<1>10. OpenIsSound' /\ GivesUpOnlyWhenSpent'
  BY <1>1, <1>3, <1>6 DEF IInv, OpenIsSound, GivesUpOnlyWhenSpent
<1> QED BY <1>5, <1>7, <1>8, <1>9, <1>10 DEF IInv

(* The end of the run.                                                     *)
LEMMA EndRunStep == ASSUME IInv, EndRun PROVE IInv'
<1>1. /\ client' \in Clients /\ client'.pc = "over" /\ client'.call = client.call
      /\ UNCHANGED <<now, cancelled, last, result, confirmed, orphaned, sent, prev>>
  BY DEF IInv, TypeOK, Clients, EndRun, githubVars
<1> QED BY <1>1 DEF IInv, TypeOK, ClockIsSound, CountIsSound, RetryIsSound, OpenIsSound,
           GivesUpOnlyWhenSpent, Posted

(* Waiting for the spacing to be over.                                     *)
LEMMA SpaceStep == ASSUME IInv, SpaceMutations PROVE IInv'
<1>1. /\ TypeOK /\ now \in Nat /\ last \in Nat \cup {None} /\ client.call \in Calls
  BY DEF IInv, TypeOK, SpaceMutations
<1>2. /\ client' \in Clients /\ client'.pc = "post" /\ client.pc = "space"
      /\ client'.call = client.call /\ client'.attempt = client.attempt
      /\ UNCHANGED <<cancelled, last, result, confirmed, orphaned, sent, prev>>
  BY DEF IInv, TypeOK, Clients, SpaceMutations, githubVars
<1>3. now' \in Nat /\ now' >= now /\ (last # None => now' - last >= MinSpacing)
  <2>1. CASE TooSoon
    <3>1. last \in Nat /\ now - last < MinSpacing /\ last + MinSpacing \in Nat
      BY <1>1, <2>1, CallsFacts DEF TooSoon
    <3>2. TimePasses(last + MinSpacing)
      BY <2>1 DEF SpaceMutations
    <3>3. now' \in Nat /\ now' >= last + MinSpacing
      BY <3>1, <3>2, TimeMoves
    <3>4. MinSpacing \in Nat
      BY CallsFacts
    <3>5. now' - last >= MinSpacing /\ now' >= now
      BY <1>1, <3>1, <3>3, <3>4, ClockArithmetic
    <3> QED BY <3>3, <3>5
  <2>2. CASE ~TooSoon
    <3>1. now' = now
      BY <2>2 DEF SpaceMutations
    <3>2. last # None => last \in Nat /\ ~(now - last < MinSpacing)
      BY <1>1, <2>2 DEF TooSoon
    <3> QED BY <1>1, <3>1, <3>2, CallsFacts
  <2> QED BY <2>1, <2>2
<1>4. TypeOK'
  BY <1>1, <1>2, <1>3 DEF TypeOK
<1>5. ClockIsSound'
  BY <1>1, <1>2, <1>3 DEF IInv, ClockIsSound, Posted
<1>6. CountIsSound' /\ OpenIsSound' /\ GivesUpOnlyWhenSpent'
  BY <1>2 DEF IInv, CountIsSound, OpenIsSound, GivesUpOnlyWhenSpent
<1>7. RetryIsSound'
  <2>1. prev.until \in Nat
    BY <1>1 DEF TypeOK
  <2> QED BY <1>1, <1>2, <1>3, <2>1 DEF IInv, RetryIsSound
<1> QED BY <1>4, <1>5, <1>6, <1>7 DEF IInv

(* A sleep cut short by the cancellation.                                  *)
LEMMA SleepCancelledStep == ASSUME IInv, SleepCancelled PROVE IInv'
<1>1. /\ TypeOK /\ cancelled /\ client.pc \in {"space", "wait"} /\ client.call \in Calls
      /\ Return("error")
      /\ UNCHANGED <<now, cancelled, last, confirmed, orphaned, sent, prev>>
  BY DEF IInv, TypeOK, SleepCancelled
<1>2. /\ result' = [result EXCEPT ![client.call] = "error"]
      /\ result' \in [Calls -> {"open", "created", "exists", "error"}]
      /\ client' \in Clients
      /\ client'.pc = "between" /\ client'.call = client.call
  BY <1>1, ReturnFacts
<1>3. TypeOK'
  BY <1>1, <1>2 DEF TypeOK
<1>4. OpenIsSound'
  <2>1. client.call \in Nat
    BY <1>1, CallsFacts
  <2> QED BY <1>1, <1>2, <2>1, CallsFacts DEF IInv, OpenIsSound, TypeOK
<1>5. ClockIsSound' /\ CountIsSound' /\ RetryIsSound' /\ GivesUpOnlyWhenSpent'
  BY <1>1, <1>2 DEF IInv, ClockIsSound, CountIsSound, RetryIsSound, GivesUpOnlyWhenSpent, Posted
<1> QED BY <1>3, <1>4, <1>5 DEF IInv

(* The end of a backoff.                                                   *)
LEMMA BackoffStep == ASSUME IInv, Backoff PROVE IInv'
<1>1. /\ TypeOK /\ now \in Nat /\ client.wait \in Nat /\ client.call \in Calls
      /\ client.attempt \in 0..(MaxAttempts - 1) /\ client.pc = "wait" /\ ~cancelled
      /\ prev.until \in Nat
  BY DEF IInv, TypeOK, Clients, Backoff
<1>2. client.attempt < MaxAttempts - 1 /\ sent[client.call] = client.attempt + 1
  BY <1>1 DEF IInv, CountIsSound, RetryIsSound
<1>3. now' \in Nat /\ now' >= now + client.wait
  <2>1. TimePasses(now + client.wait) /\ now + client.wait \in Nat
    BY <1>1 DEF Backoff
  <2> QED BY <2>1, TimeMoves
<1>4. /\ client'.pc = "space" /\ client'.call = client.call
      /\ client'.attempt = client.attempt + 1
      /\ UNCHANGED <<cancelled, last, result, confirmed, orphaned, sent, prev>>
  BY <1>1 DEF TypeOK, Clients, Backoff, githubVars
<1>5. client' \in Clients
  <2>1. client.attempt + 1 \in 0..(MaxAttempts - 1)
    BY <1>1, <1>2, CallsFacts
  <2> QED BY <1>1, <2>1 DEF TypeOK, Clients, Backoff
<1>6. TypeOK'
  BY <1>1, <1>3, <1>4, <1>5 DEF TypeOK
<1>7. ClockIsSound'
  BY <1>1, <1>3, <1>4 DEF IInv, TypeOK, ClockIsSound, Posted
<1>8. CountIsSound'
  BY <1>1, <1>2, <1>4 DEF IInv, CountIsSound
<1>9. RetryIsSound'
  <2>1. prev.transient /\ now + client.wait >= prev.until
    BY <1>1 DEF IInv, RetryIsSound
  <2>2. now' >= prev.until
    BY <1>1, <1>3, <2>1
  <2> QED BY <1>4, <2>1, <2>2 DEF RetryIsSound
<1>10. OpenIsSound' /\ GivesUpOnlyWhenSpent'
  BY <1>1, <1>4 DEF IInv, OpenIsSound, GivesUpOnlyWhenSpent
<1> QED BY <1>6, <1>7, <1>8, <1>9, <1>10 DEF IInv

(* A POST the cancelled context kept from leaving.                         *)
LEMMA NotSentStep == ASSUME IInv, NotSent PROVE IInv'
<1>1. /\ TypeOK /\ cancelled /\ client.pc = "post" /\ client.call \in Calls
      /\ last' = now /\ now \in Nat /\ now # None
      /\ RetryIn(JitteredBackoff(client.attempt))
      /\ UNCHANGED <<now, cancelled, confirmed, orphaned, sent, prev>>
  BY TimeAssumption DEF IInv, TypeOK, NotSent
<1>2. JitteredBackoff(client.attempt) \in SUBSET Nat
  BY TimeAssumption DEF JitteredBackoff
<1>3. Posted => now >= prev.at
  BY <1>1 DEF IInv, ClockIsSound, TypeOK
<1>4. sent[client.call] <= client.attempt /\ result[client.call] = "open"
  BY <1>1 DEF IInv, CountIsSound, OpenIsSound
<1>5. CASE Return("error")
  <2>1. /\ result' = [result EXCEPT ![client.call] = "error"]
        /\ result' \in [Calls -> {"open", "created", "exists", "error"}]
        /\ client' \in Clients
        /\ client'.pc = "between" /\ client'.call = client.call
    BY <1>1, <1>5, ReturnFacts
  <2>2. TypeOK'
    BY <1>1, <2>1 DEF TypeOK
  <2>3. ClockIsSound'
    BY <1>1, <1>3, <2>1 DEF ClockIsSound, Posted
  <2>4. OpenIsSound'
    <3>1. client.call \in Nat
      BY <1>1, CallsFacts
    <3> QED BY <1>1, <2>1, <3>1, CallsFacts DEF IInv, OpenIsSound, TypeOK
  <2>5. CountIsSound' /\ RetryIsSound' /\ GivesUpOnlyWhenSpent'
    BY <1>1, <2>1 DEF IInv, CountIsSound, RetryIsSound, GivesUpOnlyWhenSpent
  <2> QED BY <2>2, <2>3, <2>4, <2>5 DEF IInv
<1>6. CASE /\ client.attempt < MaxAttempts - 1
           /\ result' = result
           /\ \E d \in JitteredBackoff(client.attempt) :
                 client' = [client EXCEPT !.pc = "wait", !.wait = d]
  <2>1. /\ client' \in Clients /\ client'.pc = "wait"
        /\ client'.call = client.call /\ client'.attempt = client.attempt
    BY <1>1, <1>2, <1>6, WaitFacts
  <2>2. TypeOK'
    BY <1>1, <1>6, <2>1 DEF TypeOK
  <2>3. ClockIsSound'
    BY <1>1, <1>3, <2>1 DEF ClockIsSound, Posted
  <2>4. CountIsSound'
    <3>1. client.attempt \in Nat /\ sent[client.call] \in Nat
      BY <1>1, CallsFacts DEF TypeOK, Clients
    <3> QED BY <1>1, <1>4, <1>6, <2>1, <3>1 DEF IInv, CountIsSound
  <2>5. RetryIsSound' /\ OpenIsSound' /\ GivesUpOnlyWhenSpent'
    BY <1>1, <1>4, <1>6, <2>1 DEF IInv, RetryIsSound, OpenIsSound, GivesUpOnlyWhenSpent
  <2> QED BY <2>2, <2>3, <2>4, <2>5 DEF IInv
<1> QED BY <1>1, <1>2, <1>5, <1>6, RetryFacts

(* The cancellation itself.                                                *)
LEMMA CancelStep == ASSUME IInv, Cancel PROVE IInv'
BY DEF IInv, Cancel, githubVars, TypeOK, ClockIsSound, CountIsSound, RetryIsSound, OpenIsSound,
   GivesUpOnlyWhenSpent, Posted

(* Every step preserves the inductive invariant.                           *)
LEMMA IInvStep == IInv /\ [Next]_vars => IInv'
<1> SUFFICES ASSUME IInv, [Next]_vars PROVE IInv'
  OBVIOUS
<1>1. CASE StartCall BY <1>1, StartCallStep
<1>2. CASE SpaceMutations BY <1>2, SpaceStep
<1>3. CASE SleepCancelled BY <1>3, SleepCancelledStep
<1>4. CASE \E resp \in Responses : Answered(resp) BY <1>4, AnsweredStep
<1>5. CASE Unanswered BY <1>5, UnansweredStep
<1>6. CASE NotSent BY <1>6, NotSentStep
<1>7. CASE Backoff BY <1>7, BackoffStep
<1>8. CASE EndRun BY <1>8, EndRunStep
<1>9. CASE Cancel BY <1>9, CancelStep
<1>10. CASE UNCHANGED vars
  BY <1>10 DEF vars, githubVars, IInv, TypeOK, ClockIsSound, CountIsSound, RetryIsSound,
     OpenIsSound, GivesUpOnlyWhenSpent, Posted
<1> QED BY <1>1, <1>2, <1>3, <1>4, <1>5, <1>6, <1>7, <1>8, <1>9, <1>10 DEF Next

(* The inductive invariant of the client (github.go:302-357) holds for     *)
(* every policy constant.                                                  *)
THEOREM Inductive == Spec => []IInv
<1>1. Init => IInv
  BY InitIInv
<1>2. IInv /\ [Next]_vars => IInv'
  BY IInvStep
<1> QED BY <1>1, <1>2, PTL DEF Spec

(* The client's state is well typed; no call posts more than MaxAttempts   *)
(* times (github.go:309).                                                  *)
THEOREM TypeCorrect == Spec => []TypeOK
<1>1. IInv => TypeOK
  BY DEF IInv
<1> QED BY <1>1, Inductive, PTL

(* A call gives up on an answer that may be retried only when its attempts *)
(* are spent (github.go:347).                                              *)
THEOREM AttemptsAreSpent == Spec => []GivesUpOnlyWhenSpent
<1>1. IInv => GivesUpOnlyWhenSpent
  BY DEF IInv
<1> QED BY <1>1, Inductive, PTL

(* Only an exchange posts, and only for the call under way.                *)
LEMMA OnlyExchangesPost ==
    ASSUME [Next]_vars, sent' # sent
    PROVE  Exchange
BY DEF Next, vars, githubVars, StartCall, SpaceMutations, SleepCancelled, Answered, Unanswered,
   NotSent, Backoff, EndRun, Cancel

(* POSTs are at least MinSpacing apart (github.go:412-432).                *)
THEOREM SpacingHolds == Spec => Spaced
<1>1. IInv /\ [Next]_vars => [sent' # sent /\ Posted => now >= prev.at + MinSpacing]_vars
  <2> SUFFICES ASSUME IInv, [Next]_vars, sent' # sent, Posted
               PROVE  now >= prev.at + MinSpacing
    OBVIOUS
  <2>1. client.pc = "post"
    BY OnlyExchangesPost DEF Exchange
  <2>2. last # None /\ last >= prev.at /\ now - last >= MinSpacing
    BY <2>1 DEF IInv, ClockIsSound
  <2>3. now \in Nat /\ last \in Nat /\ prev.at \in Nat
    BY <2>2 DEF IInv, TypeOK
  <2> QED BY <2>2, <2>3, CallsFacts
<1> QED BY <1>1, Inductive, PTL DEF Spec, Spaced

(* A call posts again only when the last answer allows it, and after the   *)
(* silence it asks for (github.go:369-410).                                *)
THEOREM RetriesAreLicensed == Spec => RetriesHonourAnswer
<1> DEFINE A == \A i \in Calls : sent'[i] # sent[i] /\ sent[i] > 0
                                     => prev.transient /\ now >= prev.until
<1>1. IInv /\ [Next]_vars => [A]_vars
  <2> SUFFICES ASSUME IInv, [Next]_vars, NEW i \in Calls, sent'[i] # sent[i], sent[i] > 0
               PROVE  prev.transient /\ now >= prev.until
    OBVIOUS
  <2>1. Exchange
    BY OnlyExchangesPost
  <2>2. /\ client.pc = "post" /\ ~cancelled /\ client.call \in Calls
        /\ sent' = [sent EXCEPT ![client.call] = client.attempt + 1]
        /\ sent[client.call] = client.attempt
    BY <2>1, ExchangeFacts
  <2>3. i = client.call
    BY <2>2 DEF IInv, TypeOK
  <2> QED BY <2>2, <2>3 DEF IInv, RetryIsSound
<1> QED BY <1>1, Inductive, PTL DEF Spec, RetriesHonourAnswer

(* A cancelled run posts nothing more and sits out no sleep                *)
(* (github.go:174-188).                                                    *)
THEOREM CancellationIsPrompt == Spec => CancelIsPrompt
<1> DEFINE A == cancelled => sent' = sent /\ now' <= now + MaxLag
<1>1. IInv /\ [Next]_vars => [A]_vars
  <2> SUFFICES ASSUME IInv, [Next]_vars, cancelled
               PROVE  sent' = sent /\ now' <= now + MaxLag
    OBVIOUS
  <2>1. now \in Nat /\ now <= now + MaxLag
    BY CallsFacts DEF IInv, TypeOK
  <2>2. sent' = sent
    BY OnlyExchangesPost DEF Exchange
  <2>3. CASE StartCall
    BY <2>1, <2>2, <2>3, TimeMoves DEF StartCall
  <2>4. CASE ~StartCall
    <3>1. now' = now
      BY <2>4 DEF Next, vars, githubVars, SpaceMutations, SleepCancelled, Answered, Unanswered,
         NotSent, Backoff, EndRun, Cancel, Exchange
    <3> QED BY <2>1, <2>2, <3>1
  <2> QED BY <2>3, <2>4
<1> QED BY <1>1, Inductive, PTL DEF Spec, CancelIsPrompt

(* The results of the reports, as the abstract specification sees them.    *)
Results == [r \in Reports |-> result[r]]

(* The call under way is open, and what a returning call does to Results.  *)
LEMMA ResultsAfterReturn ==
    ASSUME IInv, client.pc \in {"space", "post", "wait"},
           NEW res \in {"created", "exists", "error"}, Return(res)
    PROVE  /\ client.call \notin Reports => Results' = Results
           /\ client.call \in Reports =>
                 /\ Results[client.call] = "open"
                 /\ Results' = [Results EXCEPT ![client.call] = res]
<1>1. /\ client.call \in Calls /\ result[client.call] = "open"
      /\ result \in [Calls -> {"open", "created", "exists", "error"}]
  BY DEF IInv, TypeOK, OpenIsSound
<1>2. result' = [result EXCEPT ![client.call] = res]
  BY DEF Return
<1> QED BY <1>1, <1>2, CallsFacts DEF Results

(* A call that returns without an issue for anybody to know of, or with    *)
(* one more that nobody knows of, is a Fails or leaves the reports alone.  *)
LEMMA ErrorRefines ==
    ASSUME IInv, client.pc \in {"space", "post", "wait"}, Return("error"),
           confirmed' = confirmed, orphaned' \in {orphaned, Creates(orphaned)}
    PROVE  Issue!Next \/ UNCHANGED <<Results, confirmed, orphaned>>
<1>1. CASE client.call \notin Reports
  BY <1>1, ResultsAfterReturn DEF Creates
<1>2. CASE client.call \in Reports
  <2>1. /\ Results[client.call] = "open"
        /\ Results' = [Results EXCEPT ![client.call] = "error"]
    BY <1>2, ResultsAfterReturn
  <2>2. ASSUME NEW r \in Reports, r = client.call
        PROVE  Issue!Fails(r)
    BY <2>1, <2>2 DEF Issue!Fails, Creates, Results
  <2>3. \E r \in Reports : Issue!Fails(r)
    BY <1>2, <2>2
  <2>4. Issue!Next
    BY <2>3 DEF Issue!Next
  <2> QED BY <2>4
<1> QED BY <1>1, <1>2

(* A step of the client is a step of the abstract call, or no step of it.  *)
LEMMA RefinementStep ==
    ASSUME IInv, [Next]_vars
    PROVE  Issue!Next \/ UNCHANGED <<Results, confirmed, orphaned>>
<1>1. CASE UNCHANGED <<result, confirmed, orphaned>>
  BY <1>1 DEF Results
<1>2. CASE SleepCancelled
  <2>1. /\ client.pc \in {"space", "wait"} /\ Return("error")
        /\ confirmed' = confirmed /\ orphaned' = orphaned
    BY <1>2 DEF SleepCancelled
  <2> QED BY <2>1, ErrorRefines
<1>3. CASE NotSent
  <2>1. /\ client.pc = "post" /\ confirmed' = confirmed /\ orphaned' = orphaned
        /\ Return("error") \/ result' = result
    BY <1>3 DEF NotSent, RetryIn
  <2>2. CASE Return("error")
    BY <2>1, <2>2, ErrorRefines
  <2> QED BY <1>1, <2>1, <2>2
<1>4. CASE Unanswered
  <2>1. /\ client.pc = "post" /\ confirmed' = confirmed
        /\ orphaned' \in {orphaned, Creates(orphaned)}
        /\ Return("error") \/ result' = result
    BY <1>4 DEF Unanswered, Exchange, RetryIn
  <2>2. CASE Return("error")
    BY <2>1, <2>2, ErrorRefines
  <2>3. CASE result' = result /\ client.call \in Reports /\ orphaned' = Creates(orphaned)
    <3>1. Results[client.call] = "open"
      BY <2>1, <2>3, CallsFacts DEF IInv, OpenIsSound, Results
    <3>2. Issue!Lost(client.call)
      BY <2>1, <2>3, <3>1 DEF Issue!Lost, Creates, Results
    <3> QED BY <2>3, <3>2 DEF Issue!Next
  <2>4. CASE result' = result /\ (client.call \notin Reports \/ orphaned' = orphaned)
    BY <2>1, <2>4 DEF Creates, Results
  <2> QED BY <2>1, <2>2, <2>3, <2>4
<1>5. ASSUME NEW resp \in Responses, Answered(resp)
      PROVE  Issue!Next \/ UNCHANGED <<Results, confirmed, orphaned>>
  <2> DEFINE waits == RetryDecision(resp, client.attempt)
  <2>1. /\ client.pc = "post" /\ resp.code \in Codes
        /\ confirmed' = IF resp.code = "201" THEN Creates(confirmed) ELSE confirmed
        /\ orphaned' = IF resp.code = "garbled" THEN Creates(orphaned) ELSE orphaned
        /\ IF waits = {} THEN Return(Meaning(resp.code)) ELSE RetryIn(waits)
    BY <1>5 DEF Answered, Exchange, Responses
  <2>2. CASE resp.code = "201" /\ client.call \in Reports
    <3>1. waits = {}
      BY <2>2 DEF RetryDecision, Limits
    <3>2. Return("created")
      BY <2>1, <2>2, <3>1 DEF Meaning
    <3>3. /\ Results[client.call] = "open"
          /\ Results' = [Results EXCEPT ![client.call] = "created"]
      BY <2>1, <2>2, <3>2, ResultsAfterReturn
    <3>4. ASSUME NEW r \in Reports, r = client.call
          PROVE  Issue!Confirmed(r)
      BY <2>1, <2>2, <3>3, <3>4 DEF Issue!Confirmed, Creates, Results
    <3>5. \E r \in Reports : Issue!Confirmed(r)
      BY <2>2, <3>4
    <3>6. Issue!Next
      BY <3>5 DEF Issue!Next
    <3> QED BY <3>6
  <2>3. CASE resp.code # "201" /\ client.call \in Reports
    <3>1. Meaning(resp.code) = "error"
      BY <2>3 DEF Meaning
    <3>2. confirmed' = confirmed /\ orphaned' \in {orphaned, Creates(orphaned)}
      BY <2>1, <2>3
    <3>3. CASE Return("error")
      BY <2>1, <3>2, <3>3, ErrorRefines
    <3>4. CASE waits # {} /\ result' = result
      <4>1. resp.code # "garbled"
        BY <3>4 DEF RetryDecision, Limits
      <4> QED BY <2>1, <2>3, <3>4, <4>1 DEF Results
    <3> QED BY <2>1, <3>1, <3>3, <3>4 DEF RetryIn
  <2>4. CASE client.call \notin Reports
    <3>1. confirmed' = confirmed /\ orphaned' = orphaned
      BY <2>1, <2>4 DEF Creates
    <3>2. \/ \E res \in {"created", "exists", "error"} : Return(res)
          \/ result' = result
      BY <2>1 DEF RetryIn, Meaning
    <3> QED BY <2>1, <2>4, <3>1, <3>2, ResultsAfterReturn DEF Results
  <2> QED BY <2>2, <2>3, <2>4
<1> QED
  BY <1>1, <1>2, <1>3, <1>4, <1>5 DEF Next, vars, githubVars, StartCall, SpaceMutations,
     Backoff, EndRun, Cancel

(* The client implements what the publish run relies on: one confirmed     *)
(* issue for success, none for an error, nothing after the return          *)
(* (github.go:270-290).                                                    *)
THEOREM CallsAreHonest == Spec => ImplementsIssueCall
<1>1. Init => Issue!Init
  BY CallsFacts DEF Init, Issue!Init, Results
<1>2. IInv /\ [Next]_vars => [Issue!Next]_(Issue!callVars)
  BY RefinementStep DEF Issue!callVars, Results
<1> QED BY <1>1, <1>2, Inductive, PTL DEF Spec, ImplementsIssueCall, Issue!Spec
=============================================================================
