------------------------------ MODULE IssueCall ------------------------------
(***************************************************************************)
(* What the publish run may rely on of one call to Client.CreateIssue:     *)
(* before it returns it may have left any number of issues nobody was told *)
(* of; it returns success with exactly one confirmed issue and an error    *)
(* with none; once it has returned, nothing more comes of it.  These are   *)
(* the CreateLost, CreateConfirmed and CreateFails of PublishJob.          *)
(***************************************************************************)
EXTENDS Naturals

CONSTANTS Reports      \* the calls of a run, one for each report of its batch

VARIABLES result,      \* result[r]: open, created or error
          confirmed,   \* confirmed[r]: issues created and answered 201
          orphaned     \* orphaned[r]: issues created and not confirmed

callVars == <<result, confirmed, orphaned>>

Init ==
    /\ result = [r \in Reports |-> "open"]
    /\ confirmed = [r \in Reports |-> 0]
    /\ orphaned = [r \in Reports |-> 0]

Lost(r) ==
    /\ result[r] = "open"
    /\ orphaned' = [orphaned EXCEPT ![r] = @ + 1]
    /\ UNCHANGED <<result, confirmed>>

Confirmed(r) ==
    /\ result[r] = "open"
    /\ confirmed' = [confirmed EXCEPT ![r] = @ + 1]
    /\ result' = [result EXCEPT ![r] = "created"]
    /\ UNCHANGED orphaned

(* The last answer may itself have been a lost one.                        *)
Fails(r) ==
    /\ result[r] = "open"
    /\ result' = [result EXCEPT ![r] = "error"]
    /\ orphaned' \in {orphaned, [orphaned EXCEPT ![r] = @ + 1]}
    /\ UNCHANGED confirmed

Next == \E r \in Reports : Lost(r) \/ Confirmed(r) \/ Fails(r)

Spec == Init /\ [][Next]_callVars
=============================================================================
