--------------------------- MODULE BucketListing ---------------------------
(***************************************************************************)
(* R2Store.List: the keys under a prefix, read page by page while reports  *)
(* arrive and leave.  PublishJob lists in one step; this module says what  *)
(* the loop over the pages owes it.                                        *)
(*                                                                         *)
(* R2 is external: a page holds the next keys after the cursor, in order   *)
(* and at most Limit of them, from the bucket as it is at that moment; it  *)
(* is truncated when more follow, and its cursor is the last key of it.    *)
(***************************************************************************)
EXTENDS Integers, FiniteSets, Sequences

CONSTANTS Keys,    \* the keys that may appear under the prefix, by order
          Limit    \* keys on a page (1000 in the code)

ASSUME KeysAssumption == Keys \subseteq Nat \ {0}
ASSUME LimitAssumption == Limit \in Nat \ {0}

VARIABLES bucket,  \* the keys stored under the prefix
          pc,      \* page: another page is wanted; done; failed
          cursor,  \* the cursor of the last page, 0 before the first
          listed,  \* keys: what List has collected
          stayed,  \* keys that were stored all the time (observation)
          seen     \* keys that were stored at some time (observation)

listVars == <<pc, cursor, listed>>
vars == <<bucket, listVars, stayed, seen>>

TypeOK ==
    /\ bucket \subseteq Keys
    /\ pc \in {"page", "done", "failed"}
    /\ cursor \in Keys \cup {0}
    /\ listed \in Seq(Keys)
    /\ stayed \subseteq Keys /\ seen \subseteq Keys

Init ==
    /\ bucket \in SUBSET Keys
    /\ pc = "page"
    /\ cursor = 0
    /\ listed = <<>>
    /\ stayed = bucket /\ seen = bucket

-----------------------------------------------------------------------------
Put(k) ==
    /\ bucket' = bucket \cup {k}
    /\ seen' = seen \cup {k}
    /\ UNCHANGED <<listVars, stayed>>

Delete(k) ==
    /\ bucket' = bucket \ {k}
    /\ stayed' = stayed \ {k}
    /\ UNCHANGED <<listVars, seen>>

Following == {k \in bucket : k > cursor}

(* The pages R2 may answer with: the first keys that follow the cursor.    *)
IsPage(page) ==
    /\ \A i \in 1..Len(page) : page[i] \in Following
    /\ \A i, j \in 1..Len(page) : i < j => page[i] < page[j]
    /\ \A k \in Following : (\E i \in 1..Len(page) : page[i] = k)
                               \/ \A i \in 1..Len(page) : page[i] < k
    /\ Following # {} => page # <<>>

Pages == {page \in UNION {[1..n -> Keys] : n \in 0..Limit} : IsPage(page)}

Truncated(page) == \E k \in Following : \A i \in 1..Len(page) : page[i] < k

PageOnce ==                     \* mutant: the syumai helper, one page only
    /\ pc = "page"
    /\ \E page \in Pages : listed' = listed \o page
    /\ pc' = "done"
    /\ UNCHANGED <<bucket, cursor, stayed, seen>>

PageWithoutCursor ==            \* mutant: the cursor is not passed on
    /\ pc = "page"
    /\ \E page \in Pages :
         /\ listed' = IF Len(listed) < 2 * Limit THEN listed \o page ELSE listed
         /\ pc' = IF Truncated(page) THEN "page" ELSE "done"
    /\ UNCHANGED <<bucket, cursor, stayed, seen>>

Page ==
    /\ pc = "page"
    /\ \E page \in Pages :
         /\ listed' = listed \o page
         /\ pc' = IF Truncated(page) THEN "page" ELSE "done"
         /\ cursor' = IF Truncated(page) THEN page[Len(page)] ELSE cursor
    /\ UNCHANGED <<bucket, stayed, seen>>

(* await returns an error: the keys collected so far are dropped.          *)
PageFails ==
    /\ pc = "page"
    /\ pc' = "failed"
    /\ listed' = <<>>
    /\ UNCHANGED <<bucket, cursor, stayed, seen>>

Next ==
    \/ \E k \in Keys : Put(k) \/ Delete(k)
    \/ Page
    \/ PageFails

Spec == Init /\ [][Next]_vars

(* The goroutine in List runs on, and every call to R2 returns.            *)
FairSpec == Spec /\ WF_vars(Page)

-----------------------------------------------------------------------------
(***************************************************************************)
(* Properties.                                                             *)
(***************************************************************************)
Listed == {listed[i] : i \in 1..Len(listed)}

(* A report that was pending all the time is listed, whatever is put and   *)
(* deleted between two pages (r2_wasm.go:60-64).                           *)
EveryStayerIsListed == pc = "done" => stayed \subseteq Listed

(* Keys come in ascending order and once each, across pages too, and none  *)
(* was never there (r2_wasm.go:60-61; the run takes the oldest first).     *)
ListedInOrder ==
    /\ \A i, j \in 1..Len(listed) : i < j => listed[i] < listed[j]
    /\ Listed \subseteq seen

ListingIsComplete == EveryStayerIsListed /\ ListedInOrder

(* The loop over the pages ends, however busy the bucket is.               *)
ListingEnds == <>(pc # "page")

(* What makes ListingIsComplete inductive: everything up to the cursor     *)
(* that stayed is listed, and nothing listed lies beyond the cursor.       *)
ProgressIsSound ==
    /\ stayed \subseteq bucket /\ bucket \subseteq seen
    /\ pc = "page" => /\ \A k \in stayed : k <= cursor => k \in Listed
                      /\ \A k \in Listed : k <= cursor

IInv ==
    /\ TypeOK
    /\ ProgressIsSound
    /\ ListingIsComplete
=============================================================================
