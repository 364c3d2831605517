------------------------- MODULE BucketListingProofs -------------------------
(***************************************************************************)
(* Proofs about BucketListing, for any keys, any size of a page and any    *)
(* traffic on the bucket.                                                  *)
(*                                                                         *)
(* Completeness is not inductive alone: ProgressIsSound says of a listing  *)
(* half way that what stayed up to the cursor is listed and nothing beyond *)
(* it is, which is what the next page is appended to.                      *)
(***************************************************************************)
EXTENDS BucketListing, TLAPS

(* Nothing is listed yet, and everything stored has stayed so far.         *)
LEMMA InitIInv == Init => IInv
  BY KeysAssumption
     DEF Init, IInv, TypeOK, ProgressIsSound, ListingIsComplete, EveryStayerIsListed,
         ListedInOrder, Listed

(* Puts, deletes and a failed page leave a listing as sound as it was.     *)
LEMMA TrafficStep ==
  ASSUME IInv, (\E k \in Keys : Put(k) \/ Delete(k)) \/ PageFails \/ UNCHANGED vars
  PROVE  IInv'
<1> USE DEF IInv, TypeOK, ProgressIsSound, ListingIsComplete, EveryStayerIsListed,
        ListedInOrder, Listed
<1>1. ASSUME NEW k \in Keys, Put(k) PROVE IInv'
  BY <1>1 DEF Put, listVars
<1>2. ASSUME NEW k \in Keys, Delete(k) PROVE IInv'
  BY <1>2 DEF Delete, listVars
<1>3. CASE PageFails
  BY <1>3 DEF PageFails
<1>4. CASE UNCHANGED vars
  BY <1>4 DEF vars, listVars
<1> QED
  BY <1>1, <1>2, <1>3, <1>4

(* The facts about one more page that the loop relies on.                  *)
LEMMA PageIsSound ==
  ASSUME TypeOK, NEW page \in Pages
  PROVE  /\ page \in Seq(Keys) /\ Len(page) \in Nat
         /\ \A i \in 1..Len(page) : page[i] \in bucket /\ page[i] > cursor /\ page[i] \in Nat
         /\ \A i, j \in 1..Len(page) : i < j => page[i] < page[j]
         /\ \A k \in Following : (\E i \in 1..Len(page) : page[i] = k)
                                    \/ \A i \in 1..Len(page) : page[i] < k
         /\ Truncated(page) => Len(page) \in 1..Len(page)
<1>1. IsPage(page) /\ page \in UNION {[1..n -> Keys] : n \in 0..Limit}
  BY DEF Pages
<1>2. PICK n \in 0..Limit : page \in [1..n -> Keys]
  BY <1>1
<1>3. n \in Nat /\ page \in Seq(Keys) /\ Len(page) = n
  BY <1>2, LimitAssumption
<1>4. \A i \in 1..Len(page) : page[i] \in bucket /\ page[i] > cursor /\ page[i] \in Nat
  BY <1>1, <1>2, <1>3, KeysAssumption DEF IsPage, Following, TypeOK
<1>5. Truncated(page) => Len(page) \in 1..Len(page)
  BY <1>1, <1>3 DEF IsPage, Truncated
<1> QED
  BY <1>1, <1>3, <1>4, <1>5 DEF IsPage

(* What the listing holds once a page is appended to it.                   *)
LEMMA Appended ==
  ASSUME TypeOK, NEW page \in Seq(Keys), listed' = listed \o page
  PROVE  /\ listed' \in Seq(Keys)
         /\ Len(listed') = Len(listed) + Len(page)
         /\ Len(listed) \in Nat /\ Len(page) \in Nat
         /\ \A i \in 1..Len(listed) : listed'[i] = listed[i]
         /\ \A i \in 1..Len(page) : listed'[Len(listed) + i] = page[i]
         /\ Listed' = Listed \cup {page[i] : i \in 1..Len(page)}
<1>1. /\ listed' \in Seq(Keys)
      /\ Len(listed') = Len(listed) + Len(page)
      /\ Len(listed) \in Nat /\ Len(page) \in Nat
      /\ \A i \in 1..Len(listed) : listed'[i] = listed[i]
      /\ \A i \in 1..Len(page) : listed'[Len(listed) + i] = page[i]
  BY DEF TypeOK
<1>2. \A i \in 1..Len(listed') : i \in 1..Len(listed) \/ i - Len(listed) \in 1..Len(page)
  BY <1>1
<1>3. \A i \in 1..Len(listed') : listed'[i] \in Listed \cup {page[j] : j \in 1..Len(page)}
  <2>1. TAKE i \in 1..Len(listed')
  <2>2. CASE i \in 1..Len(listed)
    BY <1>1, <2>2 DEF Listed
  <2>3. CASE i - Len(listed) \in 1..Len(page)
    <3>1. i = Len(listed) + (i - Len(listed))
      BY <1>1
    <3>2. listed'[i] = page[i - Len(listed)]
      BY <1>1, <2>3, <3>1
    <3> QED
      BY <2>3, <3>2
  <2> QED
    BY <1>2, <2>2, <2>3
<1>4. \A x \in Listed \cup {page[j] : j \in 1..Len(page)} : x \in Listed'
  <2>1. ASSUME NEW i \in 1..Len(listed) PROVE listed[i] \in Listed'
    <3>1. i \in 1..Len(listed') /\ listed'[i] = listed[i]
      BY <1>1
    <3> QED
      BY <3>1 DEF Listed
  <2>2. ASSUME NEW j \in 1..Len(page) PROVE page[j] \in Listed'
    <3>1. Len(listed) + j \in 1..Len(listed') /\ listed'[Len(listed) + j] = page[j]
      BY <1>1
    <3> QED
      BY <3>1 DEF Listed
  <2> QED
    BY <2>1, <2>2 DEF Listed
<1>5. Listed' = Listed \cup {page[i] : i \in 1..Len(page)}
  BY <1>3, <1>4 DEF Listed
<1> QED
  BY <1>1, <1>5

(* A page is appended behind everything listed, and takes in everything    *)
(* that stayed up to the new cursor.                                       *)
LEMMA PageStep ==
  ASSUME IInv, Page
  PROVE  IInv'
<1>1. pc = "page" /\ UNCHANGED <<bucket, stayed, seen>>
  BY DEF Page
<1>2. PICK page \in Pages :
        /\ listed' = listed \o page
        /\ pc' = IF Truncated(page) THEN "page" ELSE "done"
        /\ cursor' = IF Truncated(page) THEN page[Len(page)] ELSE cursor
  BY DEF Page
<1>3. TypeOK /\ ProgressIsSound /\ ListedInOrder
  BY DEF IInv, ListingIsComplete
<1> DEFINE Added == {page[i] : i \in 1..Len(page)}
<1>4. /\ page \in Seq(Keys) /\ Len(page) \in Nat
      /\ \A i \in 1..Len(page) : page[i] \in bucket /\ page[i] > cursor /\ page[i] \in Nat
      /\ \A i, j \in 1..Len(page) : i < j => page[i] < page[j]
      /\ \A k \in Following : k \in Added \/ \A i \in 1..Len(page) : page[i] < k
      /\ Truncated(page) => Len(page) \in 1..Len(page)
  BY <1>3, PageIsSound
<1>5. /\ listed' \in Seq(Keys)
      /\ Len(listed') = Len(listed) + Len(page)
      /\ Len(listed) \in Nat
      /\ \A i \in 1..Len(listed) : listed'[i] = listed[i]
      /\ \A i \in 1..Len(page) : listed'[Len(listed) + i] = page[i]
      /\ Listed' = Listed \cup Added
  BY <1>2, <1>3, <1>4, Appended
<1>6. cursor \in Nat /\ Keys \subseteq Nat
  BY <1>3, KeysAssumption DEF TypeOK
<1>7. \A k \in Listed : k \in Nat /\ k <= cursor
  <2>1. Listed \subseteq Keys
    BY <1>3 DEF Listed, TypeOK
  <2> QED
    BY <1>1, <1>3, <1>6, <2>1 DEF ProgressIsSound
<1>8. stayed \subseteq bucket /\ bucket \subseteq seen /\ stayed \subseteq Keys
  BY <1>3 DEF ProgressIsSound, TypeOK
<1>9. TypeOK'
  <2>1. cursor' \in Keys \cup {0}
    BY <1>2, <1>3, <1>4 DEF TypeOK
  <2> QED
    BY <1>1, <1>2, <1>3, <1>5, <2>1 DEF TypeOK
<1>10. ListedInOrder'
  <2>1. ASSUME NEW i \in 1..Len(listed'), NEW j \in 1..Len(listed'), i < j
        PROVE  listed'[i] < listed'[j]
    <3>1. CASE j \in 1..Len(listed)
      <4>1. i \in 1..Len(listed)
        BY <1>5, <2>1, <3>1
      <4> QED
        BY <1>3, <1>5, <2>1, <3>1, <4>1 DEF ListedInOrder
    <3>2. CASE j \notin 1..Len(listed) /\ i \in 1..Len(listed)
      <4>1. j - Len(listed) \in 1..Len(page) /\ j = Len(listed) + (j - Len(listed))
        BY <1>4, <1>5, <3>2
      <4>2. listed'[j] = page[j - Len(listed)]
        BY <1>5, <4>1
      <4>3. listed'[i] \in Listed
        BY <1>5, <3>2 DEF Listed
      <4> QED
        BY <1>4, <1>6, <1>7, <4>1, <4>2, <4>3
    <3>3. CASE j \notin 1..Len(listed) /\ i \notin 1..Len(listed)
      <4>1. /\ j - Len(listed) \in 1..Len(page) /\ j = Len(listed) + (j - Len(listed))
            /\ i - Len(listed) \in 1..Len(page) /\ i = Len(listed) + (i - Len(listed))
            /\ i - Len(listed) < j - Len(listed)
        BY <1>4, <1>5, <2>1, <3>3
      <4>2. listed'[j] = page[j - Len(listed)] /\ listed'[i] = page[i - Len(listed)]
        BY <1>5, <4>1
      <4> QED
        BY <1>4, <4>1, <4>2
    <3> QED
      BY <3>1, <3>2, <3>3
  <2>2. Added \subseteq bucket
    BY <1>4
  <2>3. Listed' \subseteq seen'
    BY <1>1, <1>3, <1>5, <1>8, <2>2 DEF ListedInOrder
  <2> QED
    BY <2>1, <2>3 DEF ListedInOrder
<1>11. \A k \in stayed : k <= cursor \/ k \in Following
  BY <1>6, <1>8 DEF Following
<1>12. \A k \in stayed : k <= cursor => k \in Listed
  BY <1>1, <1>3 DEF ProgressIsSound
<1>13. CASE Truncated(page)
  <2>1. pc' = "page" /\ cursor' = page[Len(page)] /\ cursor' \in Nat /\ cursor' > cursor
    BY <1>2, <1>4, <1>13
  <2>2. \A k \in stayed : k <= cursor' => k \in Listed'
    <3>1. ASSUME NEW k \in stayed, k <= cursor', k \notin Listed, k \notin Added
          PROVE  FALSE
      <4>1. \A i \in 1..Len(page) : page[i] < k
        BY <1>4, <1>11, <1>12, <3>1
      <4> QED
        BY <1>4, <1>6, <1>8, <1>13, <2>1, <3>1, <4>1
    <3> QED
      BY <1>5, <3>1
  <2>3. \A k \in Listed' : k <= cursor'
    <3>1. \A k \in Listed : k <= cursor'
      BY <1>6, <1>7, <2>1
    <3>2. \A i \in 1..Len(page) : page[i] <= cursor'
      BY <1>4, <1>13, <2>1
    <3> QED
      BY <1>5, <3>1, <3>2
  <2>4. ProgressIsSound'
    BY <1>1, <1>8, <2>2, <2>3 DEF ProgressIsSound
  <2> QED
    BY <1>9, <1>10, <2>1, <2>4 DEF IInv, ListingIsComplete, EveryStayerIsListed
<1>14. CASE ~Truncated(page)
  <2>1. pc' = "done"
    BY <1>2, <1>14
  <2>2. \A k \in stayed : k \in Listed'
    <3>1. ASSUME NEW k \in stayed, k \notin Listed, k \notin Added PROVE FALSE
      BY <1>4, <1>11, <1>12, <1>14, <3>1 DEF Truncated
    <3> QED
      BY <1>5, <3>1
  <2>3. ProgressIsSound' /\ EveryStayerIsListed'
    BY <1>1, <1>8, <2>1, <2>2 DEF ProgressIsSound, EveryStayerIsListed
  <2> QED
    BY <1>9, <1>10, <2>3 DEF IInv, ListingIsComplete
<1> QED
  BY <1>13, <1>14

(* Every step keeps the invariant.                                         *)
LEMMA IInvStep == IInv /\ [Next]_vars => IInv'
  BY TrafficStep, PageStep DEF Next

(* The inductive invariant holds in every reachable state.                 *)
THEOREM Inductive == Spec => []IInv
  BY InitIInv, IInvStep, PTL DEF Spec

(* A listing that ends holds every key that was there all the time, in     *)
(* order, once each, and nothing that never was, however many pages it     *)
(* takes and whatever happens between them (r2_wasm.go:60-64).             *)
THEOREM ListingsAreComplete == Spec => []ListingIsComplete
  BY Inductive, PTL DEF IInv
=============================================================================
