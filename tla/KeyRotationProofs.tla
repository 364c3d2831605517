------------------------- MODULE KeyRotationProofs -------------------------
(***************************************************************************)
(* Proofs about KeyRotation under the maintainer who also waits for the    *)
(* isolates: however many reports, isolates and key versions there are,    *)
(* no stored frame ever outlives the key it was sealed under.              *)
(*                                                                         *)
(* StoredStaysOpenable is not inductive alone: a request may be about to   *)
(* store a frame under a version that is going.  HeldIsKept says it is     *)
(* not: what is cached, read or sealed names a version still in the        *)
(* secret, and Retire's guard keeps it so.                                 *)
(***************************************************************************)
EXTENDS KeyRotation, TLAPS

(* Initially nothing is cached, read or stored.                            *)
LEMMA InitIInv == Init => IInv
  BY VersionAssumption, NoneAssumption
     DEF Init, IInv, TypeOK, CachesAreWellFormed, HeldIsKept, StoredStaysOpenable, RunIsSound,
         RunOpensWhatItFound, Keyrings, Versions, Requests, Runs, Stored, WellFormed

(* A step of a request keeps the types of the ingest side.                 *)
LEMMA TypeStep == TypeOK /\ [Next]_vars => TypeOK'
<1> SUFFICES ASSUME TypeOK, [Next]_vars PROVE TypeOK'
  OBVIOUS
<1> USE VersionAssumption DEF TypeOK, Versions, ingestVars, runVars, vars
<1>1. CASE Rotate
  <2>1. issued + 1 \in 1..MaxVersion
    BY <1>1 DEF Rotate
  <2> QED
    BY <1>1, <2>1 DEF Rotate, Keyrings
<1>2. CASE Botch
  <2>1. issued + 1 \in 1..MaxVersion
    BY <1>2 DEF Botch
  <2> QED
    BY <1>2, <2>1 DEF Botch, Keyrings
<1>3. ASSUME NEW v \in Versions, Retire(v) PROVE TypeOK'
  BY <1>3 DEF Retire, Keyrings
<1>4. ASSUME NEW id \in Ids, Arrive(id) PROVE TypeOK'
  BY <1>4 DEF Arrive, Requests
<1>5. ASSUME NEW id \in Ids, LoadCached(id) PROVE TypeOK'
  <2>1. cached[Iso(id)] \in Keyrings \cup {None}
    BY DEF Iso, Requests
  <2>2. [req[id] EXCEPT !.pc = "put", !.kr = cached[Iso(id)]] \in Requests
    BY <2>1 DEF Requests
  <2> QED
    BY <1>5, <2>2 DEF LoadCached
<1>6. ASSUME NEW id \in Ids, LoadMisses(id) PROVE TypeOK'
  <2>1. [req[id] EXCEPT !.pc = "fetch"] \in Requests
    BY DEF Requests
  <2>2. mutex' \in [Isolates -> Ids \cup {None}]
    BY <1>6 DEF LoadMisses, Iso, Requests
  <2> QED
    BY <1>6, <2>1, <2>2 DEF LoadMisses
<1>7. ASSUME NEW id \in Ids, SecretArrives(id) PROVE TypeOK'
  <2>1. [req[id] EXCEPT !.pc = "parse", !.kr = secret] \in Requests
    BY DEF Requests
  <2>2. secret # None
    BY NoneAssumption
  <2> QED
    BY <1>7, <2>1, <2>2 DEF SecretArrives
<1>8. ASSUME NEW id \in Ids, SecretFails(id) PROVE TypeOK'
  BY <1>8 DEF SecretFails, Unlock, Requests, Iso
<1>9. ASSUME NEW id \in Ids, Parse(id) PROVE TypeOK'
  <2>1. req[id].kr \in Keyrings
    BY <1>9 DEF Parse, Requests
  <2> QED
    BY <1>9, <2>1 DEF Parse, Unlock, Requests, Iso
<1>10. ASSUME NEW id \in Ids, SealAndPut(id) PROVE TypeOK'
  <2>1. req[id].kr.active \in 0..MaxVersion
    BY <1>10 DEF SealAndPut, Requests, Keyrings
  <2> QED
    BY <1>10, <2>1 DEF SealAndPut, Requests
<1>11. ASSUME NEW id \in Ids, PutFails(id) PROVE TypeOK'
  BY <1>11 DEF PutFails, Requests
<1>12. ASSUME NEW id \in Ids, PutSettles(id) PROVE TypeOK'
  <2>1. req[id].kr.active \in 0..MaxVersion
    BY <1>12 DEF PutSettles, Requests, Keyrings
  <2> QED
    BY <1>12, <2>1 DEF PutSettles, Requests
<1>13. ASSUME NEW i \in Isolates, Recycle(i) PROVE TypeOK'
  BY <1>13 DEF Recycle, Requests, Iso
<1>14. CASE StartRun
  BY <1>14 DEF StartRun, Runs, Stored, Keyrings
<1>15. CASE List
  BY <1>15 DEF List, Runs, Stored
<1>16. ASSUME NEW id \in Ids, Open(id) PROVE TypeOK'
  <2>1. /\ [run EXCEPT !.batch = @ \ {id}] \in Runs
        /\ [run EXCEPT !.batch = @ \ {id}, !.missed = @ \cup {id}] \in Runs
    BY DEF Runs
  <2>2. run' \in Runs /\ published' \subseteq Ids
    BY <1>16, <2>1 DEF Open
  <2> QED
    BY <1>16, <2>2 DEF Open
<1>17. CASE EndRun
  BY <1>17 DEF EndRun, Runs
<1>18. CASE UNCHANGED vars
  BY <1>18
<1> QED
  BY <1>1, <1>2, <1>3, <1>4, <1>5, <1>6, <1>7, <1>8, <1>9, <1>10, <1>11, <1>12, <1>13, <1>14,
     <1>15, <1>16, <1>17, <1>18
     DEF Next, Handle, RunStep

(* Only a keyring that holds its own active key is cached.                 *)
LEMMA CachesStep == TypeOK /\ CachesAreWellFormed /\ [Next]_vars => CachesAreWellFormed'
<1> SUFFICES ASSUME TypeOK, CachesAreWellFormed, [Next]_vars PROVE CachesAreWellFormed'
  OBVIOUS
<1> USE DEF TypeOK, CachesAreWellFormed
<1>1. ASSUME NEW id \in Ids, Parse(id) PROVE CachesAreWellFormed'
  BY <1>1 DEF Parse, Iso
<1>2. ASSUME NEW i \in Isolates, Recycle(i) PROVE CachesAreWellFormed'
  BY <1>2 DEF Recycle
<1>3. CASE UNCHANGED cached
  BY <1>3
<1> QED
  BY <1>1, <1>2, <1>3
     DEF Next, Handle, RunStep, vars, ingestVars, runVars, Rotate, Botch, Retire, Arrive,
         LoadCached, LoadMisses, SecretArrives, SecretFails, SealAndPut, PutFails, PutSettles,
         StartRun, List, Open, EndRun

-----------------------------------------------------------------------------
(* A version that a cache or a request would still seal under is in the    *)
(* secret: Rotate only adds, Retire waits.  A report is stored once.       *)
LEMMA HeldStep ==
  ASSUME WaitForIsolates, IInv, TypeOK', [Next]_vars
  PROVE  HeldIsKept'
<1> USE DEF IInv, TypeOK, HeldIsKept, Stored, Requests, Iso
<1>1. CASE Rotate
  BY <1>1 DEF Rotate, ingestVars, WellFormed
<1>2. CASE Botch
  BY <1>2 DEF Botch, ingestVars, WellFormed
<1>3. ASSUME NEW v \in Versions, Retire(v) PROVE HeldIsKept'
  BY <1>3 DEF Retire, InUse, ingestVars, WellFormed
<1>4. ASSUME NEW id \in Ids, Arrive(id) PROVE HeldIsKept'
  BY <1>4 DEF Arrive, WellFormed
<1>5. ASSUME NEW id \in Ids, LoadCached(id) PROVE HeldIsKept'
  <2>1. /\ req' = [req EXCEPT ![id].pc = "put", ![id].kr = cached[Iso(id)]]
        /\ UNCHANGED <<secret, cached, stored>> /\ id \notin Stored
    BY <1>5 DEF LoadCached
  <2>2. req'[id].pc = "put" /\ req'[id].kr = cached[Iso(id)] /\ Iso(id) \in Isolates
    BY <2>1
  <2>3. req'[id].kr.active \in secret.keys
    BY <1>5, <2>2 DEF LoadCached
  <2>4. \A other \in Ids \ {id} : req'[other] = req[other]
    BY <2>1
  <2> QED
    BY <2>1, <2>2, <2>3, <2>4 DEF WellFormed
<1>6. ASSUME NEW id \in Ids, LoadMisses(id) PROVE HeldIsKept'
  BY <1>6 DEF LoadMisses, WellFormed
<1>7. ASSUME NEW id \in Ids, SecretArrives(id) PROVE HeldIsKept'
  <2>1. req'[id].pc = "parse" /\ req'[id].kr = secret
    BY <1>7 DEF SecretArrives
  <2>2. \A other \in Ids \ {id} : req'[other] = req[other]
    BY <1>7 DEF SecretArrives
  <2> QED
    BY <1>7, <2>1, <2>2 DEF SecretArrives, WellFormed
<1>8. ASSUME NEW id \in Ids, SecretFails(id) PROVE HeldIsKept'
  BY <1>8 DEF SecretFails, WellFormed
<1>9. ASSUME NEW id \in Ids, Parse(id) PROVE HeldIsKept'
  <2>1. \A other \in Ids \ {id} : req'[other] = req[other]
    BY <1>9 DEF Parse
  <2>2. req'[id].kr = req[id].kr /\ req'[id].pc \in {"put", "failed"}
    BY <1>9 DEF Parse
  <2>3. req'[id].pc = "put" => WellFormed(req[id].kr)
    BY <1>9 DEF Parse
  <2>4. \A i \in Isolates :
           \/ cached'[i] = cached[i]
           \/ cached'[i] = req[id].kr /\ WellFormed(req[id].kr)
    <3>1. CASE WellFormed(req[id].kr)
      BY <1>9, <3>1 DEF Parse
    <3>2. CASE ~WellFormed(req[id].kr)
      BY <1>9, <3>2 DEF Parse
    <3> QED
      BY <3>1, <3>2
  <2>5. req[id].pc = "parse" /\ id \notin Stored /\ UNCHANGED <<secret, stored>>
    BY <1>9 DEF Parse
  <2> QED
    BY <2>1, <2>2, <2>3, <2>4, <2>5 DEF WellFormed
<1>10. ASSUME NEW id \in Ids, SealAndPut(id) PROVE HeldIsKept'
  BY <1>10 DEF SealAndPut, WellFormed
<1>11. ASSUME NEW id \in Ids, PutFails(id) PROVE HeldIsKept'
  BY <1>11 DEF PutFails, WellFormed
<1>12. ASSUME NEW id \in Ids, PutSettles(id) PROVE HeldIsKept'
  BY <1>12 DEF PutSettles, WellFormed
<1>13. ASSUME NEW i \in Isolates, Recycle(i) PROVE HeldIsKept'
  BY <1>13 DEF Recycle, WellFormed
<1>14. CASE UNCHANGED <<secret, cached, req, stored>>
  BY <1>14 DEF WellFormed
<1> QED
  BY <1>1, <1>2, <1>3, <1>4, <1>5, <1>6, <1>7, <1>8, <1>9, <1>10, <1>11, <1>12, <1>13, <1>14
     DEF Next, Handle, RunStep, vars, ingestVars, runVars, StartRun, List, Open, EndRun

(* A frame is stored under a held version, and a version with a frame      *)
(* under it is not retired.                                                *)
LEMMA OpenableStep ==
  ASSUME IInv, TypeOK', [Next]_vars
  PROVE  StoredStaysOpenable'
<1> USE DEF IInv, TypeOK, StoredStaysOpenable, HeldIsKept, Stored
<1>1. CASE Rotate
  BY <1>1 DEF Rotate, ingestVars
<1>2. CASE Botch
  BY <1>2 DEF Botch, ingestVars
<1>3. ASSUME NEW v \in Versions, Retire(v) PROVE StoredStaysOpenable'
  BY <1>3 DEF Retire, ingestVars
<1>4. ASSUME NEW id \in Ids, SealAndPut(id) PROVE StoredStaysOpenable'
  BY <1>4 DEF SealAndPut
<1>5. ASSUME NEW id \in Ids, PutSettles(id) PROVE StoredStaysOpenable'
  BY <1>5 DEF PutSettles
<1>6. CASE UNCHANGED <<secret, stored>>
  BY <1>6
<1> QED
  BY <1>1, <1>2, <1>3, <1>4, <1>5, <1>6
     DEF Next, Handle, RunStep, vars, ingestVars, runVars, Arrive, LoadCached, LoadMisses,
         SecretArrives, SecretFails, Parse, PutFails, Recycle, StartRun, List, Open, EndRun

(* What was stored when the run read its keyring is stored under one of    *)
(* its keys for good: no frame is ever replaced.                           *)
LEMMA RunStepSound ==
  ASSUME IInv, TypeOK', [Next]_vars
  PROVE  RunIsSound' /\ RunOpensWhatItFound'
<1> USE DEF IInv, TypeOK, RunIsSound, RunOpensWhatItFound, Stored, Runs
<1>1. ASSUME NEW id \in Ids, SealAndPut(id) PROVE RunIsSound' /\ RunOpensWhatItFound'
  BY <1>1 DEF SealAndPut, HeldIsKept, runVars
<1>2. ASSUME NEW id \in Ids, PutSettles(id) PROVE RunIsSound' /\ RunOpensWhatItFound'
  BY <1>2 DEF PutSettles, HeldIsKept, runVars
<1>3. CASE StartRun
  BY <1>3 DEF StartRun, StoredStaysOpenable, ingestVars
<1>4. CASE List
  BY <1>4 DEF List, ingestVars
<1>5. ASSUME NEW id \in Ids, Open(id) PROVE RunIsSound' /\ RunOpensWhatItFound'
  <2>1. UNCHANGED stored
    BY <1>5 DEF Open, ingestVars
  <2>2. CASE stored[id] \in run.keys
    <3>1. run' = [run EXCEPT !.batch = @ \ {id}]
      BY <1>5, <2>2 DEF Open
    <3> QED
      BY <2>1, <3>1
  <2>3. CASE stored[id] \notin run.keys
    <3>1. run' = [run EXCEPT !.batch = @ \ {id}, !.missed = @ \cup {id}]
      BY <1>5, <2>3 DEF Open
    <3>2. id \notin run.begun
      BY <2>3
    <3> QED
      BY <2>1, <3>1, <3>2
  <2> QED
    BY <2>2, <2>3
<1>6. CASE EndRun
  BY <1>6 DEF EndRun, ingestVars
<1>7. CASE UNCHANGED <<stored, run>>
  BY <1>7
<1> QED
  BY <1>1, <1>2, <1>3, <1>4, <1>5, <1>6, <1>7
     DEF Next, Handle, RunStep, vars, ingestVars, runVars, Rotate, Botch, Retire, Arrive,
         LoadCached, LoadMisses, SecretArrives, SecretFails, Parse, PutFails, Recycle

-----------------------------------------------------------------------------
(* The invariant of the ingest isolates, the keyring and the publish run.  *)
THEOREM Inductive == ASSUME WaitForIsolates PROVE Spec => []IInv
<1>1. Init => IInv
  BY InitIInv
<1>2. IInv /\ [Next]_vars => IInv'
  <2> SUFFICES ASSUME IInv, [Next]_vars PROVE IInv'
    OBVIOUS
  <2>1. TypeOK'
    BY TypeStep DEF IInv
  <2>2. CachesAreWellFormed'
    BY CachesStep DEF IInv
  <2>3. HeldIsKept'
    BY HeldStep, <2>1
  <2>4. StoredStaysOpenable' /\ RunIsSound' /\ RunOpensWhatItFound'
    BY OpenableStep, RunStepSound, <2>1
  <2> QED
    BY <2>1, <2>2, <2>3, <2>4 DEF IInv
<1> QED
  BY <1>1, <1>2, PTL DEF Spec

(* If retiring a key version also waits for the isolates, the keyring in   *)
(* the Secrets Store opens every stored frame at all times.                *)
THEOREM RotationLosesNothing == ASSUME WaitForIsolates PROVE Spec => []StoredStaysOpenable
<1>1. IInv => StoredStaysOpenable
  BY DEF IInv
<1> QED
  BY <1>1, Inductive, PTL

(* And a publish run, whose keyring is a copy of the moment it started,    *)
(* opens every report stored at that moment.                               *)
THEOREM RunsMissNothing == ASSUME WaitForIsolates PROVE Spec => []RunOpensWhatItFound
<1>1. IInv => RunOpensWhatItFound
  BY DEF IInv
<1> QED
  BY <1>1, Inductive, PTL

(* Whatever the maintainer does, even retiring early or writing a botched  *)
(* secret, no isolate serves from a keyring without its own active key.    *)
THEOREM BotchedSecretsAreNotCached == Spec => []CachesAreWellFormed
<1>1. Init => TypeOK /\ CachesAreWellFormed
  BY InitIInv DEF IInv
<1>2. TypeOK /\ CachesAreWellFormed /\ [Next]_vars => (TypeOK /\ CachesAreWellFormed)'
  BY TypeStep, CachesStep
<1> QED
  BY <1>1, <1>2, PTL DEF Spec
=============================================================================
