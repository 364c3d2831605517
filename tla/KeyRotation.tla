---------------------------- MODULE KeyRotation ----------------------------
(***************************************************************************)
(* The encryption keyring: one Secrets Store secret, a copy of it cached   *)
(* in every isolate that has stored a report (storage.WorkerSink), and a   *)
(* copy read by every publish run (worker.buildPublish), while the         *)
(* maintainer rotates and retires key versions under the rules of          *)
(* docs/decisions/encryption.md.  A report is known by the key_id in the   *)
(* header of its frame (crypto.Seal); opening it needs that version.       *)
(***************************************************************************)
EXTENDS Naturals, FiniteSets

CONSTANTS Ids,             \* reports, one ingest request each
          Isolates,        \* Worker isolates that serve ingest requests
          None,            \* no keyring cached, nobody in the mutex
          MaxVersion,      \* bound on the key versions ever issued
          WaitForIsolates  \* the maintainer also waits until no isolate
                           \* holds a keyring that encrypts under the version

ASSUME VersionAssumption == MaxVersion \in Nat \ {0}
ASSUME WaitAssumption == WaitForIsolates \in BOOLEAN

VARIABLES secret,      \* the keyring in the Secrets Store
          issued,      \* the highest version issued so far
          cached,      \* cached[i]: WorkerSink.keyring of isolate i
          mutex,       \* mutex[i]: the request inside loadKeyring
          req,         \* req[id]: the ingest request of report id
          stored,      \* stored[id]: key_id of the stored frame, or 0
          published,   \* reports whose run opened them
          run          \* the publish run: its keyring and its batch

ingestVars == <<cached, mutex, req, stored>>
runVars == <<published, run>>
vars == <<secret, issued, ingestVars, runVars>>

Versions == 1..MaxVersion
Keyrings == [active : Versions, keys : SUBSET Versions]

ASSUME NoneAssumption == None \notin Ids \cup Keyrings

(* ParseKeyring and NewKeyring: some keys, the active one among them.      *)
WellFormed(kr) == kr.active \in kr.keys

Requests == [pc : {"new", "load", "fetch", "parse", "put", "late", "accepted", "failed"},
             iso : Isolates, kr : Keyrings \cup {None}]
Runs == [pc : {"idle", "list", "open"}, keys : SUBSET Versions, batch : SUBSET Ids,
         begun : SUBSET Ids, missed : SUBSET Ids]

TypeOK ==
    /\ secret \in Keyrings
    /\ issued \in Versions
    /\ cached \in [Isolates -> Keyrings \cup {None}]
    /\ mutex \in [Isolates -> Ids \cup {None}]
    /\ req \in [Ids -> Requests]
    /\ \A id \in Ids : req[id].pc \in {"parse", "put", "late"} => req[id].kr # None
    /\ stored \in [Ids -> 0..MaxVersion]
    /\ published \subseteq Ids
    /\ run \in Runs

Init ==
    /\ secret = [active |-> 1, keys |-> {1}]
    /\ issued = 1
    /\ cached = [i \in Isolates |-> None]
    /\ mutex = [i \in Isolates |-> None]
    /\ req \in [Ids -> [pc : {"new"}, iso : Isolates, kr : {None}]]
    /\ stored = [id \in Ids |-> 0]
    /\ published = {}
    /\ run = [pc |-> "idle", keys |-> {}, batch |-> {}, begun |-> {}, missed |-> {}]

Stored == {id \in Ids : stored[id] # 0}

-----------------------------------------------------------------------------
(* The maintainer (external).  One atomic write adds a version and makes   *)
(* it active; a botched one names an active version that is not there.     *)
Rotate ==
    /\ issued < MaxVersion
    /\ issued' = issued + 1
    /\ secret' = [active |-> issued + 1, keys |-> secret.keys \cup {issued + 1}]
    /\ UNCHANGED <<ingestVars, runVars>>

Botch ==
    /\ issued < MaxVersion
    /\ WellFormed(secret)
    /\ secret' = [secret EXCEPT !.active = issued + 1]
    /\ UNCHANGED <<issued, ingestVars, runVars>>

(* A keyring that still encrypts under v, in a cache or on its way there,  *)
(* or a frame sealed under v on its way to the bucket.                     *)
InUseCachesOnly(v) ==           \* mutant: requests under way are forgotten
    \E i \in Isolates : cached[i] # None /\ cached[i].active = v

InUse(v) ==
    \/ \E i \in Isolates : cached[i] # None /\ cached[i].active = v
    \/ \E id \in Ids : req[id].kr # None /\ req[id].kr.active = v
                       /\ req[id].pc \in {"parse", "put", "late"}

(* "Never remove a key version while any stored object still references it"*)
Retire(v) ==
    /\ v \in secret.keys /\ v # secret.active
    /\ \A id \in Stored : stored[id] # v
    /\ WaitForIsolates => ~InUse(v)
    /\ secret' = [secret EXCEPT !.keys = @ \ {v}]
    /\ UNCHANGED <<issued, ingestVars, runVars>>

-----------------------------------------------------------------------------
(* WorkerSink.Store in isolate req[id].iso.                                *)
Iso(id) == req[id].iso

Arrive(id) ==
    /\ req[id].pc = "new"
    /\ req' = [req EXCEPT ![id].pc = "load"]
    /\ UNCHANGED <<secret, issued, cached, mutex, stored, runVars>>

Unlock(id) == mutex' = [mutex EXCEPT ![Iso(id)] = None]

(* The mutex is free and the keyring is cached.                            *)
LoadCached(id) ==
    /\ req[id].pc = "load" /\ mutex[Iso(id)] = None
    /\ cached[Iso(id)] # None
    /\ req' = [req EXCEPT ![id].pc = "put", ![id].kr = cached[Iso(id)]]
    /\ UNCHANGED <<secret, issued, cached, mutex, stored, runVars>>

(* It is not: the request keeps the mutex while it awaits the secret.      *)
LoadMisses(id) ==
    /\ req[id].pc = "load" /\ mutex[Iso(id)] = None
    /\ cached[Iso(id)] = None
    /\ mutex' = [mutex EXCEPT ![Iso(id)] = id]
    /\ req' = [req EXCEPT ![id].pc = "fetch"]
    /\ UNCHANGED <<secret, issued, cached, stored, runVars>>

SecretArrives(id) ==
    /\ req[id].pc = "fetch"
    /\ req' = [req EXCEPT ![id].pc = "parse", ![id].kr = secret]
    /\ UNCHANGED <<secret, issued, cached, mutex, stored, runVars>>

SecretFailsLocked(id) ==        \* mutant: the deferred Unlock is missing
    /\ req[id].pc = "fetch"
    /\ req' = [req EXCEPT ![id].pc = "failed"]
    /\ UNCHANGED <<secret, issued, cached, mutex, stored, runVars>>

SecretFails(id) ==
    /\ req[id].pc = "fetch"
    /\ req' = [req EXCEPT ![id].pc = "failed"]
    /\ Unlock(id)
    /\ UNCHANGED <<secret, issued, cached, stored, runVars>>

ParseCachesAnything(id) ==      \* mutant: the keyring is cached unchecked
    /\ req[id].pc = "parse"
    /\ cached' = [cached EXCEPT ![Iso(id)] = req[id].kr]
    /\ req' = [req EXCEPT ![id].pc = "put"]
    /\ Unlock(id)
    /\ UNCHANGED <<secret, issued, stored, runVars>>

(* A keyring that does not parse answers 503 and is not cached.            *)
Parse(id) ==
    /\ req[id].pc = "parse"
    /\ IF WellFormed(req[id].kr)
       THEN /\ cached' = [cached EXCEPT ![Iso(id)] = req[id].kr]
            /\ req' = [req EXCEPT ![id].pc = "put"]
       ELSE /\ req' = [req EXCEPT ![id].pc = "failed"]
            /\ UNCHANGED cached
    /\ Unlock(id)
    /\ UNCHANGED <<secret, issued, stored, runVars>>

(* Sealed under the active version of the keyring at hand, and stored.     *)
SealAndPut(id) ==
    /\ req[id].pc = "put"
    /\ stored' = [stored EXCEPT ![id] = req[id].kr.active]
    /\ req' = [req EXCEPT ![id].pc = "accepted"]
    /\ UNCHANGED <<secret, issued, cached, mutex, runVars>>

(* The put failed, 503: it may still take effect, or never.                *)
PutFails(id) ==
    /\ req[id].pc = "put"
    /\ req' = [req EXCEPT ![id].pc = "late"]
    /\ UNCHANGED <<secret, issued, cached, mutex, stored, runVars>>

PutSettles(id) ==
    /\ req[id].pc = "late"
    /\ stored' \in {stored, [stored EXCEPT ![id] = req[id].kr.active]}
    /\ req' = [req EXCEPT ![id].pc = "failed"]
    /\ UNCHANGED <<secret, issued, cached, mutex, runVars>>

(* The isolate is recycled: its cache and its requests are gone, but for   *)
(* the puts already under way.                                             *)
Recycle(i) ==
    /\ cached[i] # None \/ mutex[i] # None
    /\ cached' = [cached EXCEPT ![i] = None]
    /\ mutex' = [mutex EXCEPT ![i] = None]
    /\ req' = [id \in Ids |-> IF Iso(id) = i /\ req[id].pc \notin {"new", "accepted"}
                              THEN [req[id] EXCEPT !.pc = IF @ \in {"put", "late"}
                                                          THEN "late" ELSE "failed"]
                              ELSE req[id]]
    /\ UNCHANGED <<secret, issued, stored, runVars>>

-----------------------------------------------------------------------------
(* The publish run: it parses the secret first and lists afterwards.       *)
StartRun ==
    /\ run.pc = "idle"
    /\ WellFormed(secret)
    /\ run' = [pc |-> "list", keys |-> secret.keys, batch |-> {}, begun |-> Stored,
               missed |-> {}]
    /\ UNCHANGED <<secret, issued, ingestVars, published>>

List ==
    /\ run.pc = "list"
    /\ run' = [run EXCEPT !.pc = "open", !.batch = Stored \ published]
    /\ UNCHANGED <<secret, issued, ingestVars, published>>

OpenActiveOnly(id) ==           \* mutant: the header's key_id is not looked up
    /\ run.pc = "open" /\ id \in run.batch
    /\ IF \A v \in run.keys : v <= stored[id]
       THEN published' = published \cup {id} /\ run' = [run EXCEPT !.batch = @ \ {id}]
       ELSE /\ run' = [run EXCEPT !.batch = @ \ {id}, !.missed = @ \cup {id}]
            /\ UNCHANGED published
    /\ UNCHANGED <<secret, issued, ingestVars>>

(* crypto.Open selects the key by the frame's key_id.                      *)
Open(id) ==
    /\ run.pc = "open" /\ id \in run.batch
    /\ IF stored[id] \in run.keys
       THEN published' = published \cup {id} /\ run' = [run EXCEPT !.batch = @ \ {id}]
       ELSE /\ run' = [run EXCEPT !.batch = @ \ {id}, !.missed = @ \cup {id}]
            /\ UNCHANGED published
    /\ UNCHANGED <<secret, issued, ingestVars>>

EndRun ==
    /\ run.pc = "open" /\ run.batch = {}
    /\ run' = [run EXCEPT !.pc = "idle"]
    /\ UNCHANGED <<secret, issued, ingestVars, published>>

-----------------------------------------------------------------------------
Handle(id) ==
    \/ LoadCached(id)
    \/ LoadMisses(id)
    \/ SecretArrives(id)
    \/ SecretFails(id)
    \/ Parse(id)
    \/ SealAndPut(id)
    \/ PutFails(id)
    \/ PutSettles(id)

RunStep == StartRun \/ List \/ (\E id \in Ids : Open(id)) \/ EndRun

Next ==
    \/ Rotate
    \/ Botch
    \/ \E v \in Versions : Retire(v)
    \/ \E id \in Ids : Arrive(id) \/ Handle(id)
    \/ \E i \in Isolates : Recycle(i)
    \/ RunStep

Spec == Init /\ [][Next]_vars

(* A request that arrived goes on and the cron keeps firing; the           *)
(* maintainer, the arrivals and the recycling owe nothing.                 *)
FairSpec ==
    /\ Spec
    /\ \A id \in Ids : WF_vars(Handle(id))
    /\ WF_vars(RunStep)

-----------------------------------------------------------------------------
(***************************************************************************)
(* Properties.                                                             *)
(***************************************************************************)

(* Every stored frame can be opened with the keyring in the Secrets Store, *)
(* whatever was rotated, retired and cached (encryption.md:304-305, 347).  *)
StoredStaysOpenable == \A id \in Stored : stored[id] \in secret.keys

(* A run opens every report that was stored when it read its keyring, even *)
(* if versions are rotated and retired while it runs (encryption.md:316-   *)
(* 318, frame.go:109-112).                                                 *)
RunOpensWhatItFound == run.missed \cap run.begun = {}

(* No isolate ever serves from a keyring that does not hold its own active *)
(* key: a botched secret is not cached (worker_sink_wasm.go:61-62).        *)
CachesAreWellFormed ==
    \A i \in Isolates : cached[i] # None => WellFormed(cached[i])

(* A request that arrived is answered: nobody keeps the mutex of an        *)
(* isolate for good (worker_sink_wasm.go:64-79).                           *)
RequestsAreAnswered ==
    \A id \in Ids : req[id].pc = "load" ~> req[id].pc \in {"accepted", "failed"}

(* What makes StoredStaysOpenable inductive: the versions held in caches   *)
(* and by requests are still in the secret, if retiring waits for them.    *)
HeldIsKept ==
    /\ \A i \in Isolates : cached[i] # None => cached[i].active \in secret.keys
    /\ \A id \in Ids : req[id].pc \in {"put", "late"} => req[id].kr.active \in secret.keys
    /\ \A id \in Ids : req[id].pc = "parse" /\ WellFormed(req[id].kr)
                         => req[id].kr.active \in secret.keys
    /\ \A id \in Ids : req[id].pc \notin {"accepted", "failed"} => id \notin Stored

RunIsSound ==
    /\ run.begun \subseteq Stored /\ run.batch \subseteq Stored
    /\ \A id \in run.begun : stored[id] \in run.keys

IInv ==
    /\ TypeOK
    /\ CachesAreWellFormed
    /\ HeldIsKept
    /\ StoredStaysOpenable
    /\ RunIsSound
    /\ RunOpensWhatItFound

(* A stored report is published once the secret is well formed for good.   *)
StoredIsPublished ==
    \A id \in Ids : <>[]WellFormed(secret) => (id \in Stored ~> id \in published)
=============================================================================
