----------------------------- MODULE SigningKeys -----------------------------
(***************************************************************************)
(* The signing keys of the API: FileKeyStore of services/api/src/lib/      *)
(* keys.ts over InMemoryKeyStore of packages/crypto-signatures, the        *)
(* directory OTV_KEYS_DIR, and createKeyStore at boot.                     *)
(*                                                                         *)
(* One process owns the directory at a time.  rotate and revoke are        *)
(* synchronous, so nothing else runs in the process until they return, but *)
(* a crash may fall between any two of their file writes, and within one:  *)
(* writeFileSync truncates the file before it fills it.                    *)
(*                                                                         *)
(* A kid is a number, and numbers are ordered as the file names are:       *)
(* readdirSync lists a directory by name.  A key pair is a number too, in  *)
(* the order of generation; nobody generates the same pair twice.          *)
(***************************************************************************)
EXTENDS Naturals, Sequences, FiniteSets, SequencesExt

CONSTANTS
    Kids,        \* names a key may have
    MaxPairs,    \* bound: key pairs generated in a behaviour
    MaxCrashes,  \* bound: processes killed in the middle of a call
    MaxPlaced,   \* bound: key files put in the directory by hand
    NoFile, Torn, NoKey, NoKid

Pairs == 1 .. MaxPairs
KeyStatus == {"active", "rotated", "revoked"}
Record == [pair : Pairs, status : KeyStatus]

ASSUME KidAssumption == Kids \subseteq Nat /\ IsFiniteSet(Kids) /\ NoKid \notin Kids
ASSUME KeyBoundAssumption ==
    MaxPairs \in Nat /\ MaxCrashes \in Nat /\ MaxPlaced \in Nat
ASSUME KeyMarkerAssumption ==
    NoFile # Torn /\ {NoFile, Torn, NoKey} \intersect Record = {}

VARIABLES
    disk,       \* OTV_KEYS_DIR: the file of each kid
    keys,       \* this.keys: the Map of the running process ...
    order,      \* ... and the order of insertion it iterates in
    activeKid,  \* this.activeKid
    otvKid,     \* OTV_KID of the running process
    pc,         \* "down", "up", or the call that is running
    todo,       \* files the running call still has to write
    target,     \* the kid the running revoke was called with
    pairs,      \* key pairs generated so far
    signed,     \* history: <<kid, pair>> a verdict was signed with
    revoked,    \* history: pairs whose revoke has returned
    reused,     \* history: kids that were given a second key
    placed,     \* history: kids whose file was put there by hand
    current,    \* history: the kid of the last rotate that returned
    crashes     \* history: calls cut short

memoryVars  == <<keys, order, activeKid, otvKid, target>>
historyVars == <<signed, revoked, reused, placed, current, crashes>>
vars == <<disk, memoryVars, pc, todo, pairs, historyVars>>

\* Every record names one of its kind; only the running call has files to write.
TypeOK ==
    /\ disk \in [Kids -> Record \union {NoFile, Torn}]
    /\ keys \in [Kids -> Record \union {NoKey}]
    /\ order \in Seq(Kids)
    /\ ToSet(order) = {k \in Kids : keys[k] # NoKey}
    /\ {activeKid, otvKid, target, current} \subseteq Kids \union {NoKid}
    /\ pc \in {"down", "boot", "up", "rotate", "revoke"}
    /\ todo \in Seq(Kids)
    /\ pc \in {"down", "up"} => todo = <<>>
    /\ pairs \in 0 .. MaxPairs
    /\ signed \subseteq Kids \X Pairs
    /\ revoked \subseteq Pairs
    /\ reused \subseteq Kids /\ placed \subseteq Kids
    /\ crashes \in 0 .. MaxCrashes

Init ==
    /\ disk = [k \in Kids |-> NoFile]
    /\ keys = [k \in Kids |-> NoKey]
    /\ order = <<>>
    /\ activeKid = NoKid /\ otvKid = NoKid /\ target = NoKid
    /\ pc = "down" /\ todo = <<>>
    /\ pairs = 0
    /\ signed = {} /\ revoked = {} /\ reused = {} /\ placed = {}
    /\ current = NoKid
    /\ crashes = 0

-----------------------------------------------------------------------------
\* Map.set: a key that is already there keeps its place.
Inserted(seq, k) == IF k \in ToSet(seq) THEN seq ELSE Append(seq, k)

Generated == [pair |-> pairs + 1, status |-> "active"]

\* A bug to try: getActive does not look at the status.
HasActiveWhatever(store, k) == k # NoKid

\* getActive returns instead of throwing.
HasActive(store, k) == k # NoKid /\ store[k].status = "active"

\* The names of a directory in order: the i-th has i - 1 before it.
ByName(names) ==
    [i \in 1 .. Cardinality(names) |->
        CHOOSE k \in names : Cardinality({j \in names : j < k}) = i - 1]

Files == {k \in Kids : disk[k] # NoFile}
Loaded == [k \in Kids |-> IF k \in Files THEN disk[k] ELSE NoKey]

\* activeKid after load: put() is called in the order of the file names, and
\* the last active record wins.  Rotated and revoked records stay loaded.
LoadedActive ==
    LET active == {k \in Files : disk[k].status = "active"}
    IN  IF active = {} THEN NoKid
        ELSE CHOOSE k \in active : \A other \in active : other <= k

(***************************************************************************)
(* createKeyStore.  A file that does not parse makes load throw, and the   *)
(* process does not start: no step.                                        *)
(***************************************************************************)
BootLoads(kid) ==
    /\ HasActive(Loaded, LoadedActive)
    /\ keys' = Loaded
    /\ order' = ByName(Files)
    /\ activeKid' = LoadedActive
    /\ todo' = <<>>
    /\ UNCHANGED <<pairs, reused>>

\* A bug to try: the generated key is kept in memory only.
BootGeneratesInMemory(kid) ==
    /\ ~HasActive(Loaded, LoadedActive)
    /\ pairs < MaxPairs
    /\ keys' = [Loaded EXCEPT ![kid] = Generated]
    /\ order' = Inserted(ByName(Files), kid)
    /\ activeKid' = kid
    /\ todo' = <<>>
    /\ pairs' = pairs + 1
    /\ reused' = reused \union ({kid} \intersect Files)

BootGenerates(kid) ==
    /\ ~HasActive(Loaded, LoadedActive)
    /\ pairs < MaxPairs
    /\ keys' = [Loaded EXCEPT ![kid] = Generated]
    /\ order' = Inserted(ByName(Files), kid)
    /\ activeKid' = kid
    /\ todo' = <<kid>>
    /\ pairs' = pairs + 1
    /\ reused' = reused \union ({kid} \intersect Files)

Boot(kid) ==
    /\ pc = "down"
    /\ \A k \in Kids : disk[k] # Torn
    /\ pc' = "boot"
    /\ otvKid' = kid
    /\ BootLoads(kid) \/ BootGenerates(kid)
    /\ UNCHANGED <<disk, target, signed, revoked, placed, current, crashes>>

\* writeFileSync of persist, in its two halves.
Truncate ==
    /\ todo # <<>>
    /\ disk[Head(todo)] # Torn
    /\ disk' = [disk EXCEPT ![Head(todo)] = Torn]
    /\ UNCHANGED <<memoryVars, pc, todo, pairs, historyVars>>

Fill ==
    /\ todo # <<>>
    /\ disk[Head(todo)] = Torn
    /\ disk' = [disk EXCEPT ![Head(todo)] = keys[Head(todo)]]
    /\ todo' = Tail(todo)
    /\ UNCHANGED <<memoryVars, pc, pairs, historyVars>>

\* store.persistSigningKey accepted the active key: the API listens.
Started ==
    /\ pc = "boot" /\ todo = <<>>
    /\ pc' = "up"
    /\ UNCHANGED <<disk, memoryVars, todo, pairs, historyVars>>

-----------------------------------------------------------------------------
\* The verification engine signs a verdict with getActive().
Sign ==
    /\ pc = "up"
    /\ HasActive(keys, activeKid)
    /\ signed' = signed \union {<<activeKid, keys[activeKid].pair>>}
    /\ UNCHANGED <<disk, memoryVars, pc, todo, pairs, revoked, reused, placed,
                   current, crashes>>

\* A bug to try: the old key stays as it is.
DemotedNot(store, k) == store

\* The store after rotate has dealt with the old active key.  Whatever its
\* status was, it is "rotated" now.
Demoted(store, k) ==
    IF k = NoKid THEN store ELSE [store EXCEPT ![k].status = "rotated"]

\* rotate(newKid): put writes the new key, then flush writes every key.
Rotate(newKid) ==
    /\ pc = "up"
    /\ pairs < MaxPairs
    /\ keys' = [Demoted(keys, activeKid) EXCEPT ![newKid] = Generated]
    /\ order' = Inserted(order, newKid)
    /\ activeKid' = newKid
    /\ todo' = <<newKid>> \o order'
    /\ pc' = "rotate"
    /\ pairs' = pairs + 1
    /\ reused' = reused \union ({newKid} \intersect ToSet(order))
    /\ UNCHANGED <<disk, otvKid, target, signed, revoked, placed, current, crashes>>

RotateReturns ==
    /\ pc = "rotate" /\ todo = <<>>
    /\ pc' = "up"
    /\ current' = activeKid
    /\ UNCHANGED <<disk, memoryVars, todo, pairs, signed, revoked, reused, placed,
                   crashes>>

\* revoke(kid) of a key that exists; activeKid keeps naming it.
Revoke(kid) ==
    /\ pc = "up"
    /\ kid \in ToSet(order)
    /\ keys' = [keys EXCEPT ![kid].status = "revoked"]
    /\ todo' = order
    /\ target' = kid
    /\ pc' = "revoke"
    /\ UNCHANGED <<disk, order, activeKid, otvKid, pairs, historyVars>>

RevokeReturns ==
    /\ pc = "revoke" /\ todo = <<>>
    /\ pc' = "up"
    /\ target' = NoKid
    /\ revoked' = revoked \union {keys[target].pair}
    /\ UNCHANGED <<disk, keys, order, activeKid, otvKid, todo, pairs, signed, reused,
                   placed, current, crashes>>

-----------------------------------------------------------------------------
\* The process ends between calls (a redeploy, or persistSigningKey failed at
\* boot), or in the middle of one: the Map is gone and the files are what they are.
Stop ==
    /\ pc # "down"
    /\ \/ todo = <<>> /\ UNCHANGED crashes
       \/ todo # <<>> /\ crashes < MaxCrashes /\ crashes' = crashes + 1
    /\ keys' = [k \in Kids |-> NoKey]
    /\ order' = <<>>
    /\ activeKid' = NoKid /\ otvKid' = NoKid /\ target' = NoKid
    /\ pc' = "down" /\ todo' = <<>>
    /\ UNCHANGED <<disk, pairs, signed, revoked, reused, placed, current>>

\* The operator generates the next key file, as the runbook says.
PlaceFile(kid) ==
    /\ disk[kid] = NoFile
    /\ Cardinality(placed) < MaxPlaced
    /\ pairs < MaxPairs
    /\ disk' = [disk EXCEPT ![kid] = Generated]
    /\ placed' = placed \union {kid}
    /\ pairs' = pairs + 1
    /\ UNCHANGED <<memoryVars, pc, todo, signed, revoked, reused, current, crashes>>

Next ==
    \/ \E k \in Kids : Boot(k) \/ Rotate(k) \/ Revoke(k) \/ PlaceFile(k)
    \/ Truncate \/ Fill \/ Started \/ Sign \/ RotateReturns \/ RevokeReturns
    \/ Stop

Spec == Init /\ [][Next]_vars

-----------------------------------------------------------------------------
\* Whatever rotations, revocations, restarts and crashes have happened, the key
\* that signed a verdict is the one POST /v1/verdicts/verify looks up under its
\* kid, as long as nobody gave that kid to a second key.
SignaturesVerifiable ==
    pc = "up" => \A s \in signed :
        s[1] \notin reused => keys[s[1]] # NoKey /\ keys[s[1]].pair = s[2]

\* No verdict is signed with a key once its revoke has returned, not even after
\* a restart, or after a rotate has changed its status to "rotated".
RevokedNeverSigns ==
    [][\A s \in signed' \ signed : s[2] \notin revoked]_vars

\* Restarts keep a rotation: when no call was cut short and no file was put in
\* the directory by hand, the key of the last rotate signs until it is revoked.
CompletedRotationSticks ==
    /\ pc = "up" /\ crashes = 0 /\ placed = {}
    /\ current # NoKid /\ keys[current].status = "active"
    => activeKid = current

\* docs/security/KMS.md:23-24: after generating the next key file and restarting
\* with its name in OTV_KID, the status of the old key becomes "rotated".
RestartRotates ==
    pc = "up" /\ crashes = 0 /\ otvKid \in placed /\ keys[otvKid] # NoKey
    => \A k \in Kids \ {otvKid} : keys[k] = NoKey \/ keys[k].status # "active"
=============================================================================
