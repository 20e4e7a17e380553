----------------------------- MODULE BootProofs -----------------------------
(***************************************************************************)
(* Safety of the processes that start together (Boot), for any number of   *)
(* APIs and workers, any number of migrations and any kills.  The          *)
(* invariant says what each place of the start has behind it: a file is    *)
(* left only once it is recorded, and a data key is used only while it is  *)
(* the one on disk, unless two APIs were about to write it.                *)
(***************************************************************************)
EXTENDS Boot, TLAPS

Migrated == {"ready", "kms", "generate", "writeDek", "fillDek", "load", "put",
             "fillKey", "serving"}
WithKeys == {"kms", "generate", "writeDek", "fillDek", "load", "put", "fillKey"}

\* Files are left in order, each recorded after its statements have run.
FilesInv ==
    /\ recorded \subseteq schema
    /\ \A p \in Processes :
        /\ \A n \in 1 .. LastFile : n < file[p] => n \in recorded
        /\ at[p] \in {"run", "record"} => file[p] \in 1 .. LastFile
        /\ at[p] = "record" => file[p] \in schema
        /\ at[p] \in Migrated => file[p] = LastFile + 1

\* Whoever is to write the data key found none, and fills it alone; whoever has
\* one to use found it on disk.
KeysInv ==
    /\ \A p \in Processes :
        /\ at[p] \in WithKeys => p \in Apis
        /\ at[p] \in {"writeDek", "fillDek"} => dek[p] \in DataKeys
    /\ \/ raced
       \/ /\ keyFile \in {NoDataKey, Torn, dekFile}
          /\ \A p \in Processes :
                /\ at[p] \in {"generate", "writeDek"} => dekFile = NoDataKey
                /\ at[p] = "fillDek" => dekFile = Torn
                /\ at[p] \in {"load", "put", "fillKey"} =>
                      dek[p] = dekFile /\ dekFile \in DataKeys
          /\ \A p, q \in Processes : at[p] = "fillDek" /\ at[q] = "fillDek" => p = q

BootInv == BootTypeOK /\ FilesInv /\ KeysInv

\* No process has done anything.
LEMMA BootInitInv == BootInit => BootInv
<1> SUFFICES ASSUME BootInit PROVE BootInv
    OBVIOUS
<1> USE DEF BootInit
<1>1. BootTypeOK
    <2>1. file \in [Processes -> 1 .. LastFile + 1] /\ generated \in 0 .. MaxDataKeys
          /\ kills \in 0 .. MaxKills
        BY BootBoundAssumption
    <2> QED BY <2>1 DEF BootTypeOK
<1>2. FilesInv
    BY BootBoundAssumption DEF FilesInv, Migrated
<1>3. KeysInv
    BY DEF KeysInv, WithKeys
<1> QED BY <1>1, <1>2, <1>3 DEF BootInv

\* A process that starts, is killed or selects its next file.
LEMMA StartStep ==
    ASSUME BootInv, NEW p \in Processes, StartProcess(p) PROVE BootInv'
    BY BootBoundAssumption
    DEF BootInv, BootTypeOK, FilesInv, KeysInv, StartProcess, Then, Migrated, WithKeys

LEMMA KillStep ==
    ASSUME BootInv, NEW p \in Processes, Kill(p) PROVE BootInv'
    BY BootBoundAssumption
    DEF BootInv, BootTypeOK, FilesInv, KeysInv, Kill, Then, SameFiles, diskVars, Migrated, WithKeys

LEMMA SelectInv ==
    ASSUME BootInv, NEW p \in Processes, SelectStep(p) PROVE BootInv'
<1> USE DEF SelectStep, Then, diskVars
<1>1. BootTypeOK'
    BY BootBoundAssumption DEF BootInv, BootTypeOK, FilesInv
<1>2. FilesInv'
    <2> USE DEF BootInv, BootTypeOK, FilesInv, Migrated
    <2>1. CASE file[p] > LastFile
        BY <2>1, BootBoundAssumption
    <2>2. CASE ~(file[p] > LastFile) /\ file[p] \in recorded
        BY <2>2, BootBoundAssumption
    <2>3. CASE ~(file[p] > LastFile) /\ file[p] \notin recorded
        BY <2>3, BootBoundAssumption
    <2> QED BY <2>1, <2>2, <2>3
<1>3. KeysInv'
    <2>1. \A q \in Processes : at'[q] \in WithKeys => at'[q] = at[q]
        BY DEF BootInv, BootTypeOK, WithKeys
    <2>2. UNCHANGED <<dekFile, dek, keyFile, raced>>
        OBVIOUS
    <2>3. KeysInv
        BY DEF BootInv
    <2> QED BY <2>1, <2>2, <2>3 DEF KeysInv, WithKeys
<1> QED BY <1>1, <1>2, <1>3 DEF BootInv

LEMMA RunInv ==
    ASSUME BootInv, NEW p \in Processes, RunFile(p) PROVE BootInv'
    BY BootBoundAssumption
    DEF BootInv, BootTypeOK, FilesInv, KeysInv, RunFile, Then, diskVars, Migrated, WithKeys

LEMMA RecordInv ==
    ASSUME BootInv, NEW p \in Processes, RecordFile(p) PROVE BootInv'
<1>1. /\ at[p] = "record" /\ file[p] \in 1 .. LastFile /\ file[p] \in schema
      /\ UNCHANGED <<schema, demoKey, dekFile, dek, keyFile, generated, raced, kills>>
    BY DEF RecordFile, diskVars, BootInv, FilesInv
<1>2. CASE file[p] \in recorded
    <2>1. at' = [at EXCEPT ![p] = "down"] /\ UNCHANGED <<recorded, file>>
        BY <1>2 DEF RecordFile, Then
    <2> QED BY <1>1, <2>1, BootBoundAssumption
            DEF BootInv, BootTypeOK, FilesInv, KeysInv, Migrated, WithKeys
<1>3. CASE file[p] \notin recorded
    <2>1. /\ at' = [at EXCEPT ![p] = "select"]
          /\ recorded' = recorded \union {file[p]}
          /\ file' = [file EXCEPT ![p] = @ + 1]
        BY <1>3 DEF RecordFile, Then
    <2>2. BootTypeOK'
        <3>1. file[p] + 1 \in 1 .. LastFile + 1
            BY <1>1, BootBoundAssumption
        <3> QED BY <1>1, <2>1, <3>1 DEF BootInv, BootTypeOK
    <2>3. FilesInv'
        <3> USE DEF BootInv, BootTypeOK, FilesInv
        <3>1. \A q \in Processes : file'[q] = IF q = p THEN file[p] + 1 ELSE file[q]
            BY <2>1
        <3>2. \A q \in Processes, n \in 1 .. LastFile : n < file'[q] => n \in recorded'
            BY <1>1, <2>1, <3>1, BootBoundAssumption
        <3>3. \A q \in Processes : at'[q] \in {"run", "record"} \union Migrated =>
                  q # p /\ at'[q] = at[q]
            BY <2>1 DEF Migrated
        <3> QED BY <1>1, <2>1, <3>1, <3>2, <3>3
    <2>4. KeysInv'
        BY <1>1, <2>1 DEF BootInv, BootTypeOK, KeysInv, WithKeys
    <2> QED BY <2>2, <2>3, <2>4 DEF BootInv
<1> QED BY <1>2, <1>3

LEMMA ReadyInv ==
    ASSUME BootInv, NEW p \in Processes, Ready(p) PROVE BootInv'
    BY BootBoundAssumption
    DEF BootInv, BootTypeOK, FilesInv, KeysInv, Ready, Then, diskVars, Migrated, WithKeys

LEMMA InitKmsInv ==
    ASSUME BootInv, NEW p \in Processes, InitKms(p) PROVE BootInv'
    BY BootBoundAssumption
    DEF BootInv, BootTypeOK, FilesInv, KeysInv, InitKms, Then, SameFiles, Migrated, WithKeys

LEMMA GenerateInv ==
    ASSUME BootInv, NEW p \in Processes, GenerateDataKey(p) PROVE BootInv'
    BY BootBoundAssumption
    DEF BootInv, BootTypeOK, FilesInv, KeysInv, GenerateDataKey, Then, SameFiles, DataKeys,
        Migrated, WithKeys

LEMMA WriteInv ==
    ASSUME BootInv, NEW p \in Processes, WriteDataKey(p) PROVE BootInv'
    BY BootBoundAssumption
    DEF BootInv, BootTypeOK, FilesInv, KeysInv, WriteDataKey, Then, SameFiles, Migrated, WithKeys

LEMMA FillInv ==
    ASSUME BootInv, NEW p \in Processes, FillDataKey(p) PROVE BootInv'
    BY BootBoundAssumption
    DEF BootInv, BootTypeOK, FilesInv, KeysInv, FillDataKey, Then, SameFiles, Migrated, WithKeys

LEMMA LoadInv ==
    ASSUME BootInv, NEW p \in Processes, LoadKeys(p) PROVE BootInv'
    BY BootBoundAssumption
    DEF BootInv, BootTypeOK, FilesInv, KeysInv, LoadKeys, Then, SameFiles, diskVars, Migrated, WithKeys

LEMMA PutInv ==
    ASSUME BootInv, NEW p \in Processes, PutKey(p) PROVE BootInv'
    BY BootBoundAssumption
    DEF BootInv, BootTypeOK, FilesInv, KeysInv, PutKey, Then, SameFiles, Migrated, WithKeys

LEMMA FillKeyInv ==
    ASSUME BootInv, NEW p \in Processes, FillKey(p) PROVE BootInv'
    BY BootBoundAssumption
    DEF BootInv, BootTypeOK, FilesInv, KeysInv, FillKey, Then, SameFiles, Migrated, WithKeys

-----------------------------------------------------------------------------
LEMMA BootInvInductive == BootInv /\ [BootNext]_bootVars => BootInv'
<1> SUFFICES ASSUME BootInv, [BootNext]_bootVars PROVE BootInv'
    OBVIOUS
<1>1. CASE BootNext
    BY <1>1, StartStep, KillStep, SelectInv, RunInv, RecordInv, ReadyInv, InitKmsInv,
       GenerateInv, WriteInv, FillInv, LoadInv, PutInv, FillKeyInv DEF BootNext, BootStep
<1>2. CASE UNCHANGED bootVars
    BY <1>2 DEF bootVars, diskVars, BootInv, BootTypeOK, FilesInv, KeysInv
<1> QED BY <1>1, <1>2

\* Every reachable state of the start is well typed and has behind it what the
\* places of its processes say.
THEOREM BootInvHolds == BootSpec => []BootInv
    BY BootInitInv, BootInvInductive, PTL DEF BootSpec

\* createStore of every process ends with every migration applied and recorded,
\* whoever recorded it and whoever was killed on the way; recorded files have run.
THEOREM ServiceHasSchema == BootSpec => []NoServiceWithoutSchema
<1>1. BootInv => NoServiceWithoutSchema
    <2> SUFFICES ASSUME BootInv PROVE NoServiceWithoutSchema
        OBVIOUS
    <2> USE DEF BootInv, BootTypeOK, FilesInv
    <2>1. ASSUME NEW p \in Processes, at[p] = "serving" PROVE recorded = 1 .. LastFile
        <3>1. file[p] = LastFile + 1
            BY <2>1 DEF Migrated
        <3>2. \A n \in 1 .. LastFile : n \in recorded
            BY <3>1, BootBoundAssumption
        <3> QED BY <3>2
    <2> QED BY <2>1 DEF NoServiceWithoutSchema
<1> QED BY <1>1, BootInvHolds, PTL

\* initKms: the data key that wraps the signing key is lost only to a race of
\* two APIs, whatever the number of restarts.
THEOREM DataKeyIsKept == BootSpec => []LostDataKeyNeedsRace
<1>1. BootInv => LostDataKeyNeedsRace
    BY BootBoundAssumption DEF BootInv, KeysInv, LostDataKeyNeedsRace
<1> QED BY <1>1, BootInvHolds, PTL

=============================================================================
