-------------------------------- MODULE Boot --------------------------------
(***************************************************************************)
(* Processes of the API and the worker starting on one database and one    *)
(* directory of keys: createStore and migrate of services/api/src/lib, and *)
(* for an API createKeyStore with initKms and an AWS data key.  A process  *)
(* that fails to start, or is killed, is started again (restart:           *)
(* unless-stopped in infra/docker).  writeFileSync truncates a file before *)
(* it fills it.                                                            *)
(***************************************************************************)
EXTENDS Naturals, FiniteSets

CONSTANTS
    Apis, Workers,   \* processes
    LastFile,        \* files migrate applies, in order: 1 .. LastFile
    MaxKills,        \* bound: processes killed
    MaxDataKeys,     \* bound: data keys AWS has generated
    NoDataKey,
    Torn             \* what is in a file that was truncated and not filled

Processes == Apis \union Workers
DataKeys == 1 .. MaxDataKeys
ASSUME ProcessAssumption == Apis \intersect Workers = {}
ASSUME BootBoundAssumption ==
    /\ LastFile \in Nat /\ MaxKills \in Nat /\ MaxDataKeys \in Nat
    /\ {NoDataKey, Torn} \intersect DataKeys = {} /\ NoDataKey # Torn

VARIABLES
    at,        \* what each process does next
    file,      \* the file its migrate has come to
    recorded,  \* schema_migrations
    schema,    \* files whose sql has been run
    demoKey,   \* api_keys has key_demo
    dekFile,   \* .otv-kms-dek
    dek,       \* the data key each process holds
    keyFile,   \* the data key that wrapped the signing key in OTV_KEYS_DIR
    generated, \* data keys generated
    raced,     \* history: two processes were about to write .otv-kms-dek
    kills

diskVars == <<dekFile, dek, keyFile, generated, raced>>
bootVars == <<at, file, recorded, schema, demoKey, diskVars, kills>>

BootTypeOK ==
    /\ at \in [Processes -> {"down", "select", "run", "record", "ready", "kms", "generate",
                             "writeDek", "fillDek", "load", "put", "fillKey", "serving"}]
    /\ file \in [Processes -> 1 .. LastFile + 1]
    /\ recorded \subseteq 1 .. LastFile /\ schema \subseteq 1 .. LastFile
    /\ demoKey \in BOOLEAN
    /\ {dekFile, keyFile} \subseteq DataKeys \union {NoDataKey, Torn}
    /\ dek \in [Processes -> DataKeys \union {NoDataKey}]
    /\ generated \in 0 .. MaxDataKeys
    /\ raced \in BOOLEAN
    /\ kills \in 0 .. MaxKills

BootInit ==
    /\ at = [p \in Processes |-> "down"]
    /\ file = [p \in Processes |-> 1]
    /\ recorded = {} /\ schema = {} /\ demoKey = FALSE
    /\ dekFile = NoDataKey /\ keyFile = NoDataKey
    /\ dek = [p \in Processes |-> NoDataKey]
    /\ generated = 0 /\ raced = FALSE /\ kills = 0

-----------------------------------------------------------------------------
Then(p, s) == at' = [at EXCEPT ![p] = s]
SameFiles == UNCHANGED <<file, recorded, schema, demoKey>>

StartProcess(p) ==
    /\ at[p] = "down"
    /\ Then(p, "select")
    /\ file' = [file EXCEPT ![p] = 1]
    /\ dek' = [dek EXCEPT ![p] = NoDataKey]
    /\ UNCHANGED <<recorded, schema, demoKey, dekFile, keyFile, generated, raced, kills>>

\* Bugs to try: no file is ever passed over; the loop runs one file too far.
SelectNothing(p) ==
    /\ at[p] = "select"
    /\ Then(p, IF file[p] > LastFile THEN "ready" ELSE "run")
    /\ UNCHANGED <<file, recorded, schema, demoKey, diskVars, kills>>

SelectTooFar(p) ==
    /\ at[p] = "select"
    /\ Then(p, IF file[p] > LastFile + 1 THEN "ready" ELSE "run")
    /\ UNCHANGED <<file, recorded, schema, demoKey, diskVars, kills>>

\* SELECT: a recorded file is passed over.
SelectStep(p) ==
    /\ at[p] = "select"
    /\ IF file[p] > LastFile THEN Then(p, "ready") /\ UNCHANGED file
       ELSE IF file[p] \in recorded THEN file' = [file EXCEPT ![p] = @ + 1] /\ UNCHANGED at
       ELSE Then(p, "run") /\ UNCHANGED file
    /\ UNCHANGED <<recorded, schema, demoKey, diskVars, kills>>

\* A bug to try: the file is recorded before its sql is run.
RecordFirst(p) ==
    /\ at[p] = "run"
    /\ IF file[p] \in recorded
       THEN schema' = schema \union {file[p]} /\ Then(p, "record") /\ UNCHANGED recorded
       ELSE recorded' = recorded \union {file[p]} /\ UNCHANGED <<schema, at>>
    /\ UNCHANGED <<file, demoKey, diskVars, kills>>

\* The file's statements, IF NOT EXISTS and ON CONFLICT DO NOTHING throughout.
RunFile(p) ==
    /\ at[p] = "run"
    /\ schema' = schema \union {file[p]}
    /\ Then(p, "record")
    /\ UNCHANGED <<file, recorded, demoKey, diskVars, kills>>

\* INSERT INTO schema_migrations: the second process to get there fails on the
\* primary key, and so does its start.
RecordFile(p) ==
    /\ at[p] = "record"
    /\ IF file[p] \in recorded
       THEN Then(p, "down") /\ UNCHANGED <<recorded, file>>
       ELSE /\ recorded' = recorded \union {file[p]}
            /\ file' = [file EXCEPT ![p] = @ + 1]
            /\ Then(p, "select")
    /\ UNCHANGED <<schema, demoKey, diskVars, kills>>

\* ready: the demo user's password and key.
Ready(p) ==
    /\ at[p] = "ready"
    /\ demoKey' = TRUE
    /\ Then(p, IF p \in Apis THEN "kms" ELSE "serving")
    /\ UNCHANGED <<file, recorded, schema, diskVars, kills>>

-----------------------------------------------------------------------------
\* A bug to try: every start generates a data key.
InitKmsAfresh(p) ==
    /\ at[p] = "kms"
    /\ Then(p, "generate")
    /\ SameFiles /\ UNCHANGED <<diskVars, kills>>

\* initKms: existsSync, then read and decrypt, or generate.  What is torn is
\* there, and does not decrypt: the start fails.
InitKms(p) ==
    /\ at[p] = "kms"
    /\ CASE dekFile = NoDataKey -> Then(p, "generate") /\ UNCHANGED dek
         [] dekFile = Torn -> Then(p, "down") /\ UNCHANGED dek
         [] OTHER -> Then(p, "load") /\ dek' = [dek EXCEPT ![p] = dekFile]
    /\ SameFiles /\ UNCHANGED <<dekFile, keyFile, generated, raced, kills>>

GenerateDataKey(p) ==
    /\ at[p] = "generate" /\ generated < MaxDataKeys
    /\ generated' = generated + 1
    /\ dek' = [dek EXCEPT ![p] = generated + 1]
    /\ Then(p, "writeDek")
    /\ SameFiles /\ UNCHANGED <<dekFile, keyFile, raced, kills>>

\* writeFileSync: over another's file if there is one by now.
WriteDataKey(p) ==
    /\ at[p] = "writeDek"
    /\ dekFile' = Torn
    /\ raced' = (raced \/ \E q \in Apis \ {p} : at[q] \in {"generate", "writeDek", "fillDek"})
    /\ Then(p, "fillDek")
    /\ SameFiles /\ UNCHANGED <<dek, keyFile, generated, kills>>

FillDataKey(p) ==
    /\ at[p] = "fillDek"
    /\ dekFile' = dek[p]
    /\ Then(p, "load")
    /\ SameFiles /\ UNCHANGED <<dek, keyFile, generated, raced, kills>>

\* load: a key file that is torn does not parse, one that another data key
\* wrapped cannot be unwrapped, and the start fails.
LoadKeys(p) ==
    /\ at[p] = "load"
    /\ Then(p, CASE keyFile = dek[p] -> "serving"
                 [] keyFile = NoDataKey -> "put"
                 [] OTHER -> "down")
    /\ SameFiles /\ UNCHANGED <<diskVars, kills>>

\* No active key: a pair is generated, wrapped and written.
PutKey(p) ==
    /\ at[p] = "put"
    /\ keyFile' = Torn
    /\ Then(p, "fillKey")
    /\ SameFiles /\ UNCHANGED <<dekFile, dek, generated, raced, kills>>

FillKey(p) ==
    /\ at[p] = "fillKey"
    /\ keyFile' = dek[p]
    /\ Then(p, "serving")
    /\ SameFiles /\ UNCHANGED <<dekFile, dek, generated, raced, kills>>

Kill(p) ==
    /\ at[p] # "down" /\ kills < MaxKills
    /\ kills' = kills + 1
    /\ Then(p, "down")
    /\ SameFiles /\ UNCHANGED diskVars

BootStep(p) ==
    \/ StartProcess(p) \/ SelectStep(p) \/ RunFile(p) \/ RecordFile(p) \/ Ready(p)
    \/ InitKms(p) \/ GenerateDataKey(p) \/ WriteDataKey(p) \/ FillDataKey(p)
    \/ LoadKeys(p) \/ PutKey(p) \/ FillKey(p)

BootNext == \E p \in Processes : BootStep(p) \/ Kill(p)

\* The supervisor restarts what is down, and a process that can go on does.
BootSpec == BootInit /\ [][BootNext]_bootVars /\ \A p \in Processes : WF_bootVars(BootStep(p))

-----------------------------------------------------------------------------
\* No process serves requests before every file has been applied, whoever
\* applied it, and a file is recorded only once its statements have run, even
\* if the process that ran them is killed before it records them.
NoServiceWithoutSchema ==
    /\ recorded \subseteq schema
    /\ \A p \in Processes : at[p] = "serving" => recorded = 1 .. LastFile

\* The signing key's file is wrapped by a data key that is gone, or torn, only if
\* two APIs were about to write .otv-kms-dek at the same time.
LostDataKeyNeedsRace == keyFile \in DataKeys /\ keyFile # dekFile => raced

\* A process was killed while it wrote one of the two files.
TornByKill == kills > 0 /\ Torn \in {dekFile, keyFile}

\* However the starts interleave, and wherever a process is killed, every worker
\* ends up serving: one that lost the race for a migration is started again and
\* finds it recorded.  So does every API, unless two of them raced for the data
\* key, which can keep each other's key unreadable for ever, or one was killed
\* inside a write: the file it leaves fails every later start, and nothing
\* removes it.
EveryProcessServes ==
    /\ \A p \in Workers : <>[](at[p] = "serving")
    /\ \/ \A p \in Apis : <>[](at[p] = "serving")
       \/ <>[]raced \/ <>[]TornByKill \/ <>[](generated = MaxDataKeys)

=============================================================================
