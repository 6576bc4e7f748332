------------------------------ MODULE TaskStore ------------------------------
(***************************************************************************)
(* The cache of task outputs (modules/build-raptor-core/src/task-store.ts) *)
(* on a storage shared by several builds (misc/file-system-storage-client, *)
(* misc/in-memory-storage-client, s3-storage-client).                      *)
(*                                                                         *)
(* A client is the executor of one task in one build: it checks the        *)
(* verdict, then restores the outputs or runs the task and records it, and *)
(* starts over with any task.  A key is a task with a fingerprint.  A      *)
(* content stands for the bundle of a task's outputs and for its hash (the *)
(* blob id): bundles with different hashes differ.  Every storage request  *)
(* is a step, so that requests of all clients interleave.                  *)
(***************************************************************************)
EXTENDS Naturals, FiniteSets

CONSTANTS
    Clients,
    Keys,        \* tasks with their fingerprints
    Contents,    \* non-empty bundles
    WithPublic,  \* the contents that have a public file, kept by content address
    Outcomes,    \* what running a task may give: <<key, verdict, content>>
    InPlace,     \* puts rewrite a file in place (FilesystemStorageClient), or
                 \* replace the object at once (S3, in memory)
    Cleaning,    \* a starting build may delete old objects (cleanDirectory)
    ExistsFails, \* objectExists() may answer false for an error (S3)
    MaxWrites    \* bound: no task is begun while so many verdict puts are under way

Nothing == "nothing"   \* the empty bundle of a task with no output locations
NoKey == "no key"      \* a client between two tasks

ASSUME OutcomesAssumption ==
    /\ Nothing \notin Contents /\ WithPublic \subseteq Contents
    /\ Contents \cap {"stale", "purged", "partial", "cut"} = {}
    /\ Outcomes \subseteq Keys \X {"OK", "FAIL"} \X (Contents \cup {Nothing})

ASSUME ModesAssumption ==
    InPlace \in BOOLEAN /\ Cleaning \in BOOLEAN /\ ExistsFails \in BOOLEAN

VARIABLES
    blob,       \* the object {type: blob} of each content
    cas,        \* the content-addressed public file of each content
    verdictOf,  \* the object {type: verdict} of each key and verdict
    writes,     \* verdict puts under way: recordTask() does not await them
    pc, key,    \* of each client: where it is, and the task it works on
    seen,       \* what getVerdict() has read so far
    earlier,    \* what checkVerdict() answered
    bundle,     \* the bundle being recorded or restored
    status,     \* the verdict of the execution being recorded
    outputs,    \* what the output locations hold in the client's repo
    produced    \* every outcome of an execution so far (history)

storage == <<blob, cas, verdictOf>>
client == <<pc, key, seen, earlier, bundle, status, outputs>>
vars == <<storage, writes, client, produced>>

\* A file that is open for writing, or whose writer was killed, is empty or cut.
FileStates == {"absent", "empty", "cut", "whole"}
V == {"OK", "FAIL"}

NotRead == [state |-> "unread", blob |-> Nothing]
Unread  == [v \in V |-> NotRead]
Absent  == [state |-> "absent", blob |-> Nothing]

Init ==
    /\ blob = [x \in Contents |-> "absent"]
    /\ cas = [x \in WithPublic |-> "absent"]
    /\ verdictOf = [kv \in Keys \X V |-> Absent]
    /\ writes = {}
    /\ pc = [c \in Clients |-> "IDLE"]
    /\ key = [c \in Clients |-> NoKey]
    /\ seen = [c \in Clients |-> Unread]
    /\ earlier = [c \in Clients |-> "UNKNOWN"]
    /\ bundle = [c \in Clients |-> Nothing]
    /\ status = [c \in Clients |-> "OK"]
    /\ outputs = [c \in Clients |-> "stale"]
    /\ produced = {}

Goto(c, step) == pc' = [pc EXCEPT ![c] = step]

\* The task of c is over; what its executor held is gone.
Leave(c) ==
    /\ Goto(c, "IDLE")
    /\ key' = [key EXCEPT ![c] = NoKey]
    /\ seen' = [seen EXCEPT ![c] = Unread]
    /\ earlier' = [earlier EXCEPT ![c] = "UNKNOWN"]
    /\ bundle' = [bundle EXCEPT ![c] = Nothing]
    /\ status' = [status EXCEPT ![c] = "OK"]
    /\ outputs' = [outputs EXCEPT ![c] = "stale"]

-----------------------------------------------------------------------------
(* getVerdict(): the two verdict objects are read concurrently, each by an *)
(* objectExists() and a getObject().                                       *)

Reading(c) == pc[c] \in {"CHECK", "RESTORE"}

\* The next task: its fingerprint is known, its output locations hold whatever
\* was there.
CheckVerdict(c) ==
    /\ pc[c] = "IDLE"
    /\ Cardinality(writes) < MaxWrites
    /\ \E k \in Keys : key' = [key EXCEPT ![c] = k]
    /\ Goto(c, "CHECK")
    /\ UNCHANGED <<storage, writes, seen, earlier, bundle, status, outputs, produced>>

VerdictExists(c, v) ==
    /\ Reading(c) /\ seen[c][v].state = "unread"
    /\ \E answer \in {"present", "absent"} :
        /\ answer = "present" => verdictOf[<<key[c], v>>].state # "absent"
        /\ answer = "absent" => ExistsFails \/ verdictOf[<<key[c], v>>].state = "absent"
        /\ seen' = [seen EXCEPT ![c][v].state = answer]
    /\ UNCHANGED <<storage, writes, pc, key, earlier, bundle, status, outputs, produced>>

\* mutant: the name of the object leaves out the task and its fingerprint
GetVerdictObject_anyKey(c, v) ==
    /\ Reading(c) /\ seen[c][v].state = "present"
    /\ \E k \in Keys :
        /\ verdictOf[<<k, v>>].state # "absent"
        /\ seen' = [seen EXCEPT ![c][v] =
                        IF verdictOf[<<k, v>>].state = "whole" THEN verdictOf[<<k, v>>] ELSE Absent]
    /\ UNCHANGED <<storage, writes, pc, key, earlier, bundle, status, outputs, produced>>

\* An empty string counts as no verdict.  If the object was deleted meanwhile
\* getObject() throws: RequestFails.
GetVerdictObject(c, v) ==
    /\ Reading(c) /\ seen[c][v].state = "present"
    /\ verdictOf[<<key[c], v>>].state # "absent"
    /\ seen' = [seen EXCEPT ![c][v] =
                    IF verdictOf[<<key[c], v>>].state = "whole"
                    THEN verdictOf[<<key[c], v>>] ELSE Absent]
    /\ UNCHANGED <<storage, writes, pc, key, earlier, bundle, status, outputs, produced>>

Has(c, v) == seen[c][v].state = "whole"
AllRead(c) == \A v \in V : seen[c][v].state \in {"absent", "whole"}

VerdictRead(c) ==
    IF Has(c, "OK") /\ Has(c, "FAIL") THEN "FLAKY"
    ELSE IF Has(c, "OK") THEN "OK" ELSE IF Has(c, "FAIL") THEN "FAIL" ELSE "UNKNOWN"

\* mutants: a flaky task gets the bundle of the failure; a failed one gets none
BlobRead_failFirst(c) ==
    IF Has(c, "FAIL") THEN seen[c]["FAIL"].blob
    ELSE IF Has(c, "OK") THEN seen[c]["OK"].blob ELSE Nothing
BlobRead_okOnly(c) == IF Has(c, "OK") THEN seen[c]["OK"].blob ELSE Nothing

BlobRead(c) ==
    IF Has(c, "OK") THEN seen[c]["OK"].blob
    ELSE IF Has(c, "FAIL") THEN seen[c]["FAIL"].blob ELSE Nothing

\* POSSIBLY_RESTORE_OUTPUTS, by the answer of checkVerdict(): purge and run, or
\* restoreTask(), which reads the verdict again.
VerdictChecked(c) ==
    /\ pc[c] = "CHECK" /\ AllRead(c)
    /\ earlier' = [earlier EXCEPT ![c] = VerdictRead(c)]
    /\ seen' = [seen EXCEPT ![c] = Unread]
    /\ IF VerdictRead(c) = "UNKNOWN"
       THEN Goto(c, "RUN") /\ outputs' = [outputs EXCEPT ![c] = "purged"]
       ELSE Goto(c, "RESTORE") /\ UNCHANGED outputs
    /\ UNCHANGED <<storage, writes, key, bundle, status, produced>>

VerdictRechecked(c) ==
    /\ pc[c] = "RESTORE" /\ AllRead(c)
    /\ bundle' = [bundle EXCEPT ![c] = BlobRead(c)]
    /\ seen' = [seen EXCEPT ![c] = Unread]
    /\ Goto(c, "GET_BLOB")
    /\ UNCHANGED <<storage, writes, key, earlier, status, outputs, produced>>

-----------------------------------------------------------------------------
(* restoreBlob()                                                           *)

\* What the executor does with a restored task: run a failed one again, take
\* the verdict of a passed or flaky one from the cache.
AfterRestore(c) == IF earlier[c] = "FAIL" THEN "RUN" ELSE "CACHED"

\* getBlob() and unbundle().  An empty buffer restores nothing and removes
\* nothing.  If the object is absent or cut the request or the unpacking throws
\* (RequestFails), and leaves the output locations as they were or partial.
GetBlob(c) ==
    /\ pc[c] = "GET_BLOB"
    /\ LET content == bundle[c]
           state == IF content = Nothing THEN "empty" ELSE blob[content] IN
       \/ state = "empty" /\ Goto(c, AfterRestore(c)) /\ UNCHANGED outputs
       \/ /\ state = "whole" /\ content \in WithPublic /\ Goto(c, "GET_CAS")
          /\ outputs' = [outputs EXCEPT ![c] = "partial"]
       \/ /\ state = "whole" /\ content \notin WithPublic /\ Goto(c, AfterRestore(c))
          /\ outputs' = [outputs EXCEPT ![c] = content]
    /\ UNCHANGED <<storage, writes, key, seen, earlier, bundle, status, produced>>

\* The public file is written to the repo as it was read.
GetCas(c) ==
    /\ pc[c] = "GET_CAS"
    /\ cas[bundle[c]] # "absent"
    /\ Goto(c, AfterRestore(c))
    /\ outputs' = [outputs EXCEPT ![c] =
                    IF cas[bundle[c]] = "whole" THEN bundle[c] ELSE "cut"]
    /\ UNCHANGED <<storage, writes, key, seen, earlier, bundle, status, produced>>

-----------------------------------------------------------------------------
(* runIt() and recordTask()                                                *)

Run(c) ==
    /\ pc[c] = "RUN"
    /\ \E o \in Outcomes :
        /\ o[1] = key[c]
        /\ status' = [status EXCEPT ![c] = o[2]]
        /\ bundle' = [bundle EXCEPT ![c] = o[3]]
        /\ outputs' = [outputs EXCEPT ![c] = o[3]]
        /\ produced' = produced \cup {o}
        /\ Goto(c, IF o[3] = Nothing THEN "PUT_VERDICT"
                   ELSE IF o[3] \in WithPublic THEN "PUT_CAS" ELSE "BLOB_EXISTS")
    /\ UNCHANGED <<storage, writes, key, seen, earlier>>

\* A put in place empties the file, or creates it, and fills it in one or more
\* writes; if the file is deleted meanwhile, the writes go nowhere.
FillSome(file) == IF file = "absent" THEN file ELSE "cut"
FillAll(file)  == IF file = "absent" THEN file ELSE "whole"

\* bundle() puts the public files, whether or not they exist already.
PutCas(c) ==
    /\ \/ /\ pc[c] = "PUT_CAS" /\ InPlace /\ Goto(c, "FILL_CAS")
          /\ cas' = [cas EXCEPT ![bundle[c]] = "empty"]
       \/ /\ pc[c] = "FILL_CAS" /\ UNCHANGED pc
          /\ cas' = [cas EXCEPT ![bundle[c]] = FillSome(@)]
       \/ /\ pc[c] = "FILL_CAS" /\ Goto(c, "BLOB_EXISTS")
          /\ cas' = [cas EXCEPT ![bundle[c]] = FillAll(@)]
       \/ /\ pc[c] = "PUT_CAS" /\ ~InPlace /\ Goto(c, "BLOB_EXISTS")
          /\ cas' = [cas EXCEPT ![bundle[c]] = "whole"]
    /\ UNCHANGED <<blob, verdictOf, writes, key, seen, earlier, bundle, status,
                   outputs, produced>>

\* mutant: the blob is taken to exist
BlobExists_always(c) ==
    /\ pc[c] = "BLOB_EXISTS"
    /\ Goto(c, "PUT_VERDICT")
    /\ UNCHANGED <<storage, writes, key, seen, earlier, bundle, status, outputs, produced>>

\* putBlob(): nothing is put if an object of that name exists, whole or not.
BlobExists(c) ==
    /\ pc[c] = "BLOB_EXISTS"
    /\ \/ blob[bundle[c]] # "absent" /\ Goto(c, "PUT_VERDICT")
       \/ (blob[bundle[c]] = "absent" \/ ExistsFails) /\ Goto(c, "PUT_BLOB")
    /\ UNCHANGED <<storage, writes, key, seen, earlier, bundle, status, outputs, produced>>

PutBlob(c) ==
    /\ \/ /\ pc[c] = "PUT_BLOB" /\ InPlace /\ Goto(c, "FILL_BLOB")
          /\ blob' = [blob EXCEPT ![bundle[c]] = "empty"]
       \/ /\ pc[c] = "FILL_BLOB" /\ UNCHANGED pc
          /\ blob' = [blob EXCEPT ![bundle[c]] = FillSome(@)]
       \/ /\ pc[c] = "FILL_BLOB" /\ Goto(c, "PUT_VERDICT")
          /\ blob' = [blob EXCEPT ![bundle[c]] = FillAll(@)]
       \/ /\ pc[c] = "PUT_BLOB" /\ ~InPlace /\ Goto(c, "PUT_VERDICT")
          /\ blob' = [blob EXCEPT ![bundle[c]] = "whole"]
    /\ UNCHANGED <<cas, verdictOf, writes, key, seen, earlier, bundle, status,
                   outputs, produced>>

\* putVerdict() is called and not awaited: recordTask() returns, the put goes on.
PutVerdict(c) ==
    /\ pc[c] = "PUT_VERDICT"
    /\ writes' = writes \cup {[client |-> c, key |-> key[c], verdict |-> status[c],
                               blob |-> bundle[c], open |-> FALSE]}
    /\ Leave(c)
    /\ UNCHANGED <<storage, produced>>

\* A verdict is a small object, filled by one write.  The put may also fail.
VerdictWrite(w) ==
    /\ w \in writes
    /\ LET old == verdictOf[<<w.key, w.verdict>>]
           new == [state |-> "whole", blob |-> w.blob] IN
       \/ /\ InPlace /\ ~w.open
          /\ writes' = (writes \ {w}) \cup {[w EXCEPT !.open = TRUE]}
          /\ verdictOf' = [verdictOf EXCEPT ![<<w.key, w.verdict>>] =
                            [state |-> "empty", blob |-> Nothing]]
       \/ /\ InPlace => w.open
          /\ writes' = writes \ {w}
          /\ verdictOf' = [verdictOf EXCEPT ![<<w.key, w.verdict>>] =
                            IF InPlace /\ old.state = "absent" THEN old ELSE new]
       \/ writes' = writes \ {w} /\ UNCHANGED verdictOf
    /\ UNCHANGED <<blob, cas, client, produced>>

-----------------------------------------------------------------------------

\* A storage request of c fails, or finds its object deleted or cut: the
\* executor throws and the build crashes, but its verdict puts go on.
RequestFails(c) ==
    /\ pc[c] \notin {"IDLE", "CACHED", "RUN", "PUT_VERDICT"}
    /\ Leave(c)
    /\ UNCHANGED <<storage, writes, produced>>

\* The task was restored; its executor goes on to another one.
Finish(c) ==
    /\ pc[c] = "CACHED"
    /\ Leave(c)
    /\ UNCHANGED <<storage, writes, produced>>

\* The process of c is killed: whatever it was writing stays as it is.
Killed(c) ==
    /\ pc[c] # "IDLE" \/ \E w \in writes : w.client = c
    /\ Leave(c)
    /\ writes' = {w \in writes : w.client # c}
    /\ UNCHANGED <<storage, produced>>

\* Some build starts and deletes an object (cleanDirectory: the older half of
\* them, by access time).
CleanObject ==
    /\ Cleaning
    /\ \/ /\ \E x \in Contents :
              blob[x] # "absent" /\ blob' = [blob EXCEPT ![x] = "absent"]
          /\ UNCHANGED <<cas, verdictOf>>
       \/ /\ \E x \in WithPublic :
              cas[x] # "absent" /\ cas' = [cas EXCEPT ![x] = "absent"]
          /\ UNCHANGED <<blob, verdictOf>>
       \/ /\ \E k \in Keys, v \in V :
              verdictOf[<<k, v>>] # Absent /\ verdictOf' = [verdictOf EXCEPT ![<<k, v>>] = Absent]
          /\ UNCHANGED <<blob, cas>>
    /\ UNCHANGED <<writes, client, produced>>

Next ==
    \/ CleanObject
    \/ \E w \in writes : VerdictWrite(w)
    \/ \E c \in Clients :
        \/ CheckVerdict(c) \/ VerdictChecked(c) \/ VerdictRechecked(c)
        \/ \E v \in V : VerdictExists(c, v) \/ GetVerdictObject(c, v)
        \/ GetBlob(c) \/ GetCas(c) \/ Run(c) \/ PutCas(c) \/ BlobExists(c)
        \/ PutBlob(c) \/ PutVerdict(c)
        \/ RequestFails(c) \/ Finish(c) \/ Killed(c)

Spec == Init /\ [][Next]_vars

-----------------------------------------------------------------------------

Bundles == Contents \cup {Nothing}
Objects == [state : {"absent", "empty", "whole"}, blob : Bundles]
Answers == [state : {"unread", "present", "absent", "whole"}, blob : Bundles]
Puts == [client : Clients, key : Keys, verdict : V, blob : Bundles, open : BOOLEAN]
ClientSteps == {"IDLE", "CHECK", "RESTORE", "GET_BLOB", "GET_CAS", "CACHED", "RUN",
                "PUT_CAS", "FILL_CAS", "BLOB_EXISTS", "PUT_BLOB", "FILL_BLOB",
                "PUT_VERDICT"}

TypeOK ==
    /\ blob \in [Contents -> FileStates]
    /\ cas \in [WithPublic -> FileStates]
    /\ verdictOf \in [Keys \X V -> Objects]
    /\ writes \subseteq Puts
    /\ pc \in [Clients -> ClientSteps]
    /\ key \in [Clients -> Keys \cup {NoKey}]
    /\ seen \in [Clients -> [V -> Answers]]
    /\ earlier \in [Clients -> {"UNKNOWN", "OK", "FAIL", "FLAKY"}]
    /\ bundle \in [Clients -> Bundles]
    /\ status \in [Clients -> V]
    /\ outputs \in [Clients -> Bundles \cup {"stale", "purged", "partial", "cut"}]
    /\ produced \subseteq Outcomes

\* A verdict object that can be read was earned, and what it points to can be
\* restored: some execution of that very task and fingerprint gave this verdict
\* and this bundle, and the bundle and its public file are stored whole.
\* Crashes, failing puts and concurrent recordings of the same bundle cannot
\* leave a verdict in front of missing outputs.
VerdictIsBacked ==
    \A k \in Keys, v \in V :
        LET o == verdictOf[<<k, v>>] IN
        o.state = "whole" =>
            /\ <<k, v, o.blob>> \in produced
            /\ o.blob # Nothing => blob[o.blob] = "whole"
            /\ o.blob \in WithPublic => cas[o.blob] = "whole"

\* A cache hit leaves in the repo exactly what some passing execution of the
\* same task and fingerprint produced, even when the verdict became FLAKY
\* between the two times it is read.  (A task without output locations leaves
\* its output locations alone.)
CacheHitRestoresOutputs ==
    \A c \in Clients :
        pc[c] = "CACHED" =>
            \/ <<key[c], "OK", outputs[c]>> \in produced
            \/ outputs[c] = "stale" /\ <<key[c], "OK", Nothing>> \in produced

\* A failed task runs again on top of the outputs of an execution of itself.
RerunsOnOwnOutputs ==
    \A c \in Clients :
        (pc[c] = "RUN" /\ earlier[c] # "UNKNOWN") =>
            \/ \E v \in V : <<key[c], v, outputs[c]>> \in produced
            \/ outputs[c] = "stale" /\ \E v \in V : <<key[c], v, Nothing>> \in produced

\* Whatever a storage loses or cuts, no task is ever given the complete outputs
\* of another task, of another fingerprint or of no execution at all.
NeverForeignOutputs ==
    \A c \in Clients :
        (pc[c] \in {"CACHED", "RUN"} /\ outputs[c] \in Contents) =>
            \E v \in V : <<key[c], v, outputs[c]>> \in produced

-----------------------------------------------------------------------------
(* What documents say and the code does not do.                            *)

\* ARCHITECTURE_OVERVIEW.md: "Checksum Validation: SHA256 verification of cache
\* entries": a cut entry is not taken for a hit.
CacheEntriesVerified == \A c \in Clients : pc[c] = "CACHED" => outputs[c] # "cut"
=============================================================================
