-------------------------- MODULE TransferLifecycle --------------------------
(***************************************************************************)
(* The life of a transfer: the upload, completion, abort and download      *)
(* handlers of routes/upload.routes.ts and routes/download.routes.ts, the  *)
(* owner's DELETE of routes/me.routes.ts and the cleanup job of            *)
(* services/cleanup.service.ts, all of them over the rows of `transfers`   *)
(* and `files` (services/file.service.ts) and the objects kept in R2       *)
(* (services/r2.service.ts).                                               *)
(*                                                                         *)
(* The server is one JavaScript process: between two `await`s a handler    *)
(* runs alone, and at every `await` any other handler may run.  So each    *)
(* database, Redis or R2 call is one action here, and job[w] holds the     *)
(* local variables a handler keeps across its awaits.  A handler that      *)
(* answers 4xx before its first write changes nothing and is not a step.   *)
(* Rate limits, the password gate, titles and vault keys only decide       *)
(* whether a handler goes on, or are data nothing here depends on.         *)
(***************************************************************************)
EXTENDS Integers, FiniteSets

CONSTANTS
    Transfers,      \* transfer ids (nanoid: never issued twice)
    Files,          \* file ids (nanoid)
    TransferOf,     \* files.transferId, fixed when the id is issued
    Users,          \* user ids
    Anonymous,      \* "no session", and transfers.userId IS NULL
    Owner,          \* transfers.userId, written once by createTransfer
    MaxDownloads,   \* transfers.maxDownloads, written once by createTransfer
    NoLimit,        \* maxDownloads IS NULL
    MaxFiles,       \* the tier's maxTransferSize, in files of one unit
    Requests,       \* HTTP requests being served at the same time
    Cleaner,        \* the cleanup job
    Endpoints,      \* the endpoints the clients of this instance call
    NoTransfer, NoFile,
    MaxFaults,      \* bound: crashes and failed database calls
    MaxClaims       \* bound: downloads of one transfer

Callers == Users \cup {Anonymous}
Workers == Requests \cup {Cleaner}

Ages   == {"fresh", "old", "expired"}
Stages == {"none", "expired", "abandoned", "soft"}

PCs == { "idle", "next",
         "init.total", "init.charge", "init.insert", "init.r2", "init.undo", "init.release",
         "stitch.file", "stitch.r2",
         "cancel.file", "cancel.r2", "cancel.release", "cancel.delete",
         "complete.files", "complete.head",
         "purge.files", "purge.r2", "purge.row",
         "url.claim", "url.sign" }

ASSUME ConstantsOK ==
    /\ TransferOf \in [Files -> Transfers]
    /\ Anonymous \notin Users
    /\ Owner \in [Transfers -> Callers]
    /\ MaxDownloads \in [Transfers -> (Nat \ {0}) \cup {NoLimit}]
    /\ NoLimit \notin Nat
    /\ MaxFiles \in Nat
    /\ Cleaner \notin Requests /\ IsFiniteSet(Requests)
    /\ NoTransfer \notin Transfers
    /\ NoFile \notin Files
    /\ MaxFaults \in Nat /\ MaxClaims \in Nat

VARIABLES
    row,            \* is there a row of `transfers` with this id?
    isCompleted, isDeleted, downloadCount,    \* its columns
    age,            \* now against createdAt + 30 min and expiresAt
    fileRow,        \* is there a row of `files` with this id?
    r2,             \* what R2 holds under the file's r2Key
    reserved,       \* units of the uploader's monthly volume charged for the file
    job,            \* the local state of each handler and of the cleanup job
    stage, batch,   \* which sweep the cleanup job is in, what is left of its rows
    faults,
    issued,         \* history: slots a download URL was issued for
    declared,       \* history: files verified in R2 when the transfer was completed
    late,           \* history: rows inserted after a /complete had listed the files
    overtaken       \* history: transfers completed while the cleanup job had them

transferVars == <<row, isCompleted, isDeleted, downloadCount>>
fileVars     == <<fileRow, r2, reserved>>
sweepVars    == <<stage, batch>>
history      == <<issued, declared, late, overtaken>>
vars == <<transferVars, age, fileVars, job, sweepVars, faults, history>>

Job == [pc : PCs, transfer : Transfers \cup {NoTransfer}, file : Files \cup {NoFile},
        todo : SUBSET Files, seen : SUBSET Files, slot : Nat]

Call(pc, t, f) == [pc |-> pc, transfer |-> t, file |-> f, todo |-> {}, seen |-> {}, slot |-> 0]

Idle == Call("idle", NoTransfer, NoFile)

TypeOK ==
    /\ row \in [Transfers -> {"none", "present", "deleted"}]
    /\ isCompleted \in [Transfers -> BOOLEAN]
    /\ isDeleted \in [Transfers -> BOOLEAN]
    /\ downloadCount \in [Transfers -> Nat]
    /\ \A t \in Transfers : MaxDownloads[t] = NoLimit \/ downloadCount[t] <= MaxDownloads[t]
    /\ age \in [Transfers -> Ages]
    /\ fileRow \in [Files -> {"none", "present", "deleted"}]
    /\ r2 \in [Files -> {"none", "open", "short", "stored"}]
    /\ reserved \in [Files -> Int]
    /\ job \in [Workers -> Job]
    /\ stage \in Stages
    /\ batch \in SUBSET Transfers
    /\ faults \in 0..MaxFaults
    /\ issued \in [Transfers -> SUBSET Nat]
    /\ declared \in [Transfers -> SUBSET Files]
    /\ late \in SUBSET Files
    /\ overtaken \in SUBSET Transfers

Init ==
    /\ row = [t \in Transfers |-> "none"]
    /\ isCompleted = [t \in Transfers |-> FALSE]
    /\ isDeleted = [t \in Transfers |-> FALSE]
    /\ downloadCount = [t \in Transfers |-> 0]
    /\ age = [t \in Transfers |-> "fresh"]
    /\ fileRow = [f \in Files |-> "none"]
    /\ r2 = [f \in Files |-> "none"]
    /\ reserved = [f \in Files |-> 0]
    /\ job = [w \in Workers |-> Idle]
    /\ stage = "none" /\ batch = {}
    /\ faults = 0
    /\ issued = [t \in Transfers |-> {}]
    /\ declared = [t \in Transfers |-> {}]
    /\ late = {} /\ overtaken = {}

-----------------------------------------------------------------------------
(* Queries *)

\* getTransferById: soft-deleted rows are invisible.
Visible(t) == row[t] = "present" /\ ~isDeleted[t]

\* Mutant: one download too many.
AtMostCap(t) == MaxDownloads[t] = NoLimit \/ downloadCount[t] <= MaxDownloads[t]

BelowCap(t) == MaxDownloads[t] = NoLimit \/ downloadCount[t] < MaxDownloads[t]

\* getValidTransfer
Valid(t) == Visible(t) /\ age[t] # "expired" /\ BelowCap(t)

\* Mutant: the UPDATE forgets is_deleted.
DownloadableThoughDeleted(t) ==
    row[t] = "present" /\ isCompleted[t] /\ age[t] # "expired" /\ BelowCap(t)

\* The predicate of claimDownloadSlot's UPDATE.
Downloadable(t) == Visible(t) /\ isCompleted[t] /\ age[t] # "expired" /\ BelowCap(t)

\* getFilesByTransferId, getFilesForTransfer (files.isDeleted is never set)
FilesOf(t) == {f \in Files : TransferOf[f] = t /\ fileRow[f] = "present"}

\* "Owner-only on owned transfers": the check every upload handler makes.
MayWrite(me, t) == Owner[t] \in {Anonymous, me}

\* Mutant: the abandoned sweep forgets is_completed = false.
DueThoughCompleted(s) ==
    {t \in Transfers :
        \/ s = "expired"   /\ Visible(t) /\ age[t] = "expired"
        \/ s = "abandoned" /\ Visible(t) /\ age[t] # "fresh"
        \/ s = "soft"      /\ row[t] = "present" /\ isDeleted[t]}

\* Mutant: the sweep of soft-deleted rows goes through the is_deleted = false filter.
DueVisibleOnly(s) ==
    {t \in Transfers :
        /\ Visible(t)
        /\ \/ s = "expired"   /\ age[t] = "expired"
           \/ s = "abandoned" /\ ~isCompleted[t] /\ age[t] # "fresh"
           \/ s = "soft"      /\ isDeleted[t]}

\* getExpiredTransfers, getAbandonedTransfers, getSoftDeletedTransfers
Due(s) ==
    {t \in Transfers :
        \/ s = "expired"   /\ Visible(t) /\ age[t] = "expired"
        \/ s = "abandoned" /\ Visible(t) /\ ~isCompleted[t] /\ age[t] # "fresh"
        \/ s = "soft"      /\ row[t] = "present" /\ isDeleted[t]}

-----------------------------------------------------------------------------
(* Control of a handler *)

Begin(w, endpoint) == w \in Requests /\ job[w] = Idle /\ endpoint \in Endpoints

At(w, pc) == job[w].pc = pc

Goto(w, pc) == job' = [job EXCEPT ![w].pc = pc]

\* A request is answered; the cleanup job turns to its next row.
Finish(w) ==
    job' = [job EXCEPT ![w] = IF w = Cleaner THEN Call("next", NoTransfer, NoFile) ELSE Idle]

\* nanoid() returns an id no row, object, reservation or request uses.
Fresh(f) ==
    /\ fileRow[f] = "none" /\ r2[f] = "none" /\ reserved[f] = 0
    /\ \A w \in Workers : job[w].file # f

\* The rows the cleanup job still has to take or is removing.
OnTheList == batch \cup {job[Cleaner].transfer}

-----------------------------------------------------------------------------
(* POST /create-transfer *)

CreateTransfer(t) ==
    /\ row[t] = "none"
    /\ row' = [row EXCEPT ![t] = "present"]
    /\ UNCHANGED <<isCompleted, isDeleted, downloadCount, age, fileVars, job, sweepVars, faults, history>>

-----------------------------------------------------------------------------
(* POST /init-multipart *)

InitMultipart(w, f, me) ==
    LET t == TransferOf[f] IN
    /\ Begin(w, "init-multipart")
    /\ Fresh(f) /\ Valid(t) /\ MayWrite(me, t)
    /\ job' = [job EXCEPT ![w] = Call("init.total", t, f)]
    /\ UNCHANGED <<transferVars, age, fileVars, sweepVars, faults, history>>

\* getTransferTotalSize and exceedsTotalLimit
CheckTotalSize(w) ==
    /\ At(w, "init.total")
    /\ IF Cardinality(FilesOf(job[w].transfer)) < MaxFiles
         THEN Goto(w, "init.charge")
         ELSE Finish(w)
    /\ UNCHANGED <<transferVars, age, fileVars, sweepVars, faults, history>>

\* checkAuthedOrIpVolumeLimit: refused with 429, or charged.
ChargeVolume(w) ==
    /\ At(w, "init.charge")
    /\ \/ /\ Finish(w)
          /\ UNCHANGED reserved
       \/ /\ Goto(w, "init.insert")
          /\ reserved' = [reserved EXCEPT ![job[w].file] = @ + 1]
    /\ UNCHANGED <<transferVars, age, fileRow, r2, sweepVars, faults, history>>

\* createFile: the foreign key on transfers.id makes the INSERT throw (500)
\* when the transfer has been removed meanwhile.
CreateFile(w) ==
    LET t == job[w].transfer
        f == job[w].file
        listed == isCompleted[t] \/ \E v \in Workers : At(v, "complete.head") /\ job[v].transfer = t
    IN
    /\ At(w, "init.insert")
    /\ IF row[t] = "present"
         THEN /\ fileRow' = [fileRow EXCEPT ![f] = "present"]
              /\ late' = IF listed THEN late \cup {f} ELSE late
              /\ Goto(w, "init.r2")
         ELSE Finish(w) /\ UNCHANGED <<fileRow, late>>
    /\ UNCHANGED <<transferVars, age, r2, reserved, sweepVars, faults, issued, declared, overtaken>>

\* Mutant: a failed R2 init gives the volume back and forgets the row.
OpenUploadKeepingRow(w) ==
    /\ At(w, "init.r2")
    /\ \/ r2' = [r2 EXCEPT ![job[w].file] = "open"] /\ Finish(w)
       \/ Goto(w, "init.release") /\ UNCHANGED r2
    /\ UNCHANGED <<transferVars, age, fileRow, reserved, sweepVars, faults, history>>

\* initMultipartUpload: R2 opens the upload and its id is answered, or the
\* call throws and is rolled back.  (An upload R2 opened before the call threw
\* is of no use to anybody: only the answer carries an upload's id.)
OpenUpload(w) ==
    /\ At(w, "init.r2")
    /\ \/ r2' = [r2 EXCEPT ![job[w].file] = "open"] /\ Finish(w)
       \/ Goto(w, "init.undo") /\ UNCHANGED r2
    /\ UNCHANGED <<transferVars, age, fileRow, reserved, sweepVars, faults, history>>

DeleteFileRow(f) == fileRow' = [fileRow EXCEPT ![f] = "deleted"]

UndoCreateFile(w) ==
    /\ At(w, "init.undo")
    /\ DeleteFileRow(job[w].file)
    /\ Goto(w, "init.release")
    /\ UNCHANGED <<transferVars, age, r2, reserved, sweepVars, faults, history>>

\* releaseAuthedOrIpVolumeLimit, in the rollback above and in abort-multipart
ReleaseVolume(w) ==
    /\ \/ At(w, "init.release") /\ Finish(w)
       \/ At(w, "cancel.release") /\ Goto(w, "cancel.delete")
    /\ reserved' = [reserved EXCEPT ![job[w].file] = @ - 1]
    /\ UNCHANGED <<transferVars, age, fileRow, r2, sweepVars, faults, history>>

-----------------------------------------------------------------------------
(* POST /complete-multipart and POST /abort-multipart *)

\* Any file id that was ever listed will do, before init-multipart has answered
\* or while it rolls back too: the listings of a transfer show its file ids.
BeginOnFile(w, f, me, endpoint, pc) ==
    LET t == TransferOf[f] IN
    /\ Begin(w, endpoint)
    /\ fileRow[f] # "none" /\ Valid(t) /\ MayWrite(me, t)
    /\ job' = [job EXCEPT ![w] = Call(pc, t, f)]
    /\ UNCHANGED <<transferVars, age, fileVars, sweepVars, faults, history>>

CompleteMultipart(w, f, me) == BeginOnFile(w, f, me, "complete-multipart", "stitch.file")
AbortMultipart(w, f, me)    == BeginOnFile(w, f, me, "abort-multipart", "cancel.file")

\* getFileById: 404 (or 204) when the row is gone.
ReadFile(w) ==
    /\ \/ At(w, "stitch.file") \/ At(w, "cancel.file")
    /\ IF fileRow[job[w].file] = "present"
         THEN Goto(w, IF At(w, "stitch.file") THEN "stitch.r2" ELSE "cancel.r2")
         ELSE Finish(w)
    /\ UNCHANGED <<transferVars, age, fileVars, sweepVars, faults, history>>

\* completeMultipartUpload: R2 makes the object from the parts the client
\* lists, all of them or fewer; the call fails when the upload is not open.
StitchUpload(w) ==
    /\ At(w, "stitch.r2")
    /\ \/ UNCHANGED r2
       \/ /\ r2[job[w].file] = "open"
          /\ \E size \in {"short", "stored"} : r2' = [r2 EXCEPT ![job[w].file] = size]
    /\ Finish(w)
    /\ UNCHANGED <<transferVars, age, fileRow, reserved, sweepVars, faults, history>>

\* abortMultipartUpload: best effort, a no-op unless the upload is still open.
AbortUpload(w) ==
    /\ At(w, "cancel.r2")
    /\ \/ UNCHANGED r2
       \/ r2[job[w].file] = "open" /\ r2' = [r2 EXCEPT ![job[w].file] = "none"]
    /\ Goto(w, "cancel.release")
    /\ UNCHANGED <<transferVars, age, fileRow, reserved, sweepVars, faults, history>>

\* deleteFileById
DeleteFile(w) ==
    /\ At(w, "cancel.delete")
    /\ DeleteFileRow(job[w].file)
    /\ Finish(w)
    /\ UNCHANGED <<transferVars, age, r2, reserved, sweepVars, faults, history>>

-----------------------------------------------------------------------------
(* POST /complete *)

CompleteTransfer(w, t, me) ==
    /\ Begin(w, "complete")
    /\ Valid(t) /\ MayWrite(me, t)
    /\ job' = [job EXCEPT ![w] = Call("complete.files", t, NoFile)]
    /\ UNCHANGED <<transferVars, age, fileVars, sweepVars, faults, history>>

ListFiles(w) ==
    LET found == FilesOf(job[w].transfer) IN
    /\ At(w, "complete.files")
    /\ IF found = {}
         THEN Finish(w)
         ELSE job' = [job EXCEPT ![w].pc = "complete.head", ![w].todo = found, ![w].seen = found]
    /\ UNCHANGED <<transferVars, age, fileVars, sweepVars, faults, history>>

\* Mutant: /complete checks that the object is there, not its size.
HeadWithoutSize(w) ==
    /\ At(w, "complete.head")
    /\ \E f \in job[w].todo :
         IF r2[f] \in {"short", "stored"}
           THEN job' = [job EXCEPT ![w].todo = @ \ {f}]
           ELSE Finish(w)
    /\ UNCHANGED <<transferVars, age, fileVars, sweepVars, faults, history>>

\* headObject, one file after the other: 409 when it is missing or its size
\* is not the declared one.
HeadObject(w) ==
    /\ At(w, "complete.head")
    /\ \E f \in job[w].todo :
         IF r2[f] = "stored"
           THEN job' = [job EXCEPT ![w].todo = @ \ {f}]
           ELSE Finish(w)
    /\ UNCHANGED <<transferVars, age, fileVars, sweepVars, faults, history>>

\* completeTransfer: UPDATE by id alone, which changes no row when the
\* transfer has been removed meanwhile.
MarkCompleted(w) ==
    LET t == job[w].transfer IN
    /\ At(w, "complete.head") /\ job[w].todo = {}
    /\ IF row[t] = "present"
         THEN /\ isCompleted' = [isCompleted EXCEPT ![t] = TRUE]
              /\ declared' = [declared EXCEPT ![t] = @ \cup job[w].seen]
              /\ overtaken' = overtaken \cup ({t} \cap OnTheList)
         ELSE UNCHANGED <<isCompleted, declared, overtaken>>
    /\ Finish(w)
    /\ UNCHANGED <<row, isDeleted, downloadCount, age, fileVars, sweepVars, faults, issued, late>>

-----------------------------------------------------------------------------
(* GET /file/:id/url *)

RequestUrl(w, f) ==
    /\ Begin(w, "file-url")
    /\ fileRow[f] = "present"
    /\ downloadCount[TransferOf[f]] < MaxClaims
    /\ job' = [job EXCEPT ![w] = Call("url.claim", TransferOf[f], f)]
    /\ UNCHANGED <<transferVars, age, fileVars, sweepVars, faults, history>>

\* Mutant: the slot is taken from a SELECT, and the increment is lost.
ClaimFromSelect(w) ==
    LET t == job[w].transfer IN
    /\ At(w, "url.claim")
    /\ IF Downloadable(t)
         THEN job' = [job EXCEPT ![w].pc = "url.sign", ![w].slot = downloadCount[t] + 1]
         ELSE Finish(w)
    /\ UNCHANGED <<transferVars, age, fileVars, sweepVars, faults, history>>

\* claimDownloadSlot: test and increment in one UPDATE, RETURNING the count.
ClaimDownloadSlot(w) ==
    LET t == job[w].transfer IN
    /\ At(w, "url.claim")
    /\ IF Downloadable(t)
         THEN /\ downloadCount' = [downloadCount EXCEPT ![t] = @ + 1]
              /\ job' = [job EXCEPT ![w].pc = "url.sign", ![w].slot = downloadCount[t] + 1]
         ELSE Finish(w) /\ UNCHANGED downloadCount
    /\ UNCHANGED <<row, isCompleted, isDeleted, age, fileVars, sweepVars, faults, history>>

\* getPresignedDownloadUrl: when it throws the slot stays consumed.
IssueUrl(w) ==
    LET t == job[w].transfer IN
    /\ At(w, "url.sign")
    /\ \/ issued' = [issued EXCEPT ![t] = @ \cup {job[w].slot}]
       \/ UNCHANGED issued
    /\ Finish(w)
    /\ UNCHANGED <<transferVars, age, fileVars, sweepVars, faults, declared, late, overtaken>>

-----------------------------------------------------------------------------
(* DELETE /api/me/transfers/:id *)

SoftDelete(t, me) ==
    /\ "delete" \in Endpoints
    /\ me # Anonymous /\ Owner[t] = me /\ Visible(t)
    /\ isDeleted' = [isDeleted EXCEPT ![t] = TRUE]
    /\ UNCHANGED <<row, isCompleted, downloadCount, age, fileVars, job, sweepVars, faults, history>>

-----------------------------------------------------------------------------
(* Removal of a transfer: POST /abort and the three sweeps of the cleanup   *)
(* job all read the file rows, delete the objects, then hardDeleteTransfer. *)

AbortTransfer(w, t, me) ==
    /\ Begin(w, "abort")
    /\ Visible(t) /\ MayWrite(me, t) /\ ~isCompleted[t]
    /\ job' = [job EXCEPT ![w] = Call("purge.files", t, NoFile)]
    /\ UNCHANGED <<transferVars, age, fileVars, sweepVars, faults, history>>

\* getFilesForTransfer
PurgeList(w) ==
    /\ At(w, "purge.files")
    /\ job' = [job EXCEPT ![w].pc = "purge.r2", ![w].todo = FilesOf(job[w].transfer)]
    /\ UNCHANGED <<transferVars, age, fileVars, sweepVars, faults, history>>

\* deleteFromR2: a failure is logged and the loop goes on.  Deleting an
\* object does not close a multipart upload that is still open.
PurgeObject(w) ==
    /\ At(w, "purge.r2")
    /\ \E f \in job[w].todo :
         /\ job' = [job EXCEPT ![w].todo = @ \ {f}]
         /\ \/ UNCHANGED r2
            \/ r2[f] \in {"short", "stored"} /\ r2' = [r2 EXCEPT ![f] = "none"]
    /\ UNCHANGED <<transferVars, age, fileRow, reserved, sweepVars, faults, history>>

\* hardDeleteTransfer, DELETE FROM files
PurgeFileRows(w) ==
    /\ At(w, "purge.r2") /\ job[w].todo = {}
    /\ fileRow' = [f \in Files |-> IF f \in FilesOf(job[w].transfer) THEN "deleted" ELSE fileRow[f]]
    /\ Goto(w, "purge.row")
    /\ UNCHANGED <<transferVars, age, r2, reserved, sweepVars, faults, history>>

\* hardDeleteTransfer, DELETE FROM transfers: the foreign key makes it throw
\* when a file row was inserted since.
PurgeRow(w) ==
    LET t == job[w].transfer IN
    /\ At(w, "purge.row")
    /\ IF FilesOf(t) = {} /\ row[t] = "present"
         THEN row' = [row EXCEPT ![t] = "deleted"]
         ELSE UNCHANGED row
    /\ Finish(w)
    /\ UNCHANGED <<isCompleted, isDeleted, downloadCount, age, fileVars, sweepVars, faults, history>>

-----------------------------------------------------------------------------
(* The cleanup job.  `running` keeps a second tick from starting a sweep.   *)

StartCleanup ==
    /\ stage = "none"
    /\ stage' = "expired" /\ batch' = Due("expired") /\ overtaken' = {}
    /\ job' = [job EXCEPT ![Cleaner] = Call("next", NoTransfer, NoFile)]
    /\ UNCHANGED <<transferVars, age, fileVars, faults, issued, declared, late>>

TakeCandidate(t) ==
    /\ At(Cleaner, "next") /\ t \in batch
    /\ batch' = batch \ {t}
    /\ job' = [job EXCEPT ![Cleaner] = Call("purge.files", t, NoFile)]
    /\ UNCHANGED <<transferVars, age, fileVars, stage, faults, history>>

\* Mutant: the job never clears `running`.
StillRunning(s) == IF s = "expired" THEN "abandoned" ELSE "soft"

StageAfter(s) == IF s = "expired" THEN "abandoned" ELSE IF s = "abandoned" THEN "soft" ELSE "none"

NextStage ==
    /\ At(Cleaner, "next") /\ batch = {}
    /\ stage' = StageAfter(stage)
    /\ batch' = Due(stage') /\ overtaken' = {}
    /\ IF stage' = "none" THEN job' = [job EXCEPT ![Cleaner] = Idle] ELSE UNCHANGED job
    /\ UNCHANGED <<transferVars, age, fileVars, faults, issued, declared, late>>

-----------------------------------------------------------------------------
(* Time, failed calls, crashes *)

\* The shortest expiry is one hour, so a transfer is 30 minutes old first.
Age(t) ==
    /\ row[t] = "present"
    /\ \/ age[t] = "fresh" /\ age' = [age EXCEPT ![t] = "old"]
       \/ age[t] = "old"   /\ age' = [age EXCEPT ![t] = "expired"]
    /\ UNCHANGED <<transferVars, fileVars, job, sweepVars, faults, history>>

\* R2 calls whose failure the handler catches, and the local signing.
Caught == {"idle", "next", "init.r2", "stitch.r2", "cancel.r2", "url.sign"}

\* A database, Redis or HeadObject call throws: the handler ends with a 500,
\* and the cleanup job's per-row catch goes on with its next row.
CallFails(w) ==
    /\ faults < MaxFaults
    /\ job[w].pc \notin Caught
    /\ At(w, "purge.r2") => job[w].todo = {}
    /\ faults' = faults + 1
    /\ Finish(w)
    /\ UNCHANGED <<transferVars, age, fileVars, sweepVars, history>>

\* The query of a sweep throws: the three sweeps share one catch.
SweepFails ==
    /\ faults < MaxFaults
    /\ At(Cleaner, "next") /\ batch = {} /\ stage # "soft"
    /\ faults' = faults + 1
    /\ stage' = "none"
    /\ job' = [job EXCEPT ![Cleaner] = Idle]
    /\ UNCHANGED <<transferVars, age, fileVars, batch, history>>

\* The process dies and restarts: rows, objects and counters stay, and
\* startCleanupJob runs again.
Crash ==
    /\ faults < MaxFaults
    /\ faults' = faults + 1
    /\ job' = [w \in Workers |-> Idle]
    /\ stage' = "none" /\ batch' = {}
    /\ UNCHANGED <<transferVars, age, fileVars, history>>

-----------------------------------------------------------------------------

Purge(w) == PurgeList(w) \/ PurgeObject(w) \/ PurgeFileRows(w) \/ PurgeRow(w)

Upload(w) ==
    \/ \E f \in Files, me \in Callers :
         InitMultipart(w, f, me) \/ CompleteMultipart(w, f, me) \/ AbortMultipart(w, f, me)
    \/ CheckTotalSize(w) \/ ChargeVolume(w) \/ CreateFile(w) \/ OpenUpload(w)
    \/ UndoCreateFile(w) \/ ReleaseVolume(w)
    \/ ReadFile(w) \/ StitchUpload(w) \/ AbortUpload(w) \/ DeleteFile(w)

Complete(w) ==
    \/ \E t \in Transfers, me \in Callers : CompleteTransfer(w, t, me) \/ AbortTransfer(w, t, me)
    \/ ListFiles(w) \/ HeadObject(w) \/ MarkCompleted(w)

Download(w) ==
    \/ \E f \in Files : RequestUrl(w, f)
    \/ ClaimDownloadSlot(w) \/ IssueUrl(w)

Cleanup == StartCleanup \/ NextStage \/ Purge(Cleaner) \/ \E t \in Transfers : TakeCandidate(t)

Next ==
    \/ \E t \in Transfers : CreateTransfer(t) \/ Age(t)
    \/ \E t \in Transfers, me \in Callers : SoftDelete(t, me)
    \/ \E w \in Requests : Upload(w) \/ Complete(w) \/ Download(w) \/ Purge(w)
    \/ Cleanup
    \/ \E w \in Workers : CallFails(w)
    \/ SweepFails \/ Crash

Spec == Init /\ [][Next]_vars

\* setInterval runs the cleanup job every 15 minutes as long as the process
\* lives, and every call of the job returns or throws; nothing is assumed of
\* clients or of the requests in flight.
FairSpec == Spec /\ WF_vars(Cleanup)

-----------------------------------------------------------------------------
(* Properties *)

HoldsSlot(w, t) == At(w, "url.sign") /\ job[w].transfer = t

\* Every download URL of a transfer uses up a slot of its own: the slots of
\* the URLs issued and of the requests about to issue one are distinct numbers
\* within the count and the sender's cap, whatever requests race for the last
\* one (claimDownloadSlot, file.service.ts:140-168).
SlotsAreExclusive ==
    \A t \in Transfers :
        /\ MaxDownloads[t] # NoLimit => downloadCount[t] <= MaxDownloads[t]
        /\ issued[t] \subseteq 1..downloadCount[t]
        /\ \A w \in Requests : HoldsSlot(w, t) =>
             /\ job[w].slot \in (1..downloadCount[t]) \ issued[t]
             /\ \A v \in Requests : HoldsSlot(v, t) /\ job[v].slot = job[w].slot => v = w

Removing(t) ==
    \E w \in Workers : job[w].transfer = t /\ job[w].pc \in {"purge.files", "purge.r2", "purge.row"}

\* Absent crashes and failed calls, a completed transfer lists no file that is
\* not whole in storage, unless it is being removed or the file's row was added
\* after /complete had read the list and no later /complete has verified it.
\* So neither a half-done removal nor aborts, rollbacks and completions that
\* overlap break a file of the list, and the recipient is shown what is not
\* there only by init-multipart, which does not look at is_completed
\* (upload.routes.ts:152-165, 400-421, file.service.ts:192-217).
ListedFilesStored ==
    faults = 0 =>
        \A t \in Transfers : isCompleted[t] /\ ~Removing(t) =>
            \A f \in FilesOf(t) : r2[f] = "stored" \/ f \in late \ declared[t]

\* Absent crashes and failed calls, a listed file is charged to its uploader's
\* monthly volume once, less one for every abort-multipart that has released it
\* and not yet deleted the row; and whether it is listed or gone, it was charged
\* at most once and released by each of the requests in flight at most once.
\* With one request at a time that is "duplicate aborts no-op"
\* (upload.routes.ts:303-304); n aborts of one file that overlap each other, or
\* the rollback of its init, release it n times (upload.routes.ts:189-234, 321-349).
ReservationsMatchRows ==
    faults = 0 =>
        \A f \in Files :
            /\ fileRow[f] = "present" =>
                 reserved[f] = 1 - Cardinality({w \in Requests : At(w, "cancel.delete") /\ job[w].file = f})
            /\ fileRow[f] # "none" => reserved[f] \in (1 - Cardinality(Requests))..1

\* What the cleanup job is removing, or has in its batch, is due when it acts
\* and not only when the batch was read: rows it took as expired are expired,
\* rows it took as soft-deleted are soft-deleted, rows it took as abandoned
\* are 30 minutes old and incomplete, or were completed under its hands since
\* it read the batch, which is the one way a live transfer gets into a sweep
\* (cleanup.service.ts:7-55, file.service.ts:387-391, 488-513).
CleanerActsOnDue ==
    \A t \in OnTheList : t \in Transfers =>
        CASE stage = "expired"   -> age[t] = "expired"
          [] stage = "abandoned" -> age[t] # "fresh" /\ (isCompleted[t] => t \in overtaken)
          [] stage = "soft"      -> isDeleted[t]
          [] OTHER               -> FALSE

\* The handlers, in every interleaving, implement TransferPromise: phases only
\* move forward, no download is granted outside the live phase or above the
\* cap, and nothing brings a closed or removed transfer back.
PhaseOf(t) ==
    CASE row[t] = "none"                     -> "absent"
      [] row[t] = "deleted"                  -> "gone"
      [] row[t] = "present" /\ (isDeleted[t] \/ age[t] = "expired")      -> "closed"
      [] row[t] = "present" /\ ~(isDeleted[t] \/ age[t] = "expired")
            -> IF isCompleted[t] THEN "live" ELSE "uploading"

phase == [t \in Transfers |-> PhaseOf(t)]

Promise == INSTANCE TransferPromise WITH granted <- downloadCount

PromiseKept == Promise!Spec

\* "Only allow aborting incomplete transfers (completed ones are live)"
\* (upload.routes.ts:444): a live transfer is not removed before it expires or
\* its owner deletes it.  The code does not keep this: abortTransfer decides on
\* what it read before its awaits (file.service.ts:197-217).
LiveIsNotRemoved == [][\A t \in Transfers : phase[t] = "live" => phase'[t] # "gone"]_vars

\* A transfer that expired or was deleted by its owner is removed in the end,
\* although uploads still in flight may insert rows that make the removal
\* fail on the foreign key, and calls may fail a bounded number of times
\* (cleanup.service.ts:7-55 and 94-148).
ClosedIsPurged ==
    \A t \in Transfers : phase[t] = "closed" ~> phase[t] = "gone"

\* The cleanup job always comes back to rest, so that its re-entrancy guard
\* never blocks all later ticks (cleanup.service.ts:96-110).
SweepEnds == []<>(stage = "none")

=============================================================================
