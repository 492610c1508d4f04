----------------------- MODULE TransferLifecycleProofs -----------------------
(***************************************************************************)
(* Proofs about TransferLifecycle, for any sets of transfers, files,       *)
(* requests and users, any caps and any number of faults.                  *)
(***************************************************************************)
EXTENDS TransferLifecycle, TLAPS, FiniteSetTheorems

-----------------------------------------------------------------------------
(* Typing *)

Resting  == {"idle", "next"}
Naming   == {"init.total", "init.charge", "init.insert"}
PurgePCs == {"purge.files", "purge.r2", "purge.row"}

\* A handler past its first step has a transfer, one that goes to insert a file
\* row has the file's id, and the cleanup job only ever
\* looks for rows or removes one.
WellFormed(w, j) ==
    /\ j \in Job
    /\ j.pc \in Resting => j.transfer = NoTransfer
    /\ j.pc \notin Resting => j.transfer \in Transfers
    /\ j.pc \in Naming => j.file \in Files /\ TransferOf[j.file] = j.transfer
    /\ w = Cleaner => j.pc \in Resting \cup PurgePCs

JobsOK == job \in [Workers -> Job] /\ \A w \in Workers : WellFormed(w, job[w])

TablesOK ==
    /\ row \in [Transfers -> {"none", "present", "deleted"}]
    /\ isCompleted \in [Transfers -> BOOLEAN]
    /\ isDeleted \in [Transfers -> BOOLEAN]
    /\ downloadCount \in [Transfers -> Nat]
    /\ \A t \in Transfers : MaxDownloads[t] = NoLimit \/ downloadCount[t] <= MaxDownloads[t]
    /\ age \in [Transfers -> Ages]
    /\ fileRow \in [Files -> {"none", "present", "deleted"}]
    /\ r2 \in [Files -> {"none", "open", "short", "stored"}]
    /\ reserved \in [Files -> Int]
    /\ stage \in Stages
    /\ batch \in SUBSET Transfers
    /\ faults \in 0..MaxFaults
    /\ issued \in [Transfers -> SUBSET Nat]
    /\ declared \in [Transfers -> SUBSET Files]
    /\ late \in SUBSET Files
    /\ overtaken \in SUBSET Transfers

Typed == TablesOK /\ JobsOK

LEMMA CallOK ==
  ASSUME NEW w \in Workers, NEW pc \in PCs, NEW t \in Transfers \cup {NoTransfer},
         NEW f \in Files \cup {NoFile},
         IF pc \in Resting THEN t = NoTransfer ELSE t \in Transfers,
         pc \in Naming => f \in Files /\ TransferOf[f] = t,
         w = Cleaner => pc \in Resting \cup PurgePCs
  PROVE  WellFormed(w, Call(pc, t, f))
  BY ConstantsOK DEF WellFormed, Call, Job

LEMMA IdleOK ==
  ASSUME NEW w \in Workers
  PROVE  WellFormed(w, Idle) /\ WellFormed(w, Call("next", NoTransfer, NoFile))
  BY CallOK DEF Idle, PCs, Resting, Naming

LEMMA TypedInit == Init => Typed
<1> SUFFICES ASSUME Init PROVE Typed
  OBVIOUS
<1>1. TablesOK
  <2>1. \A t \in Transfers : MaxDownloads[t] = NoLimit \/ 0 <= MaxDownloads[t]
    BY ConstantsOK
  <2> QED  BY <2>1, ConstantsOK DEF Init, TablesOK, Ages, Stages
<1>2. JobsOK
  BY IdleOK DEF Init, JobsOK, WellFormed
<1> QED  BY <1>1, <1>2 DEF Typed

\* The ways a step changes the local state of one worker.
LEMMA JobSet ==
  ASSUME JobsOK, NEW w \in Workers, NEW j, WellFormed(w, j), job' = [job EXCEPT ![w] = j]
  PROVE  JobsOK'
  BY DEF JobsOK, WellFormed

-----------------------------------------------------------------------------
(* A step of a handler or of a removal replaces one worker's local state,   *)
(* and only the claim puts it where a URL is signed.                        *)

Replaces(w, j) ==
    /\ WellFormed(w, j)
    /\ job' = [job EXCEPT ![w] = j]
    /\ j.pc = "url.sign" => ClaimDownloadSlot(w)

Local(w) == \E j : Replaces(w, j)

LEMMA LocalTyped ==
  ASSUME JobsOK, NEW w \in Workers, Local(w)
  PROVE  JobsOK'
  BY JobSet DEF Local, Replaces

LEMMA LocalFinish ==
  ASSUME NEW w \in Workers, Finish(w)
  PROVE  Local(w)
<1>1. CASE w = Cleaner
  <2>1. Replaces(w, Call("next", NoTransfer, NoFile))
    BY <1>1, IdleOK DEF Replaces, Finish, Call
  <2> QED  BY <2>1 DEF Local
<1>2. CASE w # Cleaner
  <2>1. Replaces(w, Idle)
    BY <1>2, IdleOK DEF Replaces, Finish, Idle, Call
  <2> QED  BY <2>1 DEF Local
<1> QED  BY <1>1, <1>2

LEMMA LocalGoto ==
  ASSUME JobsOK, NEW w \in Workers, NEW pc \in PCs \ (Resting \cup {"url.sign"}),
         job[w].pc \notin Resting, pc \in Naming => job[w].pc \in Naming,
         w = Cleaner => pc \in PurgePCs, Goto(w, pc)
  PROVE  Local(w)
<1> DEFINE j == [job[w] EXCEPT !.pc = pc]
<1>1. WellFormed(w, j) /\ j.pc # "url.sign"
  BY DEF JobsOK, WellFormed, Job, Naming
<1>2. job' = [job EXCEPT ![w] = j]
  BY DEF Goto
<1> HIDE DEF j
<1> QED  BY <1>1, <1>2 DEF Local, Replaces

LEMMA LocalBegin ==
  ASSUME NEW w \in Requests, NEW pc \in PCs \ (Resting \cup {"url.sign"}),
         NEW t \in Transfers, NEW f \in Files \cup {NoFile}, pc \in Naming => f \in Files /\ TransferOf[f] = t,
         job' = [job EXCEPT ![w] = Call(pc, t, f)]
  PROVE  Local(w)
<1>1. w \in Workers /\ w # Cleaner
  BY ConstantsOK DEF Workers
<1>2. WellFormed(w, Call(pc, t, f))
  BY <1>1, CallOK
<1>3. Call(pc, t, f).pc = pc
  BY DEF Call
<1> QED  BY <1>2, <1>3 DEF Local, Replaces

LEMMA UploadIsLocal ==
  ASSUME JobsOK, NEW w \in Requests, Upload(w)
  PROVE  Local(w)
<1>w. w \in Workers /\ w # Cleaner
  BY ConstantsOK DEF Workers
<1>1. ASSUME NEW f \in Files, NEW me \in Callers, InitMultipart(w, f, me)
      PROVE  Local(w)
  BY <1>1, LocalBegin, ConstantsOK DEF InitMultipart, PCs, Resting, Naming
<1>2. ASSUME NEW f \in Files, NEW me \in Callers, CompleteMultipart(w, f, me)
      PROVE  Local(w)
  BY <1>2, LocalBegin, ConstantsOK DEF CompleteMultipart, BeginOnFile, PCs, Resting, Naming
<1>3. ASSUME NEW f \in Files, NEW me \in Callers, AbortMultipart(w, f, me)
      PROVE  Local(w)
  BY <1>3, LocalBegin, ConstantsOK DEF AbortMultipart, BeginOnFile, PCs, Resting, Naming
<1>4. CASE CheckTotalSize(w)
  BY <1>4, <1>w, LocalGoto, LocalFinish DEF CheckTotalSize, At, PCs, Resting, Naming
<1>5. CASE ChargeVolume(w)
  BY <1>5, <1>w, LocalGoto, LocalFinish DEF ChargeVolume, At, PCs, Resting, Naming
<1>6. CASE CreateFile(w)
  BY <1>6, <1>w, LocalGoto, LocalFinish DEF CreateFile, At, PCs, Resting, Naming
<1>7. CASE OpenUpload(w)
  BY <1>7, <1>w, LocalGoto, LocalFinish DEF OpenUpload, At, PCs, Resting, Naming
<1>8. CASE UndoCreateFile(w)
  BY <1>8, <1>w, LocalGoto, LocalFinish DEF UndoCreateFile, At, PCs, Resting, Naming
<1>9. CASE ReleaseVolume(w)
  BY <1>9, <1>w, LocalGoto, LocalFinish DEF ReleaseVolume, At, PCs, Resting, Naming
<1>10. CASE ReadFile(w)
  BY <1>10, <1>w, LocalGoto, LocalFinish DEF ReadFile, At, PCs, Resting, Naming
<1>11. CASE StitchUpload(w)
  BY <1>11, <1>w, LocalFinish DEF StitchUpload
<1>12. CASE AbortUpload(w)
  BY <1>12, <1>w, LocalGoto DEF AbortUpload, At, PCs, Resting, Naming
<1>13. CASE DeleteFile(w)
  BY <1>13, <1>w, LocalFinish DEF DeleteFile
<1> QED
  BY <1>1, <1>2, <1>3, <1>4, <1>5, <1>6, <1>7, <1>8, <1>9, <1>10, <1>11, <1>12, <1>13 DEF Upload

LEMMA CompleteIsLocal ==
  ASSUME JobsOK, NEW w \in Requests, Complete(w)
  PROVE  Local(w)
<1>w. w \in Workers /\ w # Cleaner
  BY ConstantsOK DEF Workers
<1>1. ASSUME NEW t \in Transfers, NEW me \in Callers, CompleteTransfer(w, t, me)
      PROVE  Local(w)
  BY <1>1, LocalBegin DEF CompleteTransfer, PCs, Resting, Naming
<1>2. ASSUME NEW t \in Transfers, NEW me \in Callers, AbortTransfer(w, t, me)
      PROVE  Local(w)
  BY <1>2, LocalBegin DEF AbortTransfer, PCs, Resting, Naming
<1>3. CASE ListFiles(w)
  <2>1. CASE Finish(w)
    BY <2>1, <1>w, LocalFinish
  <2>2. CASE job' = [job EXCEPT ![w].pc = "complete.head",
                                ![w].todo = FilesOf(job[w].transfer),
                                ![w].seen = FilesOf(job[w].transfer)]
    <3> DEFINE j == [job[w] EXCEPT !.pc = "complete.head",
                                   !.todo = FilesOf(job[w].transfer),
                                   !.seen = FilesOf(job[w].transfer)]
    <3>1. FilesOf(job[w].transfer) \in SUBSET Files
      BY DEF FilesOf
    <3>2. WellFormed(w, j) /\ j.pc # "url.sign"
      BY <1>3, <1>w, <3>1 DEF ListFiles, At, JobsOK, WellFormed, Job, PCs, Resting, Naming
    <3>3. job' = [job EXCEPT ![w] = j]
      BY <2>2, <1>w DEF JobsOK
    <3> HIDE DEF j
    <3> QED  BY <3>2, <3>3 DEF Local, Replaces
  <2> QED  BY <1>3, <2>1, <2>2 DEF ListFiles
<1>4. CASE HeadObject(w)
  <2>1. CASE Finish(w)
    BY <2>1, <1>w, LocalFinish
  <2>2. ASSUME NEW f \in Files, job' = [job EXCEPT ![w].todo = @ \ {f}]
        PROVE  Local(w)
    <3> DEFINE j == [job[w] EXCEPT !.todo = @ \ {f}]
    <3>1. WellFormed(w, j) /\ j.pc # "url.sign"
      BY <1>4, <1>w DEF HeadObject, At, JobsOK, WellFormed, Job, PCs, Resting, Naming
    <3>2. job' = [job EXCEPT ![w] = j]
      BY <2>2
    <3> HIDE DEF j
    <3> QED  BY <3>1, <3>2 DEF Local, Replaces
  <2>3. job[w].todo \subseteq Files
    BY <1>w DEF JobsOK, WellFormed, Job
  <2> QED  BY <1>4, <2>1, <2>2, <2>3 DEF HeadObject
<1>5. CASE MarkCompleted(w)
  BY <1>5, <1>w, LocalFinish DEF MarkCompleted
<1> QED  BY <1>1, <1>2, <1>3, <1>4, <1>5 DEF Complete

LEMMA DownloadIsLocal ==
  ASSUME TablesOK, JobsOK, NEW w \in Requests, Download(w)
  PROVE  Local(w)
<1>w. w \in Workers /\ w # Cleaner
  BY ConstantsOK DEF Workers
<1>1. ASSUME NEW f \in Files, RequestUrl(w, f)
      PROVE  Local(w)
  BY <1>1, LocalBegin, ConstantsOK DEF RequestUrl, PCs, Resting, Naming
<1>2. CASE ClaimDownloadSlot(w)
  <2> DEFINE t == job[w].transfer
             j == [job[w] EXCEPT !.pc = "url.sign", !.slot = downloadCount[t] + 1]
  <2>1. CASE Finish(w)
    BY <2>1, <1>w, LocalFinish
  <2>2. CASE job' = [job EXCEPT ![w].pc = "url.sign", ![w].slot = downloadCount[t] + 1]
    <3>1. t \in Transfers
      BY <1>2, <1>w DEF ClaimDownloadSlot, At, JobsOK, WellFormed, Resting
    <3>2. downloadCount[t] + 1 \in Nat
      BY <3>1 DEF TablesOK
    <3>3. WellFormed(w, j)
      BY <1>2, <1>w, <3>2 DEF ClaimDownloadSlot, At, JobsOK, WellFormed, Job, PCs, Resting, Naming
    <3>4. job' = [job EXCEPT ![w] = j]
      BY <2>2
    <3> HIDE DEF j
    <3> QED  BY <1>2, <3>3, <3>4 DEF Local, Replaces
  <2> QED  BY <1>2, <2>1, <2>2 DEF ClaimDownloadSlot
<1>3. CASE IssueUrl(w)
  BY <1>3, <1>w, LocalFinish DEF IssueUrl
<1> QED  BY <1>1, <1>2, <1>3 DEF Download

LEMMA PurgeIsLocal ==
  ASSUME JobsOK, NEW w \in Workers, Purge(w)
  PROVE  Local(w)
<1>1. CASE PurgeList(w)
  <2> DEFINE found == FilesOf(job[w].transfer)
             j == [job[w] EXCEPT !.pc = "purge.r2", !.todo = found]
  <2>1. found \in SUBSET Files
    BY DEF FilesOf
  <2>2. job[w] \in Job /\ job[w].pc = "purge.files" /\ job[w].transfer \in Transfers
    BY <1>1 DEF PurgeList, At, JobsOK, WellFormed, Resting
  <2>3. job' = [job EXCEPT ![w] = j]
    BY <1>1 DEF PurgeList
  <2> HIDE DEF found
  <2>4. j \in Job /\ j.pc = "purge.r2" /\ j.transfer = job[w].transfer
    BY <2>1, <2>2 DEF Job, PCs
  <2> HIDE DEF j
  <2>5. WellFormed(w, j) /\ j.pc # "url.sign"
    BY <2>2, <2>4 DEF WellFormed, Resting, Naming, PurgePCs
  <2> QED  BY <2>3, <2>5 DEF Local, Replaces
<1>2. CASE PurgeObject(w)
  <2>1. PICK f \in job[w].todo : job' = [job EXCEPT ![w].todo = @ \ {f}]
    BY <1>2 DEF PurgeObject
  <2> DEFINE j == [job[w] EXCEPT !.todo = @ \ {f}]
  <2>2. WellFormed(w, j) /\ j.pc # "url.sign"
    BY <1>2 DEF PurgeObject, At, JobsOK, WellFormed, Job, PCs, Resting, Naming, PurgePCs
  <2>3. job' = [job EXCEPT ![w] = j]
    BY <2>1
  <2> HIDE DEF j
  <2> QED  BY <2>2, <2>3 DEF Local, Replaces
<1>3. CASE PurgeFileRows(w)
  BY <1>3, LocalGoto DEF PurgeFileRows, At, PCs, Resting, Naming, PurgePCs
<1>4. CASE PurgeRow(w)
  BY <1>4, LocalFinish DEF PurgeRow
<1> QED  BY <1>1, <1>2, <1>3, <1>4 DEF Purge

-----------------------------------------------------------------------------
(* The tables keep their types. *)

LEMMA JobFields ==
  ASSUME JobsOK, NEW w \in Workers
  PROVE  /\ job[w].seen \in SUBSET Files
         /\ job[w].slot \in Nat
         /\ job[w].pc \notin Resting => job[w].transfer \in Transfers
  BY DEF JobsOK, WellFormed, Job

LEMMA UploadTables ==
  ASSUME TablesOK, JobsOK, NEW w \in Requests, Upload(w)
  PROVE  TablesOK'
<1> USE DEF TablesOK, Ages, Stages, transferVars, fileVars, sweepVars, history
<1>1. ASSUME NEW f \in Files, NEW me \in Callers, InitMultipart(w, f, me)
      PROVE  TablesOK'
  BY <1>1 DEF InitMultipart
<1>2. ASSUME NEW f \in Files, NEW me \in Callers, CompleteMultipart(w, f, me)
      PROVE  TablesOK'
  BY <1>2 DEF CompleteMultipart, BeginOnFile
<1>3. ASSUME NEW f \in Files, NEW me \in Callers, AbortMultipart(w, f, me)
      PROVE  TablesOK'
  BY <1>3 DEF AbortMultipart, BeginOnFile
<1>4. CASE CheckTotalSize(w)
  BY <1>4 DEF CheckTotalSize
<1>5. CASE ChargeVolume(w)
  BY <1>5 DEF ChargeVolume
<1>6. CASE CreateFile(w)
  <2>1. job[w].file \in Files
    BY <1>6 DEF CreateFile, At, Workers, JobsOK, WellFormed, Naming
  <2> QED  BY <1>6, <2>1 DEF CreateFile
<1>7. CASE OpenUpload(w)
  BY <1>7 DEF OpenUpload
<1>8. CASE UndoCreateFile(w)
  BY <1>8 DEF UndoCreateFile, DeleteFileRow
<1>9. CASE ReleaseVolume(w)
  <2>1. reserved' = [reserved EXCEPT ![job[w].file] = @ - 1]
    BY <1>9 DEF ReleaseVolume
  <2>2. reserved \in [Files -> Int]
    OBVIOUS
  <2>3. reserved' \in [Files -> Int]
    <3> HIDE DEF TablesOK
    <3>1. CASE job[w].file \in Files
      <4>1. reserved[job[w].file] - 1 \in Int
        BY <2>2, <3>1
      <4> QED  BY <2>1, <2>2, <4>1
    <3>2. CASE job[w].file \notin Files
      BY <2>1, <2>2, <3>2
    <3> QED  BY <3>1, <3>2
  <2>4. UNCHANGED <<transferVars, age, fileRow, r2, sweepVars, faults, history>>
    BY <1>9 DEF ReleaseVolume
  <2> QED  BY <2>3, <2>4
<1>10. CASE ReadFile(w)
  BY <1>10 DEF ReadFile
<1>11. CASE StitchUpload(w)
  BY <1>11 DEF StitchUpload
<1>12. CASE AbortUpload(w)
  BY <1>12 DEF AbortUpload
<1>13. CASE DeleteFile(w)
  BY <1>13 DEF DeleteFile, DeleteFileRow
<1> HIDE DEF TablesOK, Ages, Stages, transferVars, fileVars, sweepVars, history
<1> QED  BY <1>1, <1>2, <1>3, <1>4, <1>5, <1>6, <1>7, <1>8, <1>9, <1>10, <1>11, <1>12, <1>13 DEF Upload

LEMMA CompleteTables ==
  ASSUME TablesOK, JobsOK, NEW w \in Requests, Complete(w)
  PROVE  TablesOK'
<1> USE DEF TablesOK, Ages, Stages, transferVars, fileVars, sweepVars, history
<1>1. ASSUME NEW t \in Transfers, NEW me \in Callers, CompleteTransfer(w, t, me)
      PROVE  TablesOK'
  BY <1>1 DEF CompleteTransfer
<1>2. ASSUME NEW t \in Transfers, NEW me \in Callers, AbortTransfer(w, t, me)
      PROVE  TablesOK'
  BY <1>2 DEF AbortTransfer
<1>3. CASE ListFiles(w)
  BY <1>3 DEF ListFiles
<1>4. CASE HeadObject(w)
  BY <1>4 DEF HeadObject
<1>5. CASE MarkCompleted(w)
  <2>1. job[w].seen \in SUBSET Files
    BY JobFields DEF Workers
  <2>2. CASE row[job[w].transfer] = "present"
    <3>1. isCompleted' = [isCompleted EXCEPT ![job[w].transfer] = TRUE]
      BY <1>5, <2>2 DEF MarkCompleted
    <3>2. declared' = [declared EXCEPT ![job[w].transfer] = @ \cup job[w].seen]
      BY <1>5, <2>2 DEF MarkCompleted
    <3>3. isCompleted' \in [Transfers -> BOOLEAN] /\ declared' \in [Transfers -> SUBSET Files]
      BY <2>1, <3>1, <3>2
    <3>4. overtaken' \in SUBSET Transfers
      <4>1. job[w].transfer \in Transfers
        BY <1>5, JobFields DEF MarkCompleted, At, Workers, Resting
      <4> QED  BY <1>5, <2>2, <4>1 DEF MarkCompleted
    <3> QED  BY <1>5, <3>3, <3>4 DEF MarkCompleted
  <2>3. CASE row[job[w].transfer] # "present"
    BY <1>5, <2>3 DEF MarkCompleted
  <2> QED  BY <2>2, <2>3
<1> HIDE DEF TablesOK, Ages, Stages, transferVars, fileVars, sweepVars, history
<1> QED  BY <1>1, <1>2, <1>3, <1>4, <1>5 DEF Complete

LEMMA DownloadTables ==
  ASSUME TablesOK, JobsOK, NEW w \in Requests, Download(w)
  PROVE  TablesOK'
<1> USE DEF TablesOK, Ages, Stages, transferVars, fileVars, sweepVars, history
<1>1. ASSUME NEW f \in Files, RequestUrl(w, f)
      PROVE  TablesOK'
  BY <1>1 DEF RequestUrl
<1>2. CASE ClaimDownloadSlot(w)
  <2>1. CASE Downloadable(job[w].transfer)
    <3>1. PICK t \in Transfers : t = job[w].transfer
      BY <1>2, JobFields DEF ClaimDownloadSlot, At, Workers, Resting
    <3>2. downloadCount' = [downloadCount EXCEPT ![t] = @ + 1]
      BY <1>2, <2>1, <3>1 DEF ClaimDownloadSlot
    <3>3. MaxDownloads[t] = NoLimit \/ downloadCount[t] + 1 <= MaxDownloads[t]
      BY <2>1, <3>1, ConstantsOK DEF Downloadable, BelowCap
    <3> QED  BY <1>2, <3>2, <3>3 DEF ClaimDownloadSlot
  <2>2. CASE ~Downloadable(job[w].transfer)
    BY <1>2, <2>2 DEF ClaimDownloadSlot
  <2> QED  BY <2>1, <2>2
<1>3. CASE IssueUrl(w)
  <2>1. job[w].slot \in Nat
    BY JobFields DEF Workers
  <2> QED  BY <1>3, <2>1 DEF IssueUrl
<1> HIDE DEF TablesOK, Ages, Stages, transferVars, fileVars, sweepVars, history
<1> QED  BY <1>1, <1>2, <1>3 DEF Download

LEMMA PurgeTables ==
  ASSUME TablesOK, JobsOK, NEW w \in Workers, Purge(w)
  PROVE  TablesOK'
<1> USE DEF TablesOK, Ages, Stages, transferVars, fileVars, sweepVars, history
<1>1. CASE PurgeList(w)
  BY <1>1 DEF PurgeList
<1>2. CASE PurgeObject(w)
  BY <1>2 DEF PurgeObject
<1>3. CASE PurgeFileRows(w)
  BY <1>3 DEF PurgeFileRows
<1>4. CASE PurgeRow(w)
  BY <1>4 DEF PurgeRow
<1> HIDE DEF TablesOK, Ages, Stages, transferVars, fileVars, sweepVars, history
<1> QED  BY <1>1, <1>2, <1>3, <1>4 DEF Purge

LEMMA DueIsTransfers ==
  ASSUME NEW s
  PROVE  Due(s) \in SUBSET Transfers
  BY DEF Due

\* What the steps that are not a request's or a removal's do.
LEMMA OtherTables ==
  ASSUME TablesOK, JobsOK,
         \/ \E t \in Transfers : CreateTransfer(t) \/ Age(t) \/ TakeCandidate(t)
         \/ \E t \in Transfers, me \in Callers : SoftDelete(t, me)
         \/ StartCleanup \/ NextStage
         \/ \E w \in Workers : CallFails(w)
         \/ SweepFails \/ Crash
  PROVE  TablesOK'
<1> USE ConstantsOK DEF TablesOK, Ages, Stages, transferVars, fileVars, sweepVars, history
<1>1. ASSUME NEW t \in Transfers, CreateTransfer(t)
      PROVE  TablesOK'
  BY <1>1 DEF CreateTransfer
<1>2. ASSUME NEW t \in Transfers, Age(t)
      PROVE  TablesOK'
  BY <1>2 DEF Age
<1>3. ASSUME NEW t \in Transfers, TakeCandidate(t)
      PROVE  TablesOK'
  BY <1>3 DEF TakeCandidate
<1>4. ASSUME NEW t \in Transfers, NEW me \in Callers, SoftDelete(t, me)
      PROVE  TablesOK'
  BY <1>4 DEF SoftDelete
<1>5. CASE StartCleanup
  BY <1>5, DueIsTransfers DEF StartCleanup
<1>6. CASE NextStage
  BY <1>6, DueIsTransfers DEF NextStage, StageAfter
<1>7. ASSUME NEW w \in Workers, CallFails(w)
      PROVE  TablesOK'
  BY <1>7 DEF CallFails
<1>8. CASE SweepFails
  BY <1>8 DEF SweepFails
<1>9. CASE Crash
  BY <1>9 DEF Crash
<1> HIDE DEF TablesOK, Ages, Stages, transferVars, fileVars, sweepVars, history
<1> QED  BY <1>1, <1>2, <1>3, <1>4, <1>5, <1>6, <1>7, <1>8, <1>9

LEMMA OtherJobs ==
  ASSUME TablesOK, JobsOK,
         \/ \E t \in Transfers : CreateTransfer(t) \/ Age(t) \/ TakeCandidate(t)
         \/ \E t \in Transfers, me \in Callers : SoftDelete(t, me)
         \/ StartCleanup \/ NextStage
         \/ \E w \in Workers : CallFails(w)
         \/ SweepFails \/ Crash
  PROVE  /\ JobsOK'
         /\ \A w \in Workers : job'[w].pc = "url.sign" => job'[w] = job[w]
<1> DEFINE Goal == /\ JobsOK'
                   /\ \A w \in Workers : job'[w].pc = "url.sign" => job'[w] = job[w]
<1>c. Cleaner \in Workers
  BY DEF Workers
<1>i. Idle.pc = "idle" /\ \A t, f : Call("next", t, f).pc = "next" /\ Call("purge.files", t, f).pc = "purge.files"
  BY DEF Idle, Call
<1>u. ASSUME UNCHANGED job PROVE Goal
  BY <1>u DEF JobsOK, WellFormed
<1>s. ASSUME NEW w \in Workers, NEW j, WellFormed(w, j), j.pc # "url.sign", job' = [job EXCEPT ![w] = j]
      PROVE  Goal
  <2>1. JobsOK'
    BY <1>s, JobSet
  <2>2. \A v \in Workers : job'[v] = IF v = w THEN j ELSE job[v]
    BY <1>s DEF JobsOK
  <2> QED  BY <1>s, <2>1, <2>2
<1> SUFFICES Goal
  OBVIOUS
<1> HIDE DEF Goal
<1>1. ASSUME NEW t \in Transfers, CreateTransfer(t) \/ Age(t)
      PROVE  Goal
  BY <1>1, <1>u DEF CreateTransfer, Age
<1>3. ASSUME NEW t \in Transfers, TakeCandidate(t)
      PROVE  Goal
  <2>1. WellFormed(Cleaner, Call("purge.files", t, NoFile))
    BY <1>c, CallOK DEF PCs, Resting, Naming, PurgePCs
  <2> QED  BY <1>3, <1>c, <1>i, <1>s, <2>1 DEF TakeCandidate
<1>4. ASSUME NEW t \in Transfers, NEW me \in Callers, SoftDelete(t, me)
      PROVE  Goal
  BY <1>4, <1>u DEF SoftDelete
<1>5. CASE StartCleanup
  BY <1>5, <1>c, <1>i, <1>s, IdleOK DEF StartCleanup
<1>6. CASE NextStage
  BY <1>6, <1>c, <1>i, <1>s, <1>u, IdleOK DEF NextStage
<1>7. ASSUME NEW w \in Workers, CallFails(w)
      PROVE  Goal
  <2>1. CASE w = Cleaner
    BY <1>7, <2>1, <1>i, <1>s, IdleOK DEF CallFails, Finish
  <2>2. CASE w # Cleaner
    BY <1>7, <2>2, <1>i, <1>s, IdleOK DEF CallFails, Finish
  <2> QED  BY <2>1, <2>2
<1>8. CASE SweepFails
  BY <1>8, <1>c, <1>i, <1>s, IdleOK DEF SweepFails
<1>9. CASE Crash
  <2>1. job' = [w \in Workers |-> Idle]
    BY <1>9 DEF Crash
  <2>2. \A w \in Workers : job'[w] = Idle
    BY <2>1
  <2>3. JobsOK'
    BY <2>1, <2>2, IdleOK DEF JobsOK, WellFormed
  <2> QED  BY <2>2, <2>3, <1>i DEF Goal
<1> QED  BY <1>1, <1>3, <1>4, <1>5, <1>6, <1>7, <1>8, <1>9

-----------------------------------------------------------------------------
(* Type correctness *)

RequestStep(w) == Upload(w) \/ Complete(w) \/ Download(w) \/ Purge(w)

OtherStep ==
    \/ \E t \in Transfers : CreateTransfer(t) \/ Age(t) \/ TakeCandidate(t)
    \/ \E t \in Transfers, me \in Callers : SoftDelete(t, me)
    \/ StartCleanup \/ NextStage
    \/ \E w \in Workers : CallFails(w)
    \/ SweepFails \/ Crash

LEMMA NextCases ==
  ASSUME Next
  PROVE  \/ \E w \in Requests : RequestStep(w)
         \/ Purge(Cleaner)
         \/ OtherStep
  BY DEF Next, Cleanup, RequestStep, OtherStep

LEMMA RequestIsLocal ==
  ASSUME TablesOK, JobsOK, NEW w \in Requests, RequestStep(w)
  PROVE  Local(w)
  BY UploadIsLocal, CompleteIsLocal, DownloadIsLocal, PurgeIsLocal DEF RequestStep, Workers

LEMMA TypedStep == Typed /\ [Next]_vars => Typed'
<1> SUFFICES ASSUME TablesOK, JobsOK, [Next]_vars
             PROVE  TablesOK' /\ JobsOK'
  BY DEF Typed
<1>1. ASSUME NEW w \in Requests, RequestStep(w)
      PROVE  TablesOK' /\ JobsOK'
  <2>1. w \in Workers
    BY DEF Workers
  <2>2. JobsOK'
    BY <1>1, <2>1, RequestIsLocal, LocalTyped
  <2>3. TablesOK'
    BY <1>1, <2>1, UploadTables, CompleteTables, DownloadTables, PurgeTables DEF RequestStep
  <2> QED  BY <2>2, <2>3
<1>2. CASE Purge(Cleaner)
  <2>1. Cleaner \in Workers
    BY DEF Workers
  <2> QED  BY <1>2, <2>1, PurgeIsLocal, LocalTyped, PurgeTables
<1>3. CASE OtherStep
  BY <1>3, OtherTables, OtherJobs DEF OtherStep
<1>4. CASE UNCHANGED vars
  <2>1. TablesOK'
    BY <1>4 DEF vars, TablesOK, transferVars, fileVars, sweepVars, history
  <2>2. JobsOK'
    BY <1>4 DEF vars, JobsOK, WellFormed
  <2> QED  BY <2>1, <2>2
<1> QED  BY <1>1, <1>2, <1>3, <1>4, NextCases

THEOREM Typing == Spec => []Typed
<1>1. Init => Typed
  BY TypedInit
<1>2. Typed /\ [Next]_vars => Typed'
  BY TypedStep
<1> QED  BY <1>1, <1>2, PTL DEF Spec

\* Every variable keeps its type, and every worker's local state is a well
\* formed one, whatever the instance.
THEOREM TypeCorrect == Spec => []TypeOK
<1>1. Typed => TypeOK
  BY DEF Typed, TablesOK, JobsOK, TypeOK
<1> QED  BY <1>1, Typing, PTL

-----------------------------------------------------------------------------
(* Slots *)

LEMMA RequestEffects ==
  ASSUME NEW w \in Workers, RequestStep(w)
  PROVE  /\ UNCHANGED <<isDeleted, age, stage, batch>>
         /\ UNCHANGED <<downloadCount, issued>> \/ ClaimDownloadSlot(w) \/ IssueUrl(w)
         /\ UNCHANGED <<isCompleted, overtaken>> \/ MarkCompleted(w)
<1> USE DEF transferVars, sweepVars, history
<1>1. CASE Upload(w)
  BY <1>1 DEF Upload, InitMultipart, CompleteMultipart, AbortMultipart, BeginOnFile,
              CheckTotalSize, ChargeVolume, CreateFile, OpenUpload, UndoCreateFile,
              ReleaseVolume, ReadFile, StitchUpload, AbortUpload, DeleteFile
<1>2. CASE Complete(w)
  BY <1>2 DEF Complete, CompleteTransfer, AbortTransfer, ListFiles, HeadObject, MarkCompleted
<1>3. CASE Download(w)
  BY <1>3 DEF Download, RequestUrl, ClaimDownloadSlot, IssueUrl
<1>4. CASE Purge(w)
  BY <1>4 DEF Purge, PurgeList, PurgeObject, PurgeFileRows, PurgeRow
<1> QED  BY <1>1, <1>2, <1>3, <1>4 DEF RequestStep

LEMMA OtherEffects ==
  ASSUME OtherStep
  PROVE  UNCHANGED <<downloadCount, issued>>
  BY DEF OtherStep, CreateTransfer, Age, TakeCandidate, SoftDelete, StartCleanup, NextStage,
         CallFails, SweepFails, Crash, transferVars, history

LEMMA SlotsKept ==
  ASSUME SlotsAreExclusive, UNCHANGED <<downloadCount, issued>>,
         \A w \in Requests : job'[w].pc = "url.sign" => job'[w] = job[w]
  PROVE  SlotsAreExclusive'
  BY DEF SlotsAreExclusive, HoldsSlot, At

LEMMA SlotClaimed ==
  ASSUME Typed, SlotsAreExclusive, NEW w \in Requests, ClaimDownloadSlot(w), Local(w)
  PROVE  SlotsAreExclusive'
<1>w. w \in Workers /\ job[w].transfer \in Transfers /\ At(w, "url.claim")
  BY JobFields DEF Typed, ClaimDownloadSlot, At, Workers, Resting
<1>1. PICK t \in Transfers : t = job[w].transfer
  BY <1>w
<1>2. UNCHANGED issued
  BY DEF ClaimDownloadSlot, history
<1>3. CASE Downloadable(t)
  <2>1. downloadCount' = [downloadCount EXCEPT ![t] = @ + 1]
    BY <1>1, <1>3 DEF ClaimDownloadSlot
  <2>2. job' = [job EXCEPT ![w].pc = "url.sign", ![w].slot = downloadCount[t] + 1]
    BY <1>1, <1>3 DEF ClaimDownloadSlot
  <2>3. /\ job'[w].pc = "url.sign" /\ job'[w].transfer = t
        /\ job'[w].slot = downloadCount[t] + 1
        /\ \A v \in Requests \ {w} : job'[v] = job[v]
    BY <1>w, <1>1, <2>2 DEF Typed, JobsOK, Job, Workers
  <2>4. /\ downloadCount[t] \in Nat /\ downloadCount'[t] = downloadCount[t] + 1
        /\ \A u \in Transfers \ {t} : downloadCount'[u] = downloadCount[u]
    BY <1>1, <2>1 DEF Typed, TablesOK
  <2>5. MaxDownloads[t] # NoLimit => downloadCount'[t] <= MaxDownloads[t]
    <3>1. MaxDownloads[t] # NoLimit => MaxDownloads[t] \in Nat /\ downloadCount[t] < MaxDownloads[t]
      BY <1>1, <1>3, ConstantsOK DEF Downloadable, BelowCap
    <3> QED  BY <2>4, <3>1
  <2> SUFFICES ASSUME NEW u \in Transfers
               PROVE  /\ MaxDownloads[u] # NoLimit => downloadCount'[u] <= MaxDownloads[u]
                      /\ issued'[u] \subseteq 1..downloadCount'[u]
                      /\ \A x \in Requests : HoldsSlot(x, u)' =>
                           /\ job'[x].slot \in (1..downloadCount'[u]) \ issued'[u]
                           /\ \A v \in Requests : HoldsSlot(v, u)' /\ job'[v].slot = job'[x].slot => v = x
    BY DEF SlotsAreExclusive
  <2>6. CASE u # t
    BY <1>2, <2>3, <2>4, <2>6 DEF SlotsAreExclusive, HoldsSlot, At
  <2>7. CASE u = t
    <3>1. /\ issued[t] \subseteq 1..downloadCount[t]
          /\ \A x \in Requests : HoldsSlot(x, t) => job[x].slot \in (1..downloadCount[t]) \ issued[t]
          /\ \A x, v \in Requests : HoldsSlot(x, t) /\ HoldsSlot(v, t) /\ job[v].slot = job[x].slot => v = x
      BY <1>1 DEF SlotsAreExclusive
    <3>2. 1..downloadCount[t] \subseteq 1..downloadCount'[t] /\ downloadCount[t] + 1 \in 1..downloadCount'[t]
      BY <2>4
    <3>3. downloadCount[t] + 1 \notin 1..downloadCount[t]
      BY <2>4
    <3>4. \A x \in Requests \ {w} : HoldsSlot(x, t)' => HoldsSlot(x, t) /\ job'[x].slot = job[x].slot
      BY <2>3 DEF HoldsSlot, At
    <3> QED  BY <1>1, <1>2, <2>3, <2>5, <2>7, <3>1, <3>2, <3>3, <3>4
  <2> QED  BY <2>6, <2>7
<1>4. CASE ~Downloadable(t)
  <2>1. UNCHANGED downloadCount /\ Finish(w)
    BY <1>1, <1>4 DEF ClaimDownloadSlot
  <2>2. job'[w].pc # "url.sign" /\ \A v \in Requests \ {w} : job'[v] = job[v]
    BY <1>w, <2>1 DEF Finish, Idle, Call, Typed, JobsOK, Workers
  <2> QED  BY <1>2, <2>1, <2>2, SlotsKept
<1> QED  BY <1>3, <1>4

LEMMA SlotIssued ==
  ASSUME Typed, SlotsAreExclusive, NEW w \in Requests, IssueUrl(w)
  PROVE  SlotsAreExclusive'
<1>w. w \in Workers /\ job[w].transfer \in Transfers /\ At(w, "url.sign")
  BY JobFields DEF Typed, IssueUrl, At, Workers, Resting
<1>1. PICK t \in Transfers : t = job[w].transfer
  BY <1>w
<1>2. UNCHANGED downloadCount
  BY DEF IssueUrl, transferVars
<1>3. job'[w].pc # "url.sign" /\ \A v \in Requests \ {w} : job'[v] = job[v]
  BY <1>w DEF IssueUrl, Finish, Idle, Call, Typed, JobsOK, Workers
<1>4. CASE UNCHANGED issued
  BY <1>2, <1>3, <1>4, SlotsKept
<1>5. CASE issued' = [issued EXCEPT ![t] = @ \cup {job[w].slot}]
  <2>1. issued'[t] = issued[t] \cup {job[w].slot} /\ \A u \in Transfers \ {t} : issued'[u] = issued[u]
    BY <1>1, <1>5 DEF Typed, TablesOK
  <2>2. \A x \in Requests, u \in Transfers : HoldsSlot(x, u)' => HoldsSlot(x, u) /\ job'[x] = job[x] /\ x # w
    BY <1>3 DEF HoldsSlot, At
  <2> QED  BY <1>w, <1>1, <1>2, <2>1, <2>2 DEF SlotsAreExclusive, HoldsSlot
<1> QED  BY <1>1, <1>4, <1>5 DEF IssueUrl

LEMMA SlotsStep == Typed /\ SlotsAreExclusive /\ [Next]_vars => SlotsAreExclusive'
<1> SUFFICES ASSUME Typed, SlotsAreExclusive, [Next]_vars
             PROVE  SlotsAreExclusive'
  OBVIOUS
<1>t. TablesOK /\ JobsOK
  BY DEF Typed
<1>1. ASSUME NEW w \in Workers, RequestStep(w), Local(w), ~ClaimDownloadSlot(w), ~IssueUrl(w)
      PROVE  SlotsAreExclusive'
  <2>1. UNCHANGED <<downloadCount, issued>>
    BY <1>1, RequestEffects
  <2>2. PICK j : Replaces(w, j)
    BY <1>1 DEF Local
  <2>3. \A v \in Workers : job'[v] = IF v = w THEN j ELSE job[v]
    BY <1>t, <2>2 DEF Replaces, JobsOK
  <2>4. j.pc # "url.sign"
    BY <1>1, <2>2 DEF Replaces
  <2> QED  BY <2>1, <2>3, <2>4, SlotsKept DEF Workers
<1>2. ASSUME NEW w \in Requests, RequestStep(w)
      PROVE  SlotsAreExclusive'
  <2>1. Local(w)
    BY <1>2, <1>t, RequestIsLocal
  <2> QED  BY <1>1, <1>2, <2>1, SlotClaimed, SlotIssued DEF Workers
<1>3. CASE Purge(Cleaner)
  <2>1. Cleaner \in Workers /\ RequestStep(Cleaner)
    BY <1>3 DEF Workers, RequestStep
  <2>2. Local(Cleaner)
    BY <1>3, <1>t, <2>1, PurgeIsLocal
  <2>3. ~ClaimDownloadSlot(Cleaner) /\ ~IssueUrl(Cleaner)
    BY <1>t, <2>1 DEF JobsOK, WellFormed, ClaimDownloadSlot, IssueUrl, At, Resting, PurgePCs
  <2> QED  BY <1>1, <2>1, <2>2, <2>3
<1>4. CASE OtherStep
  BY <1>4, <1>t, OtherEffects, OtherJobs, SlotsKept DEF OtherStep, Workers
<1>5. CASE UNCHANGED vars
  BY <1>5, SlotsKept DEF vars, transferVars, history
<1> QED  BY <1>2, <1>3, <1>4, <1>5, NextCases

LEMMA SlotsInit == Init => SlotsAreExclusive
  BY ConstantsOK DEF Init, SlotsAreExclusive, HoldsSlot, At, Idle, Call, Workers

\* No interleaving of any number of requests grants a download above the
\* sender's cap, or lets two URLs share one slot.
THEOREM DownloadsAreCapped == Spec => []SlotsAreExclusive
<1>1. Init => SlotsAreExclusive
  BY SlotsInit
<1>2. Typed /\ SlotsAreExclusive /\ [Next]_vars => SlotsAreExclusive'
  BY SlotsStep
<1> QED  BY <1>1, <1>2, Typing, PTL DEF Spec

-----------------------------------------------------------------------------
(* The cleanup job *)

DueIn(s, t) ==
    CASE s = "expired"   -> age[t] = "expired"
      [] s = "abandoned" -> age[t] # "fresh" /\ (isCompleted[t] => t \in overtaken)
      [] s = "soft"      -> isDeleted[t]
      [] OTHER           -> FALSE

\* Marks are never taken back.
MarksKept ==
    \A t \in Transfers :
        /\ isDeleted[t] => isDeleted'[t]
        /\ age[t] # "fresh" => age'[t] # "fresh"
        /\ age[t] = "expired" => age'[t] = "expired"

LEMMA MarksStep == Typed /\ [Next]_vars => MarksKept
<1> SUFFICES ASSUME TablesOK, [Next]_vars
             PROVE  MarksKept
  BY DEF Typed
<1>1. ASSUME NEW w \in Workers, RequestStep(w)
      PROVE  MarksKept
  BY <1>1, RequestEffects DEF MarksKept
<1>2. CASE Purge(Cleaner)
  BY <1>1, <1>2 DEF RequestStep, Workers
<1>3. CASE OtherStep
  <2>1. ASSUME NEW t \in Transfers, Age(t)
        PROVE  MarksKept
    BY <2>1 DEF Age, MarksKept, TablesOK, transferVars
  <2>2. ASSUME NEW t \in Transfers, NEW me \in Callers, SoftDelete(t, me)
        PROVE  MarksKept
    BY <2>2 DEF SoftDelete, MarksKept, TablesOK
  <2>3. CASE UNCHANGED <<isDeleted, age>>
    BY <2>3 DEF MarksKept
  <2> QED
    BY <1>3, <2>1, <2>2, <2>3 DEF OtherStep, CreateTransfer, TakeCandidate, StartCleanup,
       NextStage, CallFails, SweepFails, Crash, transferVars
<1>4. CASE UNCHANGED vars
  BY <1>4 DEF vars, transferVars, MarksKept
<1> QED  BY <1>1, <1>2, <1>3, <1>4, NextCases DEF Workers

\* A completion of what the cleanup job has in its hands is noted.
CompletionsNoted ==
    /\ overtaken \subseteq overtaken'
    /\ \A t \in Transfers \cap OnTheList : isCompleted'[t] => isCompleted[t] \/ t \in overtaken'

LEMMA CompletionStep ==
  ASSUME Typed, NEW w \in Workers, RequestStep(w)
  PROVE  CompletionsNoted
<1>1. CASE UNCHANGED <<isCompleted, overtaken>>
  BY <1>1 DEF CompletionsNoted
<1>2. CASE MarkCompleted(w)
  <2> DEFINE x == job[w].transfer
  <2>1. CASE row[x] = "present"
    <3>1. overtaken' = overtaken \cup ({x} \cap OnTheList) /\ isCompleted' = [isCompleted EXCEPT ![x] = TRUE]
      BY <1>2, <2>1 DEF MarkCompleted
    <3> QED  BY <3>1 DEF CompletionsNoted, Typed, TablesOK
  <2>2. CASE row[x] # "present"
    BY <1>2, <2>2 DEF MarkCompleted, CompletionsNoted
  <2> QED  BY <2>1, <2>2
<1> QED  BY <1>1, <1>2, RequestEffects

LEMMA DueKept ==
  ASSUME CleanerActsOnDue, MarksKept, CompletionsNoted, stage' = stage,
         OnTheList' \cap Transfers \subseteq OnTheList
  PROVE  CleanerActsOnDue'
<1> SUFFICES ASSUME NEW t \in Transfers, t \in OnTheList'
             PROVE  DueIn(stage, t)'
  BY DEF CleanerActsOnDue, OnTheList, DueIn
<1>1. DueIn(stage, t)
  BY DEF CleanerActsOnDue, OnTheList, DueIn
<1>2. CASE stage = "expired"
  BY <1>1, <1>2 DEF DueIn, MarksKept
<1>3. CASE stage = "abandoned"
  BY <1>1, <1>3 DEF DueIn, MarksKept, CompletionsNoted
<1>4. CASE stage = "soft"
  BY <1>1, <1>4 DEF DueIn, MarksKept
<1>5. CASE stage \notin {"expired", "abandoned", "soft"}
  BY <1>1, <1>5 DEF DueIn
<1> QED  BY <1>2, <1>3, <1>4, <1>5

LEMMA DueStep == Typed /\ CleanerActsOnDue /\ [Next]_vars => CleanerActsOnDue'
<1> SUFFICES ASSUME Typed, CleanerActsOnDue, [Next]_vars
             PROVE  CleanerActsOnDue'
  OBVIOUS
<1>t. TablesOK /\ JobsOK
  BY DEF Typed
<1>m. MarksKept
  BY MarksStep
<1>c. Cleaner \in Workers /\ Cleaner \notin Requests
  BY ConstantsOK DEF Workers
<1>n. NoTransfer \notin Transfers
  BY ConstantsOK
<1>i. /\ Idle.transfer = NoTransfer
      /\ Call("next", NoTransfer, NoFile).transfer = NoTransfer
      /\ \A t : Call("purge.files", t, NoFile).transfer = t
  BY DEF Idle, Call
<1>n2. ASSUME UNCHANGED <<isCompleted, overtaken>>
       PROVE  CompletionsNoted
  BY <1>n2 DEF CompletionsNoted
<1>r. ASSUME NEW w \in Workers, Local(w), w # Cleaner
      PROVE  job'[Cleaner] = job[Cleaner]
  BY <1>r, <1>t, <1>c DEF Local, Replaces, JobsOK
<1>1. ASSUME NEW w \in Requests, RequestStep(w)
      PROVE  CleanerActsOnDue'
  <2>1. UNCHANGED <<stage, batch>>
    BY <1>1, RequestEffects DEF Workers
  <2>2. job'[Cleaner] = job[Cleaner]
    BY <1>1, <1>r, <1>c, <1>t, RequestIsLocal DEF Workers
  <2>3. CompletionsNoted
    BY <1>1, CompletionStep DEF Workers
  <2> QED  BY <1>m, <2>1, <2>2, <2>3, DueKept DEF OnTheList
<1>2. CASE Purge(Cleaner)
  <2>1. UNCHANGED <<stage, batch>>
    BY <1>2, <1>c, RequestEffects DEF RequestStep
  <2>2. job'[Cleaner].transfer \in {job[Cleaner].transfer, NoTransfer}
    BY <1>2, <1>t, <1>c, <1>i
       DEF Purge, PurgeList, PurgeObject, PurgeFileRows, PurgeRow, Finish, Goto, JobsOK, Job
  <2>3. CompletionsNoted
    BY <1>2, <1>c, CompletionStep DEF RequestStep
  <2> QED  BY <1>m, <1>n, <2>1, <2>2, <2>3, DueKept DEF OnTheList
<1>3. ASSUME NEW t \in Transfers, CreateTransfer(t) \/ Age(t)
      PROVE  CleanerActsOnDue'
  BY <1>3, <1>m, <1>n2, DueKept DEF CreateTransfer, Age, OnTheList, sweepVars, history, transferVars
<1>4. ASSUME NEW t \in Transfers, NEW me \in Callers, SoftDelete(t, me)
      PROVE  CleanerActsOnDue'
  BY <1>4, <1>m, <1>n2, DueKept DEF SoftDelete, OnTheList, sweepVars, history
<1>5. ASSUME NEW t \in Transfers, TakeCandidate(t)
      PROVE  CleanerActsOnDue'
  <2>1. job'[Cleaner].transfer = t /\ t \in batch /\ batch' \subseteq batch
    BY <1>5, <1>t, <1>c, <1>i DEF TakeCandidate, JobsOK
  <2>2. stage' = stage /\ UNCHANGED <<isCompleted, overtaken>>
    BY <1>5 DEF TakeCandidate, history, transferVars
  <2> QED  BY <1>m, <1>n2, <2>1, <2>2, DueKept DEF OnTheList
<1>6. ASSUME stage' \in Stages, batch' = Due(stage'), job'[Cleaner].transfer = NoTransfer,
             UNCHANGED <<transferVars, age>>
      PROVE  CleanerActsOnDue'
  <2> SUFFICES ASSUME NEW t \in Transfers, t \in Due(stage')
               PROVE  DueIn(stage, t)'
    BY <1>6, <1>n DEF CleanerActsOnDue, OnTheList, DueIn
  <2>1. CASE stage' = "expired"
    BY <1>6, <2>1 DEF Due, DueIn
  <2>2. CASE stage' = "abandoned"
    BY <1>6, <2>2 DEF Due, DueIn, transferVars
  <2>3. CASE stage' = "soft"
    BY <1>6, <2>3 DEF Due, DueIn, transferVars
  <2>4. CASE stage' = "none"
    BY <2>4 DEF Due
  <2> QED  BY <1>6, <2>1, <2>2, <2>3, <2>4 DEF Stages
<1>7. CASE StartCleanup
  BY <1>7, <1>6, <1>t, <1>c, <1>i DEF StartCleanup, JobsOK, Stages
<1>8. CASE NextStage
  <2>1. job[Cleaner].transfer = NoTransfer
    BY <1>8, <1>t, <1>c DEF NextStage, At, JobsOK, WellFormed, Resting
  <2>2. job'[Cleaner].transfer = NoTransfer
    BY <1>8, <2>1, <1>t, <1>c, <1>i DEF NextStage, JobsOK
  <2>3. stage' \in Stages
    BY <1>8 DEF NextStage, StageAfter, Stages
  <2> QED  BY <1>8, <1>6, <2>2, <2>3 DEF NextStage
<1>9. ASSUME NEW w \in Workers, CallFails(w)
      PROVE  CleanerActsOnDue'
  <2>1. job'[Cleaner].transfer \in {job[Cleaner].transfer, NoTransfer}
    BY <1>9, <1>t, <1>c, <1>i DEF CallFails, Finish, JobsOK
  <2> QED  BY <1>9, <1>m, <1>n, <1>n2, <2>1, DueKept DEF OnTheList, CallFails, sweepVars, history, transferVars
<1>10. ASSUME batch' = {}, job'[Cleaner].transfer = NoTransfer
       PROVE  CleanerActsOnDue'
  BY <1>10, <1>n DEF CleanerActsOnDue, OnTheList
<1>11. CASE SweepFails
  BY <1>11, <1>10, <1>t, <1>c, <1>i DEF SweepFails, JobsOK
<1>12. CASE Crash
  BY <1>12, <1>10, <1>c, <1>i DEF Crash
<1>13. CASE UNCHANGED vars
  BY <1>13, <1>m, <1>n2, DueKept DEF vars, OnTheList, sweepVars, history, transferVars
<1> QED
  BY <1>1, <1>2, <1>3, <1>4, <1>5, <1>7, <1>8, <1>9, <1>11, <1>12, <1>13, NextCases DEF OtherStep

\* The cleanup job never removes a row that is not due when it removes it,
\* although its batch was read before any number of other steps.
THEOREM SweepsActOnDue == Spec => []CleanerActsOnDue
<1>1. Init => CleanerActsOnDue
  BY ConstantsOK DEF Init, CleanerActsOnDue, OnTheList, Idle, Call, Workers
<1>2. Typed /\ CleanerActsOnDue /\ [Next]_vars => CleanerActsOnDue'
  BY DueStep
<1> QED  BY <1>1, <1>2, Typing, PTL DEF Spec

-----------------------------------------------------------------------------
(* A sweep comes to an end.  That some step of it is taken is fairness, and *)
(* beyond these proofs; that every step taken leads towards the end, and    *)
(* none of any handler away from it, is what follows.                       *)

\* `running` is set exactly while the job is at work, so no tick is skipped
\* for a run that is not there.
Running == stage # "none" <=> ~At(Cleaner, "idle")

StagesLeft ==
    CASE stage = "expired" -> 3 [] stage = "abandoned" -> 2 [] stage = "soft" -> 1 [] OTHER -> 0

StepsLeft ==
    CASE At(Cleaner, "purge.files") -> 4 [] At(Cleaner, "purge.r2") -> 3
      [] At(Cleaner, "purge.row") -> 2 [] OTHER -> 1

Fewer(S, T) == S \subseteq T /\ S # T

\* Later sweeps, then rows, then the calls for one row, then its objects.
Advances ==
    \/ StagesLeft' < StagesLeft
    \/ stage' = stage /\ Fewer(batch', batch)
    \/ UNCHANGED sweepVars /\ StepsLeft' < StepsLeft
    \/ UNCHANGED <<sweepVars, StepsLeft>> /\ Fewer(job'[Cleaner].todo, job[Cleaner].todo)

StandsStill == UNCHANGED <<sweepVars, job[Cleaner]>>

\* Once a sweep runs, every step of the system leaves it where it is or brings
\* it nearer to its end: requests give it no new rows and no new objects.
SweepsAdvance == [][stage # "none" => StandsStill \/ Advances]_vars

LEMMA CleanerPCs ==
  ASSUME Typed
  PROVE  Cleaner \in Workers /\ Cleaner \notin Requests /\ job[Cleaner] \in Job
         /\ job[Cleaner].pc \in Resting \cup PurgePCs
  BY ConstantsOK DEF Typed, JobsOK, WellFormed, Workers

LEMMA OthersWork ==
  ASSUME Typed, NEW w \in Workers, w # Cleaner,
         Local(w) \/ Finish(w) \/ UNCHANGED job
  PROVE  job'[Cleaner] = job[Cleaner]
  BY CleanerPCs DEF Local, Replaces, Finish, Typed, JobsOK

LEMMA PurgeAdvances ==
  ASSUME Typed, Purge(Cleaner)
  PROVE  Advances /\ stage' = stage /\ ~At(Cleaner, "idle") /\ ~At(Cleaner, "idle")'
<1>c. Cleaner \in Workers /\ job[Cleaner] \in Job /\ job \in [Workers -> Job]
  BY CleanerPCs DEF Typed, JobsOK
<1>s. UNCHANGED sweepVars
  BY <1>c, RequestEffects DEF RequestStep, sweepVars
<1>1. CASE PurgeList(Cleaner)
  BY <1>1, <1>c, <1>s DEF PurgeList, At, Advances, StepsLeft, sweepVars
<1>2. CASE PurgeObject(Cleaner)
  <2>1. PICK f \in job[Cleaner].todo : job' = [job EXCEPT ![Cleaner].todo = @ \ {f}]
    BY <1>2 DEF PurgeObject
  <2>2. job'[Cleaner].pc = "purge.r2" /\ job'[Cleaner].todo = job[Cleaner].todo \ {f}
    BY <1>2, <1>c, <2>1 DEF PurgeObject, At, Job
  <2>3. Fewer(job'[Cleaner].todo, job[Cleaner].todo)
    BY <2>1, <2>2 DEF Fewer
  <2>4. UNCHANGED StepsLeft
    BY <1>2, <2>2 DEF PurgeObject, StepsLeft, At
  <2> QED  BY <1>2, <1>s, <2>2, <2>3, <2>4 DEF PurgeObject, At, Advances, sweepVars
<1>3. CASE PurgeFileRows(Cleaner)
  BY <1>3, <1>c, <1>s DEF PurgeFileRows, Goto, At, Advances, StepsLeft, sweepVars
<1>4. CASE PurgeRow(Cleaner)
  <2>1. job'[Cleaner].pc = "next"
    BY <1>4, <1>c DEF PurgeRow, Finish, Call
  <2> QED  BY <1>4, <1>s, <2>1 DEF PurgeRow, At, Advances, StepsLeft, sweepVars
<1> QED  BY <1>1, <1>2, <1>3, <1>4 DEF Purge

LEMMA SweepStep ==
  ASSUME Typed, Running, [Next]_vars
  PROVE  Running' /\ (stage # "none" => StandsStill \/ Advances)
<1> DEFINE Goal == Running' /\ (stage # "none" => StandsStill \/ Advances)
<1>t. Typed /\ JobsOK /\ TablesOK
  BY DEF Typed
<1>c. /\ Cleaner \in Workers /\ Cleaner \notin Requests
      /\ job[Cleaner] \in Job /\ job \in [Workers -> Job]
      /\ job[Cleaner].pc \in Resting \cup PurgePCs
  BY CleanerPCs DEF Typed, JobsOK
<1>i. /\ Idle.pc = "idle"
      /\ \A t, f : Call("next", t, f).pc = "next" /\ Call("purge.files", t, f).pc = "purge.files"
  BY DEF Idle, Call
<1>u. ASSUME StandsStill PROVE Goal
  BY <1>u DEF StandsStill, Running, At, sweepVars
<1> SUFFICES Goal
  OBVIOUS
<1>1. ASSUME NEW w \in Requests, RequestStep(w)
      PROVE  Goal
  <2>1. UNCHANGED sweepVars
    BY <1>1, RequestEffects DEF Workers, sweepVars
  <2>2. job'[Cleaner] = job[Cleaner]
    BY <1>1, <1>t, <1>c, RequestIsLocal, OthersWork DEF Workers
  <2> QED  BY <1>u, <2>1, <2>2 DEF StandsStill
<1>2. CASE Purge(Cleaner)
  BY <1>2, PurgeAdvances DEF Running
<1>3. ASSUME NEW t \in Transfers, CreateTransfer(t) \/ Age(t)
      PROVE  Goal
  BY <1>3, <1>u DEF CreateTransfer, Age, StandsStill
<1>4. ASSUME NEW t \in Transfers, NEW me \in Callers, SoftDelete(t, me)
      PROVE  Goal
  BY <1>4, <1>u DEF SoftDelete, StandsStill
<1>5. ASSUME NEW t \in Transfers, TakeCandidate(t)
      PROVE  Goal
  <2>1. At(Cleaner, "next") /\ job'[Cleaner].pc = "purge.files"
    BY <1>5, <1>c, <1>i DEF TakeCandidate
  <2>2. stage' = stage /\ Fewer(batch', batch)
    BY <1>5 DEF TakeCandidate, Fewer
  <2> QED  BY <2>1, <2>2 DEF Running, At, Advances
<1>6. CASE StartCleanup
  <2>1. job'[Cleaner].pc = "next"
    BY <1>6, <1>c, <1>i DEF StartCleanup
  <2> QED  BY <1>6, <2>1 DEF StartCleanup, Running, At
<1>7. CASE NextStage
  <2>1. At(Cleaner, "next") /\ stage # "none"
    BY <1>7 DEF NextStage, Running, At
  <2>2. StagesLeft' < StagesLeft
    BY <1>7, <1>t, <2>1 DEF NextStage, StageAfter, StagesLeft, TablesOK, Stages
  <2>3. At(Cleaner, "idle")' <=> stage' = "none"
    BY <1>7, <1>c, <1>i, <2>1 DEF NextStage, At
  <2> QED  BY <2>2, <2>3 DEF Running, Advances
<1>8. ASSUME NEW w \in Workers, CallFails(w)
      PROVE  Goal
  <2>1. UNCHANGED sweepVars /\ Finish(w)
    BY <1>8 DEF CallFails
  <2>2. CASE w # Cleaner
    BY <1>u, <1>t, <2>1, <2>2, OthersWork DEF StandsStill
  <2>3. CASE w = Cleaner
    <3>1. job'[Cleaner].pc = "next" /\ job[Cleaner].pc \in PurgePCs
      BY <1>8, <1>c, <1>i, <2>1, <2>3 DEF CallFails, Finish, Caught, Resting
    <3>2. StepsLeft' < StepsLeft
      BY <3>1 DEF StepsLeft, At, PurgePCs
    <3> QED  BY <2>1, <3>1, <3>2 DEF Running, At, PurgePCs, Advances, sweepVars
  <2> QED  BY <2>2, <2>3
<1>9. CASE SweepFails \/ Crash
  <2>1. job'[Cleaner].pc = "idle" /\ stage' = "none"
    BY <1>9, <1>c, <1>i DEF SweepFails, Crash
  <2>2. stage # "none" => StagesLeft' < StagesLeft
    BY <1>t, <2>1 DEF StagesLeft, TablesOK, Stages
  <2> QED  BY <2>1, <2>2 DEF Running, At, Advances
<1>10. CASE UNCHANGED vars
  BY <1>10, <1>u DEF vars, StandsStill
<1> QED
  BY <1>1, <1>2, <1>3, <1>4, <1>5, <1>6, <1>7, <1>8, <1>9, <1>10, NextCases DEF OtherStep

\* The flag that keeps a second tick out is never left behind by a run that
\* threw, was cut off or came to its end.
THEOREM RunningIsCleared == Spec => []Running
<1>1. Init => Running
  BY ConstantsOK DEF Init, Running, At, Idle, Call, Workers
<1>2. Typed /\ Running /\ [Next]_vars => Running'
  BY SweepStep
<1> QED  BY <1>1, <1>2, Typing, PTL DEF Spec

\* No request keeps a sweep going: each step is nearer to the end of it.
THEOREM SweepsGoForward == Spec => SweepsAdvance
<1>1. Typed /\ Running /\ [Next]_vars => [stage # "none" => StandsStill \/ Advances]_vars
  BY SweepStep
<1> QED  BY <1>1, Typing, RunningIsCleared, PTL DEF Spec, SweepsAdvance

-----------------------------------------------------------------------------
(* TransferPromise: the columns of a row map to the phase of the transfer,  *)
(* download_count to the downloads granted, and every step of a handler, of *)
(* the cleanup job or of the clock to one step of the promise or to none.   *)

\* An id that has not been issued carries no marks.
RowsStartClean ==
    \A t \in Transfers :
        row[t] = "none" => ~isCompleted[t] /\ ~isDeleted[t] /\ age[t] = "fresh"

Columns(t) == <<row[t], isCompleted[t], isDeleted[t], age[t]>>

LEMMA PhaseInPhases ==
  ASSUME Typed, NEW t \in Transfers
  PROVE  PhaseOf(t) \in {"absent", "uploading", "live", "closed", "gone"}
<1>1. row[t] \in {"none", "present", "deleted"}
  BY DEF Typed, TablesOK
<1> QED  BY <1>1 DEF PhaseOf

\* A step that touches the columns of one transfer changes its phase only.
LEMMA OnePhase ==
  ASSUME NEW t \in Transfers,
         \A u \in Transfers \ {t} : Columns(u)' = Columns(u)
  PROVE  phase' = [phase EXCEPT ![t] = PhaseOf(t)']
<1>1. ASSUME NEW u \in Transfers \ {t} PROVE PhaseOf(u)' = PhaseOf(u)
  BY <1>1 DEF Columns, PhaseOf
<1> QED  BY <1>1 DEF phase

LEMMA NoPhase ==
  ASSUME UNCHANGED <<row, isCompleted, isDeleted, age>>
  PROVE  UNCHANGED phase
  BY DEF phase, PhaseOf

\* What a step may do to the phase of one transfer.
Forward(t) ==
    LET p == PhaseOf(t) IN
    \/ p = "absent" /\ PhaseOf(t)' = "uploading"
    \/ p = "uploading" /\ PhaseOf(t)' = "live"
    \/ p \in {"uploading", "live"} /\ PhaseOf(t)' = "closed"
    \/ p \in {"uploading", "live", "closed"} /\ PhaseOf(t)' = "gone"
    \/ PhaseOf(t)' = p

LEMMA ForwardIsNext ==
  ASSUME NEW t \in Transfers, Forward(t), UNCHANGED downloadCount,
         \A u \in Transfers \ {t} : Columns(u)' = Columns(u)
  PROVE  Promise!Next \/ UNCHANGED <<phase, downloadCount>>
<1>1. phase' = [phase EXCEPT ![t] = PhaseOf(t)']
  BY OnePhase
<1>2. phase[t] = PhaseOf(t)
  BY DEF phase
<1>3. PhaseOf(t)' = PhaseOf(t) => UNCHANGED phase
  BY <1>1, <1>2 DEF phase
<1> QED
  BY <1>1, <1>2, <1>3 DEF Forward, Promise!Next, Promise!Open, Promise!GoLive, Promise!Close,
                         Promise!Remove, Promise!Become

-----------------------------------------------------------------------------
(* The steps that change a column *)

LEMMA MarkForward ==
  ASSUME Typed, NEW w \in Requests, MarkCompleted(w)
  PROVE  Promise!Next \/ UNCHANGED <<phase, downloadCount>>
<1> DEFINE x == job[w].transfer
<1>1. PICK t \in Transfers : t = x
  BY JobFields DEF Typed, MarkCompleted, At, Workers, Resting
<1>2. UNCHANGED <<row, isDeleted, downloadCount, age>>
  BY DEF MarkCompleted
<1>3. CASE row[t] = "present"
  <2>1. isCompleted' = [isCompleted EXCEPT ![t] = TRUE]
    BY <1>1, <1>3 DEF MarkCompleted
  <2>2. \A u \in Transfers \ {t} : Columns(u)' = Columns(u)
    BY <1>2, <2>1 DEF Columns, Typed, TablesOK
  <2>3. isCompleted'[t] = TRUE
    BY <2>1 DEF Typed, TablesOK
  <2>4. Forward(t)
    BY <1>2, <1>3, <2>3 DEF Forward, PhaseOf
  <2> QED  BY <1>2, <2>2, <2>4, ForwardIsNext
<1>4. CASE row[t] # "present"
  BY <1>1, <1>2, <1>4, NoPhase DEF MarkCompleted
<1> QED  BY <1>3, <1>4

LEMMA PurgeForward ==
  ASSUME Typed, NEW w \in Workers, PurgeRow(w)
  PROVE  Promise!Next \/ UNCHANGED <<phase, downloadCount>>
<1> DEFINE x == job[w].transfer
<1>1. PICK t \in Transfers : t = x
  BY JobFields DEF Typed, PurgeRow, At, Resting
<1>2. UNCHANGED <<isCompleted, isDeleted, downloadCount, age>>
  BY DEF PurgeRow
<1>3. CASE FilesOf(x) = {} /\ row[t] = "present"
  <2>1. row' = [row EXCEPT ![t] = "deleted"]
    BY <1>1, <1>3 DEF PurgeRow
  <2>2. \A u \in Transfers \ {t} : Columns(u)' = Columns(u)
    BY <1>2, <2>1 DEF Columns, Typed, TablesOK
  <2>3. row'[t] = "deleted"
    BY <2>1 DEF Typed, TablesOK
  <2>4. Forward(t)
    BY <1>3, <2>3 DEF Forward, PhaseOf
  <2> QED  BY <1>2, <2>2, <2>4, ForwardIsNext
<1>4. CASE ~(FilesOf(x) = {} /\ row[t] = "present")
  BY <1>1, <1>2, <1>4, NoPhase DEF PurgeRow
<1> QED  BY <1>3, <1>4

LEMMA ClaimGrants ==
  ASSUME Typed, NEW w \in Requests, ClaimDownloadSlot(w)
  PROVE  Promise!Next \/ UNCHANGED <<phase, downloadCount>>
<1>1. PICK t \in Transfers : t = job[w].transfer
  BY JobFields DEF Typed, ClaimDownloadSlot, At, Workers, Resting
<1>2. UNCHANGED phase
  BY NoPhase DEF ClaimDownloadSlot
<1>3. CASE Downloadable(t)
  <2>1. downloadCount' = [downloadCount EXCEPT ![t] = @ + 1]
    BY <1>1, <1>3 DEF ClaimDownloadSlot
  <2>2. phase[t] = "live"
    BY <1>3 DEF Downloadable, Visible, phase, PhaseOf
  <2>3. MaxDownloads[t] = NoLimit \/ downloadCount[t] < MaxDownloads[t]
    BY <1>3 DEF Downloadable, BelowCap
  <2> QED  BY <1>2, <2>1, <2>2, <2>3 DEF Promise!Next, Promise!Grant
<1>4. CASE ~Downloadable(t)
  BY <1>1, <1>2, <1>4 DEF ClaimDownloadSlot
<1> QED  BY <1>3, <1>4

LEMMA RequestForward ==
  ASSUME Typed, NEW w \in Workers, RequestStep(w), w \in Requests \/ Purge(w)
  PROVE  Promise!Next \/ UNCHANGED <<phase, downloadCount>>
<1> USE DEF transferVars
<1>1. ASSUME UNCHANGED <<row, isCompleted, isDeleted, downloadCount, age>>
      PROVE  Promise!Next \/ UNCHANGED <<phase, downloadCount>>
  BY <1>1, NoPhase
<1>2. CASE Upload(w)
  BY <1>1, <1>2 DEF Upload, InitMultipart, CompleteMultipart, AbortMultipart, BeginOnFile,
              CheckTotalSize, ChargeVolume, CreateFile, OpenUpload, UndoCreateFile,
              ReleaseVolume, ReadFile, StitchUpload, AbortUpload, DeleteFile
<1>3. CASE Complete(w) /\ w \in Requests
  BY <1>1, <1>3, MarkForward DEF Complete, CompleteTransfer, AbortTransfer, ListFiles, HeadObject
<1>4. CASE Download(w) /\ w \in Requests
  BY <1>1, <1>4, ClaimGrants DEF Download, RequestUrl, IssueUrl
<1>5. CASE Purge(w)
  BY <1>1, <1>5, PurgeForward DEF Purge, PurgeList, PurgeObject, PurgeFileRows
<1> QED  BY <1>2, <1>3, <1>4, <1>5 DEF RequestStep

LEMMA OtherForward ==
  ASSUME Typed, RowsStartClean, OtherStep
  PROVE  Promise!Next \/ UNCHANGED <<phase, downloadCount>>
<1>1. ASSUME UNCHANGED <<row, isCompleted, isDeleted, downloadCount, age>>
      PROVE  Promise!Next \/ UNCHANGED <<phase, downloadCount>>
  BY <1>1, NoPhase
<1>2. ASSUME NEW t \in Transfers, CreateTransfer(t)
      PROVE  Promise!Next \/ UNCHANGED <<phase, downloadCount>>
  <2>1. \A u \in Transfers \ {t} : Columns(u)' = Columns(u)
    BY <1>2 DEF CreateTransfer, Columns, Typed, TablesOK
  <2>2. row[t] = "none" /\ row'[t] = "present"
    BY <1>2 DEF CreateTransfer, Typed, TablesOK
  <2>3. ~isCompleted'[t] /\ ~isDeleted'[t] /\ age'[t] = "fresh"
    BY <1>2, <2>2 DEF CreateTransfer, RowsStartClean
  <2>4. Forward(t)
    BY <2>2, <2>3 DEF Forward, PhaseOf
  <2> QED  BY <1>2, <2>1, <2>4, ForwardIsNext DEF CreateTransfer
<1>3. ASSUME NEW t \in Transfers, Age(t)
      PROVE  Promise!Next \/ UNCHANGED <<phase, downloadCount>>
  <2>1. \A u \in Transfers \ {t} : Columns(u)' = Columns(u)
    BY <1>3 DEF Age, Columns, Typed, TablesOK, transferVars
  <2>2. UNCHANGED <<row, isCompleted, isDeleted, downloadCount>>
    BY <1>3 DEF Age, transferVars
  <2>3. row[t] = "present" /\ age[t] # "expired" /\ age'[t] \in {"old", "expired"}
    BY <1>3 DEF Age, Typed, TablesOK
  <2>4. Forward(t)
    BY <2>2, <2>3 DEF Forward, PhaseOf
  <2> QED  BY <2>1, <2>2, <2>4, ForwardIsNext
<1>4. ASSUME NEW t \in Transfers, NEW me \in Callers, SoftDelete(t, me)
      PROVE  Promise!Next \/ UNCHANGED <<phase, downloadCount>>
  <2>1. \A u \in Transfers \ {t} : Columns(u)' = Columns(u)
    BY <1>4 DEF SoftDelete, Columns, Typed, TablesOK
  <2>2. UNCHANGED <<row, isCompleted, age, downloadCount>>
    BY <1>4 DEF SoftDelete
  <2>3. row[t] = "present" /\ ~isDeleted[t] /\ isDeleted'[t]
    BY <1>4 DEF SoftDelete, Visible, Typed, TablesOK
  <2>4. Forward(t)
    BY <2>2, <2>3 DEF Forward, PhaseOf
  <2> QED  BY <2>1, <2>2, <2>4, ForwardIsNext
<1> QED
  BY <1>1, <1>2, <1>3, <1>4 DEF OtherStep, TakeCandidate, StartCleanup, NextStage, CallFails,
                                SweepFails, Crash, transferVars

-----------------------------------------------------------------------------

LEMMA CleanStep == Typed /\ RowsStartClean /\ [Next]_vars => RowsStartClean'
<1> SUFFICES ASSUME TablesOK, JobsOK, RowsStartClean, [Next]_vars
             PROVE  RowsStartClean'
  BY DEF Typed
<1> DEFINE Same == UNCHANGED <<row, isCompleted, isDeleted, age>>
<1>s. ASSUME Same PROVE RowsStartClean'
  BY <1>s DEF RowsStartClean
<1>1. ASSUME NEW w \in Workers, RequestStep(w)
      PROVE  RowsStartClean'
  <2>1. CASE MarkCompleted(w)
    BY <2>1 DEF MarkCompleted, RowsStartClean, TablesOK
  <2>2. CASE PurgeRow(w)
    BY <2>2 DEF PurgeRow, RowsStartClean, TablesOK
  <2>3. CASE Same
    BY <2>3, <1>s
  <2>4. CASE Upload(w)
    BY <1>s, <2>4 DEF Upload, InitMultipart, CompleteMultipart, AbortMultipart, BeginOnFile,
              CheckTotalSize, ChargeVolume, CreateFile, OpenUpload, UndoCreateFile,
              ReleaseVolume, ReadFile, StitchUpload, AbortUpload, DeleteFile, transferVars
  <2>5. CASE Complete(w)
    BY <1>s, <2>1, <2>5 DEF Complete, CompleteTransfer, AbortTransfer, ListFiles, HeadObject, transferVars
  <2>6. CASE Download(w)
    BY <1>s, <2>6 DEF Download, RequestUrl, ClaimDownloadSlot, IssueUrl, transferVars
  <2>7. CASE Purge(w)
    BY <1>s, <2>2, <2>7 DEF Purge, PurgeList, PurgeObject, PurgeFileRows, transferVars
  <2> QED  BY <1>1, <2>4, <2>5, <2>6, <2>7 DEF RequestStep
<1>2. CASE Purge(Cleaner)
  BY <1>1, <1>2 DEF RequestStep, Workers
<1>3. CASE OtherStep
  <2>1. ASSUME NEW t \in Transfers, CreateTransfer(t)
        PROVE  RowsStartClean'
    BY <2>1 DEF CreateTransfer, RowsStartClean, TablesOK
  <2>2. ASSUME NEW t \in Transfers, Age(t)
        PROVE  RowsStartClean'
    BY <2>2 DEF Age, RowsStartClean, TablesOK, transferVars
  <2>3. ASSUME NEW t \in Transfers, NEW me \in Callers, SoftDelete(t, me)
        PROVE  RowsStartClean'
    BY <2>3 DEF SoftDelete, Visible, RowsStartClean, TablesOK
  <2>4. CASE Same
    BY <2>4, <1>s
  <2> QED
    BY <1>3, <2>1, <2>2, <2>3, <2>4 DEF OtherStep, TakeCandidate, StartCleanup, NextStage,
       CallFails, SweepFails, Crash, transferVars
<1>4. CASE UNCHANGED vars
  BY <1>4, <1>s DEF vars, transferVars
<1> QED  BY <1>1, <1>2, <1>3, <1>4, NextCases DEF Workers

LEMMA PromiseStep == Typed /\ RowsStartClean /\ [Next]_vars => [Promise!Next]_(Promise!vars)
<1> SUFFICES ASSUME Typed, RowsStartClean, [Next]_vars
             PROVE  Promise!Next \/ UNCHANGED <<phase, downloadCount>>
  BY DEF Promise!vars
<1>1. ASSUME NEW w \in Requests, RequestStep(w)
      PROVE  Promise!Next \/ UNCHANGED <<phase, downloadCount>>
  BY <1>1, RequestForward DEF Workers
<1>2. CASE Purge(Cleaner)
  BY <1>2, RequestForward DEF Workers, RequestStep
<1>3. CASE OtherStep
  BY <1>3, OtherForward
<1>4. CASE UNCHANGED vars
  BY <1>4, NoPhase DEF vars, transferVars
<1> QED  BY <1>1, <1>2, <1>3, <1>4, NextCases

\* The handlers, the cleanup job and the clock keep the promise, for any number
\* of transfers, requests, crashes and failed calls.
THEOREM KeepsPromise == Spec => PromiseKept
<1>1. Init => RowsStartClean /\ Promise!Init
  BY DEF Init, RowsStartClean, Promise!Init, phase, PhaseOf
<1>2. Typed /\ RowsStartClean /\ [Next]_vars => RowsStartClean'
  BY CleanStep
<1>3. Typed /\ RowsStartClean /\ [Next]_vars => [Promise!Next]_(Promise!vars)
  BY PromiseStep
<1> QED  BY <1>1, <1>2, <1>3, Typing, PTL DEF Spec, PromiseKept, Promise!Spec

-----------------------------------------------------------------------------
(* Files: what the handlers that work on one file know of each other *)

\* init-multipart: before its INSERT (Naming) nobody else has the id, and after it
\* other handlers may have it, but no other init-multipart.
Uploading == Naming \cup {"init.r2", "init.undo", "init.release"}

FilePCs ==
    Uploading \cup {"url.claim", "url.sign", "stitch.file", "stitch.r2",
                    "cancel.file", "cancel.r2", "cancel.release", "cancel.delete"}

\* Some removal has read the rows of f's transfer and is deleting the objects.
Purging(f) == \E w \in Workers : At(w, "purge.r2") /\ job[w].transfer = TransferOf[f]

Whole(f) == fileRow[f] = "present" /\ ~Purging(f) => r2[f] = "stored"

Exclusive ==
    \A v, w \in Workers :
        v # w /\ job[w].pc \in Uploading /\ job[v].file = job[w].file =>
            /\ job[v].pc \notin Uploading
            /\ job[w].pc \in Naming => job[v].pc \notin FilePCs

FileJob(j) ==
    /\ j.pc \in FilePCs => j.file \in Files
    /\ j.pc \in FilePCs \ Naming => fileRow[j.file] # "none"
    /\ j.pc \in {"init.total", "init.charge"} =>
         fileRow[j.file] = "none" /\ r2[j.file] = "none" /\ reserved[j.file] = 0
    /\ j.pc = "init.insert" =>
         fileRow[j.file] = "none" /\ r2[j.file] = "none" /\ reserved[j.file] = 1
    /\ j.pc = "init.r2" => r2[j.file] = "none"
    /\ j.pc = "init.release" => fileRow[j.file] = "deleted"
    /\ j.pc = "complete.head" =>
         \A f \in j.seen :
             TransferOf[f] = j.transfer /\ fileRow[f] # "none" /\ (f \notin j.todo => Whole(f))
    /\ j.pc = "purge.r2" => \A f \in j.todo : TransferOf[f] = j.transfer

DeclaredOK ==
    \A t \in Transfers : \A f \in declared[t] :
        TransferOf[f] = t /\ fileRow[f] # "none" /\ Whole(f)

\* The aborts that have released f, and the requests that may yet release it:
\* nobody is both, so a row that is still there has room for one more request.
Owing == {"init.r2", "init.undo", "init.release", "cancel.r2", "cancel.release"}

Releasing(f) == {w \in Requests : At(w, "cancel.delete") /\ job[w].file = f}
Owed(f)      == {w \in Requests : job[w].pc \in Owing /\ job[w].file = f}

Charge(f) ==
    /\ fileRow[f] = "present" => reserved[f] = 1 - Cardinality(Releasing(f))
    /\ fileRow[f] # "none" =>
         reserved[f] <= 1 /\ 1 + Cardinality(Owed(f)) <= reserved[f] + Cardinality(Requests)

Charged == \A f \in Files : Charge(f)

FilesOK == Exclusive /\ (\A w \in Workers : FileJob(job[w])) /\ DeclaredOK /\ Charged

FilesInv == faults = 0 => FilesOK

LEMMA JobType ==
  ASSUME JobsOK, NEW w \in Workers
  PROVE  job[w] \in Job /\ (job[w].pc \notin Resting => job[w].transfer \in Transfers)
  BY DEF JobsOK, WellFormed

LEMMA TableTypes ==
  ASSUME TablesOK
  PROVE  /\ fileRow \in [Files -> {"none", "present", "deleted"}]
         /\ r2 \in [Files -> {"none", "open", "short", "stored"}]
         /\ reserved \in [Files -> Int]
         /\ declared \in [Transfers -> SUBSET Files]
         /\ row \in [Transfers -> {"none", "present", "deleted"}]
  BY DEF TablesOK

LEMMA Disjoint ==
  /\ Naming \subseteq Uploading /\ Uploading \subseteq FilePCs
  /\ Resting \cap FilePCs = {} /\ PurgePCs \cap FilePCs = {}
  BY DEF Uploading, FilePCs, Resting, Naming, PurgePCs

\* What a handler relies on is not disturbed by a step of another one, as long as
\* the file rows only go forward, an id no row uses is left alone but by the handler
\* that has it, and what is whole stays whole.
FileRowsForward ==
    \A f \in Files : /\ fileRow[f] # "none" => fileRow'[f] # "none"
                     /\ fileRow[f] = "deleted" => fileRow'[f] = "deleted"

UnusedBut(mine) ==
    \A f \in Files \ mine :
        /\ fileRow[f] = "none" => fileRow'[f] = "none" /\ reserved'[f] = reserved[f]
        /\ r2[f] = "none" => r2'[f] = "none"

WholeStays == \A f \in Files : fileRow[f] # "none" /\ Whole(f) => Whole(f)'

LEMMA OthersKept ==
  ASSUME JobsOK, TablesOK, NEW v \in Workers, NEW mine, FileJob(job[v]), job'[v] = job[v],
         FileRowsForward, UnusedBut(mine), WholeStays,
         job[v].pc \in Uploading => job[v].file \notin mine
  PROVE  FileJob(job[v])'
<1> DEFINE j == job[v]
<1>j. j \in Job
  BY JobType
<1>s. j.seen \subseteq Files /\ j.todo \subseteq Files
  BY <1>j DEF Job
<1>f. j.pc \in FilePCs => j.file \in Files
  BY DEF FileJob
<1>0. j.pc \in FilePCs \ Naming => fileRow'[j.file] # "none"
  BY <1>f DEF FileJob, FileRowsForward
<1>1. j.pc \in {"init.total", "init.charge"} =>
        fileRow'[j.file] = "none" /\ r2'[j.file] = "none" /\ reserved'[j.file] = 0
  BY <1>f DEF FileJob, UnusedBut, Uploading, Naming, FilePCs
<1>2. j.pc = "init.insert" =>
        fileRow'[j.file] = "none" /\ r2'[j.file] = "none" /\ reserved'[j.file] = 1
  BY <1>f DEF FileJob, UnusedBut, Uploading, Naming, FilePCs
<1>3. j.pc = "init.r2" => r2'[j.file] = "none"
  BY <1>f DEF FileJob, UnusedBut, Uploading, FilePCs
<1>4. j.pc = "init.release" => fileRow'[j.file] = "deleted"
  BY <1>f DEF FileJob, FileRowsForward, Uploading, FilePCs
<1>5. j.pc = "complete.head" =>
        \A f \in j.seen :
          TransferOf[f] = j.transfer /\ fileRow'[f] # "none" /\ (f \notin j.todo => Whole(f)')
  BY <1>s DEF FileJob, FileRowsForward, WholeStays
<1>6. j.pc = "purge.r2" => \A f \in j.todo : TransferOf[f] = j.transfer
  BY DEF FileJob
<1> HIDE DEF j
<1>7. j = job'[v]
  BY DEF j
<1> QED  BY <1>f, <1>0, <1>1, <1>2, <1>3, <1>4, <1>5, <1>6, <1>7 DEF FileJob

LEMMA DeclaredKept ==
  ASSUME TablesOK, DeclaredOK, FileRowsForward, WholeStays, UNCHANGED declared
  PROVE  DeclaredOK'
  BY TableTypes DEF DeclaredOK, FileRowsForward, WholeStays

\* Two handlers that are after the same file may be there together.
Compatible(i, j) ==
    i.file = j.file /\ j.file \in Files =>
        /\ ~(i.pc \in Uploading /\ j.pc \in Uploading)
        /\ i.pc \in Naming => j.pc \notin FilePCs
        /\ j.pc \in Naming => i.pc \notin FilePCs

LEMMA ExclusiveKept ==
  ASSUME JobsOK, Exclusive, NEW w \in Workers, NEW j,
         \A v \in Workers : FileJob(job[v]),
         j.pc \in FilePCs => j.file \in Files,
         job' = [job EXCEPT ![w] = j],
         \A v \in Workers \ {w} : Compatible(job[v], j)
  PROVE  Exclusive'
<1>1. \A v \in Workers : job'[v] = IF v = w THEN j ELSE job[v]
  BY DEF JobsOK
<1>2. \A v \in Workers : job[v].pc \in FilePCs => job[v].file \in Files
  BY DEF FileJob
<1> QED  BY <1>1, <1>2, Disjoint DEF Exclusive, Compatible

\* A step of one handler that leaves the files, or changes what is its own.
LEMMA FilesStep ==
  ASSUME Typed, FilesOK, NEW w \in Workers, NEW j, NEW mine,
         job' = [job EXCEPT ![w] = j],
         FileRowsForward, UnusedBut(mine), WholeStays,
         \A f \in mine : f = job[w].file /\ f \in Files /\ job[w].pc \in Uploading,
         \A v \in Workers \ {w} : Compatible(job[v], j),
         FileJob(j)', DeclaredOK', Charged'
  PROVE  FilesOK'
<1>t. TablesOK /\ JobsOK
  BY DEF Typed
<1>1. \A v \in Workers : job'[v] = IF v = w THEN j ELSE job[v]
  BY <1>t DEF JobsOK
<1>2. Exclusive'
  <2>1. j.pc \in FilePCs => j.file \in Files
    BY DEF FileJob
  <2> QED  BY <1>t, <2>1, ExclusiveKept DEF FilesOK
<1>3. ASSUME NEW v \in Workers
      PROVE  FileJob(job[v])'
  <2>1. CASE v = w
    <3>1. job'[v] = j
      BY <1>1, <2>1
    <3> QED  BY <3>1 DEF FileJob
  <2>2. CASE v # w
    <3>1. job[v].pc \in Uploading => job[v].file \notin mine
      BY <2>2 DEF FilesOK, Exclusive
    <3> QED  BY <1>1, <1>t, <2>2, <3>1, OthersKept DEF FilesOK
  <2> QED  BY <2>1, <2>2
<1> QED  BY <1>2, <1>3 DEF FilesOK

LEMMA PurgingStays ==
  ASSUME JobsOK, NEW w \in Workers, NEW j, job' = [job EXCEPT ![w] = j],
         job[w].pc = "purge.r2" => j.pc = "purge.r2" /\ j.transfer = job[w].transfer
  PROVE  \A f \in Files : Purging(f) => Purging(f)'
<1>1. \A v \in Workers : job'[v] = IF v = w THEN j ELSE job[v]
  BY DEF JobsOK
<1> QED  BY <1>1 DEF Purging, At

LEMMA ReleasingSame ==
  ASSUME JobsOK, NEW w \in Workers, NEW j, job' = [job EXCEPT ![w] = j], NEW f \in Files,
         job[w].pc = "cancel.delete" => job[w].file # f,
         j.pc = "cancel.delete" => j.file # f
  PROVE  Releasing(f)' = Releasing(f)
<1>1. \A v \in Workers : job'[v] = IF v = w THEN j ELSE job[v]
  BY DEF JobsOK
<1> QED  BY <1>1 DEF Releasing, At, Workers

LEMMA OwedSubset ==
  ASSUME JobsOK, NEW w \in Workers, NEW j, job' = [job EXCEPT ![w] = j], NEW f \in Files,
         j.pc \in Owing /\ j.file = f => job[w].pc \in Owing /\ job[w].file = f
  PROVE  Owed(f)' \subseteq Owed(f)
<1>1. \A v \in Workers : job'[v] = IF v = w THEN j ELSE job[v]
  BY DEF JobsOK
<1> QED  BY <1>1 DEF Owed, Workers

LEMMA OwedFinite ==
  ASSUME NEW f
  PROVE  /\ IsFiniteSet(Requests) /\ Cardinality(Requests) \in Nat
         /\ IsFiniteSet(Owed(f)) /\ Cardinality(Owed(f)) \in Nat
         /\ IsFiniteSet(Releasing(f)) /\ Cardinality(Releasing(f)) \in Nat
<1>1. IsFiniteSet(Requests) /\ Owed(f) \subseteq Requests /\ Releasing(f) \subseteq Requests
  BY ConstantsOK DEF Owed, Releasing
<1> QED  BY <1>1, FS_Subset, FS_CardinalityType

\* The charge of a file that is neither charged nor released in this step.
LEMMA ChargeKept ==
  ASSUME TablesOK, NEW f \in Files, Charge(f), reserved'[f] = reserved[f],
         fileRow'[f] = fileRow[f] \/ (fileRow[f] # "none" /\ fileRow'[f] = "deleted"),
         fileRow'[f] = "present" => Releasing(f)' = Releasing(f),
         Owed(f)' \subseteq Owed(f)
  PROVE  Charge(f)'
<1>1. fileRow'[f] = "present" => reserved'[f] = 1 - Cardinality(Releasing(f)')
  BY DEF Charge
<1>2. ASSUME fileRow'[f] # "none"
      PROVE  reserved'[f] <= 1 /\ 1 + Cardinality(Owed(f)') <= reserved'[f] + Cardinality(Requests)
  <2>1. fileRow[f] # "none" /\ reserved[f] \in Int
    BY <1>2, TableTypes
  <2>2. Cardinality(Owed(f)') <= Cardinality(Owed(f)) /\ Cardinality(Owed(f)') \in Nat
    BY OwedFinite, FS_Subset, FS_CardinalityType
  <2>3. Cardinality(Owed(f)) \in Nat /\ Cardinality(Requests) \in Nat
    BY OwedFinite
  <2>4. reserved[f] <= 1 /\ 1 + Cardinality(Owed(f)) <= reserved[f] + Cardinality(Requests)
    BY <2>1 DEF Charge
  <2>5. reserved'[f] = reserved[f]
    OBVIOUS
  <2> QED  BY <2>1, <2>2, <2>3, <2>4, <2>5
<1> QED  BY <1>1, <1>2 DEF Charge

\* A step that leaves the files, and is no end of a release or of a deletion.
LEMMA QuietStep ==
  ASSUME Typed, FilesOK, NEW w \in Workers, NEW j,
         job' = [job EXCEPT ![w] = j],
         UNCHANGED <<fileVars, declared>>,
         job[w].pc # "cancel.delete" /\ j.pc # "cancel.delete",
         job[w].pc = "purge.r2" => j.pc = "purge.r2" /\ j.transfer = job[w].transfer,
         \A v \in Workers \ {w} : Compatible(job[v], j),
         j.pc \in Owing => Charged',
         FileJob(j)'
  PROVE  FilesOK'
<1>t. TablesOK /\ JobsOK
  BY DEF Typed
<1>u. UNCHANGED <<fileRow, r2, reserved, declared>>
  BY DEF fileVars
<1>2. FileRowsForward /\ UnusedBut({})
  BY <1>u DEF FileRowsForward, UnusedBut
<1>3. WholeStays
  BY <1>t, <1>u, PurgingStays DEF WholeStays, Whole
<1>4. DeclaredOK'
  BY <1>t, <1>u, <1>2, <1>3, DeclaredKept DEF FilesOK
<1>5. CASE j.pc \notin Owing
  <2>1. ASSUME NEW f \in Files PROVE Charge(f)'
    <3>1. Releasing(f)' = Releasing(f)
      BY <1>t, ReleasingSame
    <3>2. Owed(f)' \subseteq Owed(f)
      BY <1>t, <1>5, OwedSubset
    <3> QED  BY <1>t, <1>u, <3>1, <3>2, ChargeKept DEF FilesOK, Charged
  <2>2. Charged'
    BY <2>1 DEF Charged
  <2> QED  BY <1>2, <1>3, <1>4, <2>2, FilesStep
<1>6. CASE j.pc \in Owing
  BY <1>2, <1>3, <1>4, <1>6, FilesStep
<1> QED  BY <1>5, <1>6

\* The handler of a request, or the removal, comes to its end.
LEMMA RestingJob ==
  ASSUME NEW j, j.pc \in Resting, j.file \notin Files
  PROVE  FileJob(j)' /\ \A i : Compatible(i, j)
  BY DEF FileJob, Compatible, Resting, FilePCs, Uploading, Naming

LEMMA FinishJob ==
  ASSUME JobsOK, NEW w \in Workers, Finish(w)
  PROVE  \E j : /\ job' = [job EXCEPT ![w] = j]
                /\ j.pc \in Resting /\ j.file \notin Files
<1>1. /\ Idle.pc \in Resting /\ Idle.file \notin Files
      /\ Call("next", NoTransfer, NoFile).pc \in Resting
      /\ Call("next", NoTransfer, NoFile).file \notin Files
  BY ConstantsOK DEF Idle, Call, Resting
<1> QED  BY <1>1 DEF Finish

LEMMA QuietFinish ==
  ASSUME Typed, FilesOK, NEW w \in Workers, Finish(w), UNCHANGED <<fileVars, declared>>,
         job[w].pc \notin {"cancel.delete", "purge.r2"}
  PROVE  FilesOK'
<1>1. PICK j : job' = [job EXCEPT ![w] = j] /\ j.pc \in Resting /\ j.file \notin Files
  BY FinishJob DEF Typed
<1>2. FileJob(j)' /\ \A v \in Workers \ {w} : Compatible(job[v], j)
  BY <1>1, RestingJob
<1>3. j.pc # "cancel.delete" /\ j.pc \notin Owing
  BY <1>1 DEF Resting, Owing
<1> QED  BY <1>1, <1>2, <1>3, QuietStep

LEMMA GotoJob ==
  ASSUME JobsOK, NEW w \in Workers, NEW pc, Goto(w, pc)
  PROVE  \E j : /\ job' = [job EXCEPT ![w] = j]
                /\ j.pc = pc /\ j.transfer = job[w].transfer /\ j.file = job[w].file
                /\ j.todo = job[w].todo /\ j.seen = job[w].seen
<1> DEFINE j == [job[w] EXCEPT !.pc = pc]
<1>1. job[w] \in Job
  BY JobType
<1>2. /\ j.pc = pc /\ j.transfer = job[w].transfer /\ j.file = job[w].file
      /\ j.todo = job[w].todo /\ j.seen = job[w].seen
  BY <1>1 DEF Job
<1>3. job' = [job EXCEPT ![w] = j]
  BY DEF Goto
<1> HIDE DEF j
<1> QED  BY <1>2, <1>3

\* One object has been looked at, or deleted.
Trimmed(w, f, j) ==
    /\ job' = [job EXCEPT ![w] = j]
    /\ j.pc = job[w].pc /\ j.transfer = job[w].transfer /\ j.file = job[w].file
    /\ j.todo = job[w].todo \ {f} /\ j.seen = job[w].seen

\* Whoever goes on with the same file, on the same terms, meets whom it met.
LEMMA GoesOn ==
  ASSUME FilesOK, NEW w \in Workers, NEW j, j.file = job[w].file,
         j.pc \in FilePCs => job[w].pc \in FilePCs,
         j.pc \in Uploading => job[w].pc \in Uploading,
         j.pc \in Naming => job[w].pc \in Naming
  PROVE  \A v \in Workers \ {w} : Compatible(job[v], j)
  BY Disjoint DEF FilesOK, Exclusive, Compatible

-----------------------------------------------------------------------------
(* init-multipart *)

LEMMA InitKeeps ==
  ASSUME Typed, FilesOK, NEW w \in Requests, NEW f \in Files, NEW me \in Callers, InitMultipart(w, f, me)
  PROVE  FilesOK'
<1> DEFINE j == Call("init.total", TransferOf[f], f)
<1>w. w \in Workers
  BY DEF Workers
<1>1. job' = [job EXCEPT ![w] = j] /\ UNCHANGED <<fileVars, declared>>
  BY DEF InitMultipart, history
<1>2. job[w].pc = "idle" /\ j.pc = "init.total" /\ j.file = f
  BY DEF InitMultipart, Begin, Idle, Call
<1>3. Fresh(f) /\ UNCHANGED <<fileRow, r2, reserved>>
  BY DEF InitMultipart, fileVars
<1>4. FileJob(j)'
  BY <1>2, <1>3 DEF FileJob, Naming, Fresh
<1>5. \A v \in Workers \ {w} : Compatible(job[v], j)
  BY <1>2, <1>3 DEF Fresh, Compatible
<1> HIDE DEF j
<1> QED  BY <1>w, <1>1, <1>2, <1>4, <1>5, QuietStep DEF Owing

LEMMA CheckKeeps ==
  ASSUME Typed, FilesOK, NEW w \in Requests, CheckTotalSize(w)
  PROVE  FilesOK'
<1>w. w \in Workers /\ job[w].pc = "init.total" /\ JobsOK /\ FileJob(job[w])
  BY DEF CheckTotalSize, At, Workers, Typed, FilesOK
<1>u. UNCHANGED <<fileVars, declared>>
  BY DEF CheckTotalSize, history
<1>1. CASE Finish(w)
  BY <1>w, <1>u, <1>1, QuietFinish
<1>2. CASE Goto(w, "init.charge")
  <2>1. PICK j : /\ job' = [job EXCEPT ![w] = j]
                 /\ j.pc = "init.charge" /\ j.transfer = job[w].transfer /\ j.file = job[w].file
                 /\ j.todo = job[w].todo /\ j.seen = job[w].seen
    BY <1>w, <1>2, GotoJob
  <2>2. FileJob(j)'
    BY <1>w, <1>u, <2>1 DEF FileJob, FilePCs, Uploading, Naming, fileVars
  <2>3. \A v \in Workers \ {w} : Compatible(job[v], j)
    BY <1>w, <2>1, GoesOn DEF FilePCs, Uploading, Naming, Owing
  <2> QED  BY <1>w, <1>u, <2>1, <2>2, <2>3, QuietStep DEF Owing
<1> QED  BY <1>1, <1>2 DEF CheckTotalSize

\* A step that changes what is stored for, or known of, the handler's own file.
LEMMA OwnFileStep ==
  ASSUME Typed, FilesOK, NEW w \in Workers, NEW j, NEW f \in Files,
         job' = [job EXCEPT ![w] = j], f = job[w].file,
         job[w].pc \in FilePCs, job[w].pc \notin Uploading /\ r2[f] = "none" => r2'[f] = "none",
         j.pc \in Resting \/ j.file = f, j.pc \in Resting => j.file \notin Files,
         j.pc \in Uploading => job[w].pc \in Uploading, j.pc \in Naming => job[w].pc \in Naming,
         \A g \in Files \ {f} :
            fileRow'[g] = fileRow[g] /\ r2'[g] = r2[g] /\ reserved'[g] = reserved[g],
         UNCHANGED declared,
         fileRow[f] # "none" => fileRow'[f] # "none",
         fileRow[f] = "deleted" => fileRow'[f] = "deleted",
         fileRow[f] # "none" /\ fileRow'[f] = "present" /\ r2[f] = "stored" => r2'[f] = "stored",
         Charge(f)', FileJob(j)'
  PROVE  FilesOK'
<1>t. TablesOK /\ JobsOK
  BY DEF Typed
<1> DEFINE mine == IF job[w].pc \in Uploading THEN {f} ELSE {}
<1>p. job[w].pc # "purge.r2"
  BY DEF FilePCs, Uploading, Naming
<1>1. FileRowsForward /\ UnusedBut(mine)
  <2>1. job[w].pc \notin Uploading => fileRow[f] # "none"
    BY Disjoint DEF FilesOK, FileJob
  <2> QED  BY <2>1 DEF FileRowsForward, UnusedBut
<1>2. WholeStays
  <2>1. \A g \in Files : Purging(g) => Purging(g)'
    BY <1>t, <1>p, PurgingStays
  <2>2. ASSUME NEW g \in Files, fileRow[g] # "none", Whole(g)
        PROVE  Whole(g)'
    <3>1. fileRow[g] \in {"none", "present", "deleted"}
      BY <1>t, TableTypes
    <3> QED  BY <2>1, <2>2, <3>1 DEF Whole
  <2> QED  BY <2>2 DEF WholeStays
<1>3. DeclaredOK'
  BY <1>t, <1>1, <1>2, DeclaredKept DEF FilesOK
<1>4. Charged'
  <2>1. ASSUME NEW g \in Files \ {f} PROVE Charge(g)'
    <3>1. job[w].file # g /\ (j.pc \in Owing \cup {"cancel.delete"} => j.file # g)
      BY DEF Resting, Owing
    <3>2. Releasing(g)' = Releasing(g)
      BY <1>t, <3>1, ReleasingSame
    <3>3. Owed(g)' \subseteq Owed(g)
      BY <1>t, <3>1, OwedSubset
    <3> QED  BY <1>t, <3>2, <3>3, ChargeKept DEF FilesOK, Charged
  <2> QED  BY <2>1 DEF Charged
<1>5. \A v \in Workers \ {w} : Compatible(job[v], j)
  <2>1. CASE j.pc \in Resting
    BY <2>1 DEF Compatible
  <2>2. CASE j.file = f
    BY <2>2, GoesOn
  <2> QED  BY <2>1, <2>2
<1>6. \A g \in mine : g = job[w].file /\ g \in Files /\ job[w].pc \in Uploading
  OBVIOUS
<1> HIDE DEF mine
<1> QED  BY <1>1, <1>2, <1>3, <1>4, <1>5, <1>6, FilesStep

\* Nobody else has a file whose row is not yet inserted.
LEMMA NobodyReleases ==
  ASSUME FilesOK, NEW w \in Workers, job[w].pc \in Naming
  PROVE  Releasing(job[w].file) = {} /\ Owed(job[w].file) = {}
  BY DEF FilesOK, Exclusive, Releasing, Owed, At, Workers, FilePCs, Uploading, Naming, Owing

LEMMA ChargeKeeps ==
  ASSUME Typed, FilesOK, NEW w \in Requests, ChargeVolume(w)
  PROVE  FilesOK'
<1>w. w \in Workers /\ job[w].pc = "init.charge" /\ JobsOK /\ TablesOK /\ FileJob(job[w])
  BY DEF ChargeVolume, At, Workers, Typed, FilesOK
<1>u. UNCHANGED <<fileRow, r2, declared>>
  BY DEF ChargeVolume, history
<1>1. CASE Finish(w) /\ UNCHANGED reserved
  BY <1>w, <1>u, <1>1, QuietFinish DEF fileVars
<1>2. CASE Goto(w, "init.insert") /\ reserved' = [reserved EXCEPT ![job[w].file] = @ + 1]
  <2>1. PICK j : /\ job' = [job EXCEPT ![w] = j]
                 /\ j.pc = "init.insert" /\ j.transfer = job[w].transfer /\ j.file = job[w].file
                 /\ j.todo = job[w].todo /\ j.seen = job[w].seen
    BY <1>w, <1>2, GotoJob
  <2>2. PICK f \in Files : f = job[w].file
    BY <1>w DEF FileJob, FilePCs, Uploading, Naming
  <2>3. fileRow[f] = "none" /\ r2[f] = "none" /\ reserved[f] = 0
    BY <1>w, <2>2 DEF FileJob
  <2>4. reserved'[f] = 1 /\ \A g \in Files \ {f} : reserved'[g] = reserved[g]
    BY <1>w, <1>2, <2>2, <2>3, TableTypes
  <2>5. FileJob(j)'
    BY <1>u, <2>1, <2>2, <2>3, <2>4 DEF FileJob, Naming
  <2>6. Charge(f)'
    BY <1>u, <2>3 DEF Charge
  <2> QED
    BY <1>w, <1>u, <2>1, <2>2, <2>3, <2>4, <2>5, <2>6, OwnFileStep DEF FilePCs, Uploading, Naming, Resting
<1> QED  BY <1>1, <1>2 DEF ChargeVolume

LEMMA CreateFileKeeps ==
  ASSUME Typed, FilesOK, NEW w \in Requests, CreateFile(w)
  PROVE  FilesOK'
<1>w. w \in Workers /\ job[w].pc = "init.insert" /\ JobsOK /\ TablesOK /\ FileJob(job[w])
  BY DEF CreateFile, At, Workers, Typed, FilesOK
<1>u. UNCHANGED <<r2, reserved, declared>>
  BY DEF CreateFile
<1>1. CASE Finish(w) /\ UNCHANGED fileRow
  BY <1>w, <1>u, <1>1, QuietFinish DEF fileVars
<1>2. CASE Goto(w, "init.r2") /\ fileRow' = [fileRow EXCEPT ![job[w].file] = "present"]
  <2>1. PICK j : /\ job' = [job EXCEPT ![w] = j]
                 /\ j.pc = "init.r2" /\ j.transfer = job[w].transfer /\ j.file = job[w].file
                 /\ j.todo = job[w].todo /\ j.seen = job[w].seen
    BY <1>w, <1>2, GotoJob
  <2>2. PICK f \in Files : f = job[w].file
    BY <1>w DEF FileJob, FilePCs, Uploading, Naming
  <2>3. fileRow[f] = "none" /\ r2[f] = "none" /\ reserved[f] = 1
    BY <1>w, <2>2 DEF FileJob
  <2>4. fileRow'[f] = "present" /\ \A g \in Files \ {f} : fileRow'[g] = fileRow[g]
    BY <1>w, <1>2, <2>2, TableTypes
  <2>5. FileJob(j)'
    BY <1>u, <2>1, <2>2, <2>3, <2>4 DEF FileJob, Naming
  <2>6. Charge(f)'
    <3>1. Releasing(f) = {} /\ Owed(f) = {}
      BY <1>w, <2>2, NobodyReleases DEF Naming
    <3>2. Releasing(f)' = {}
      BY <1>w, <2>1, <3>1, ReleasingSame
    <3>3. Owed(f)' \subseteq {w}
      <4>1. \A v \in Workers : job'[v] = IF v = w THEN j ELSE job[v]
        BY <1>w, <2>1 DEF JobsOK
      <4> QED  BY <3>1, <4>1 DEF Owed, Workers
    <3>4. Cardinality(Releasing(f)') = 0 /\ Cardinality(Owed(f)') <= 1 /\ Cardinality(Owed(f)') \in Nat
      <4>1. IsFiniteSet({w}) /\ Cardinality({w}) = 1
        BY FS_Singleton
      <4>2. Cardinality(Owed(f)') <= Cardinality({w}) /\ IsFiniteSet(Owed(f)')
        BY <3>3, <4>1, FS_Subset
      <4> QED  BY <3>2, <4>1, <4>2, FS_EmptySet, FS_CardinalityType
    <3>5. Cardinality(Requests) \in Nat /\ Cardinality(Requests) >= 1
      <4>1. IsFiniteSet({w}) /\ Cardinality({w}) = 1 /\ {w} \subseteq Requests
        BY FS_Singleton
      <4>2. Cardinality({w}) <= Cardinality(Requests)
        BY <4>1, OwedFinite, FS_Subset
      <4> QED  BY <4>1, <4>2, OwedFinite
    <3>6. reserved'[f] = 1
      BY <1>u, <2>3
    <3> QED  BY <3>4, <3>5, <3>6 DEF Charge
  <2> QED
    BY <1>w, <1>u, <2>1, <2>2, <2>3, <2>4, <2>5, <2>6, OwnFileStep DEF FilePCs, Uploading, Naming, Resting
<1> QED  BY <1>1, <1>2 DEF CreateFile

LEMMA OpenKeeps ==
  ASSUME Typed, FilesOK, NEW w \in Requests, OpenUpload(w)
  PROVE  FilesOK'
<1>w. w \in Workers /\ job[w].pc = "init.r2" /\ JobsOK /\ TablesOK /\ FileJob(job[w])
  BY DEF OpenUpload, At, Workers, Typed, FilesOK
<1>u. UNCHANGED <<fileRow, reserved, declared>>
  BY DEF OpenUpload, history
<1>f. PICK f \in Files : f = job[w].file
  BY <1>w DEF FileJob, FilePCs, Uploading, Naming
<1>1. fileRow[f] # "none" /\ r2[f] = "none"
  BY <1>w, <1>f DEF FileJob, FilePCs, Uploading, Naming
<1>2. \A g \in Files \ {f} : r2'[g] = r2[g]
  BY <1>w, <1>f, TableTypes DEF OpenUpload
<1>3. ASSUME NEW j, job' = [job EXCEPT ![w] = j],
             (j.pc \in Resting /\ j.file \notin Files) \/ (j.pc = "init.undo" /\ j.file = f)
      PROVE  FilesOK'
  <2>1. FileJob(j)'
    BY <1>u, <1>1, <1>3 DEF FileJob, FilePCs, Uploading, Naming, Resting
  <2>2. /\ j.pc \in Uploading => job[w].pc \in Uploading
        /\ j.pc \in Naming => job[w].pc \in Naming
        /\ job[w].pc \in FilePCs /\ job[w].pc \in Uploading
    BY <1>w, <1>3 DEF FilePCs, Uploading, Naming, Resting
  <2>3. j.pc # "cancel.delete" /\ (j.pc \in Resting => j.file \notin Files)
    BY <1>3 DEF Resting
  <2>4. Releasing(f)' = Releasing(f)
    BY <1>w, <1>3, <2>3, ReleasingSame
  <2>5. Owed(f)' \subseteq Owed(f)
    BY <1>w, <1>f, <1>3, OwedSubset DEF Owing
  <2>6. Charge(f)'
    BY <1>w, <1>u, <2>4, <2>5, ChargeKept DEF FilesOK, Charged
  <2> QED
    BY <1>w, <1>u, <1>f, <1>1, <1>2, <1>3, <2>1, <2>2, <2>3, <2>6, OwnFileStep
<1>4. CASE Finish(w)
  BY <1>w, <1>3, <1>4, FinishJob
<1>5. CASE Goto(w, "init.undo")
  BY <1>w, <1>f, <1>3, <1>5, GotoJob
<1> QED  BY <1>4, <1>5 DEF OpenUpload

LEMMA UndoKeeps ==
  ASSUME Typed, FilesOK, NEW w \in Requests, UndoCreateFile(w)
  PROVE  FilesOK'
<1>w. w \in Workers /\ job[w].pc = "init.undo" /\ JobsOK /\ TablesOK /\ FileJob(job[w])
  BY DEF UndoCreateFile, At, Workers, Typed, FilesOK
<1>u. UNCHANGED <<r2, reserved, declared>>
  BY DEF UndoCreateFile, history
<1>f. PICK f \in Files : f = job[w].file
  BY <1>w DEF FileJob, FilePCs, Uploading, Naming
<1>1. PICK j : /\ job' = [job EXCEPT ![w] = j]
               /\ j.pc = "init.release" /\ j.transfer = job[w].transfer /\ j.file = job[w].file
               /\ j.todo = job[w].todo /\ j.seen = job[w].seen
  BY <1>w, GotoJob DEF UndoCreateFile
<1>2. fileRow'[f] = "deleted" /\ \A g \in Files \ {f} : fileRow'[g] = fileRow[g]
  BY <1>w, <1>f, TableTypes DEF UndoCreateFile, DeleteFileRow
<1>3. FileJob(j)'
  BY <1>f, <1>1, <1>2 DEF FileJob
<1>4. Charge(f)'
  <2>1. Owed(f)' \subseteq Owed(f)
    BY <1>w, <1>f, <1>1, OwedSubset DEF Owing
  <2>2. fileRow[f] # "none"
    BY <1>w, <1>f DEF FileJob, FilePCs, Uploading, Naming
  <2> QED  BY <1>w, <1>u, <1>2, <2>1, <2>2, ChargeKept DEF FilesOK, Charged
<1> QED
  BY <1>w, <1>u, <1>f, <1>1, <1>2, <1>3, <1>4, OwnFileStep DEF FilePCs, Uploading, Naming, Resting

-----------------------------------------------------------------------------
(* complete-multipart, abort-multipart, and the release *)

LEMMA BeginOnFileKeeps ==
  ASSUME Typed, FilesOK, NEW w \in Requests, NEW f \in Files, NEW me, NEW endpoint,
         NEW pc \in {"stitch.file", "cancel.file"}, BeginOnFile(w, f, me, endpoint, pc)
  PROVE  FilesOK'
<1> DEFINE j == Call(pc, TransferOf[f], f)
<1>w. w \in Workers
  BY DEF Workers
<1>1. job' = [job EXCEPT ![w] = j] /\ UNCHANGED <<fileVars, declared>>
  BY DEF BeginOnFile, history
<1>2. job[w].pc = "idle" /\ j.pc = pc /\ j.file = f
  BY DEF BeginOnFile, Begin, Idle, Call
<1>3. fileRow[f] # "none"
  BY DEF BeginOnFile
<1>4. FileJob(j)'
  BY <1>1, <1>2, <1>3 DEF FileJob, Naming, fileVars
<1>5. ASSUME NEW v \in Workers \ {w} PROVE Compatible(job[v], j)
  <2>1. job[v].file = f => job[v].pc \notin Naming
    BY <1>3 DEF FilesOK, FileJob, Naming
  <2> QED  BY <1>2, <2>1 DEF Compatible, Uploading, Naming
<1>6. j.pc \notin Owing
  BY <1>2 DEF Owing
<1> HIDE DEF j
<1> QED  BY <1>w, <1>1, <1>2, <1>4, <1>5, <1>6, QuietStep DEF Owing

\* Every request that is in a position to release f finds room for it: the row is
\* still there, so those that have released it are still on their way to delete it.
LEMMA RoomToRelease ==
  ASSUME Typed, FilesOK, NEW w \in Requests, NEW j, NEW f \in Files, job' = [job EXCEPT ![w] = j],
         UNCHANGED <<fileRow, reserved>>, fileRow[f] = "present",
         job[w].pc # "cancel.delete", j.pc \in Owing, j.file = f
  PROVE  Charge(f)'
<1>t. TablesOK /\ JobsOK /\ w \in Workers
  BY DEF Typed, Workers
<1>1. \A v \in Workers : job'[v] = IF v = w THEN j ELSE job[v]
  BY <1>t DEF JobsOK
<1>2. Releasing(f)' = Releasing(f)
  BY <1>t, ReleasingSame DEF Owing
<1>3. Owed(f)' \cap Releasing(f) = {} /\ Owed(f)' \subseteq Requests
  BY <1>1, <1>2 DEF Owed, Releasing, At, Owing, Workers
<1>4. reserved[f] = 1 - Cardinality(Releasing(f)) /\ reserved[f] \in Int
  BY <1>t, TableTypes DEF FilesOK, Charged, Charge
<1>5. Cardinality(Owed(f)') + Cardinality(Releasing(f)) <= Cardinality(Requests)
  <2>1. Owed(f)' \cup Releasing(f) \subseteq Requests
    BY <1>3 DEF Releasing
  <2>2. IsFiniteSet(Owed(f)') /\ IsFiniteSet(Releasing(f))
    BY <1>3, OwedFinite, FS_Subset
  <2>3. Cardinality(Owed(f)' \cup Releasing(f))
          = Cardinality(Owed(f)') + Cardinality(Releasing(f)) - Cardinality(Owed(f)' \cap Releasing(f))
    BY <2>2, FS_Union
  <2>4. Cardinality(Owed(f)' \cup Releasing(f)) <= Cardinality(Requests)
    BY <2>1, OwedFinite, FS_Subset
  <2>5. Cardinality(Owed(f)') \in Nat /\ Cardinality(Releasing(f)) \in Nat
    BY <2>2, FS_CardinalityType
  <2>6. Cardinality(Owed(f)' \cap Releasing(f)) = 0
    BY <1>3, FS_EmptySet
  <2>7. Cardinality(Owed(f)' \cup Releasing(f)) = Cardinality(Owed(f)') + Cardinality(Releasing(f))
    BY <2>3, <2>5, <2>6
  <2> QED  BY <2>4, <2>7
<1>6. Cardinality(Owed(f)') \in Nat /\ Cardinality(Releasing(f)) \in Nat /\ Cardinality(Requests) \in Nat
  BY <1>3, OwedFinite, FS_Subset, FS_CardinalityType
<1>7. reserved'[f] = reserved[f] /\ fileRow'[f] = "present"
  OBVIOUS
<1> QED  BY <1>2, <1>4, <1>5, <1>6, <1>7 DEF Charge

LEMMA ReadFileKeeps ==
  ASSUME Typed, FilesOK, NEW w \in Requests, ReadFile(w)
  PROVE  FilesOK'
<1>w. w \in Workers /\ job[w].pc \in {"stitch.file", "cancel.file"} /\ JobsOK /\ TablesOK /\ FileJob(job[w])
  BY DEF ReadFile, At, Workers, Typed, FilesOK
<1>u. UNCHANGED <<fileVars, declared>>
  BY DEF ReadFile, history
<1>1. CASE Finish(w)
  BY <1>w, <1>u, <1>1, QuietFinish
<1>2. ASSUME NEW pc \in {"stitch.r2", "cancel.r2"}, Goto(w, pc), fileRow[job[w].file] = "present"
      PROVE  FilesOK'
  <2>1. PICK j : /\ job' = [job EXCEPT ![w] = j]
                 /\ j.pc = pc /\ j.transfer = job[w].transfer /\ j.file = job[w].file
                 /\ j.todo = job[w].todo /\ j.seen = job[w].seen
    BY <1>w, <1>2, GotoJob
  <2>f. PICK f \in Files : f = job[w].file
    BY <1>w DEF FileJob, FilePCs
  <2>2. FileJob(j)'
    BY <1>w, <1>u, <1>2, <2>1 DEF FileJob, FilePCs, fileVars
  <2>3. \A v \in Workers \ {w} : Compatible(job[v], j)
    BY <1>w, <2>1, GoesOn DEF FilePCs, Uploading, Naming
  <2>4. ASSUME j.pc \in Owing
        PROVE  Charged'
    <3>1. Charge(f)'
      BY <1>w, <1>u, <1>2, <2>1, <2>4, <2>f, RoomToRelease DEF fileVars
    <3>2. ASSUME NEW g \in Files \ {f} PROVE Charge(g)'
      <4>1. Releasing(g)' = Releasing(g) /\ Owed(g)' \subseteq Owed(g)
        BY <1>w, <2>1, <2>f, ReleasingSame, OwedSubset
      <4> QED  BY <1>w, <1>u, <4>1, ChargeKept DEF FilesOK, Charged, fileVars
    <3> QED  BY <3>1, <3>2 DEF Charged
  <2>5. job[w].pc # "cancel.delete" /\ j.pc # "cancel.delete" /\ job[w].pc # "purge.r2"
    BY <1>w, <2>1
  <2> QED  BY <1>w, <1>u, <2>1, <2>2, <2>3, <2>4, <2>5, QuietStep DEF Owing
<1> QED  BY <1>1, <1>2 DEF ReadFile

LEMMA ReleaseKeeps ==
  ASSUME Typed, FilesOK, NEW w \in Requests, ReleaseVolume(w)
  PROVE  FilesOK'
<1>w. w \in Workers /\ JobsOK /\ TablesOK /\ FileJob(job[w])
  BY DEF Workers, Typed, FilesOK
<1>u. UNCHANGED <<fileRow, r2, declared>>
  BY DEF ReleaseVolume, history
<1>p. job[w].pc \in {"init.release", "cancel.release"} /\ job[w].pc \in FilePCs
  BY DEF ReleaseVolume, At, FilePCs, Uploading, Naming
<1>f. PICK f \in Files : f = job[w].file
  BY <1>w, <1>p DEF FileJob
<1>1. reserved'[f] = reserved[f] - 1 /\ \A g \in Files \ {f} : reserved'[g] = reserved[g]
  BY <1>w, <1>f, TableTypes DEF ReleaseVolume
\* One of those that may release it has.
<1>o. ASSUME NEW j, job' = [job EXCEPT ![w] = j], j.pc \notin Owing,
             fileRow[f] = "present" => Cardinality(Releasing(f)') = Cardinality(Releasing(f)) + 1
      PROVE  Charge(f)'
  <2>1. \A v \in Workers : job'[v] = IF v = w THEN j ELSE job[v]
    BY <1>w, <1>o DEF JobsOK
  <2>2. Owed(f)' = Owed(f) \ {w} /\ w \in Owed(f)
    BY <1>f, <1>o, <1>p, <2>1 DEF Owed, Owing, Workers
  <2>3. Cardinality(Owed(f)') = Cardinality(Owed(f)) - 1 /\ Cardinality(Owed(f)) \in Nat
    BY <2>2, OwedFinite, FS_RemoveElement
  <2>4. Cardinality(Releasing(f)) \in Nat /\ Cardinality(Requests) \in Nat /\ reserved[f] \in Int
    BY <1>w, OwedFinite, TableTypes
  <2>5. Charge(f)
    BY DEF FilesOK, Charged
  <2>6. fileRow'[f] = fileRow[f]
    BY <1>u
  <2>7. fileRow'[f] = "present" => reserved'[f] = 1 - Cardinality(Releasing(f)')
    BY <1>1, <1>o, <2>4, <2>5, <2>6 DEF Charge
  <2>8. fileRow'[f] # "none" =>
          reserved'[f] <= 1 /\ 1 + Cardinality(Owed(f)') <= reserved'[f] + Cardinality(Requests)
    BY <1>1, <2>3, <2>4, <2>5, <2>6 DEF Charge
  <2> QED  BY <2>7, <2>8 DEF Charge
<1>2. CASE At(w, "init.release") /\ Finish(w)
  <2>1. PICK j : job' = [job EXCEPT ![w] = j] /\ j.pc \in Resting /\ j.file \notin Files
    BY <1>w, <1>2, FinishJob
  <2>2. FileJob(j)'
    BY <2>1, RestingJob
  <2>3. fileRow[f] = "deleted"
    BY <1>w, <1>f, <1>2 DEF FileJob, At
  <2>4. j.pc \notin Uploading /\ j.pc \notin Naming /\ j.pc \notin Owing
    BY <2>1 DEF Resting, Uploading, Naming, Owing
  <2>5. Charge(f)'
    BY <1>o, <2>1, <2>3, <2>4
  <2> QED  BY <1>w, <1>u, <1>f, <1>p, <1>1, <2>1, <2>2, <2>3, <2>4, <2>5, OwnFileStep
<1>3. CASE At(w, "cancel.release") /\ Goto(w, "cancel.delete")
  <2>1. PICK j : /\ job' = [job EXCEPT ![w] = j]
                 /\ j.pc = "cancel.delete" /\ j.transfer = job[w].transfer /\ j.file = job[w].file
                 /\ j.todo = job[w].todo /\ j.seen = job[w].seen
    BY <1>w, <1>3, GotoJob
  <2>2. FileJob(j)'
    BY <1>w, <1>u, <1>f, <1>3, <2>1 DEF FileJob, At, FilePCs, Uploading, Naming
  <2>3. Cardinality(Releasing(f)') = Cardinality(Releasing(f)) + 1
    <3>1. \A v \in Workers : job'[v] = IF v = w THEN j ELSE job[v]
      BY <1>w, <2>1 DEF JobsOK
    <3>2. Releasing(f)' = Releasing(f) \cup {w} /\ w \notin Releasing(f)
      BY <1>f, <1>3, <2>1, <3>1 DEF Releasing, At, Workers
    <3> QED  BY <3>2, OwedFinite, FS_AddElement
  <2>4. j.pc \notin Resting /\ j.pc \notin Uploading /\ j.pc \notin Naming /\ j.pc \notin Owing
    BY <2>1 DEF Resting, Uploading, Naming, Owing
  <2>5. Charge(f)'
    BY <1>o, <2>1, <2>3, <2>4
  <2> QED  BY <1>w, <1>u, <1>f, <1>p, <1>1, <2>1, <2>2, <2>4, <2>5, OwnFileStep
<1> QED  BY <1>2, <1>3 DEF ReleaseVolume

\* What R2 is told of an upload that is open.
LEMMA R2Step ==
  ASSUME Typed, FilesOK, NEW w \in Requests, NEW j, job' = [job EXCEPT ![w] = j],
         job[w].pc \in {"stitch.r2", "cancel.r2"},
         (j.pc \in Resting /\ j.file \notin Files)
           \/ (j.pc = "cancel.release" /\ job[w].pc = "cancel.r2" /\ j.file = job[w].file),
         UNCHANGED <<fileRow, reserved, declared>>,
         UNCHANGED r2 \/ \E x : r2[job[w].file] = "open" /\ r2' = [r2 EXCEPT ![job[w].file] = x]
  PROVE  FilesOK'
<1>w. w \in Workers /\ JobsOK /\ TablesOK /\ FileJob(job[w])
  BY DEF Workers, Typed, FilesOK
<1>p. job[w].pc \in FilePCs /\ job[w].pc \notin Uploading
  BY DEF FilePCs, Uploading, Naming
<1>f. PICK f \in Files : f = job[w].file
  BY <1>w, <1>p DEF FileJob
<1>1. /\ \A g \in Files \ {f} : r2'[g] = r2[g]
      /\ (r2[f] = "stored" => r2'[f] = "stored") /\ (r2[f] = "none" => r2'[f] = "none")
  BY <1>w, <1>f, TableTypes
<1>2. FileJob(j)'
  BY <1>w, <1>f DEF FileJob, FilePCs, Uploading, Naming, Resting
<1>3. /\ j.pc \notin Uploading /\ j.pc \notin Naming /\ j.pc # "cancel.delete"
      /\ j.pc \in Resting => j.file \notin Files
      /\ j.pc \in Resting \/ j.file = f
  BY <1>f DEF Uploading, Naming, Resting
<1>4. Releasing(f)' = Releasing(f)
  BY <1>w, <1>3, ReleasingSame
<1>5. Owed(f)' \subseteq Owed(f)
  BY <1>w, <1>f, OwedSubset DEF Owing
<1>6. Charge(f)'
  BY <1>w, <1>4, <1>5, ChargeKept DEF FilesOK, Charged
<1> QED  BY <1>w, <1>f, <1>p, <1>1, <1>2, <1>3, <1>6, OwnFileStep

LEMMA StitchKeeps ==
  ASSUME Typed, FilesOK, NEW w \in Requests, StitchUpload(w)
  PROVE  FilesOK'
<1>w. w \in Workers /\ job[w].pc = "stitch.r2" /\ JobsOK
  BY DEF StitchUpload, At, Workers, Typed
<1>1. PICK j : job' = [job EXCEPT ![w] = j] /\ j.pc \in Resting /\ j.file \notin Files
  BY <1>w, FinishJob DEF StitchUpload
<1>2. UNCHANGED <<fileRow, reserved, declared>>
  BY DEF StitchUpload, history
<1>3. UNCHANGED r2 \/ \E x : r2[job[w].file] = "open" /\ r2' = [r2 EXCEPT ![job[w].file] = x]
  BY DEF StitchUpload
<1> QED  BY <1>w, <1>1, <1>2, <1>3, R2Step

LEMMA CancelKeeps ==
  ASSUME Typed, FilesOK, NEW w \in Requests, AbortUpload(w)
  PROVE  FilesOK'
<1>w. w \in Workers /\ job[w].pc = "cancel.r2" /\ JobsOK
  BY DEF AbortUpload, At, Workers, Typed
<1>1. PICK j : /\ job' = [job EXCEPT ![w] = j]
               /\ j.pc = "cancel.release" /\ j.transfer = job[w].transfer /\ j.file = job[w].file
               /\ j.todo = job[w].todo /\ j.seen = job[w].seen
  BY <1>w, GotoJob DEF AbortUpload
<1>2. UNCHANGED <<fileRow, reserved, declared>>
  BY DEF AbortUpload, history
<1>3. UNCHANGED r2 \/ \E x : r2[job[w].file] = "open" /\ r2' = [r2 EXCEPT ![job[w].file] = x]
  BY DEF AbortUpload
<1> QED  BY <1>w, <1>1, <1>2, <1>3, R2Step

LEMMA DeleteKeeps ==
  ASSUME Typed, FilesOK, NEW w \in Requests, DeleteFile(w)
  PROVE  FilesOK'
<1>w. w \in Workers /\ job[w].pc = "cancel.delete" /\ JobsOK /\ TablesOK /\ FileJob(job[w])
  BY DEF DeleteFile, At, Workers, Typed, FilesOK
<1>u. UNCHANGED <<r2, reserved, declared>>
  BY DEF DeleteFile, history
<1>f. PICK f \in Files : f = job[w].file
  BY <1>w DEF FileJob, FilePCs
<1>1. PICK j : job' = [job EXCEPT ![w] = j] /\ j.pc \in Resting /\ j.file \notin Files
  BY <1>w, FinishJob DEF DeleteFile
<1>2. fileRow'[f] = "deleted" /\ \A g \in Files \ {f} : fileRow'[g] = fileRow[g]
  BY <1>w, <1>f, TableTypes DEF DeleteFile, DeleteFileRow
<1>3. FileJob(j)'
  BY <1>1, RestingJob
<1>4. /\ j.pc \notin Uploading /\ j.pc \notin Naming /\ j.pc \notin Owing
      /\ job[w].pc \in FilePCs /\ job[w].pc \notin Uploading
  BY <1>w, <1>1 DEF Resting, FilePCs, Uploading, Naming, Owing
<1>5. Charge(f)'
  <2>1. Owed(f)' \subseteq Owed(f)
    BY <1>w, <1>1, <1>4, OwedSubset
  <2>2. fileRow[f] # "none"
    BY <1>w, <1>f DEF FileJob, FilePCs, Naming
  <2> QED  BY <1>w, <1>u, <1>2, <2>1, <2>2, ChargeKept DEF FilesOK, Charged
<1> QED  BY <1>w, <1>u, <1>f, <1>1, <1>2, <1>3, <1>4, <1>5, OwnFileStep

-----------------------------------------------------------------------------
(* complete *)

LEMMA BeginKeeps ==
  ASSUME Typed, FilesOK, NEW w \in Workers, NEW t, NEW pc \in {"complete.files", "purge.files"},
         job' = [job EXCEPT ![w] = Call(pc, t, NoFile)], UNCHANGED <<fileVars, declared>>,
         job[w].pc \in Resting
  PROVE  FilesOK'
<1> DEFINE j == Call(pc, t, NoFile)
<1>1. j.pc = pc /\ j.file \notin Files
  BY ConstantsOK DEF Call
<1>2. FileJob(j)'
  BY <1>1 DEF FileJob, FilePCs, Uploading, Naming, Owing
<1>3. \A v \in Workers \ {w} : Compatible(job[v], j)
  BY <1>1 DEF Compatible
<1>4. job[w].pc \notin {"cancel.delete", "purge.r2"} /\ j.pc # "cancel.delete" /\ j.pc \notin Owing
  BY <1>1 DEF Resting, Owing
<1> HIDE DEF j
<1>5. job' = [job EXCEPT ![w] = j]
  BY DEF j
<1> QED  BY <1>2, <1>3, <1>4, <1>5, QuietStep DEF Owing

LEMMA BeginCompleteKeeps ==
  ASSUME Typed, FilesOK, NEW w \in Requests, NEW t \in Transfers, NEW me \in Callers,
         CompleteTransfer(w, t, me) \/ AbortTransfer(w, t, me)
  PROVE  FilesOK'
<1>1. job[w].pc \in Resting /\ UNCHANGED <<fileVars, declared>> /\ w \in Workers
  BY DEF CompleteTransfer, AbortTransfer, Begin, Idle, Call, Resting, history, Workers
<1> QED  BY <1>1, BeginKeeps DEF CompleteTransfer, AbortTransfer

LEMMA ListKeeps ==
  ASSUME Typed, FilesOK, NEW w \in Requests, ListFiles(w)
  PROVE  FilesOK'
<1>w. w \in Workers /\ job[w].pc = "complete.files" /\ JobsOK
  BY DEF ListFiles, At, Workers, Typed
<1>u. UNCHANGED <<fileVars, declared>>
  BY DEF ListFiles, history
<1>1. CASE Finish(w)
  BY <1>w, <1>u, <1>1, QuietFinish
<1>2. CASE job' = [job EXCEPT ![w].pc = "complete.head",
                              ![w].todo = FilesOf(job[w].transfer),
                              ![w].seen = FilesOf(job[w].transfer)]
  <2> DEFINE found == FilesOf(job[w].transfer)
             k == [job[w] EXCEPT !.pc = "complete.head", !.todo = found, !.seen = found]
  <2>k. /\ job' = [job EXCEPT ![w] = k]
        /\ k.pc = "complete.head" /\ k.transfer = job[w].transfer /\ k.file = job[w].file
        /\ k.todo = found /\ k.seen = found
    BY <1>2, <1>w, JobType DEF JobsOK, Job
  <2>1. PICK j : /\ job' = [job EXCEPT ![w] = j]
                 /\ j.pc = "complete.head" /\ j.transfer = job[w].transfer /\ j.file = job[w].file
                 /\ j.todo = found /\ j.seen = found
    <3> HIDE DEF k, found
    <3> QED  BY <2>k
  <2>3. \A f \in j.seen : TransferOf[f] = j.transfer /\ fileRow'[f] = "present" /\ f \in j.todo
    BY <1>u, <2>1 DEF FilesOf, fileVars
  <2> HIDE DEF found
  <2>4. FileJob(j)'
    BY <2>1, <2>3 DEF FileJob, FilePCs, Uploading, Naming, Owing
  <2>5. \A v \in Workers \ {w} : Compatible(job[v], j)
    BY <1>w, <2>1, GoesOn DEF FilePCs, Uploading, Naming, Owing
  <2> QED  BY <1>w, <1>u, <2>1, <2>4, <2>5, QuietStep DEF Owing
<1> QED  BY <1>1, <1>2 DEF ListFiles

LEMMA HeadKeeps ==
  ASSUME Typed, FilesOK, NEW w \in Requests, HeadObject(w)
  PROVE  FilesOK'
<1>w. w \in Workers /\ job[w].pc = "complete.head" /\ JobsOK /\ FileJob(job[w])
  BY DEF HeadObject, At, Workers, Typed, FilesOK
<1>u. UNCHANGED <<fileVars, declared>>
  BY DEF HeadObject, history
<1>1. CASE Finish(w)
  BY <1>w, <1>u, <1>1, QuietFinish
<1>2. ASSUME NEW f \in job[w].todo, r2[f] = "stored", job' = [job EXCEPT ![w].todo = @ \ {f}]
      PROVE  FilesOK'
  <2>j. PICK j : Trimmed(w, f, j)
    <3> DEFINE k == [job[w] EXCEPT !.todo = @ \ {f}]
    <3>1. Trimmed(w, f, k)
      BY <1>w, <1>2, JobType DEF Trimmed, Job
    <3> HIDE DEF k
    <3> QED  BY <3>1
  <2>1. /\ job' = [job EXCEPT ![w] = j]
        /\ j.pc = "complete.head" /\ j.transfer = job[w].transfer /\ j.file = job[w].file
        /\ j.todo = job[w].todo \ {f} /\ j.seen = job[w].seen
    BY <1>w, <2>j DEF Trimmed
  <2>3. \A g \in job[w].seen : /\ TransferOf[g] = job[w].transfer /\ fileRow[g] # "none"
                               /\ g \notin j.todo => Whole(g)
    BY <1>w, <1>2, <2>1 DEF FileJob, Whole
  <2>4. \A g \in Files : Whole(g) => Whole(g)'
    BY <1>w, <1>u, <2>1, PurgingStays DEF Whole, fileVars
  <2>5. job[w].seen \subseteq Files
    BY <1>w, JobType DEF Job
  <2>6. FileJob(j)'
    BY <1>u, <2>1, <2>3, <2>4, <2>5 DEF FileJob, FilePCs, Uploading, Naming, Owing, fileVars
  <2>7. \A v \in Workers \ {w} : Compatible(job[v], j)
    BY <1>w, <2>1, GoesOn DEF FilePCs, Uploading, Naming, Owing
  <2> QED  BY <1>w, <1>u, <2>1, <2>6, <2>7, QuietStep DEF Owing
<1> QED  BY <1>1, <1>2 DEF HeadObject

LEMMA MarkKeeps ==
  ASSUME Typed, FilesOK, NEW w \in Requests, MarkCompleted(w)
  PROVE  FilesOK'
<1>w. w \in Workers /\ job[w].pc = "complete.head" /\ job[w].todo = {} /\ JobsOK /\ FileJob(job[w]) /\ TablesOK
  BY DEF MarkCompleted, At, Workers, Typed, FilesOK
<1>u. UNCHANGED <<fileRow, r2, reserved>>
  BY DEF MarkCompleted, fileVars
<1>t. PICK t \in Transfers : t = job[w].transfer
  BY <1>w, JobType DEF Resting
<1>1. PICK j : job' = [job EXCEPT ![w] = j] /\ j.pc \in Resting /\ j.file \notin Files
  BY <1>w, FinishJob DEF MarkCompleted
<1>2. FileJob(j)' /\ \A v \in Workers \ {w} : Compatible(job[v], j)
  BY <1>1, RestingJob
<1>3. FileRowsForward /\ UnusedBut({})
  BY <1>u DEF FileRowsForward, UnusedBut
<1>4. WholeStays
  BY <1>w, <1>u, <1>1, PurgingStays DEF WholeStays, Whole
<1>5. Charged'
  <2>1. ASSUME NEW f \in Files PROVE Charge(f)'
    <3>1. Releasing(f)' = Releasing(f)
      BY <1>w, <1>1, ReleasingSame DEF Resting
    <3>2. Owed(f)' \subseteq Owed(f)
      BY <1>w, <1>1, OwedSubset DEF Resting, Owing
    <3> QED  BY <1>w, <1>u, <3>1, <3>2, ChargeKept DEF FilesOK, Charged
  <2> QED  BY <2>1 DEF Charged
<1>6. \A s \in Transfers : declared'[s] \subseteq declared[s] \cup (IF s = t THEN job[w].seen ELSE {})
  BY <1>w, <1>t, TableTypes DEF MarkCompleted
<1>7. job[w].seen \subseteq Files /\ \A s \in Transfers : declared[s] \subseteq Files
  BY <1>w, JobType, TableTypes DEF Job
<1>8. \A f \in job[w].seen : TransferOf[f] = t /\ fileRow[f] # "none" /\ Whole(f)
  BY <1>w, <1>t DEF FileJob
<1>9. DeclaredOK'
  <2> SUFFICES ASSUME NEW s \in Transfers, NEW f \in declared'[s]
               PROVE  TransferOf[f] = s /\ fileRow'[f] # "none" /\ Whole(f)'
    BY DEF DeclaredOK
  <2>1. f \in Files /\ TransferOf[f] = s /\ fileRow[f] # "none" /\ Whole(f)
    BY <1>6, <1>7, <1>8 DEF FilesOK, DeclaredOK
  <2> QED  BY <1>u, <1>4, <2>1 DEF WholeStays
<1> QED  BY <1>w, <1>1, <1>2, <1>3, <1>4, <1>5, <1>9, FilesStep

-----------------------------------------------------------------------------
(* Downloads *)

LEMMA UrlKeeps ==
  ASSUME Typed, FilesOK, NEW w \in Requests, NEW f \in Files, RequestUrl(w, f)
  PROVE  FilesOK'
<1> DEFINE j == Call("url.claim", TransferOf[f], f)
<1>w. w \in Workers
  BY DEF Workers
<1>1. job' = [job EXCEPT ![w] = j] /\ UNCHANGED <<fileVars, declared>>
  BY DEF RequestUrl, history
<1>2. job[w].pc = "idle" /\ j.pc = "url.claim" /\ j.file = f
  BY DEF RequestUrl, Begin, Idle, Call
<1>f. fileRow[f] # "none"
  BY DEF RequestUrl
<1>3. FileJob(j)'
  BY <1>1, <1>2, <1>f DEF FileJob, Naming, FilePCs, Uploading, Owing, fileVars
<1>4. ASSUME NEW v \in Workers \ {w} PROVE Compatible(job[v], j)
  <2>1. job[v].file = f => job[v].pc \notin Naming
    BY <1>f DEF FilesOK, FileJob, Naming
  <2> QED  BY <1>2, <2>1 DEF Compatible, Uploading, Naming
<1> HIDE DEF j
<1> QED  BY <1>w, <1>1, <1>2, <1>3, <1>4, QuietStep DEF Owing

LEMMA ClaimKeeps ==
  ASSUME Typed, FilesOK, NEW w \in Requests, ClaimDownloadSlot(w)
  PROVE  FilesOK'
<1>w. w \in Workers /\ job[w].pc = "url.claim" /\ JobsOK /\ FileJob(job[w])
  BY DEF ClaimDownloadSlot, At, Workers, Typed, FilesOK
<1>u. UNCHANGED <<fileVars, declared>>
  BY DEF ClaimDownloadSlot, history
<1>1. CASE Finish(w)
  BY <1>w, <1>u, <1>1, QuietFinish
<1>2. ASSUME NEW n, job' = [job EXCEPT ![w].pc = "url.sign", ![w].slot = n]
      PROVE  FilesOK'
  <2> DEFINE k == [job[w] EXCEPT !.pc = "url.sign", !.slot = n]
  <2>k. job' = [job EXCEPT ![w] = k] /\ k.pc = "url.sign" /\ k.file = job[w].file
    BY <1>w, <1>2, JobType DEF JobsOK, Job
  <2>1. PICK j : job' = [job EXCEPT ![w] = j] /\ j.pc = "url.sign" /\ j.file = job[w].file
    <3> HIDE DEF k
    <3> QED  BY <2>k
  <2>3. FileJob(j)'
    BY <1>w, <1>u, <2>1 DEF FileJob, FilePCs, Uploading, Naming, Owing, fileVars
  <2>4. \A v \in Workers \ {w} : Compatible(job[v], j)
    BY <1>w, <2>1, GoesOn DEF FilePCs, Uploading, Naming, Owing
  <2> QED  BY <1>w, <1>u, <2>1, <2>3, <2>4, QuietStep DEF Owing
<1> QED  BY <1>1, <1>2 DEF ClaimDownloadSlot

LEMMA IssueKeeps ==
  ASSUME Typed, FilesOK, NEW w \in Requests, IssueUrl(w)
  PROVE  FilesOK'
<1>1. w \in Workers /\ job[w].pc = "url.sign" /\ UNCHANGED <<fileVars, declared>> /\ Finish(w)
  BY DEF IssueUrl, At, Workers
<1> QED  BY <1>1, QuietFinish

-----------------------------------------------------------------------------
(* Removal *)

LEMMA PurgeListKeeps ==
  ASSUME Typed, FilesOK, NEW w \in Workers, PurgeList(w)
  PROVE  FilesOK'
<1>w. job[w].pc = "purge.files" /\ JobsOK
  BY DEF PurgeList, At, Typed
<1>u. UNCHANGED <<fileVars, declared>>
  BY DEF PurgeList, history
<1> DEFINE found == FilesOf(job[w].transfer)
           k == [job[w] EXCEPT !.pc = "purge.r2", !.todo = found]
<1>k. /\ job' = [job EXCEPT ![w] = k]
      /\ k.pc = "purge.r2" /\ k.transfer = job[w].transfer /\ k.file = job[w].file
      /\ k.todo = found
  BY <1>w, JobType DEF PurgeList, JobsOK, Job
<1>1. PICK j : /\ job' = [job EXCEPT ![w] = j]
               /\ j.pc = "purge.r2" /\ j.transfer = job[w].transfer /\ j.file = job[w].file
               /\ j.todo = found
  <2> HIDE DEF k, found
  <2> QED  BY <1>k
<1>3. \A f \in j.todo : TransferOf[f] = j.transfer
  BY <1>1 DEF FilesOf
<1> HIDE DEF found
<1>4. FileJob(j)'
  BY <1>1, <1>3 DEF FileJob, FilePCs, Uploading, Naming, Owing
<1>5. \A v \in Workers \ {w} : Compatible(job[v], j)
  BY <1>w, <1>1, GoesOn DEF FilePCs, Uploading, Naming, Owing
<1> QED  BY <1>w, <1>u, <1>1, <1>4, <1>5, QuietStep DEF Owing

LEMMA PurgeObjectKeeps ==
  ASSUME Typed, FilesOK, NEW w \in Workers, PurgeObject(w)
  PROVE  FilesOK'
<1>w. job[w].pc = "purge.r2" /\ JobsOK /\ TablesOK /\ FileJob(job[w])
  BY DEF PurgeObject, At, Typed, FilesOK
<1>u. UNCHANGED <<fileRow, reserved, declared>>
  BY DEF PurgeObject, history
<1>f. PICK f \in job[w].todo :
        /\ job' = [job EXCEPT ![w].todo = @ \ {f}]
        /\ UNCHANGED r2 \/ (r2[f] \in {"short", "stored"} /\ r2' = [r2 EXCEPT ![f] = "none"])
  BY DEF PurgeObject
<1>t. f \in Files /\ TransferOf[f] = job[w].transfer
  BY <1>w, JobType DEF FileJob, Job
<1>j. PICK j : Trimmed(w, f, j)
  <2> DEFINE k == [job[w] EXCEPT !.todo = @ \ {f}]
  <2>1. Trimmed(w, f, k)
    BY <1>w, <1>f, JobType DEF Trimmed, Job
  <2> HIDE DEF k
  <2> QED  BY <2>1
<1>1. /\ job' = [job EXCEPT ![w] = j]
      /\ j.pc = "purge.r2" /\ j.transfer = job[w].transfer /\ j.file = job[w].file
      /\ j.todo = job[w].todo \ {f} /\ j.seen = job[w].seen
  BY <1>w, <1>j DEF Trimmed
<1>3. FileJob(j)'
  BY <1>w, <1>1 DEF FileJob, FilePCs, Uploading, Naming, Owing
<1>4. \A v \in Workers \ {w} : Compatible(job[v], j)
  BY <1>w, <1>1, GoesOn DEF FilePCs, Uploading, Naming, Owing
<1>5. \A g \in Files \ {f} : r2'[g] = r2[g]
  BY <1>w, <1>f, <1>t, TableTypes
<1>6. r2[f] = "none" => r2'[f] = "none"
  BY <1>f
<1>7. FileRowsForward /\ UnusedBut({})
  BY <1>u, <1>5, <1>6 DEF FileRowsForward, UnusedBut
<1>8. WholeStays
  <2>1. \A g \in Files : Purging(g) => Purging(g)'
    BY <1>w, <1>1, PurgingStays
  <2>2. Purging(f)
    BY <1>w, <1>t DEF Purging, At
  <2> QED  BY <1>u, <1>t, <1>5, <2>1, <2>2 DEF WholeStays, Whole
<1>9. DeclaredOK'
  BY <1>w, <1>u, <1>7, <1>8, DeclaredKept DEF FilesOK
<1>10. Charged'
  <2>1. ASSUME NEW g \in Files PROVE Charge(g)'
    <3>1. Releasing(g)' = Releasing(g)
      BY <1>w, <1>1, ReleasingSame
    <3>2. Owed(g)' \subseteq Owed(g)
      BY <1>w, <1>1, OwedSubset DEF Owing
    <3> QED  BY <1>w, <1>u, <3>1, <3>2, ChargeKept DEF FilesOK, Charged
  <2> QED  BY <2>1 DEF Charged
<1> QED  BY <1>1, <1>3, <1>4, <1>7, <1>8, <1>9, <1>10, FilesStep

LEMMA PurgeRowsKeeps ==
  ASSUME Typed, FilesOK, NEW w \in Workers, PurgeFileRows(w)
  PROVE  FilesOK'
<1>w. job[w].pc = "purge.r2" /\ JobsOK /\ TablesOK
  BY DEF PurgeFileRows, At, Typed
<1>u. UNCHANGED <<r2, reserved, declared>>
  BY DEF PurgeFileRows, history
<1>1. PICK j : /\ job' = [job EXCEPT ![w] = j]
               /\ j.pc = "purge.row" /\ j.transfer = job[w].transfer /\ j.file = job[w].file
               /\ j.todo = job[w].todo /\ j.seen = job[w].seen
  BY <1>w, GotoJob DEF PurgeFileRows
<1>2. \A v \in Workers : job'[v] = IF v = w THEN j ELSE job[v]
  BY <1>w, <1>1 DEF JobsOK
<1>3. \A f \in Files : /\ fileRow'[f] = "present" => fileRow[f] = "present" /\ TransferOf[f] # job[w].transfer
                       /\ fileRow[f] # "none" => fileRow'[f] # "none"
                       /\ fileRow[f] = "deleted" => fileRow'[f] = "deleted"
                       /\ fileRow[f] = "none" => fileRow'[f] = "none"
  BY DEF PurgeFileRows, FilesOf
<1>4. FileJob(j)'
  BY <1>1 DEF FileJob, FilePCs, Uploading, Naming, Owing
<1>5. \A v \in Workers \ {w} : Compatible(job[v], j)
  BY <1>w, <1>1, GoesOn DEF FilePCs, Uploading, Naming, Owing
<1>6. FileRowsForward /\ UnusedBut({})
  BY <1>u, <1>3 DEF FileRowsForward, UnusedBut
<1>7. WholeStays
  <2>1. ASSUME NEW f \in Files, TransferOf[f] # job[w].transfer, Purging(f)
        PROVE  Purging(f)'
    BY <1>2, <2>1 DEF Purging, At
  <2> QED  BY <1>u, <1>3, <2>1 DEF WholeStays, Whole
<1>8. DeclaredOK'
  BY <1>w, <1>u, <1>6, <1>7, DeclaredKept DEF FilesOK
<1>9. Charged'
  <2>1. ASSUME NEW f \in Files PROVE Charge(f)'
    <3>1. Releasing(f)' = Releasing(f)
      BY <1>w, <1>1, ReleasingSame
    <3>2. Owed(f)' \subseteq Owed(f)
      BY <1>w, <1>1, OwedSubset DEF Owing
    <3>3. fileRow'[f] = fileRow[f] \/ (fileRow[f] # "none" /\ fileRow'[f] = "deleted")
      BY DEF PurgeFileRows, FilesOf
    <3> QED  BY <1>w, <1>u, <3>1, <3>2, <3>3, ChargeKept DEF FilesOK, Charged
  <2> QED  BY <2>1 DEF Charged
<1> QED  BY <1>1, <1>4, <1>5, <1>6, <1>7, <1>8, <1>9, FilesStep

LEMMA PurgeKeeps ==
  ASSUME Typed, FilesOK, NEW w \in Workers, Purge(w)
  PROVE  FilesOK'
<1>1. CASE PurgeRow(w)
  <2>1. job[w].pc = "purge.row" /\ UNCHANGED <<fileVars, declared>> /\ Finish(w)
    BY <1>1 DEF PurgeRow, At, history
  <2> QED  BY <2>1, QuietFinish
<1> QED  BY <1>1, PurgeListKeeps, PurgeObjectKeeps, PurgeRowsKeeps DEF Purge

-----------------------------------------------------------------------------

LEMMA RequestFiles ==
  ASSUME Typed, FilesOK, NEW w \in Requests, RequestStep(w)
  PROVE  FilesOK'
<1>1. CASE Upload(w)
  <2>1. ASSUME NEW f \in Files, NEW me \in Callers, CompleteMultipart(w, f, me) \/ AbortMultipart(w, f, me)
        PROVE  FilesOK'
    BY <2>1, BeginOnFileKeeps DEF CompleteMultipart, AbortMultipart
  <2> QED
    BY <1>1, <2>1, InitKeeps, CheckKeeps, ChargeKeeps, CreateFileKeeps, OpenKeeps, UndoKeeps,
       ReleaseKeeps, ReadFileKeeps, StitchKeeps, CancelKeeps, DeleteKeeps DEF Upload
<1>2. CASE Complete(w)
  BY <1>2, BeginCompleteKeeps, ListKeeps, HeadKeeps, MarkKeeps DEF Complete
<1>3. CASE Download(w)
  BY <1>3, UrlKeeps, ClaimKeeps, IssueKeeps DEF Download
<1>4. CASE Purge(w)
  BY <1>4, PurgeKeeps DEF Workers
<1> QED  BY <1>1, <1>2, <1>3, <1>4 DEF RequestStep

\* The cleanup job's own steps; it is at rest when a run of it starts, because
\* what it removes is always of some sweep.
LEMMA OtherFiles ==
  ASSUME Typed, CleanerActsOnDue, FilesOK, OtherStep, faults' = 0
  PROVE  FilesOK'
<1>t. JobsOK /\ TablesOK /\ Cleaner \in Workers
  BY DEF Typed, Workers
<1>u. ASSUME UNCHANGED <<fileVars, declared, job>>
      PROVE  FilesOK'
  <2>1. \A f : Purging(f)' = Purging(f) /\ Releasing(f)' = Releasing(f) /\ Owed(f)' = Owed(f)
    BY <1>u DEF Purging, Releasing, Owed, At
  <2>2. \A w \in Workers : FileJob(job[w])'
    BY <1>u, <2>1 DEF FilesOK, FileJob, Whole, fileVars
  <2> QED
    BY <1>u, <2>1, <2>2 DEF FilesOK, Exclusive, DeclaredOK, Charged, Charge, Whole, fileVars
<1>c. ASSUME NEW j, job' = [job EXCEPT ![Cleaner] = j], j.pc \in Resting, j.file \notin Files,
             UNCHANGED <<fileVars, declared>>, job[Cleaner].pc \in Resting
      PROVE  FilesOK'
  <2>1. FileJob(j)' /\ \A v \in Workers \ {Cleaner} : Compatible(job[v], j)
    BY <1>c, RestingJob
  <2>2. job[Cleaner].pc \notin {"cancel.delete", "purge.r2"} /\ j.pc # "cancel.delete" /\ j.pc \notin Owing
    BY <1>c DEF Resting, Owing
  <2> QED  BY <1>c, <1>t, <2>1, <2>2, QuietStep DEF Owing
<1>i. /\ Idle.pc \in Resting /\ Idle.file \notin Files
      /\ Call("next", NoTransfer, NoFile).pc \in Resting
      /\ Call("next", NoTransfer, NoFile).file \notin Files
  BY ConstantsOK DEF Idle, Call, Resting
<1>1. ASSUME NEW t \in Transfers, CreateTransfer(t) \/ Age(t)
      PROVE  FilesOK'
  BY <1>1, <1>u DEF CreateTransfer, Age, history
<1>2. ASSUME NEW t \in Transfers, NEW me \in Callers, SoftDelete(t, me)
      PROVE  FilesOK'
  BY <1>2, <1>u DEF SoftDelete, history
<1>3. ASSUME NEW t \in Transfers, TakeCandidate(t)
      PROVE  FilesOK'
  BY <1>3, <1>t, BeginKeeps DEF TakeCandidate, At, Resting, history
<1>4. CASE StartCleanup
  <2>1. job[Cleaner].transfer \notin Transfers
    BY <1>4 DEF StartCleanup, CleanerActsOnDue, OnTheList
  <2>2. job[Cleaner].pc \in Resting
    BY <1>t, <2>1, JobType
  <2> QED  BY <1>4, <1>c, <1>i, <2>2 DEF StartCleanup, history
<1>5. CASE NextStage
  BY <1>5, <1>c, <1>i, <1>u DEF NextStage, At, Resting, history
<1>6. ASSUME NEW w \in Workers, CallFails(w)
      PROVE  FALSE
  BY <1>6, <1>t DEF CallFails, TablesOK
<1>7. ~SweepFails /\ ~Crash
  BY <1>t DEF SweepFails, Crash, TablesOK
<1> QED  BY <1>1, <1>2, <1>3, <1>4, <1>5, <1>6, <1>7 DEF OtherStep

LEMMA FaultsCount ==
  ASSUME Typed, [Next]_vars, faults' = 0
  PROVE  faults = 0
<1>1. faults \in Nat
  BY ConstantsOK DEF Typed, TablesOK
<1>2. ASSUME NEW w \in Workers, Purge(w)
      PROVE  faults' = faults
  BY <1>2 DEF Purge, PurgeList, PurgeObject, PurgeFileRows, PurgeRow
<1>3. ASSUME NEW w \in Requests, RequestStep(w)
      PROVE  faults' = faults
  <2>1. CASE Upload(w)
    BY <2>1 DEF Upload, InitMultipart, CompleteMultipart, AbortMultipart, BeginOnFile, CheckTotalSize,
       ChargeVolume, CreateFile, OpenUpload, UndoCreateFile, ReleaseVolume, ReadFile, StitchUpload,
       AbortUpload, DeleteFile
  <2>2. CASE Complete(w)
    BY <2>2 DEF Complete, CompleteTransfer, AbortTransfer, ListFiles, HeadObject, MarkCompleted
  <2>3. CASE Download(w)
    BY <2>3 DEF Download, RequestUrl, ClaimDownloadSlot, IssueUrl
  <2>4. CASE Purge(w)
    BY <1>2, <2>4 DEF Workers
  <2> QED  BY <1>3, <2>1, <2>2, <2>3, <2>4 DEF RequestStep
<1>4. ASSUME OtherStep
      PROVE  faults' = faults \/ faults' = faults + 1
  <2>1. ASSUME NEW t \in Transfers, CreateTransfer(t) \/ Age(t) \/ TakeCandidate(t)
        PROVE  faults' = faults
    BY <2>1 DEF CreateTransfer, Age, TakeCandidate
  <2>2. ASSUME NEW t \in Transfers, NEW me \in Callers, SoftDelete(t, me)
        PROVE  faults' = faults
    BY <2>2 DEF SoftDelete
  <2>3. ASSUME StartCleanup \/ NextStage
        PROVE  faults' = faults
    BY <2>3 DEF StartCleanup, NextStage
  <2>4. ASSUME NEW w \in Workers, CallFails(w)
        PROVE  faults' = faults + 1
    BY <2>4 DEF CallFails
  <2>5. SweepFails \/ Crash => faults' = faults + 1
    BY DEF SweepFails, Crash
  <2> QED  BY <1>4, <2>1, <2>2, <2>3, <2>4, <2>5 DEF OtherStep
<1>5. faults' = faults \/ faults' = faults + 1
  BY <1>2, <1>3, <1>4, NextCases DEF vars, Workers
<1> QED  BY <1>1, <1>5

LEMMA FilesInvStep == Typed /\ CleanerActsOnDue /\ FilesInv /\ [Next]_vars => FilesInv'
<1> SUFFICES ASSUME Typed, CleanerActsOnDue, FilesInv, [Next]_vars, faults' = 0
             PROVE  FilesOK'
  BY DEF FilesInv
<1>0. FilesOK
  BY FaultsCount DEF FilesInv
<1>1. ASSUME NEW w \in Requests, RequestStep(w)
      PROVE  FilesOK'
  BY <1>0, <1>1, RequestFiles
<1>2. CASE Purge(Cleaner)
  BY <1>0, <1>2, PurgeKeeps DEF Workers
<1>3. CASE OtherStep
  BY <1>0, <1>3, OtherFiles
<1>4. CASE UNCHANGED vars
  <2>1. UNCHANGED <<fileRow, r2, reserved, declared, job>>
    BY <1>4 DEF vars, fileVars, history
  <2>2. \A f : Purging(f)' = Purging(f) /\ Releasing(f)' = Releasing(f) /\ Owed(f)' = Owed(f)
    BY <2>1 DEF Purging, Releasing, Owed, At
  <2>3. \A w \in Workers : FileJob(job[w])'
    BY <1>0, <2>1, <2>2 DEF FilesOK, FileJob, Whole
  <2> QED
    BY <1>0, <2>1, <2>2, <2>3 DEF FilesOK, Exclusive, DeclaredOK, Charged, Charge, Whole
<1> QED  BY <1>1, <1>2, <1>3, <1>4, NextCases

LEMMA FilesInvInit == Init => FilesInv
<1> SUFFICES ASSUME Init
             PROVE  FilesOK
  BY DEF FilesInv
<1>1. \A w \in Workers : job[w].pc = "idle"
  BY DEF Init, Idle, Call
<1>2. \A w \in Workers : FileJob(job[w])
  BY <1>1 DEF FileJob, FilePCs, Uploading, Naming, Owing
<1>3. Exclusive
  BY <1>1 DEF Exclusive, Uploading, Naming
<1> QED  BY <1>2, <1>3 DEF Init, FilesOK, DeclaredOK, Charged, Charge

\* What every handler that works on a file, and every charge, can rely on while no
\* call fails, although any handler may pick up any file that is listed, half-made
\* ones included (routes/upload.routes.ts).
THEOREM FilesInvariant == Spec => []FilesInv
<1>1. Init => FilesInv
  BY FilesInvInit
<1>2. Typed /\ CleanerActsOnDue /\ FilesInv /\ [Next]_vars => FilesInv'
  BY FilesInvStep
<1> QED  BY <1>1, <1>2, Typing, SweepsActOnDue, PTL DEF Spec

-----------------------------------------------------------------------------
(* No row of a completed transfer escaped /complete but the late ones. *)

Accounted ==
    /\ \A w \in Workers : At(w, "complete.head") => FilesOf(job[w].transfer) \subseteq late \cup job[w].seen
    /\ \A t \in Transfers : isCompleted[t] => FilesOf(t) \subseteq late \cup declared[t]

NoNewRows == \A f \in Files : fileRow'[f] = "present" => fileRow[f] = "present"

NoNewLists ==
    \A w \in Workers : job'[w].pc = "complete.head" =>
        /\ job[w].pc = "complete.head"
        /\ job'[w].transfer = job[w].transfer /\ job'[w].seen = job[w].seen

LEMMA AccountedKept ==
  ASSUME Accounted, NoNewRows, NoNewLists, UNCHANGED <<isCompleted, declared, late>>
  PROVE  Accounted'
<1>1. \A t : FilesOf(t)' \subseteq FilesOf(t)
  BY DEF NoNewRows, FilesOf
<1> QED  BY <1>1 DEF Accounted, NoNewLists, At

LEMMA ListsFinish ==
  ASSUME JobsOK, NEW w \in Workers, Finish(w)
  PROVE  NoNewLists
<1>1. PICK j : job' = [job EXCEPT ![w] = j] /\ j.pc \in Resting
  BY FinishJob
<1> QED  BY <1>1 DEF NoNewLists, Resting, JobsOK

LEMMA ListsGoto ==
  ASSUME JobsOK, NEW w \in Workers, NEW pc, pc # "complete.head", Goto(w, pc)
  PROVE  NoNewLists
<1>1. PICK j : job' = [job EXCEPT ![w] = j] /\ j.pc = pc
  BY GotoJob
<1> QED  BY <1>1 DEF NoNewLists, JobsOK

LEMMA ListsBegin ==
  ASSUME JobsOK, NEW w \in Workers, NEW pc, NEW t, NEW f, pc # "complete.head",
         job' = [job EXCEPT ![w] = Call(pc, t, f)]
  PROVE  NoNewLists
<1>1. Call(pc, t, f).pc = pc
  BY DEF Call
<1> QED  BY <1>1 DEF NoNewLists, JobsOK

LEMMA CreateFileAccounted ==
  ASSUME Typed, Accounted, NEW w \in Requests, CreateFile(w)
  PROVE  Accounted'
<1>w. w \in Workers /\ JobsOK /\ job[w].pc = "init.insert"
  BY DEF Typed, Workers, CreateFile, At
<1>l. NoNewLists
  BY <1>w, ListsFinish, ListsGoto DEF CreateFile
<1>1. CASE UNCHANGED <<fileRow, late>>
  BY <1>1, <1>l, AccountedKept DEF CreateFile, NoNewRows, transferVars
<1>2. CASE ~UNCHANGED <<fileRow, late>>
  <2> DEFINE f == job[w].file
             t == job[w].transfer
             listed == isCompleted[t] \/ \E v \in Workers : At(v, "complete.head") /\ job[v].transfer = t
  <2>1. TransferOf[f] = t
    BY <1>w DEF JobsOK, WellFormed, Naming
  <2>2. /\ fileRow' = [fileRow EXCEPT ![f] = "present"]
        /\ late' = IF listed THEN late \cup {f} ELSE late
    BY <1>2 DEF CreateFile
  <2>3. UNCHANGED <<isCompleted, declared>>
    BY DEF CreateFile, transferVars
  <2> HIDE DEF f
  <2>4. ASSUME NEW s PROVE FilesOf(s)' \subseteq FilesOf(s) \cup (IF s = t THEN {f} ELSE {})
    BY <2>1, <2>2 DEF FilesOf
  <2>5. late \subseteq late' /\ (listed => f \in late')
    BY <2>2
  <2>6. ASSUME NEW v \in Workers, job'[v].pc = "complete.head"
        PROVE  (FilesOf(job[v].transfer) \subseteq late \cup job[v].seen)'
    <3>1. /\ At(v, "complete.head")
          /\ job'[v].transfer = job[v].transfer /\ job'[v].seen = job[v].seen
      BY <1>l, <2>6 DEF NoNewLists, At
    <3>2. PICK s : s = job[v].transfer
      OBVIOUS
    <3>3. s = t => listed
      BY <3>1, <3>2
    <3> HIDE DEF t, listed
    <3>4. FilesOf(s) \subseteq late \cup job[v].seen
      BY <3>1, <3>2 DEF Accounted
    <3>5. FilesOf(s)' \subseteq late' \cup job'[v].seen
      BY <2>4, <2>5, <3>1, <3>3, <3>4
    <3> QED  BY <3>1, <3>2, <3>5 DEF FilesOf
  <2>7. ASSUME NEW s \in Transfers, isCompleted'[s]
        PROVE  FilesOf(s)' \subseteq late' \cup declared'[s]
    <3>1. FilesOf(s) \subseteq late \cup declared[s]
      BY <2>3, <2>7 DEF Accounted
    <3>2. s = t => listed
      BY <2>3, <2>7
    <3> QED  BY <2>3, <2>4, <2>5, <3>1, <3>2
  <2> QED  BY <2>6, <2>7 DEF Accounted, At
<1> QED  BY <1>1, <1>2

LEMMA MarkAccounted ==
  ASSUME Typed, Accounted, NEW w \in Requests, MarkCompleted(w)
  PROVE  Accounted'
<1>w. w \in Workers /\ JobsOK /\ TablesOK /\ At(w, "complete.head")
  BY DEF Typed, Workers, MarkCompleted
<1>l. NoNewLists
  BY <1>w, ListsFinish DEF MarkCompleted
<1>u. UNCHANGED <<fileRow, late>>
  BY DEF MarkCompleted, fileVars
<1>t. PICK t \in Transfers : t = job[w].transfer
  BY <1>w, JobType DEF At, Resting
<1>1. CASE row[t] # "present"
  BY <1>t, <1>1, <1>l, <1>u, AccountedKept DEF MarkCompleted, NoNewRows
<1>2. CASE row[t] = "present"
  <2>1. /\ isCompleted' = [isCompleted EXCEPT ![t] = TRUE]
        /\ declared' = [declared EXCEPT ![t] = @ \cup job[w].seen]
    BY <1>t, <1>2 DEF MarkCompleted
  <2>2. \A s : FilesOf(s)' = FilesOf(s)
    BY <1>u DEF FilesOf
  <2>3. FilesOf(t) \subseteq late \cup job[w].seen
    BY <1>w, <1>t DEF Accounted
  <2>4. declared'[t] = declared[t] \cup job[w].seen
    BY <1>w, <2>1, TableTypes
  <2>5. \A s \in Transfers \ {t} : declared'[s] = declared[s] /\ isCompleted'[s] = isCompleted[s]
    BY <1>w, <2>1 DEF TablesOK
  <2> QED  BY <1>l, <1>u, <2>2, <2>3, <2>4, <2>5 DEF Accounted, NoNewLists, At
<1> QED  BY <1>1, <1>2

LEMMA ListAccounted ==
  ASSUME Typed, Accounted, NEW w \in Requests, ListFiles(w)
  PROVE  Accounted'
<1>w. w \in Workers /\ JobsOK
  BY DEF Typed, Workers
<1>u. UNCHANGED <<fileRow, late, isCompleted, declared>>
  BY DEF ListFiles, fileVars, transferVars, history
<1>1. CASE Finish(w)
  BY <1>w, <1>u, <1>1, ListsFinish, AccountedKept DEF NoNewRows
<1>2. CASE ~Finish(w)
  <2> DEFINE found == FilesOf(job[w].transfer)
             k == [job[w] EXCEPT !.pc = "complete.head", !.todo = found, !.seen = found]
  <2>1. job' = [job EXCEPT ![w] = k] /\ k.transfer = job[w].transfer /\ k.seen = found
    BY <1>2, <1>w, JobType DEF ListFiles, JobsOK, Job
  <2>2. \A v \in Workers : job'[v] = IF v = w THEN k ELSE job[v]
    BY <1>w, <2>1 DEF JobsOK
  <2> HIDE DEF k
  <2>3. \A s : FilesOf(s)' = FilesOf(s)
    BY <1>u DEF FilesOf
  <2> QED  BY <1>u, <2>1, <2>2, <2>3 DEF Accounted, At
<1> QED  BY <1>1, <1>2

LEMMA HeadLists ==
  ASSUME Typed, NEW w \in Requests, HeadObject(w)
  PROVE  NoNewLists
<1>w. w \in Workers /\ JobsOK /\ job[w].pc = "complete.head"
  BY DEF Typed, Workers, HeadObject, At
<1>1. CASE Finish(w)
  BY <1>w, <1>1, ListsFinish
<1>2. ASSUME NEW f, job' = [job EXCEPT ![w].todo = @ \ {f}]
      PROVE  NoNewLists
  BY <1>w, <1>2, JobType DEF NoNewLists, JobsOK, Job
<1> QED  BY <1>1, <1>2 DEF HeadObject

LEMMA UploadAccounted ==
  ASSUME Typed, Accounted, NEW w \in Requests, Upload(w)
  PROVE  Accounted'
<1>w. w \in Workers /\ JobsOK /\ TablesOK
  BY DEF Typed, Workers
<1> USE DEF transferVars, fileVars, history
<1>k. ASSUME NoNewLists, NoNewRows, UNCHANGED <<isCompleted, declared, late>>
      PROVE  Accounted'
  BY <1>k, AccountedKept
<1>r. UNCHANGED fileRow => NoNewRows
  BY DEF NoNewRows
<1>d. ASSUME NEW f, DeleteFileRow(f) PROVE NoNewRows
  BY <1>d, <1>w, TableTypes DEF DeleteFileRow, NoNewRows
<1>1. ASSUME NEW f \in Files, NEW me \in Callers,
             InitMultipart(w, f, me) \/ CompleteMultipart(w, f, me) \/ AbortMultipart(w, f, me)
      PROVE  Accounted'
  BY <1>1, <1>w, <1>k, <1>r, ListsBegin DEF InitMultipart, CompleteMultipart, AbortMultipart, BeginOnFile
<1>2. CASE CheckTotalSize(w)
  BY <1>2, <1>w, <1>k, <1>r, ListsFinish, ListsGoto DEF CheckTotalSize
<1>3. CASE ChargeVolume(w)
  BY <1>3, <1>w, <1>k, <1>r, ListsFinish, ListsGoto DEF ChargeVolume
<1>4. CASE OpenUpload(w)
  BY <1>4, <1>w, <1>k, <1>r, ListsFinish, ListsGoto DEF OpenUpload
<1>5. CASE UndoCreateFile(w)
  BY <1>5, <1>w, <1>k, <1>d, ListsGoto DEF UndoCreateFile
<1>6. CASE ReleaseVolume(w)
  BY <1>6, <1>w, <1>k, <1>r, ListsFinish, ListsGoto DEF ReleaseVolume
<1>7. CASE ReadFile(w)
  BY <1>7, <1>w, <1>k, <1>r, ListsFinish, ListsGoto DEF ReadFile
<1>8. CASE StitchUpload(w)
  BY <1>8, <1>w, <1>k, <1>r, ListsFinish DEF StitchUpload
<1>9. CASE AbortUpload(w)
  BY <1>9, <1>w, <1>k, <1>r, ListsGoto DEF AbortUpload
<1>10. CASE DeleteFile(w)
  BY <1>10, <1>w, <1>k, <1>d, ListsFinish DEF DeleteFile
<1> QED
  BY <1>1, <1>2, <1>3, <1>4, <1>5, <1>6, <1>7, <1>8, <1>9, <1>10, CreateFileAccounted DEF Upload

LEMMA PurgeAccounted ==
  ASSUME Typed, Accounted, NEW w \in Workers, Purge(w)
  PROVE  Accounted'
<1>w. JobsOK /\ TablesOK
  BY DEF Typed
<1>1. UNCHANGED <<isCompleted, declared, late>>
  BY DEF Purge, PurgeList, PurgeObject, PurgeFileRows, PurgeRow, transferVars, history
<1>2. NoNewRows
  BY DEF Purge, PurgeList, PurgeObject, PurgeFileRows, PurgeRow, NoNewRows, fileVars
<1>3. NoNewLists
  <2>1. CASE PurgeList(w)
    BY <1>w, <2>1, JobType DEF PurgeList, NoNewLists, At, JobsOK, Job
  <2>2. CASE PurgeObject(w)
    <3>1. PICK f : job' = [job EXCEPT ![w].todo = @ \ {f}]
      BY <2>2 DEF PurgeObject
    <3> QED  BY <1>w, <2>2, <3>1, JobType DEF PurgeObject, NoNewLists, At, JobsOK, Job
  <2>3. CASE PurgeFileRows(w)
    BY <1>w, <2>3, ListsGoto DEF PurgeFileRows
  <2>4. CASE PurgeRow(w)
    BY <1>w, <2>4, ListsFinish DEF PurgeRow
  <2> QED  BY <2>1, <2>2, <2>3, <2>4 DEF Purge
<1> QED  BY <1>1, <1>2, <1>3, AccountedKept

LEMMA OtherAccounted ==
  ASSUME Typed, Accounted, OtherStep
  PROVE  Accounted'
<1>w. JobsOK /\ Cleaner \in Workers
  BY DEF Typed, Workers
<1> USE DEF transferVars, fileVars, history
<1>1. UNCHANGED <<isCompleted, declared, late, fileRow>>
  BY DEF OtherStep, CreateTransfer, Age, TakeCandidate, SoftDelete, StartCleanup, NextStage,
         CallFails, SweepFails, Crash
<1>2. NoNewLists
  <2>1. UNCHANGED job => NoNewLists
    BY DEF NoNewLists
  <2>2. ASSUME NEW t \in Transfers, TakeCandidate(t) PROVE NoNewLists
    BY <1>w, <2>2, ListsBegin DEF TakeCandidate
  <2>3. ASSUME job' = [job EXCEPT ![Cleaner] = Idle] PROVE NoNewLists
    BY <1>w, <2>3, ListsBegin DEF Idle
  <2>4. CASE StartCleanup
    BY <1>w, <2>4, ListsBegin DEF StartCleanup
  <2>5. CASE NextStage
    BY <2>1, <2>3, <2>5 DEF NextStage
  <2>6. ASSUME NEW w \in Workers, CallFails(w) PROVE NoNewLists
    BY <1>w, <2>6, ListsFinish DEF CallFails
  <2>7. CASE SweepFails
    BY <2>3, <2>7 DEF SweepFails
  <2>8. CASE Crash
    BY <2>8 DEF Crash, Idle, Call, NoNewLists
  <2> QED
    BY <2>1, <2>2, <2>4, <2>5, <2>6, <2>7, <2>8 DEF OtherStep, CreateTransfer, Age, SoftDelete
<1> QED  BY <1>1, <1>2, AccountedKept DEF NoNewRows

LEMMA AccountedStep == Typed /\ Accounted /\ [Next]_vars => Accounted'
<1> SUFFICES ASSUME Typed, Accounted, [Next]_vars
             PROVE  Accounted'
  OBVIOUS
<1>w. JobsOK
  BY DEF Typed
<1> USE DEF transferVars, fileVars, history
<1>1. ASSUME NEW w \in Requests, Complete(w)
      PROVE  Accounted'
  <2>1. ASSUME NEW t \in Transfers, NEW me \in Callers,
               CompleteTransfer(w, t, me) \/ AbortTransfer(w, t, me)
        PROVE  Accounted'
    BY <1>w, <2>1, ListsBegin, AccountedKept DEF CompleteTransfer, AbortTransfer, NoNewRows, Workers
  <2>2. CASE HeadObject(w)
    BY <2>2, HeadLists, AccountedKept DEF HeadObject, NoNewRows
  <2> QED  BY <1>1, <2>1, <2>2, ListAccounted, MarkAccounted DEF Complete
<1>2. ASSUME NEW w \in Requests, Download(w)
      PROVE  Accounted'
  <2>1. UNCHANGED <<isCompleted, declared, late, fileRow>>
    BY <1>2 DEF Download, RequestUrl, ClaimDownloadSlot, IssueUrl
  <2>2. CASE ClaimDownloadSlot(w)
    <3>1. CASE Finish(w)
      BY <1>w, <3>1, ListsFinish, <2>1, AccountedKept DEF NoNewRows, Workers
    <3>2. ASSUME NEW n, job' = [job EXCEPT ![w].pc = "url.sign", ![w].slot = n]
          PROVE  Accounted'
      <4>1. NoNewLists
        BY <1>w, <3>2, JobType DEF NoNewLists, JobsOK, Job, Workers
      <4> QED  BY <2>1, <4>1, AccountedKept DEF NoNewRows
    <3> QED  BY <2>2, <3>1, <3>2 DEF ClaimDownloadSlot
  <2>3. CASE IssueUrl(w)
    BY <1>w, <2>1, <2>3, ListsFinish, AccountedKept DEF IssueUrl, NoNewRows, Workers
  <2>4. ASSUME NEW f \in Files, RequestUrl(w, f) PROVE Accounted'
    BY <1>w, <2>1, <2>4, ListsBegin, AccountedKept DEF RequestUrl, NoNewRows, Workers
  <2> QED  BY <1>2, <2>2, <2>3, <2>4 DEF Download
<1>3. CASE UNCHANGED vars
  BY <1>3, AccountedKept DEF vars, NoNewRows, NoNewLists
<1> QED
  BY <1>1, <1>2, <1>3, UploadAccounted, PurgeAccounted, OtherAccounted, NextCases
     DEF RequestStep, Workers

\* In every behaviour the rows of a completed transfer are those /complete listed, the
\* ones added after its list (late), and no others; the same of a /complete that is
\* still checking (upload.routes.ts:400-421).
THEOREM NoRowUnaccounted == Spec => []Accounted
<1>1. Init => Accounted
  BY DEF Init, Accounted, At, Idle, Call
<1>2. Typed /\ Accounted /\ [Next]_vars => Accounted'
  BY AccountedStep
<1> QED  BY <1>1, <1>2, Typing, PTL DEF Spec

\* In every fault-free behaviour, whatever uploads, aborts, completions and sweeps
\* overlap, a completed transfer lists no file that is not whole in R2, unless it is
\* being removed or the row was added behind /complete's back (upload.routes.ts:400-421).
THEOREM ListedFilesStay == Spec => []ListedFilesStored
<1>1. FilesInv /\ Accounted => ListedFilesStored
  <2> SUFFICES ASSUME FilesOK, Accounted, NEW t \in Transfers, isCompleted[t], ~Removing(t),
                      NEW f \in FilesOf(t), f \notin late \ declared[t]
               PROVE  r2[f] = "stored"
    BY DEF FilesInv, ListedFilesStored
  <2>1. f \in declared[t]
    BY DEF Accounted
  <2>2. TransferOf[f] = t /\ Whole(f) /\ fileRow[f] = "present"
    BY <2>1 DEF FilesOK, DeclaredOK, FilesOf
  <2>3. ~Purging(f)
    BY <2>2 DEF Purging, Removing, At
  <2> QED  BY <2>2, <2>3 DEF Whole
<1> QED  BY <1>1, FilesInvariant, NoRowUnaccounted, PTL

\* In every fault-free behaviour each listed file is charged once, less one for every
\* abort that has released it and not yet deleted its row, and no file is ever charged
\* twice or released more often than there are requests in flight: aborts and rollbacks
\* of one file that overlap release it several times, those that do not, once
\* (upload.routes.ts:303-349).
THEOREM ChargedOnce == Spec => []ReservationsMatchRows
<1>1. Typed /\ FilesInv => ReservationsMatchRows
  <2> SUFFICES ASSUME Typed, FilesOK, NEW f \in Files
               PROVE  /\ fileRow[f] = "present" => reserved[f] = 1 - Cardinality(Releasing(f))
                      /\ fileRow[f] # "none" => reserved[f] \in (1 - Cardinality(Requests))..1
    BY DEF FilesInv, ReservationsMatchRows, Releasing
  <2>1. Charge(f) /\ reserved[f] \in Int
    BY TableTypes DEF FilesOK, Charged, Typed
  <2>2. Cardinality(Owed(f)) \in Nat /\ Cardinality(Requests) \in Nat
    BY OwedFinite
  <2> QED  BY <2>1, <2>2 DEF Charge
<1> QED  BY <1>1, FilesInvariant, Typing, PTL

=============================================================================
