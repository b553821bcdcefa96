----------------------------- MODULE FileStorage -----------------------------
(***************************************************************************)
(* The files of one user (src/src/files/): FilesService over the tables of  *)
(* file records and quotas and over LocalStorageProvider, and the nightly   *)
(* GarbageCollectorService.  An upload checks the quota, stores the object, *)
(* saves its record and adds its bytes to the quota, each an await of its   *)
(* own; a chunked upload is initialized by one request, which checks the    *)
(* quota, and completed by another, which states the size anew and checks   *)
(* nothing; deleteFile marks the record, and the sweep removes object and   *)
(* record of what was deleted RETENTION_DAYS ago.                           *)
(*                                                                          *)
(* A file is the number of the upload that created it, the order in which   *)
(* the sweep finds the records.  Sizes are in units of bytes; the contents, *)
(* and with them the chunks, are left out, and a client completes an upload *)
(* under the storagePath it was given.  Time is in days.                    *)
(***************************************************************************)
EXTENDS Integers, FiniteSets, Functions

CONSTANTS
  Handlers,       \* concurrent requests and sweeps
  NumFiles,       \* bound on uploads
  MaxSize,        \* validateFile: maxSizeBytes
  MaxBytes,       \* StorageQuotaEntity.maxBytes
  StatedSizes,    \* what clients state as totalSize when they complete a chunked upload
  RetentionDays,  \* RETENTION_DAYS
  Broken          \* files whose object the storage never deletes

ASSUME FileStorageAssumption ==
  /\ NumFiles \in Nat /\ MaxSize \in Nat \ {0} /\ MaxBytes \in Nat /\ StatedSizes \subseteq Nat
  /\ RetentionDays \in Nat /\ Broken \subseteq 1..NumFiles
ASSUME HandlersFinite == IsFiniteSet(Handlers)

VARIABLES
  quota,     \* the row of the user: whether it exists, and usedBytes
  objects,   \* files the storage holds an object of
  records,   \* the table of file records
  sessions,  \* LocalStorageProvider.activeUploads, which hold no size
  started,   \* uploads started so far
  handlers,  \* the requests and sweeps in progress
  admitted,  \* history: the totalSize an open session passed the quota with, or 0
  excess,    \* history: the bytes that completions stated beyond that
  recorded,  \* history: the bytes of all records ever saved
  disturbed  \* history: "overlap", an upload passed the quota while another was
             \* on its way; "fault", an upload ended between its steps

vars == <<quota, objects, records, sessions, started, handlers, admitted, excess, recorded,
          disturbed>>

Files == 1..NumFiles
Sizes == 1..MaxSize
Expired == RetentionDays + 1

NoRecord == [state |-> "absent", days |-> 0]
Record == [state: {"absent", "live", "deleted"}, days: 0..Expired]

PCs == {"idle", "checkQuota", "createQuota", "store", "initialize", "save", "readUsed",
        "writeUsed", "saveDeleted", "deleteObject", "removeRecord"}
Handler == [pc: PCs, file: 0..NumFiles, size: Nat, chunked: BOOLEAN, seen: Nat,
            todo: SUBSET Files]
Idle == [pc |-> "idle", file |-> 0, size |-> 0, chunked |-> FALSE, seen |-> 0, todo |-> {}]

\* A request for one file, a sweep at the first file it has to do.
Request(pc, file, size, chunked, seen) ==
  [pc |-> pc, file |-> file, size |-> size, chunked |-> chunked, seen |-> seen, todo |-> {}]
Sweep(file, todo) ==
  [pc |-> "deleteObject", file |-> file, size |-> 0, chunked |-> FALSE, seen |-> 0,
   todo |-> todo]

Init ==
  /\ quota = [exists |-> FALSE, used |-> 0]
  /\ objects = {}
  /\ records = [f \in Files |-> NoRecord]
  /\ sessions = {}
  /\ started = 0
  /\ handlers = [h \in Handlers |-> Idle]
  /\ admitted = [f \in Files |-> 0]
  /\ excess = 0
  /\ recorded = 0
  /\ disturbed = {}

At(h, pc) == handlers[h].pc = pc
Goto(h, pc) == handlers' = [handlers EXCEPT ![h].pc = pc]
Finish(h) == handlers' = [handlers EXCEPT ![h] = Idle]

-----------------------------------------------------------------------------
(* The quota *)

\* The uploads that passed checkStorageQuota and did not add their bytes yet.
Uploading(h) == handlers[h].pc \in {"store", "initialize", "save", "readUsed", "writeUsed"}
Underway == (\E h \in Handlers : Uploading(h)) \/ sessions # {}

\* Defect: the bytes to add are not counted.
FitsAlready(used, size) == used <= MaxBytes

Fits(used, size) == used + size <= MaxBytes

\* What checkStorageQuota lets through goes on to storage.
Admit(h, used) ==
  IF Fits(used, handlers[h].size)
    THEN /\ Goto(h, IF handlers[h].chunked THEN "initialize" ELSE "store")
         /\ disturbed' = IF Underway THEN disturbed \union {"overlap"} ELSE disturbed
    ELSE /\ Finish(h)
         /\ UNCHANGED disturbed

CheckQuota(h) ==
  /\ At(h, "checkQuota")
  /\ IF quota.exists THEN Admit(h, quota.used)
                     ELSE Goto(h, "createQuota") /\ UNCHANGED disturbed
  /\ UNCHANGED <<quota, objects, records, sessions, started, admitted, excess, recorded>>

\* userId is unique: of two requests that both found no row one fails.
CreateQuota(h) ==
  /\ At(h, "createQuota")
  /\ quota' = [quota EXCEPT !.exists = TRUE]
  /\ IF quota.exists THEN Finish(h) /\ UNCHANGED disturbed ELSE Admit(h, 0)
  /\ UNCHANGED <<objects, records, sessions, started, admitted, excess, recorded>>

ReadUsed(h) ==
  /\ At(h, "readUsed")
  /\ handlers' = [handlers EXCEPT ![h] =
       Request("writeUsed", @.file, @.size, @.chunked, quota.used)]
  /\ UNCHANGED <<quota, objects, records, sessions, started, admitted, excess, recorded, disturbed>>

WriteUsed(h) ==
  /\ At(h, "writeUsed")
  /\ quota' = [quota EXCEPT !.used = handlers[h].seen + handlers[h].size]
  /\ Finish(h)
  /\ UNCHANGED <<objects, records, sessions, started, admitted, excess, recorded, disturbed>>

-----------------------------------------------------------------------------
(* uploadFile, initializeChunkedUpload, completeChunkedUpload *)

\* validateFile passed.
Upload(h, size, chunked) ==
  /\ At(h, "idle")
  /\ started < NumFiles
  /\ started' = started + 1
  /\ handlers' = [handlers EXCEPT ![h] =
       Request("checkQuota", started + 1, size, chunked, 0)]
  /\ UNCHANGED <<quota, objects, records, sessions, admitted, excess, recorded, disturbed>>

\* What optimizeImage returns is the smaller of its result and the original.
OptimizedSizes(size) == 1..size

\* Found clean, the optimized buffer is stored.
StoreObject(h) ==
  /\ At(h, "store")
  /\ objects' = objects \union {handlers[h].file}
  /\ \E size \in OptimizedSizes(handlers[h].size) :
       handlers' = [handlers EXCEPT ![h] = Request("save", @.file, size, @.chunked, 0)]
  /\ UNCHANGED <<quota, records, sessions, started, admitted, excess, recorded, disturbed>>

InitializeChunkedUpload(h) ==
  /\ At(h, "initialize")
  /\ sessions' = sessions \union {handlers[h].file}
  /\ admitted' = [admitted EXCEPT ![handlers[h].file] = handlers[h].size]
  /\ Finish(h)
  /\ UNCHANGED <<quota, objects, records, started, excess, recorded, disturbed>>

Surplus(size, limit) == IF size > limit THEN size - limit ELSE 0

\* The client states any totalSize: the session holds none to compare it with,
\* and neither validateFile nor the quota is checked again.  Without a session
\* the request fails.
CompleteChunkedUpload(h, f, size) ==
  /\ At(h, "idle")
  /\ f \in sessions
  /\ objects' = objects \union {f}
  /\ sessions' = sessions \ {f}
  /\ handlers' = [handlers EXCEPT ![h] = Request("save", f, size, TRUE, 0)]
  /\ admitted' = [admitted EXCEPT ![f] = 0]
  /\ excess' = excess + Surplus(size, admitted[f])
  /\ UNCHANGED <<quota, records, started, recorded, disturbed>>

SaveRecord(h) ==
  /\ At(h, "save")
  /\ records' = [records EXCEPT ![handlers[h].file] = [state |-> "live", days |-> 0]]
  /\ recorded' = recorded + handlers[h].size
  /\ Goto(h, "readUsed")
  /\ UNCHANGED <<quota, objects, sessions, started, admitted, excess, disturbed>>

-----------------------------------------------------------------------------
(* deleteFile *)

\* The record is found, deleted before or not.
DeleteFile(h, f) ==
  /\ At(h, "idle")
  /\ records[f].state # "absent"
  /\ handlers' = [handlers EXCEPT ![h] = Request("saveDeleted", f, 0, FALSE, 0)]
  /\ UNCHANGED <<quota, objects, records, sessions, started, admitted, excess, recorded, disturbed>>

\* save writes what differs from the table: nothing when the record is deleted
\* already; and it inserts again a record that a sweep removed meanwhile.
SaveDeleted(h) ==
  /\ At(h, "saveDeleted")
  /\ \E days \in 0..Expired :
       /\ records[handlers[h].file].state = "live" => days = 0
       /\ records[handlers[h].file].state = "deleted" => days = records[handlers[h].file].days
       /\ records' = [records EXCEPT ![handlers[h].file] = [state |-> "deleted", days |-> days]]
  /\ Finish(h)
  /\ UNCHANGED <<quota, objects, sessions, started, admitted, excess, recorded, disturbed>>

-----------------------------------------------------------------------------
(* GarbageCollectorService.cleanupDeletedFiles *)

\* Defect: what was deleted on the day of the cutoff is swept too.
ExpiredEarly == {f \in Files : records[f].state = "deleted" /\ records[f].days >= RetentionDays}

ExpiredFiles == {f \in Files : records[f].state = "deleted" /\ records[f].days > RetentionDays}

\* The sweep's next file: its loop goes on, or ends.
SweepOn(h, todo) ==
  handlers' = [handlers EXCEPT ![h] =
    IF todo = {} THEN Idle
    ELSE Sweep(CHOOSE f \in todo : \A g \in todo : f <= g, todo)]
Others(h) == handlers[h].todo \ {handlers[h].file}

CleanupDeletedFiles(h) ==
  /\ At(h, "idle")
  /\ ExpiredFiles # {}
  /\ SweepOn(h, ExpiredFiles)
  /\ UNCHANGED <<quota, objects, records, sessions, started, admitted, excess, recorded, disturbed>>

\* An object that is gone already is deleted without an error.
DeleteObject(h, f) ==
  /\ At(h, "deleteObject")
  /\ f = handlers[h].file /\ f \notin Broken
  /\ objects' = objects \ {f}
  /\ Goto(h, "removeRecord")
  /\ UNCHANGED <<quota, records, sessions, started, admitted, excess, recorded, disturbed>>

\* Defect: the error is caught around the whole loop.
DeleteObjectFailsLoop(h) ==
  /\ At(h, "deleteObject")
  /\ Finish(h)
  /\ UNCHANGED <<quota, objects, records, sessions, started, admitted, excess, recorded, disturbed>>

\* Defect: the record is removed although its object was not deleted.
DeleteObjectFailsOn(h) ==
  /\ At(h, "deleteObject")
  /\ Goto(h, "removeRecord")
  /\ UNCHANGED <<quota, objects, records, sessions, started, admitted, excess, recorded, disturbed>>

\* The error is caught for each file.
DeleteObjectFails(h) ==
  /\ At(h, "deleteObject")
  /\ SweepOn(h, Others(h))
  /\ UNCHANGED <<quota, objects, records, sessions, started, admitted, excess, recorded, disturbed>>

RemoveRecord(h, f) ==
  /\ At(h, "removeRecord")
  /\ f = handlers[h].file
  /\ records' = [records EXCEPT ![f] = NoRecord]
  /\ SweepOn(h, Others(h))
  /\ UNCHANGED <<quota, objects, sessions, started, admitted, excess, recorded, disturbed>>

RemoveRecordFails(h) ==
  /\ At(h, "removeRecord")
  /\ SweepOn(h, Others(h))
  /\ UNCHANGED <<quota, objects, records, sessions, started, admitted, excess, recorded, disturbed>>

-----------------------------------------------------------------------------
(* The environment *)

\* The object of this upload has no record yet, or its record is not counted.
Unfinished(h) == handlers[h].pc \in {"save", "readUsed", "writeUsed"}
FaultIf(condition) == disturbed' = IF condition THEN disturbed \union {"fault"} ELSE disturbed

\* Writing an object may fail, or be cut off, with the object written.
LeftBehind(h) == IF At(h, "store") THEN {handlers[h].file} ELSE {}

\* The scan finds a virus, or the database or the storage fails a request.
RequestFails(h) ==
  /\ ~At(h, "idle") /\ ~At(h, "deleteObject") /\ ~At(h, "removeRecord")
  /\ Finish(h)
  /\ \E left \in SUBSET LeftBehind(h) :
       objects' = objects \union left /\ FaultIf(Unfinished(h) \/ left # {})
  /\ UNCHANGED <<quota, records, sessions, started, admitted, excess, recorded>>

\* The upload sessions are kept in memory.
Restart ==
  /\ handlers' = [h \in Handlers |-> Idle]
  /\ sessions' = {} /\ admitted' = [f \in Files |-> 0]
  /\ \E left \in SUBSET UNION {LeftBehind(h) : h \in Handlers} :
       /\ objects' = objects \union left
       /\ FaultIf((\E h \in Handlers : Unfinished(h)) \/ left # {})
  /\ UNCHANGED <<quota, records, started, excess, recorded>>

Day ==
  /\ records' = [f \in Files |->
       IF records[f].state = "deleted" /\ records[f].days < Expired
         THEN [records[f] EXCEPT !.days = @ + 1] ELSE records[f]]
  /\ UNCHANGED <<quota, objects, sessions, started, handlers, admitted, excess, recorded,
                 disturbed>>

\* What a request or sweep does once it was started.
Proceed(h) ==
  \/ CheckQuota(h) \/ CreateQuota(h) \/ StoreObject(h) \/ InitializeChunkedUpload(h)
  \/ SaveRecord(h) \/ ReadUsed(h) \/ WriteUsed(h) \/ SaveDeleted(h)
  \/ DeleteObjectFails(h) \/ RemoveRecordFails(h) \/ RequestFails(h)
  \/ \E f \in Files : DeleteObject(h, f) \/ RemoveRecord(h, f)

Next ==
  \/ \E h \in Handlers :
       \/ \E size \in Sizes, chunked \in BOOLEAN : Upload(h, size, chunked)
       \/ \E f \in Files, size \in StatedSizes : CompleteChunkedUpload(h, f, size)
       \/ \E f \in Files : DeleteFile(h, f)
       \/ CleanupDeletedFiles(h)
       \/ Proceed(h)
  \/ Restart \/ Day

Spec == Init /\ [][Next]_vars

\* Requests end, days pass, the cron job is started night after night, and a
\* restart does not cut it off at the same step every time, nor does a step of it
\* always fail, except where the storage is broken.
Fairness ==
  /\ WF_vars(Day)
  /\ \A h \in Handlers : WF_vars(Proceed(h))
  /\ SF_vars(\E h \in Handlers : CleanupDeletedFiles(h))
  /\ SF_vars(\E h \in Handlers : DeleteObjectFails(h))
  /\ \A f \in Files : SF_vars(\E h \in Handlers : DeleteObject(h, f))
  /\ \A f \in Files : SF_vars(\E h \in Handlers : RemoveRecord(h, f))

FairSpec == Spec /\ Fairness

-----------------------------------------------------------------------------
(* Properties *)

\* The rows, objects, sessions and requests are what they may be.
TypeOK ==
  /\ quota \in [exists: BOOLEAN, used: Nat]
  /\ objects \subseteq Files
  /\ records \in [Files -> Record]
  /\ sessions \subseteq Files
  /\ started \in 0..NumFiles
  /\ handlers \in [Handlers -> Handler]
  /\ admitted \in [Files -> 0..MaxSize]
  /\ excess \in Nat
  /\ recorded \in Nat
  /\ disturbed \subseteq {"overlap", "fault"}

\* The bytes of the uploads under way that passed the quota or were completed.
Awaited == [h \in Handlers |-> IF Uploading(h) THEN handlers[h].size ELSE 0]

\* Unless uploads overlapped, what is used and what the uploads under way will
\* add exceeds the quota by no more than completions of chunked uploads stated
\* beyond the totalSize that passed it, which nothing bounds, however many
\* requests, sessions and failures there were (checkStorageQuota, which
\* completeChunkedUpload does not call).
QuotaHeld ==
  "overlap" \notin disturbed =>
    quota.used + SumFunction(Awaited) + SumFunction(admitted) <= MaxBytes + excess

\* The quota never counts more than the sizes of the records, and when no update
\* is under way it counts exactly that, unless uploads overlapped or one broke
\* off between its record and the quota (updateStorageQuota).  The size of a
\* chunked upload's record is what its completion stated, not what is stored.
UsageCounted ==
  /\ quota.used <= recorded
  /\ disturbed = {} /\ (\A h \in Handlers : ~At(h, "readUsed") /\ ~At(h, "writeUsed")) =>
       quota.used = recorded

\* The quota is exceeded by overlapping uploads and by what completions state
\* beyond what was checked, by nothing else, and counts the sizes on record but
\* for overlapping and broken uploads (checkStorageQuota, updateStorageQuota).
QuotaRight == TypeOK /\ QuotaHeld /\ UsageCounted

\* A file that is not deleted can be read: no sweep, restart or failure takes
\* the object of a live record away (getFile).
LiveFilesStored == \A f \in Files : records[f].state = "live" => f \in objects

\* No object is left behind without a record that leads to it, whatever fails in
\* a sweep, unless an upload broke off before its record was saved.
StoredIsRecorded ==
  "fault" \notin disturbed =>
    \A f \in objects :
      records[f].state # "absent" \/ \E h \in Handlers : At(h, "save") /\ handlers[h].file = f

\* The storage and the table agree: live files are there, and what is there is
\* on record, through uploads, deletions and sweeps that overlap and fail.
ObjectsMatchRecords == LiveFilesStored /\ StoredIsRecorded

\* "remove it after the retention period": an object is deleted only when its
\* file has been deleted for more than RETENTION_DAYS, also by a sweep that
\* found it some time ago, or that runs while another one does.
RetentionKept ==
  [][\A f \in objects \ objects' :
       records[f].state = "deleted" /\ records[f].days > RetentionDays]_vars

\* "The GarbageCollector cron job will physically remove it": a deleted file
\* loses object and record in the end, also when the storage never deletes
\* another one.
DeletedDisappears ==
  \A f \in Files \ Broken :
    records[f].state = "deleted" ~> records[f].state = "absent" /\ f \notin objects
=============================================================================
