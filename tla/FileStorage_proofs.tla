-------------------------- MODULE FileStorage_proofs --------------------------
(***************************************************************************)
(* Proofs about FileStorage, for any number of requests and sweeps, files,  *)
(* sizes and days, and any set of files the storage cannot delete.          *)
(***************************************************************************)
EXTENDS FileStorage, SumTheorems

LEMMA RecordOf ==
  ASSUME TypeOK, NEW h \in Handlers
  PROVE  /\ handlers[h].pc \in PCs /\ handlers[h].file \in 0..NumFiles
         /\ handlers[h].size \in Nat /\ handlers[h].chunked \in BOOLEAN
         /\ handlers[h].seen \in Nat /\ handlers[h].todo \in SUBSET Files
         /\ \A pc : [handlers[h] EXCEPT !.pc = pc]
              = [pc |-> pc, file |-> handlers[h].file, size |-> handlers[h].size,
                 chunked |-> handlers[h].chunked, seen |-> handlers[h].seen,
                 todo |-> handlers[h].todo]
BY DEF TypeOK, Handler

LEMMA RequestTyped ==
  ASSUME NEW pc \in PCs, NEW file \in 0..NumFiles, NEW size \in Nat,
         NEW chunked \in BOOLEAN, NEW seen \in Nat
  PROVE  Request(pc, file, size, chunked, seen) \in Handler
BY DEF Request, Handler

LEMMA IdleTyped == Idle \in Handler
BY FileStorageAssumption DEF Idle, Handler, PCs

\* The sweep works on a file of those it has to do.
LEMMA FirstToDo ==
  ASSUME NEW todo \in SUBSET Files, todo # {}
  PROVE  (CHOOSE f \in todo : \A g \in todo : f <= g) \in todo
<1>1. todo \subseteq Nat
  BY FileStorageAssumption DEF Files
<1>2. \E f \in todo : \A g \in todo : ~ (<<g, f>> \in OpToRel(<, Nat))
  BY <1>1, NatLessThanWellFounded, WFMin
<1>3. PICK f \in todo : \A g \in todo : ~ (g < f)
  BY <1>1, <1>2 DEF OpToRel
<1>4. \A g \in todo : f <= g
  BY <1>1, <1>3
<1> QED BY <1>4

LEMMA SweepsOn ==
  ASSUME TypeOK, NEW h \in Handlers, NEW todo \in SUBSET Files, SweepOn(h, todo)
  PROVE  handlers' \in [Handlers -> Handler]
<1>1. CASE todo = {}
  BY <1>1, IdleTyped DEF SweepOn, TypeOK
<1>2. CASE todo # {}
  <2> DEFINE f == CHOOSE f \in todo : \A g \in todo : f <= g
  <2>1. f \in todo
    BY <1>2, FirstToDo
  <2>2. handlers' = [handlers EXCEPT ![h] = Sweep(f, todo)]
    BY <1>2 DEF SweepOn
  <2> HIDE DEF f
  <2>3. Sweep(f, todo) \in Handler
    <3>1. f \in 0..NumFiles
      BY <2>1, FileStorageAssumption DEF Files
    <3> QED BY <3>1 DEF Sweep, Handler, PCs
  <2> QED BY <2>2, <2>3 DEF TypeOK
<1> QED BY <1>1, <1>2

LEMMA FileIs ==
  ASSUME NEW f \in Files
  PROVE  f \in 0..NumFiles /\ f \in Nat /\ f > 0
BY FileStorageAssumption DEF Files

LEMMA SurplusIs ==
  ASSUME TypeOK, NEW f \in Files, NEW size \in StatedSizes
  PROVE  /\ size \in Nat /\ admitted[f] \in Nat /\ Surplus(size, admitted[f]) \in Nat
         /\ size <= admitted[f] + Surplus(size, admitted[f])
BY FileStorageAssumption DEF Surplus, TypeOK

-----------------------------------------------------------------------------
(* Types *)

Early(h) == handlers[h].pc \in {"checkQuota", "createQuota", "store", "initialize", "save"}
Unadmitted(h) == handlers[h].pc \in {"checkQuota", "createQuota"}
Sweeping(h) == handlers[h].pc \in {"deleteObject", "removeRecord"}

Requests ==
  \A h \in Handlers :
    /\ Early(h) \/ Uploading(h) => handlers[h].file \in Files
    /\ Unadmitted(h) \/ At(h, "initialize") => handlers[h].size \in Sizes
    /\ At(h, "saveDeleted") => handlers[h].file \in Files
    /\ IF Sweeping(h) THEN handlers[h].file \in handlers[h].todo ELSE handlers[h].todo = {}

LEMMA TypeInductive == TypeOK /\ Requests /\ [Next]_vars => TypeOK'
<1> SUFFICES ASSUME TypeOK, Requests, [Next]_vars PROVE TypeOK'
  OBVIOUS
<1> USE FileStorageAssumption
<1>1. ASSUME NEW h \in Handlers, NEW pc \in PCs, Goto(h, pc)
      PROVE  handlers' \in [Handlers -> Handler]
  BY <1>1, RecordOf DEF Goto, TypeOK, Handler
<1>2. ASSUME NEW h \in Handlers, NEW r \in Handler, handlers' = [handlers EXCEPT ![h] = r]
      PROVE  handlers' \in [Handlers -> Handler]
  BY <1>2 DEF TypeOK
<1>3. ASSUME NEW h \in Handlers, Finish(h)
      PROVE  handlers' \in [Handlers -> Handler]
  BY <1>3, IdleTyped DEF Finish, TypeOK
<1>4. ASSUME NEW h \in Handlers, NEW used \in Nat, Admit(h, used)
      PROVE  handlers' \in [Handlers -> Handler] /\ disturbed' \subseteq {"overlap", "fault"}
  BY <1>4, <1>1, <1>3 DEF Admit, TypeOK, PCs
<1>5. ASSUME NEW h \in Handlers, CheckQuota(h) PROVE TypeOK'
  <2>1. quota \in [exists: BOOLEAN, used: Nat]
    BY DEF TypeOK
  <2>2. quota.used \in Nat
    BY <2>1
  <2> QED BY <1>5, <1>1, <1>4, <2>2 DEF CheckQuota, TypeOK, PCs
<1>6. ASSUME NEW h \in Handlers, CreateQuota(h) PROVE TypeOK'
  <2>1. quota \in [exists: BOOLEAN, used: Nat]
    BY DEF TypeOK
  <2>2. quota' \in [exists: BOOLEAN, used: Nat]
    BY <1>6, <2>1 DEF CreateQuota
  <2> QED BY <1>6, <1>3, <1>4, <2>2 DEF CreateQuota, TypeOK
<1>7. ASSUME NEW h \in Handlers, StoreObject(h) PROVE TypeOK'
  <2>1. PICK size \in OptimizedSizes(handlers[h].size) :
          handlers' = [handlers EXCEPT ![h] = Request("save", @.file, size, @.chunked, 0)]
    BY <1>7 DEF StoreObject
  <2>2. size \in Nat
    BY RecordOf DEF OptimizedSizes
  <2>3. Request("save", handlers[h].file, size, handlers[h].chunked, 0) \in Handler
    BY <2>2, RecordOf, RequestTyped DEF PCs
  <2>4. handlers' \in [Handlers -> Handler]
    BY <2>1, <2>3 DEF TypeOK
  <2>5. handlers[h].file \in Files
    BY <1>7 DEF StoreObject, Requests, Early, At
  <2> QED BY <1>7, <2>4, <2>5 DEF StoreObject, TypeOK
<1>8. ASSUME NEW h \in Handlers, InitializeChunkedUpload(h) PROVE TypeOK'
  <2>1. handlers[h].file \in Files /\ handlers[h].size \in 0..MaxSize
    BY <1>8 DEF InitializeChunkedUpload, Requests, Early, At, Sizes
  <2>2. admitted' \in [Files -> 0..MaxSize]
    BY <1>8, <2>1 DEF InitializeChunkedUpload, TypeOK
  <2> QED BY <1>8, <1>3, <2>1, <2>2 DEF InitializeChunkedUpload, TypeOK
<1>9. ASSUME NEW h \in Handlers, SaveRecord(h) PROVE TypeOK'
  <2>1. [state |-> "live", days |-> 0] \in Record
    BY DEF Record, Expired
  <2>2. recorded' \in Nat
    BY <1>9, RecordOf DEF SaveRecord, TypeOK
  <2> QED BY <1>9, <1>1, <2>1, <2>2 DEF SaveRecord, TypeOK, PCs
<1>10. ASSUME NEW h \in Handlers, ReadUsed(h) PROVE TypeOK'
  <2>1. quota \in [exists: BOOLEAN, used: Nat]
    BY DEF TypeOK
  <2>2. Request("writeUsed", handlers[h].file, handlers[h].size, handlers[h].chunked,
                quota.used) \in Handler
    BY <2>1, RecordOf, RequestTyped DEF PCs
  <2>3. handlers' \in [Handlers -> Handler]
    BY <1>10, <2>2 DEF ReadUsed, TypeOK
  <2> QED BY <1>10, <2>3 DEF ReadUsed, TypeOK
<1>11. ASSUME NEW h \in Handlers, WriteUsed(h) PROVE TypeOK'
  <2>1. quota \in [exists: BOOLEAN, used: Nat]
    BY DEF TypeOK
  <2>2. quota' \in [exists: BOOLEAN, used: Nat]
    BY <1>11, <2>1, RecordOf DEF WriteUsed
  <2> QED BY <1>11, <1>3, <2>2 DEF WriteUsed, TypeOK
<1>12. ASSUME NEW h \in Handlers, SaveDeleted(h) PROVE TypeOK'
  <2>1. \A days \in 0..Expired : [state |-> "deleted", days |-> days] \in Record
    BY DEF Record
  <2> QED BY <1>12, <1>3, <2>1 DEF SaveDeleted, TypeOK
<1>13. ASSUME NEW h \in Handlers, DeleteObjectFails(h) PROVE TypeOK'
  <2>1. Others(h) \in SUBSET Files
    BY RecordOf DEF Others
  <2> QED BY <1>13, <2>1, SweepsOn DEF DeleteObjectFails, TypeOK
<1>14. ASSUME NEW h \in Handlers, RemoveRecordFails(h) PROVE TypeOK'
  <2>1. Others(h) \in SUBSET Files
    BY RecordOf DEF Others
  <2> QED BY <1>14, <2>1, SweepsOn DEF RemoveRecordFails, TypeOK
<1>15. ASSUME NEW h \in Handlers, RequestFails(h) PROVE TypeOK'
  <2>1. LeftBehind(h) \subseteq Files
    BY DEF LeftBehind, At, Requests, Early
  <2> QED BY <1>15, <1>3, <2>1 DEF RequestFails, FaultIf, TypeOK
<1>16. ASSUME NEW h \in Handlers, NEW f \in Files, DeleteObject(h, f) PROVE TypeOK'
  BY <1>16, <1>1 DEF DeleteObject, TypeOK, PCs
<1>17. ASSUME NEW h \in Handlers, NEW f \in Files, RemoveRecord(h, f) PROVE TypeOK'
  <2>1. Others(h) \in SUBSET Files
    BY RecordOf DEF Others
  <2>2. NoRecord \in Record
    BY DEF NoRecord, Record, Expired
  <2> QED BY <1>17, <2>1, <2>2, SweepsOn DEF RemoveRecord, TypeOK
<1>18. ASSUME NEW h \in Handlers, NEW size \in Sizes, NEW chunked \in BOOLEAN,
             Upload(h, size, chunked) PROVE TypeOK'
  <2>1. Request("checkQuota", started + 1, size, chunked, 0) \in Handler
    BY <1>18, RequestTyped DEF Upload, TypeOK, PCs, Sizes
  <2>2. started' \in 0..NumFiles
    BY <1>18 DEF Upload, TypeOK
  <2>3. handlers' = [handlers EXCEPT ![h] = Request("checkQuota", started + 1, size, chunked, 0)]
    BY <1>18 DEF Upload
  <2>4. handlers' \in [Handlers -> Handler]
    BY <1>2, <2>1, <2>3
  <2> QED BY <1>18, <2>2, <2>4 DEF Upload, TypeOK
<1>19. ASSUME NEW h \in Handlers, NEW f \in Files, NEW size \in StatedSizes,
             CompleteChunkedUpload(h, f, size) PROVE TypeOK'
  <2>1. Request("save", f, size, TRUE, 0) \in Handler
    BY FileIs, RequestTyped DEF PCs
  <2>2. handlers' = [handlers EXCEPT ![h] = Request("save", f, size, TRUE, 0)]
    BY <1>19 DEF CompleteChunkedUpload
  <2>3. handlers' \in [Handlers -> Handler]
    BY <1>2, <2>1, <2>2
  <2>4. admitted' \in [Files -> 0..MaxSize] /\ excess' \in Nat
    BY <1>19, SurplusIs DEF CompleteChunkedUpload, TypeOK
  <2> QED BY <1>19, <2>3, <2>4 DEF CompleteChunkedUpload, TypeOK
<1>20. ASSUME NEW h \in Handlers, NEW f \in Files, DeleteFile(h, f) PROVE TypeOK'
  <2>1. Request("saveDeleted", f, 0, FALSE, 0) \in Handler
    <3>1. 0 \in Nat
      OBVIOUS
    <3> QED BY <3>1, FileIs, RequestTyped DEF PCs
  <2>2. handlers' = [handlers EXCEPT ![h] = Request("saveDeleted", f, 0, FALSE, 0)]
    BY <1>20 DEF DeleteFile
  <2>3. handlers' \in [Handlers -> Handler]
    BY <1>2, <2>1, <2>2
  <2> QED BY <1>20, <2>3 DEF DeleteFile, TypeOK
<1>21. ASSUME NEW h \in Handlers, CleanupDeletedFiles(h) PROVE TypeOK'
  <2>1. ExpiredFiles \in SUBSET Files
    BY DEF ExpiredFiles
  <2> QED BY <1>21, <2>1, SweepsOn DEF CleanupDeletedFiles, TypeOK
<1>22. CASE Restart
  <2>1. \A h \in Handlers : LeftBehind(h) \subseteq Files
    BY DEF LeftBehind, At, Requests, Early
  <2>2. objects' \subseteq Files
    BY <1>22, <2>1 DEF Restart, TypeOK
  <2> QED BY <1>22, <2>2, IdleTyped DEF Restart, FaultIf, TypeOK
<1>23. CASE Day
  <2>1. \A f \in Files : records[f].state = "deleted" /\ records[f].days < Expired =>
          [records[f] EXCEPT !.days = @ + 1] \in Record
    BY DEF TypeOK, Record, Expired
  <2>2. records' \in [Files -> Record]
    BY <1>23, <2>1 DEF Day, TypeOK
  <2> QED BY <1>23, <2>2 DEF Day, TypeOK
<1>24. CASE UNCHANGED vars
  BY <1>24 DEF vars, TypeOK
<1> QED BY <1>5, <1>6, <1>7, <1>8, <1>9, <1>10, <1>11, <1>12, <1>13, <1>14, <1>15, <1>16, <1>17,
           <1>18, <1>19, <1>20, <1>21, <1>22, <1>23, <1>24
           DEF Next, Proceed

-----------------------------------------------------------------------------
(* Objects and records *)

\* A file is new until its record is saved: it has one upload or one session, no
\* record, and nobody deletes it.
Arriving(f) ==
  f > started \/ f \in sessions \/ \E h \in Handlers : Early(h) /\ handlers[h].file = f

NewFiles ==
  /\ \A f \in Files : f \in sessions => f <= started
  /\ \A h \in Handlers : Early(h) =>
       /\ handlers[h].file <= started /\ handlers[h].file \notin sessions
       /\ \A g \in Handlers : Early(g) /\ handlers[g].file = handlers[h].file => g = h
  /\ \A f \in Files : Arriving(f) =>
       /\ records[f].state = "absent"
       /\ \A g \in Handlers :
            f \notin handlers[g].todo /\ (At(g, "saveDeleted") => handlers[g].file # f)

\* What a sweep has still to do is deleted long enough, or gone; what it is about
\* to remove the record of is gone.
SweptIsExpired ==
  \A h \in Handlers :
    /\ \A f \in handlers[h].todo \intersect objects :
         records[f].state = "deleted" /\ records[f].days > RetentionDays
    /\ At(h, "removeRecord") => handlers[h].file \notin objects

\* The object of an upload that is about to save its record is there.
SavedIsStored == \A h \in Handlers : At(h, "save") => handlers[h].file \in objects

FilesInv ==
  Requests /\ NewFiles /\ SweptIsExpired /\ SavedIsStored /\ LiveFilesStored /\ StoredIsRecorded

\* What a handler is after a step; the others are what they were.
Becomes(h, pc, file, size, seen, todo) ==
  /\ handlers'[h].pc = pc /\ handlers'[h].file = file /\ handlers'[h].size = size
  /\ handlers'[h].seen = seen /\ handlers'[h].todo = todo
  /\ \A g \in Handlers \ {h} : handlers'[g] = handlers[g]

LEMMA GotoBecomes ==
  ASSUME TypeOK, NEW h \in Handlers, NEW pc, Goto(h, pc)
  PROVE  Becomes(h, pc, handlers[h].file, handlers[h].size, handlers[h].seen, handlers[h].todo)
<1>1. handlers'[h] = [handlers[h] EXCEPT !.pc = pc]
      /\ \A g \in Handlers \ {h} : handlers'[g] = handlers[g]
  BY DEF Goto, TypeOK
<1> QED BY <1>1, RecordOf DEF Becomes

LEMMA FinishBecomes ==
  ASSUME TypeOK, NEW h \in Handlers, Finish(h)
  PROVE  Becomes(h, "idle", 0, 0, 0, {})
BY DEF Finish, Idle, TypeOK, Becomes

LEMMA RequestBecomes ==
  ASSUME TypeOK, NEW h \in Handlers, NEW pc, NEW file, NEW size, NEW chunked, NEW seen,
         handlers' = [handlers EXCEPT ![h] = Request(pc, file, size, chunked, seen)]
  PROVE  Becomes(h, pc, file, size, seen, {})
BY DEF Request, TypeOK, Becomes

LEMMA AdmitBecomes ==
  ASSUME TypeOK, NEW h \in Handlers, NEW used, Admit(h, used)
  PROVE  \/ Becomes(h, "idle", 0, 0, 0, {}) /\ UNCHANGED disturbed
         \/ /\ \E pc \in {"store", "initialize"} :
                 Becomes(h, pc, handlers[h].file, handlers[h].size, handlers[h].seen,
                         handlers[h].todo)
            /\ Fits(used, handlers[h].size)
            /\ disturbed' = IF Underway THEN disturbed \union {"overlap"} ELSE disturbed
<1>1. CASE Fits(used, handlers[h].size)
  BY <1>1, GotoBecomes DEF Admit
<1>2. CASE ~Fits(used, handlers[h].size)
  BY <1>2, FinishBecomes DEF Admit
<1> QED BY <1>1, <1>2

\* The sweep goes on with some file of what is left, or ends.
SweepsWith(h, todo) ==
  IF todo = {} THEN Becomes(h, "idle", 0, 0, 0, {})
  ELSE \E f \in todo : Becomes(h, "deleteObject", f, 0, 0, todo)

LEMMA SweepOnBecomes ==
  ASSUME TypeOK, NEW h \in Handlers, NEW todo \in SUBSET Files, SweepOn(h, todo)
  PROVE  SweepsWith(h, todo)
<1>1. CASE todo = {}
  BY <1>1, FinishBecomes DEF SweepOn, Finish, SweepsWith
<1>2. CASE todo # {}
  <2> DEFINE f == CHOOSE f \in todo : \A g \in todo : f <= g
  <2>1. f \in todo
    BY <1>2, FirstToDo
  <2>2. handlers' = [handlers EXCEPT ![h] = Sweep(f, todo)]
    BY <1>2 DEF SweepOn
  <2> HIDE DEF f
  <2>3. Becomes(h, "deleteObject", f, 0, 0, todo)
    BY <2>2 DEF Sweep, TypeOK, Becomes
  <2> QED BY <1>2, <2>1, <2>3 DEF SweepsWith
<1> QED BY <1>1, <1>2

LEMMA FilesInductive == TypeOK /\ FilesInv /\ [Next]_vars => FilesInv'
<1> SUFFICES ASSUME TypeOK, FilesInv, [Next]_vars PROVE FilesInv'
  OBVIOUS
<1> USE FileStorageAssumption
<1>t. /\ objects \subseteq Files /\ records \in [Files -> Record]
      /\ sessions \subseteq Files /\ started \in 0..NumFiles
  BY DEF TypeOK
<1>i. /\ Requests /\ NewFiles /\ SweptIsExpired /\ SavedIsStored /\ LiveFilesStored
      /\ StoredIsRecorded
  BY DEF FilesInv
<1>1. ASSUME NEW h \in Handlers, CheckQuota(h) PROVE FilesInv'
  <2>1. /\ At(h, "checkQuota") /\ records' = records /\ objects' = objects
        /\ sessions' = sessions /\ started' = started
        /\ \/ Becomes(h, "idle", 0, 0, 0, {})
           \/ \E pc \in {"createQuota", "store", "initialize"} :
                Becomes(h, pc, handlers[h].file, handlers[h].size, handlers[h].seen,
                        handlers[h].todo)
        /\ "fault" \notin disturbed' => "fault" \notin disturbed
    BY <1>1, GotoBecomes, AdmitBecomes DEF CheckQuota
  <2>2. Requests'
    BY <2>1, <1>i, RecordOf DEF Requests, Early, Uploading, Sweeping, Unadmitted, At, Becomes
  <2>3. NewFiles'
    <3>1. \A e \in Files : Arriving(e)' => Arriving(e)
      BY <2>1, <1>t, <1>i DEF Arriving, NewFiles, Requests, Early, At, Becomes
    <3>2. \A e \in Files : e \in sessions' => e <= started'
      BY <2>1, <1>t, <1>i DEF NewFiles, Requests, Early, At
    <3>3. ASSUME NEW g \in Handlers, Early(g)'
          PROVE  /\ handlers'[g].file <= started' /\ handlers'[g].file \notin sessions'
                 /\ \A k \in Handlers :
                      Early(k)' /\ handlers'[k].file = handlers'[g].file => k = g
      BY <2>1, <3>3, <1>t, <1>i DEF NewFiles, Requests, Early, At, Becomes
    <3>4. ASSUME NEW e \in Files, Arriving(e)'
          PROVE  /\ records'[e].state = "absent"
                 /\ \A g \in Handlers :
                      e \notin handlers'[g].todo /\ (At(g, "saveDeleted")' => handlers'[g].file # e)
      BY <2>1, <3>1, <3>4, <1>t, <1>i DEF NewFiles, Requests, Early, At, Becomes
    <3> QED BY <3>2, <3>3, <3>4 DEF NewFiles
  <2>4. SweptIsExpired'
    BY <2>1, <1>t, <1>i
       DEF SweptIsExpired, NewFiles, Arriving, Early, Requests, Sweeping, At, Becomes
  <2>5. SavedIsStored' /\ LiveFilesStored'
    BY <2>1, <1>t, <1>i
       DEF SavedIsStored, LiveFilesStored, NewFiles, Arriving, Requests, SweptIsExpired, Early,
           Sweeping, At, Becomes
  <2>6. StoredIsRecorded'
    BY <2>1, <1>t, <1>i
       DEF StoredIsRecorded, SweptIsExpired, NewFiles, Requests, Early, Sweeping, At, Becomes
  <2> QED BY <2>2, <2>3, <2>4, <2>5, <2>6 DEF FilesInv
<1>2. ASSUME NEW h \in Handlers, CreateQuota(h) PROVE FilesInv'
  <2>1. /\ At(h, "createQuota") /\ records' = records /\ objects' = objects
        /\ sessions' = sessions /\ started' = started
        /\ \/ Becomes(h, "idle", 0, 0, 0, {})
           \/ \E pc \in {"store", "initialize"} :
                Becomes(h, pc, handlers[h].file, handlers[h].size, handlers[h].seen,
                        handlers[h].todo)
        /\ "fault" \notin disturbed' => "fault" \notin disturbed
    BY <1>2, FinishBecomes, AdmitBecomes DEF CreateQuota
  <2>2. Requests'
    BY <2>1, <1>i, RecordOf DEF Requests, Early, Uploading, Sweeping, Unadmitted, At, Becomes
  <2>3. NewFiles'
    <3>1. \A e \in Files : Arriving(e)' => Arriving(e)
      BY <2>1, <1>t, <1>i DEF Arriving, NewFiles, Requests, Early, At, Becomes
    <3>2. \A e \in Files : e \in sessions' => e <= started'
      BY <2>1, <1>t, <1>i DEF NewFiles, Requests, Early, At
    <3>3. ASSUME NEW g \in Handlers, Early(g)'
          PROVE  /\ handlers'[g].file <= started' /\ handlers'[g].file \notin sessions'
                 /\ \A k \in Handlers :
                      Early(k)' /\ handlers'[k].file = handlers'[g].file => k = g
      BY <2>1, <3>3, <1>t, <1>i DEF NewFiles, Requests, Early, At, Becomes
    <3>4. ASSUME NEW e \in Files, Arriving(e)'
          PROVE  /\ records'[e].state = "absent"
                 /\ \A g \in Handlers :
                      e \notin handlers'[g].todo /\ (At(g, "saveDeleted")' => handlers'[g].file # e)
      BY <2>1, <3>1, <3>4, <1>t, <1>i DEF NewFiles, Requests, Early, At, Becomes
    <3> QED BY <3>2, <3>3, <3>4 DEF NewFiles
  <2>4. SweptIsExpired'
    BY <2>1, <1>t, <1>i
       DEF SweptIsExpired, NewFiles, Arriving, Early, Requests, Sweeping, At, Becomes
  <2>5. SavedIsStored' /\ LiveFilesStored'
    BY <2>1, <1>t, <1>i
       DEF SavedIsStored, LiveFilesStored, NewFiles, Arriving, Requests, SweptIsExpired, Early,
           Sweeping, At, Becomes
  <2>6. StoredIsRecorded'
    BY <2>1, <1>t, <1>i
       DEF StoredIsRecorded, SweptIsExpired, NewFiles, Requests, Early, Sweeping, At, Becomes
  <2> QED BY <2>2, <2>3, <2>4, <2>5, <2>6 DEF FilesInv
<1>3. ASSUME NEW h \in Handlers, StoreObject(h) PROVE FilesInv'
  <2>1. /\ At(h, "store") /\ records' = records /\ sessions' = sessions
        /\ objects' = objects \union {handlers[h].file} /\ started' = started
        /\ disturbed' = disturbed
        /\ \E size \in 1..handlers[h].size : Becomes(h, "save", handlers[h].file, size, 0, {})
    BY <1>3, RequestBecomes DEF StoreObject, OptimizedSizes
  <2>2. Requests'
    BY <2>1, <1>i, RecordOf DEF Requests, Early, Uploading, Sweeping, Unadmitted, At, Becomes
  <2>3. NewFiles'
    <3>1. \A e \in Files : Arriving(e)' => Arriving(e)
      BY <2>1, <1>t, <1>i DEF Arriving, NewFiles, Requests, Early, At, Becomes
    <3>2. \A e \in Files : e \in sessions' => e <= started'
      BY <2>1, <1>t, <1>i DEF NewFiles, Requests, Early, At
    <3>3. ASSUME NEW g \in Handlers, Early(g)'
          PROVE  /\ handlers'[g].file <= started' /\ handlers'[g].file \notin sessions'
                 /\ \A k \in Handlers :
                      Early(k)' /\ handlers'[k].file = handlers'[g].file => k = g
      BY <2>1, <3>3, <1>t, <1>i DEF NewFiles, Requests, Early, At, Becomes
    <3>4. ASSUME NEW e \in Files, Arriving(e)'
          PROVE  /\ records'[e].state = "absent"
                 /\ \A g \in Handlers :
                      e \notin handlers'[g].todo /\ (At(g, "saveDeleted")' => handlers'[g].file # e)
      BY <2>1, <3>1, <3>4, <1>t, <1>i DEF NewFiles, Requests, Early, At, Becomes
    <3> QED BY <3>2, <3>3, <3>4 DEF NewFiles
  <2>4. SweptIsExpired'
    BY <2>1, <1>t, <1>i
       DEF SweptIsExpired, NewFiles, Arriving, Early, Requests, Sweeping, At, Becomes
  <2>5. SavedIsStored' /\ LiveFilesStored'
    BY <2>1, <1>t, <1>i
       DEF SavedIsStored, LiveFilesStored, NewFiles, Arriving, Requests, SweptIsExpired, Early,
           Sweeping, At, Becomes
  <2>6. StoredIsRecorded'
    BY <2>1, <1>t, <1>i
       DEF StoredIsRecorded, SweptIsExpired, NewFiles, Requests, Early, Sweeping, At, Becomes
  <2> QED BY <2>2, <2>3, <2>4, <2>5, <2>6 DEF FilesInv
<1>4. ASSUME NEW h \in Handlers, InitializeChunkedUpload(h) PROVE FilesInv'
  <2>1. /\ At(h, "initialize") /\ records' = records /\ objects' = objects
        /\ sessions' = sessions \union {handlers[h].file}
        /\ started' = started /\ disturbed' = disturbed
        /\ Becomes(h, "idle", 0, 0, 0, {})
    BY <1>4, FinishBecomes DEF InitializeChunkedUpload
  <2>2. Requests'
    BY <2>1, <1>i, RecordOf DEF Requests, Early, Uploading, Sweeping, Unadmitted, At, Becomes
  <2>3. NewFiles'
    BY <2>1, <1>t, <1>i, SMTT(30)
       DEF NewFiles, Arriving, Requests, Early, Sweeping, At, Becomes, Files
  <2>4. SweptIsExpired'
    BY <2>1, <1>t, <1>i
       DEF SweptIsExpired, NewFiles, Arriving, Early, Requests, Sweeping, At, Becomes
  <2>5. SavedIsStored' /\ LiveFilesStored'
    BY <2>1, <1>t, <1>i
       DEF SavedIsStored, LiveFilesStored, NewFiles, Arriving, Requests, SweptIsExpired, Early,
           Sweeping, At, Becomes
  <2>6. StoredIsRecorded'
    BY <2>1, <1>t, <1>i
       DEF StoredIsRecorded, SweptIsExpired, NewFiles, Requests, Early, Sweeping, At, Becomes
  <2> QED BY <2>2, <2>3, <2>4, <2>5, <2>6 DEF FilesInv
<1>5. ASSUME NEW h \in Handlers, SaveRecord(h) PROVE FilesInv'
  <2>1. /\ At(h, "save") /\ objects' = objects /\ sessions' = sessions
        /\ records' = [records EXCEPT ![handlers[h].file] = [state |-> "live", days |-> 0]]
        /\ started' = started /\ disturbed' = disturbed
        /\ Becomes(h, "readUsed", handlers[h].file, handlers[h].size, handlers[h].seen,
                   handlers[h].todo)
    BY <1>5, GotoBecomes DEF SaveRecord
  <2>2. Requests'
    BY <2>1, <1>i, RecordOf DEF Requests, Early, Uploading, Sweeping, Unadmitted, At, Becomes
  <2>3. NewFiles'
    <3>1. \A e \in Files : Arriving(e)' => Arriving(e) /\ e # handlers[h].file
      <4>1. ASSUME NEW g \in Handlers, Early(g)'
            PROVE  Early(g) /\ handlers'[g] = handlers[g] /\ handlers[g].file # handlers[h].file
        BY <2>1, <4>1, <1>i DEF NewFiles, Early, At, Becomes
      <4>2. handlers[h].file \in 0..started /\ handlers[h].file \notin sessions
        BY <2>1, <1>i, RecordOf DEF NewFiles, Early, At
      <4> QED BY <2>1, <4>1, <4>2, <1>t DEF Arriving
    <3>2. \A e \in Files : e \in sessions' => e <= started'
      BY <2>1, <1>t, <1>i DEF NewFiles, Requests, Early, At
    <3>3. ASSUME NEW g \in Handlers, Early(g)'
          PROVE  /\ handlers'[g].file <= started' /\ handlers'[g].file \notin sessions'
                 /\ \A k \in Handlers :
                      Early(k)' /\ handlers'[k].file = handlers'[g].file => k = g
      BY <2>1, <3>3, <1>t, <1>i DEF NewFiles, Requests, Early, At, Becomes
    <3>4. ASSUME NEW e \in Files, Arriving(e)'
          PROVE  /\ records'[e].state = "absent"
                 /\ \A g \in Handlers :
                      e \notin handlers'[g].todo /\ (At(g, "saveDeleted")' => handlers'[g].file # e)
      BY <2>1, <3>1, <3>4, <1>t, <1>i DEF NewFiles, Requests, Early, At, Becomes
    <3> QED BY <3>2, <3>3, <3>4 DEF NewFiles
  <2>4. SweptIsExpired'
    BY <2>1, <1>t, <1>i
       DEF SweptIsExpired, NewFiles, Arriving, Early, Requests, Sweeping, At, Becomes
  <2>5. SavedIsStored' /\ LiveFilesStored'
    BY <2>1, <1>t, <1>i
       DEF SavedIsStored, LiveFilesStored, NewFiles, Arriving, Requests, SweptIsExpired, Early,
           Sweeping, At, Becomes
  <2>6. StoredIsRecorded'
    BY <2>1, <1>t, <1>i
       DEF StoredIsRecorded, SweptIsExpired, NewFiles, Requests, Early, Sweeping, At, Becomes
  <2> QED BY <2>2, <2>3, <2>4, <2>5, <2>6 DEF FilesInv
<1>6. ASSUME NEW h \in Handlers, ReadUsed(h) PROVE FilesInv'
  <2>1. /\ At(h, "readUsed") /\ records' = records /\ objects' = objects
        /\ sessions' = sessions /\ started' = started /\ disturbed' = disturbed
        /\ Becomes(h, "writeUsed", handlers[h].file, handlers[h].size, quota.used, {})
    BY <1>6, RequestBecomes DEF ReadUsed
  <2>2. Requests'
    BY <2>1, <1>i, RecordOf DEF Requests, Early, Uploading, Sweeping, Unadmitted, At, Becomes
  <2>3. NewFiles'
    BY <2>1, <1>t, <1>i DEF NewFiles, Arriving, Requests, Early, Sweeping, At, Becomes, Files
  <2>4. SweptIsExpired'
    BY <2>1, <1>t, <1>i
       DEF SweptIsExpired, NewFiles, Arriving, Early, Requests, Sweeping, At, Becomes
  <2>5. SavedIsStored' /\ LiveFilesStored'
    BY <2>1, <1>t, <1>i
       DEF SavedIsStored, LiveFilesStored, NewFiles, Arriving, Requests, SweptIsExpired, Early,
           Sweeping, At, Becomes
  <2>6. StoredIsRecorded'
    BY <2>1, <1>t, <1>i
       DEF StoredIsRecorded, SweptIsExpired, NewFiles, Requests, Early, Sweeping, At, Becomes
  <2> QED BY <2>2, <2>3, <2>4, <2>5, <2>6 DEF FilesInv
<1>7. ASSUME NEW h \in Handlers, WriteUsed(h) PROVE FilesInv'
  <2>1. /\ At(h, "writeUsed") /\ records' = records /\ objects' = objects
        /\ sessions' = sessions /\ started' = started /\ disturbed' = disturbed
        /\ Becomes(h, "idle", 0, 0, 0, {})
    BY <1>7, FinishBecomes DEF WriteUsed
  <2>2. Requests'
    BY <2>1, <1>i, RecordOf DEF Requests, Early, Uploading, Sweeping, Unadmitted, At, Becomes
  <2>3. NewFiles'
    <3>1. \A e \in Files : Arriving(e)' => Arriving(e)
      BY <2>1, <1>t, <1>i DEF Arriving, NewFiles, Requests, Early, At, Becomes
    <3>2. \A e \in Files : e \in sessions' => e <= started'
      BY <2>1, <1>t, <1>i DEF NewFiles, Requests, Early, At
    <3>3. ASSUME NEW g \in Handlers, Early(g)'
          PROVE  /\ handlers'[g].file <= started' /\ handlers'[g].file \notin sessions'
                 /\ \A k \in Handlers :
                      Early(k)' /\ handlers'[k].file = handlers'[g].file => k = g
      BY <2>1, <3>3, <1>t, <1>i DEF NewFiles, Requests, Early, At, Becomes
    <3>4. ASSUME NEW e \in Files, Arriving(e)'
          PROVE  /\ records'[e].state = "absent"
                 /\ \A g \in Handlers :
                      e \notin handlers'[g].todo /\ (At(g, "saveDeleted")' => handlers'[g].file # e)
      BY <2>1, <3>1, <3>4, <1>t, <1>i DEF NewFiles, Requests, Early, At, Becomes
    <3> QED BY <3>2, <3>3, <3>4 DEF NewFiles
  <2>4. SweptIsExpired'
    BY <2>1, <1>t, <1>i
       DEF SweptIsExpired, NewFiles, Arriving, Early, Requests, Sweeping, At, Becomes
  <2>5. SavedIsStored' /\ LiveFilesStored'
    BY <2>1, <1>t, <1>i
       DEF SavedIsStored, LiveFilesStored, NewFiles, Arriving, Requests, SweptIsExpired, Early,
           Sweeping, At, Becomes
  <2>6. StoredIsRecorded'
    BY <2>1, <1>t, <1>i
       DEF StoredIsRecorded, SweptIsExpired, NewFiles, Requests, Early, Sweeping, At, Becomes
  <2> QED BY <2>2, <2>3, <2>4, <2>5, <2>6 DEF FilesInv
<1>8. ASSUME NEW h \in Handlers, SaveDeleted(h) PROVE FilesInv'
  <2>1. /\ At(h, "saveDeleted") /\ objects' = objects /\ sessions' = sessions
        /\ started' = started /\ disturbed' = disturbed
        /\ \E days \in 0..Expired :
             /\ records[handlers[h].file].state = "deleted" =>
                  days = records[handlers[h].file].days
             /\ records' = [records EXCEPT ![handlers[h].file] =
                              [state |-> "deleted", days |-> days]]
        /\ Becomes(h, "idle", 0, 0, 0, {})
    BY <1>8, FinishBecomes DEF SaveDeleted
  <2>2. Requests'
    BY <2>1, <1>i, RecordOf DEF Requests, Early, Uploading, Sweeping, Unadmitted, At, Becomes
  <2>3. NewFiles'
    <3>1. \A e \in Files : Arriving(e)' => Arriving(e)
      BY <2>1, <1>t, <1>i DEF Arriving, NewFiles, Requests, Early, At, Becomes
    <3>2. \A e \in Files : e \in sessions' => e <= started'
      BY <2>1, <1>t, <1>i DEF NewFiles, Requests, Early, At
    <3>3. ASSUME NEW g \in Handlers, Early(g)'
          PROVE  /\ handlers'[g].file <= started' /\ handlers'[g].file \notin sessions'
                 /\ \A k \in Handlers :
                      Early(k)' /\ handlers'[k].file = handlers'[g].file => k = g
      BY <2>1, <3>3, <1>t, <1>i DEF NewFiles, Requests, Early, At, Becomes
    <3>4. ASSUME NEW e \in Files, Arriving(e)'
          PROVE  /\ records'[e].state = "absent"
                 /\ \A g \in Handlers :
                      e \notin handlers'[g].todo /\ (At(g, "saveDeleted")' => handlers'[g].file # e)
      BY <2>1, <3>1, <3>4, <1>t, <1>i DEF NewFiles, Requests, Early, At, Becomes
    <3> QED BY <3>2, <3>3, <3>4 DEF NewFiles
  <2>4. SweptIsExpired'
    BY <2>1, <1>t, <1>i
       DEF SweptIsExpired, NewFiles, Arriving, Early, Requests, Sweeping, At, Becomes
  <2>5. SavedIsStored' /\ LiveFilesStored'
    BY <2>1, <1>t, <1>i
       DEF SavedIsStored, LiveFilesStored, NewFiles, Arriving, Requests, SweptIsExpired, Early,
           Sweeping, At, Becomes
  <2>6. StoredIsRecorded'
    BY <2>1, <1>t, <1>i
       DEF StoredIsRecorded, SweptIsExpired, NewFiles, Requests, Early, Sweeping, At, Becomes
  <2> QED BY <2>2, <2>3, <2>4, <2>5, <2>6 DEF FilesInv
<1>9. ASSUME NEW h \in Handlers, DeleteObjectFails(h) PROVE FilesInv'
  <2>1. /\ At(h, "deleteObject") /\ records' = records /\ objects' = objects
        /\ sessions' = sessions /\ started' = started /\ disturbed' = disturbed
        /\ SweepsWith(h, Others(h))
    BY <1>9, RecordOf, SweepOnBecomes DEF DeleteObjectFails, Others
  <2>2. Requests'
    BY <2>1, <1>i, RecordOf
       DEF Requests, Early, Uploading, Sweeping, Unadmitted, At, Becomes, SweepsWith, Others,
           ExpiredFiles
  <2>3. NewFiles'
    BY <2>1, <1>t, <1>i, SMTT(30)
       DEF NewFiles, Arriving, Requests, Early, Sweeping, At, Becomes, Files, SweepsWith, Others,
           ExpiredFiles
  <2>4. SweptIsExpired'
    BY <2>1, <1>t, <1>i
       DEF SweptIsExpired, NewFiles, Arriving, Early, Requests, Sweeping, At, Becomes, SweepsWith,
           Others, ExpiredFiles
  <2>5. SavedIsStored' /\ LiveFilesStored'
    BY <2>1, <1>t, <1>i
       DEF SavedIsStored, LiveFilesStored, NewFiles, Arriving, Requests, SweptIsExpired, Early,
           Sweeping, At, Becomes, SweepsWith, Others, ExpiredFiles
  <2>6. StoredIsRecorded'
    BY <2>1, <1>t, <1>i
       DEF StoredIsRecorded, SweptIsExpired, NewFiles, Requests, Early, Sweeping, At, Becomes,
           SweepsWith, Others, ExpiredFiles
  <2> QED BY <2>2, <2>3, <2>4, <2>5, <2>6 DEF FilesInv
<1>10. ASSUME NEW h \in Handlers, RemoveRecordFails(h) PROVE FilesInv'
  <2>1. /\ At(h, "removeRecord") /\ records' = records /\ objects' = objects
        /\ sessions' = sessions /\ started' = started /\ disturbed' = disturbed
        /\ SweepsWith(h, Others(h))
    BY <1>10, RecordOf, SweepOnBecomes DEF RemoveRecordFails, Others
  <2>2. Requests'
    BY <2>1, <1>i, RecordOf
       DEF Requests, Early, Uploading, Sweeping, Unadmitted, At, Becomes, SweepsWith, Others,
           ExpiredFiles
  <2>3. NewFiles'
    BY <2>1, <1>t, <1>i, SMTT(30)
       DEF NewFiles, Arriving, Requests, Early, Sweeping, At, Becomes, Files, SweepsWith, Others,
           ExpiredFiles
  <2>4. SweptIsExpired'
    BY <2>1, <1>t, <1>i
       DEF SweptIsExpired, NewFiles, Arriving, Early, Requests, Sweeping, At, Becomes, SweepsWith,
           Others, ExpiredFiles
  <2>5. SavedIsStored' /\ LiveFilesStored'
    BY <2>1, <1>t, <1>i
       DEF SavedIsStored, LiveFilesStored, NewFiles, Arriving, Requests, SweptIsExpired, Early,
           Sweeping, At, Becomes, SweepsWith, Others, ExpiredFiles
  <2>6. StoredIsRecorded'
    BY <2>1, <1>t, <1>i
       DEF StoredIsRecorded, SweptIsExpired, NewFiles, Requests, Early, Sweeping, At, Becomes,
           SweepsWith, Others, ExpiredFiles
  <2> QED BY <2>2, <2>3, <2>4, <2>5, <2>6 DEF FilesInv
<1>11. ASSUME NEW h \in Handlers, RequestFails(h) PROVE FilesInv'
  <2>1. /\ ~At(h, "idle") /\ ~Sweeping(h) /\ records' = records
        /\ sessions' = sessions /\ started' = started
        /\ \E left \in SUBSET LeftBehind(h) :
             /\ objects' = objects \union left
             /\ disturbed' = IF Unfinished(h) \/ left # {} THEN disturbed \union {"fault"}
                                                           ELSE disturbed
        /\ Becomes(h, "idle", 0, 0, 0, {})
    BY <1>11, FinishBecomes DEF RequestFails, FaultIf, Sweeping, At
  <2>2. Requests'
    BY <2>1, <1>i, RecordOf DEF Requests, Early, Uploading, Sweeping, Unadmitted, At, Becomes
  <2>3. NewFiles'
    <3>1. \A e \in Files : Arriving(e)' => Arriving(e)
      BY <2>1, <1>t, <1>i DEF Arriving, NewFiles, Requests, Early, At, Becomes
    <3>2. \A e \in Files : e \in sessions' => e <= started'
      BY <2>1, <1>t, <1>i DEF NewFiles, Requests, Early, At
    <3>3. ASSUME NEW g \in Handlers, Early(g)'
          PROVE  /\ handlers'[g].file <= started' /\ handlers'[g].file \notin sessions'
                 /\ \A k \in Handlers :
                      Early(k)' /\ handlers'[k].file = handlers'[g].file => k = g
      BY <2>1, <3>3, <1>t, <1>i DEF NewFiles, Requests, Early, At, Becomes
    <3>4. ASSUME NEW e \in Files, Arriving(e)'
          PROVE  /\ records'[e].state = "absent"
                 /\ \A g \in Handlers :
                      e \notin handlers'[g].todo /\ (At(g, "saveDeleted")' => handlers'[g].file # e)
      BY <2>1, <3>1, <3>4, <1>t, <1>i DEF NewFiles, Requests, Early, At, Becomes
    <3> QED BY <3>2, <3>3, <3>4 DEF NewFiles
  <2>4. SweptIsExpired'
    BY <2>1, <1>t, <1>i
       DEF SweptIsExpired, NewFiles, Arriving, Early, Requests, Sweeping, At, Becomes, LeftBehind,
           Unfinished
  <2>5. SavedIsStored' /\ LiveFilesStored'
    BY <2>1, <1>t, <1>i
       DEF SavedIsStored, LiveFilesStored, NewFiles, Arriving, Requests, SweptIsExpired, Early,
           Sweeping, At, Becomes, LeftBehind, Unfinished
  <2>6. StoredIsRecorded'
    BY <2>1, <1>t, <1>i
       DEF StoredIsRecorded, SweptIsExpired, NewFiles, Requests, Early, Sweeping, At, Becomes,
           LeftBehind, Unfinished
  <2> QED BY <2>2, <2>3, <2>4, <2>5, <2>6 DEF FilesInv
<1>12. ASSUME NEW h \in Handlers, NEW f \in Files, DeleteObject(h, f) PROVE FilesInv'
  <2>1. /\ At(h, "deleteObject") /\ records' = records /\ f = handlers[h].file
        /\ objects' = objects \ {f}
        /\ sessions' = sessions /\ started' = started /\ disturbed' = disturbed
        /\ Becomes(h, "removeRecord", f, handlers[h].size, handlers[h].seen, handlers[h].todo)
    BY <1>12, GotoBecomes DEF DeleteObject
  <2>2. Requests'
    BY <2>1, <1>i, RecordOf DEF Requests, Early, Uploading, Sweeping, Unadmitted, At, Becomes
  <2>3. NewFiles'
    <3>1. \A e \in Files : Arriving(e)' => Arriving(e)
      BY <2>1, <1>t, <1>i DEF Arriving, NewFiles, Requests, Early, At, Becomes
    <3>2. \A e \in Files : e \in sessions' => e <= started'
      BY <2>1, <1>t, <1>i DEF NewFiles, Requests, Early, At
    <3>3. ASSUME NEW g \in Handlers, Early(g)'
          PROVE  /\ handlers'[g].file <= started' /\ handlers'[g].file \notin sessions'
                 /\ \A k \in Handlers :
                      Early(k)' /\ handlers'[k].file = handlers'[g].file => k = g
      BY <2>1, <3>3, <1>t, <1>i DEF NewFiles, Requests, Early, At, Becomes
    <3>4. ASSUME NEW e \in Files, Arriving(e)'
          PROVE  /\ records'[e].state = "absent"
                 /\ \A g \in Handlers :
                      e \notin handlers'[g].todo /\ (At(g, "saveDeleted")' => handlers'[g].file # e)
      BY <2>1, <3>1, <3>4, <1>t, <1>i DEF NewFiles, Requests, Early, At, Becomes
    <3> QED BY <3>2, <3>3, <3>4 DEF NewFiles
  <2>4. SweptIsExpired'
    BY <2>1, <1>t, <1>i
       DEF SweptIsExpired, NewFiles, Arriving, Early, Requests, Sweeping, At, Becomes
  <2>5. SavedIsStored' /\ LiveFilesStored'
    BY <2>1, <1>t, <1>i
       DEF SavedIsStored, LiveFilesStored, NewFiles, Arriving, Requests, SweptIsExpired, Early,
           Sweeping, At, Becomes
  <2>6. StoredIsRecorded'
    BY <2>1, <1>t, <1>i
       DEF StoredIsRecorded, SweptIsExpired, NewFiles, Requests, Early, Sweeping, At, Becomes
  <2> QED BY <2>2, <2>3, <2>4, <2>5, <2>6 DEF FilesInv
<1>13. ASSUME NEW h \in Handlers, NEW f \in Files, RemoveRecord(h, f) PROVE FilesInv'
  <2>1. /\ At(h, "removeRecord") /\ objects' = objects /\ f = handlers[h].file
        /\ records' = [records EXCEPT ![f] = NoRecord]
        /\ sessions' = sessions /\ started' = started /\ disturbed' = disturbed
        /\ SweepsWith(h, Others(h))
    BY <1>13, RecordOf, SweepOnBecomes DEF RemoveRecord, Others
  <2>2. Requests'
    BY <2>1, <1>i, RecordOf
       DEF Requests, Early, Uploading, Sweeping, Unadmitted, At, Becomes, SweepsWith, Others,
           ExpiredFiles
  <2>3. NewFiles'
    <3>1. \A e \in Files : Arriving(e)' => Arriving(e)
      BY <2>1, <1>t, <1>i
         DEF Arriving, NewFiles, Requests, Early, At, Becomes, SweepsWith, Others, ExpiredFiles,
             NoRecord
    <3>2. \A e \in Files : e \in sessions' => e <= started'
      BY <2>1, <1>t, <1>i DEF NewFiles, Requests, Early, At
    <3>3. ASSUME NEW g \in Handlers, Early(g)'
          PROVE  /\ handlers'[g].file <= started' /\ handlers'[g].file \notin sessions'
                 /\ \A k \in Handlers :
                      Early(k)' /\ handlers'[k].file = handlers'[g].file => k = g
      BY <2>1, <3>3, <1>t, <1>i
         DEF NewFiles, Requests, Early, At, Becomes, SweepsWith, Others, ExpiredFiles, NoRecord
    <3>4. ASSUME NEW e \in Files, Arriving(e)'
          PROVE  /\ records'[e].state = "absent"
                 /\ \A g \in Handlers :
                      e \notin handlers'[g].todo /\ (At(g, "saveDeleted")' => handlers'[g].file # e)
      BY <2>1, <3>1, <3>4, <1>t, <1>i
         DEF NewFiles, Requests, Early, At, Becomes, SweepsWith, Others, ExpiredFiles, NoRecord
    <3> QED BY <3>2, <3>3, <3>4 DEF NewFiles
  <2>4. SweptIsExpired'
    BY <2>1, <1>t, <1>i
       DEF SweptIsExpired, NewFiles, Arriving, Early, Requests, Sweeping, At, Becomes, SweepsWith,
           Others, ExpiredFiles
  <2>5. SavedIsStored' /\ LiveFilesStored'
    <3>1. SavedIsStored'
      BY <2>1, <1>i DEF SavedIsStored, At, Becomes, SweepsWith
    <3>2. LiveFilesStored'
      BY <2>1, <1>t, <1>i DEF LiveFilesStored, NoRecord
    <3> QED BY <3>1, <3>2
  <2>6. StoredIsRecorded'
    BY <2>1, <1>t, <1>i
       DEF StoredIsRecorded, SweptIsExpired, NewFiles, Requests, Early, Sweeping, At, Becomes,
           SweepsWith, Others, ExpiredFiles
  <2> QED BY <2>2, <2>3, <2>4, <2>5, <2>6 DEF FilesInv
<1>14. ASSUME NEW h \in Handlers, NEW size \in Sizes, NEW chunked \in BOOLEAN,
             Upload(h, size, chunked) PROVE FilesInv'
  <2>1. /\ At(h, "idle") /\ records' = records /\ objects' = objects
        /\ sessions' = sessions /\ started' = started + 1 /\ started < NumFiles
        /\ disturbed' = disturbed
        /\ Becomes(h, "checkQuota", started + 1, size, 0, {})
    BY <1>14, RequestBecomes DEF Upload
  <2>2. Requests'
    <3>1. started + 1 \in Files
      BY <2>1, <1>t DEF Files
    <3> QED BY <2>1, <3>1, <1>i DEF Requests, Early, Uploading, Sweeping, Unadmitted, At, Becomes
  <2>3. NewFiles'
    <3>0. started + 1 \in Files /\ (started + 1) \notin sessions
      <4>1. started + 1 \in Files
        BY <2>1, <1>t DEF Files
      <4> QED BY <4>1, <1>t, <1>i DEF NewFiles
    <3>1. \A e \in Files : Arriving(e)' => Arriving(e)
      BY <2>1, <3>0, <1>t DEF Arriving, Early, At, Becomes, Files
    <3>2. \A e \in Files : e \in sessions' => e <= started'
      BY <2>1, <1>t, <1>i DEF NewFiles, Files
    <3>3. ASSUME NEW g \in Handlers, Early(g)'
          PROVE  /\ handlers'[g].file <= started' /\ handlers'[g].file \notin sessions'
                 /\ \A k \in Handlers :
                      Early(k)' /\ handlers'[k].file = handlers'[g].file => k = g
      BY <2>1, <3>0, <3>3, <1>t, <1>i, RecordOf DEF NewFiles, Early, At, Becomes
    <3>4. ASSUME NEW e \in Files, Arriving(e)'
          PROVE  /\ records'[e].state = "absent"
                 /\ \A g \in Handlers :
                      e \notin handlers'[g].todo /\ (At(g, "saveDeleted")' => handlers'[g].file # e)
      BY <2>1, <3>1, <3>4, <1>t, <1>i DEF NewFiles, Requests, Early, At, Becomes
    <3> QED BY <3>2, <3>3, <3>4 DEF NewFiles
  <2>4. SweptIsExpired'
    BY <2>1, <1>t, <1>i
       DEF SweptIsExpired, NewFiles, Arriving, Early, Requests, Sweeping, At, Becomes
  <2>5. SavedIsStored' /\ LiveFilesStored'
    BY <2>1, <1>t, <1>i
       DEF SavedIsStored, LiveFilesStored, NewFiles, Arriving, Requests, SweptIsExpired, Early,
           Sweeping, At, Becomes
  <2>6. StoredIsRecorded'
    BY <2>1, <1>t, <1>i
       DEF StoredIsRecorded, SweptIsExpired, NewFiles, Requests, Early, Sweeping, At, Becomes
  <2> QED BY <2>2, <2>3, <2>4, <2>5, <2>6 DEF FilesInv
<1>15. ASSUME NEW h \in Handlers, NEW f \in Files, NEW size \in StatedSizes,
             CompleteChunkedUpload(h, f, size) PROVE FilesInv'
  <2>1. /\ At(h, "idle") /\ records' = records /\ f \in sessions
        /\ objects' = objects \union {f} /\ sessions' = sessions \ {f}
        /\ started' = started /\ disturbed' = disturbed
        /\ Becomes(h, "save", f, size, 0, {})
    BY <1>15, RequestBecomes DEF CompleteChunkedUpload
  <2>2. Requests'
    BY <2>1, <1>i DEF Requests, Early, Uploading, Sweeping, Unadmitted, At, Becomes
  <2>3. NewFiles'
    <3>1. \A e \in Files : Arriving(e)' => Arriving(e)
      BY <2>1, <1>t, <1>i DEF Arriving, NewFiles, Requests, Early, At, Becomes
    <3>2. \A e \in Files : e \in sessions' => e <= started'
      BY <2>1, <1>t, <1>i DEF NewFiles, Requests, Early, At
    <3>3. ASSUME NEW g \in Handlers, Early(g)'
          PROVE  /\ handlers'[g].file <= started' /\ handlers'[g].file \notin sessions'
                 /\ \A k \in Handlers :
                      Early(k)' /\ handlers'[k].file = handlers'[g].file => k = g
      BY <2>1, <3>3, <1>t, <1>i DEF NewFiles, Requests, Early, At, Becomes
    <3>4. ASSUME NEW e \in Files, Arriving(e)'
          PROVE  /\ records'[e].state = "absent"
                 /\ \A g \in Handlers :
                      e \notin handlers'[g].todo /\ (At(g, "saveDeleted")' => handlers'[g].file # e)
      BY <2>1, <3>1, <3>4, <1>t, <1>i DEF NewFiles, Requests, Early, At, Becomes
    <3> QED BY <3>2, <3>3, <3>4 DEF NewFiles
  <2>4. SweptIsExpired'
    BY <2>1, <1>t, <1>i
       DEF SweptIsExpired, NewFiles, Arriving, Early, Requests, Sweeping, At, Becomes
  <2>5. SavedIsStored' /\ LiveFilesStored'
    BY <2>1, <1>t, <1>i
       DEF SavedIsStored, LiveFilesStored, NewFiles, Arriving, Requests, SweptIsExpired, Early,
           Sweeping, At, Becomes
  <2>6. StoredIsRecorded'
    BY <2>1, <1>t, <1>i
       DEF StoredIsRecorded, SweptIsExpired, NewFiles, Requests, Early, Sweeping, At, Becomes
  <2> QED BY <2>2, <2>3, <2>4, <2>5, <2>6 DEF FilesInv
<1>16. ASSUME NEW h \in Handlers, NEW f \in Files, DeleteFile(h, f) PROVE FilesInv'
  <2>1. /\ At(h, "idle") /\ records' = records /\ objects' = objects
        /\ records[f].state # "absent"
        /\ sessions' = sessions /\ started' = started /\ disturbed' = disturbed
        /\ Becomes(h, "saveDeleted", f, 0, 0, {})
    BY <1>16, RequestBecomes DEF DeleteFile
  <2>2. Requests'
    BY <2>1, <1>i, RecordOf DEF Requests, Early, Uploading, Sweeping, Unadmitted, At, Becomes
  <2>3. NewFiles'
    <3>1. \A e \in Files : Arriving(e)' => Arriving(e)
      BY <2>1, <1>t, <1>i DEF Arriving, NewFiles, Requests, Early, At, Becomes
    <3>2. \A e \in Files : e \in sessions' => e <= started'
      BY <2>1, <1>t, <1>i DEF NewFiles, Requests, Early, At
    <3>3. ASSUME NEW g \in Handlers, Early(g)'
          PROVE  /\ handlers'[g].file <= started' /\ handlers'[g].file \notin sessions'
                 /\ \A k \in Handlers :
                      Early(k)' /\ handlers'[k].file = handlers'[g].file => k = g
      BY <2>1, <3>3, <1>t, <1>i DEF NewFiles, Requests, Early, At, Becomes
    <3>4. ASSUME NEW e \in Files, Arriving(e)'
          PROVE  /\ records'[e].state = "absent"
                 /\ \A g \in Handlers :
                      e \notin handlers'[g].todo /\ (At(g, "saveDeleted")' => handlers'[g].file # e)
      BY <2>1, <3>1, <3>4, <1>t, <1>i DEF NewFiles, Requests, Early, At, Becomes
    <3> QED BY <3>2, <3>3, <3>4 DEF NewFiles
  <2>4. SweptIsExpired'
    BY <2>1, <1>t, <1>i
       DEF SweptIsExpired, NewFiles, Arriving, Early, Requests, Sweeping, At, Becomes
  <2>5. SavedIsStored' /\ LiveFilesStored'
    BY <2>1, <1>t, <1>i
       DEF SavedIsStored, LiveFilesStored, NewFiles, Arriving, Requests, SweptIsExpired, Early,
           Sweeping, At, Becomes
  <2>6. StoredIsRecorded'
    BY <2>1, <1>t, <1>i
       DEF StoredIsRecorded, SweptIsExpired, NewFiles, Requests, Early, Sweeping, At, Becomes
  <2> QED BY <2>2, <2>3, <2>4, <2>5, <2>6 DEF FilesInv
<1>17. ASSUME NEW h \in Handlers, CleanupDeletedFiles(h) PROVE FilesInv'
  <2>1. /\ At(h, "idle") /\ records' = records /\ objects' = objects
        /\ sessions' = sessions /\ started' = started /\ disturbed' = disturbed
        /\ SweepsWith(h, ExpiredFiles)
    BY <1>17, SweepOnBecomes DEF CleanupDeletedFiles, ExpiredFiles
  <2>2. Requests'
    BY <2>1, <1>i, RecordOf
       DEF Requests, Early, Uploading, Sweeping, Unadmitted, At, Becomes, SweepsWith, Others,
           ExpiredFiles
  <2>3. NewFiles'
    <3>1. \A e \in Files : Arriving(e)' => Arriving(e)
      BY <2>1, <1>t, <1>i
         DEF Arriving, NewFiles, Requests, Early, At, Becomes, SweepsWith, Others, ExpiredFiles
    <3>2. \A e \in Files : e \in sessions' => e <= started'
      BY <2>1, <1>t, <1>i DEF NewFiles, Requests, Early, At
    <3>3. ASSUME NEW g \in Handlers, Early(g)'
          PROVE  /\ handlers'[g].file <= started' /\ handlers'[g].file \notin sessions'
                 /\ \A k \in Handlers :
                      Early(k)' /\ handlers'[k].file = handlers'[g].file => k = g
      BY <2>1, <3>3, <1>t, <1>i
         DEF NewFiles, Requests, Early, At, Becomes, SweepsWith, Others, ExpiredFiles
    <3>4. ASSUME NEW e \in Files, Arriving(e)'
          PROVE  /\ records'[e].state = "absent"
                 /\ \A g \in Handlers :
                      e \notin handlers'[g].todo /\ (At(g, "saveDeleted")' => handlers'[g].file # e)
      BY <2>1, <3>1, <3>4, <1>t, <1>i
         DEF NewFiles, Requests, Early, At, Becomes, SweepsWith, Others, ExpiredFiles
    <3> QED BY <3>2, <3>3, <3>4 DEF NewFiles
  <2>4. SweptIsExpired'
    BY <2>1, <1>t, <1>i
       DEF SweptIsExpired, NewFiles, Arriving, Early, Requests, Sweeping, At, Becomes, SweepsWith,
           Others, ExpiredFiles
  <2>5. SavedIsStored' /\ LiveFilesStored'
    BY <2>1, <1>t, <1>i
       DEF SavedIsStored, LiveFilesStored, NewFiles, Arriving, Requests, SweptIsExpired, Early,
           Sweeping, At, Becomes, SweepsWith, Others, ExpiredFiles
  <2>6. StoredIsRecorded'
    BY <2>1, <1>t, <1>i
       DEF StoredIsRecorded, SweptIsExpired, NewFiles, Requests, Early, Sweeping, At, Becomes,
           SweepsWith, Others, ExpiredFiles
  <2> QED BY <2>2, <2>3, <2>4, <2>5, <2>6 DEF FilesInv
<1>18. CASE Restart
  BY <1>18, <1>t, <1>i
     DEF Restart, FaultIf, LeftBehind, Unfinished, Unadmitted, Idle, Requests, NewFiles, Arriving,
         SweptIsExpired, SavedIsStored, LiveFilesStored, StoredIsRecorded, FilesInv, Early,
         Uploading, Sweeping, At
<1>19. CASE Day
  BY <1>19, <1>t, <1>i
     DEF Day, Record, Expired, Unadmitted, Requests, NewFiles, Arriving, SweptIsExpired, SavedIsStored,
         LiveFilesStored, StoredIsRecorded, FilesInv, Early, Uploading, Sweeping, At
<1>20. CASE UNCHANGED vars
  BY <1>20, <1>i
     DEF vars, Unadmitted, Requests, NewFiles, Arriving, SweptIsExpired, SavedIsStored, LiveFilesStored,
         StoredIsRecorded, FilesInv, Early, Uploading, Sweeping, At
<1> QED BY <1>1, <1>2, <1>3, <1>4, <1>5, <1>6, <1>7, <1>8, <1>9, <1>10, <1>11, <1>12, <1>13,
           <1>14, <1>15, <1>16, <1>17, <1>18, <1>19, <1>20
           DEF Next, Proceed

LEMMA Initially == Init => TypeOK /\ FilesInv
<1> SUFFICES ASSUME Init PROVE TypeOK /\ FilesInv
  OBVIOUS
<1>1. TypeOK
  BY IdleTyped, FileStorageAssumption DEF Init, TypeOK, NoRecord, Record, Expired
<1>2. FilesInv
  BY FileStorageAssumption
    DEF Init, Idle, NoRecord, Unadmitted, FilesInv, Requests, NewFiles, Arriving, SweptIsExpired,
        SavedIsStored, LiveFilesStored, StoredIsRecorded, Early, Uploading, Sweeping, At, Files
<1> QED BY <1>1, <1>2

LEMMA FilesInvariant == Spec => [](TypeOK /\ FilesInv)
<1>1. TypeOK /\ FilesInv /\ [Next]_vars => (TypeOK /\ FilesInv)'
  BY TypeInductive, FilesInductive DEF FilesInv
<1> QED BY <1>1, Initially, PTL DEF Spec

\* Everything is of its type, in every reachable state; the types of objects rest
\* on what the requests hold.
THEOREM TypeCorrect == Spec => []TypeOK
BY FilesInvariant, PTL

\* ObjectsMatchRecords: files that are not deleted can be read, and no object is
\* left without a record but by an upload that broke off (uploadFile, deleteFile,
\* cleanupDeletedFiles).
THEOREM StorageMatchesTable == Spec => []ObjectsMatchRecords
<1>1. FilesInv => ObjectsMatchRecords
  BY DEF FilesInv, ObjectsMatchRecords
<1> QED BY <1>1, FilesInvariant, PTL

\* RetentionKept: no sweep deletes an object before its retention is over
\* (cleanupDeletedFiles).
THEOREM RetentionHolds == Spec => RetentionKept
<1>1. TypeOK /\ FilesInv /\ [Next]_vars =>
        [\A f \in objects \ objects' :
           records[f].state = "deleted" /\ records[f].days > RetentionDays]_vars
  <2> SUFFICES ASSUME TypeOK, FilesInv, Next, NEW e \in objects \ objects'
               PROVE  records[e].state = "deleted" /\ records[e].days > RetentionDays
    BY DEF vars
  <2>1. PICK h \in Handlers : At(h, "deleteObject") /\ e = handlers[h].file
    BY DEF Next, Proceed, CheckQuota, CreateQuota, StoreObject, InitializeChunkedUpload,
           SaveRecord, ReadUsed, WriteUsed, SaveDeleted, DeleteObjectFails, RemoveRecordFails,
           RequestFails, DeleteObject, RemoveRecord, Upload, CompleteChunkedUpload, DeleteFile,
           CleanupDeletedFiles, Restart, Day
  <2>2. e \in handlers[h].todo
    BY <2>1 DEF FilesInv, Requests, Sweeping, At
  <2> QED BY <2>2 DEF FilesInv, SweptIsExpired
<1> QED BY <1>1, FilesInvariant, PTL DEF Spec, RetentionKept

-----------------------------------------------------------------------------
(* The quota *)

\* Unless uploads overlap there is one of them, and what it read of the quota is
\* what the quota is.
OneUpload ==
  "overlap" \notin disturbed =>
    /\ \A g, h \in Handlers : Uploading(g) /\ Uploading(h) => g = h
    /\ \A e, f \in Files : e \in sessions /\ f \in sessions => e = f
    /\ \A h \in Handlers : Uploading(h) => sessions = {}
    /\ \A h \in Handlers : At(h, "writeUsed") => handlers[h].seen = quota.used

\* What is admitted waits in a session.
OpenAdmitted == \A f \in Files : f \notin sessions => admitted[f] = 0

\* An upload passes the quota when the quota has a row.
NoRow ==
  ~quota.exists =>
    /\ quota.used = 0
    /\ \A h \in Handlers : ~Uploading(h)
    /\ sessions = {}

Counting(h) == handlers[h].pc \in {"readUsed", "writeUsed"}
Uncounted == [h \in Handlers |-> IF Counting(h) THEN handlers[h].size ELSE 0]

\* The bytes that are recorded and not counted yet are missing in the quota, and
\* in what an update of it has read.
Counted ==
  /\ quota.used + SumFunction(Uncounted) <= recorded
  /\ \A h \in Handlers : At(h, "writeUsed") =>
       handlers[h].seen + SumFunction(Uncounted) <= recorded
  /\ disturbed = {} => quota.used + SumFunction(Uncounted) = recorded

QuotaInv == OneUpload /\ NoRow /\ QuotaHeld /\ Counted

LEMMA FilesFinite == IsFiniteSet(Files)
BY FileStorageAssumption, FS_Interval DEF Files

LEMMA AwaitedSums ==
  ASSUME TypeOK
  PROVE  /\ SumFunction(Awaited) \in Nat
         /\ (\A h \in Handlers : ~Uploading(h)) => SumFunction(Awaited) = 0
<1>1. \A h \in Handlers : Awaited[h] \in Nat
  BY RecordOf, FileStorageAssumption DEF Awaited
<1>2. SumFunction(Awaited) = SumFunctionOnSet(Awaited, Handlers)
  BY DEF SumFunction, Awaited
<1>3. SumFunctionOnSet(Awaited, Handlers) \in Nat
  BY <1>1, HandlersFinite, SumOfNaturals
<1>4. ASSUME \A h \in Handlers : ~Uploading(h) PROVE SumFunctionOnSet(Awaited, Handlers) = 0
  <2>1. \A h \in Handlers : Awaited[h] = 0
    BY <1>4 DEF Awaited
  <2> QED BY <2>1, HandlersFinite, SumOfZeros
<1> QED BY <1>2, <1>3, <1>4

\* What a step of one handler does to the sums.
LEMMA AwaitedChanges ==
  ASSUME TypeOK, TypeOK', NEW h \in Handlers,
         \A g \in Handlers \ {h} : handlers'[g] = handlers[g]
  PROVE  /\ SumFunction(Awaited)' = SumFunction(Awaited) - Awaited[h] + Awaited'[h]
         /\ Awaited[h] = IF Uploading(h) THEN handlers[h].size ELSE 0
         /\ Awaited'[h] = IF Uploading(h)' THEN handlers'[h].size ELSE 0
         /\ Awaited[h] \in Nat /\ Awaited'[h] \in Nat
<1> DEFINE after == [g \in Handlers |-> IF Uploading(g)' THEN handlers'[g].size ELSE 0]
<1>1. Awaited' = after
  BY DEF Awaited, Uploading
<1>2. \A g \in Handlers : Awaited[g] \in Nat /\ handlers'[g].size \in Nat
  BY RecordOf, FileStorageAssumption DEF Awaited, TypeOK, Handler
<1>3. \A g \in Handlers : after[g] \in Nat
  BY <1>2
<1>4. \A g \in Handlers \ {h} : after[g] = Awaited[g]
  BY DEF Awaited, Uploading
<1>5. DOMAIN Awaited = Handlers /\ DOMAIN after = Handlers
  BY DEF Awaited
<1> HIDE DEF after
<1>6. SumFunctionOnSet(after, Handlers)
        = SumFunctionOnSet(Awaited, Handlers) - Awaited[h] + after[h]
  BY <1>2, <1>3, <1>4, HandlersFinite, SumChanges
<1>7. /\ Awaited[h] = IF Uploading(h) THEN handlers[h].size ELSE 0
      /\ after[h] = IF Uploading(h)' THEN handlers'[h].size ELSE 0
  BY DEF Awaited, after
<1>8. SumFunction(Awaited)' = SumFunction(after)
  BY <1>1 DEF SumFunction
<1> QED BY <1>1, <1>2, <1>3, <1>5, <1>6, <1>7, <1>8 DEF SumFunction

LEMMA UncountedSums ==
  ASSUME TypeOK
  PROVE  /\ SumFunction(Uncounted) \in Nat
         /\ (\A h \in Handlers : ~Counting(h)) => SumFunction(Uncounted) = 0
<1>1. \A h \in Handlers : Uncounted[h] \in Nat
  BY RecordOf, FileStorageAssumption DEF Uncounted
<1>2. SumFunction(Uncounted) = SumFunctionOnSet(Uncounted, Handlers)
  BY DEF SumFunction, Uncounted
<1>3. SumFunctionOnSet(Uncounted, Handlers) \in Nat
  BY <1>1, HandlersFinite, SumOfNaturals
<1>4. ASSUME \A h \in Handlers : ~Counting(h) PROVE SumFunctionOnSet(Uncounted, Handlers) = 0
  <2>1. \A h \in Handlers : Uncounted[h] = 0
    BY <1>4 DEF Uncounted
  <2> QED BY <2>1, HandlersFinite, SumOfZeros
<1> QED BY <1>2, <1>3, <1>4

LEMMA UncountedChanges ==
  ASSUME TypeOK, TypeOK', NEW h \in Handlers,
         \A g \in Handlers \ {h} : handlers'[g] = handlers[g]
  PROVE  /\ SumFunction(Uncounted)' = SumFunction(Uncounted) - Uncounted[h] + Uncounted'[h]
         /\ Uncounted[h] = IF Counting(h) THEN handlers[h].size ELSE 0
         /\ Uncounted'[h] = IF Counting(h)' THEN handlers'[h].size ELSE 0
         /\ Uncounted[h] \in Nat /\ Uncounted'[h] \in Nat
<1> DEFINE after == [g \in Handlers |-> IF Counting(g)' THEN handlers'[g].size ELSE 0]
<1>1. Uncounted' = after
  BY DEF Uncounted, Counting
<1>2. \A g \in Handlers : Uncounted[g] \in Nat /\ handlers'[g].size \in Nat
  BY RecordOf, FileStorageAssumption DEF Uncounted, TypeOK, Handler
<1>3. \A g \in Handlers : after[g] \in Nat
  BY <1>2
<1>4. \A g \in Handlers \ {h} : after[g] = Uncounted[g]
  BY DEF Uncounted, Counting
<1>5. DOMAIN Uncounted = Handlers /\ DOMAIN after = Handlers
  BY DEF Uncounted
<1> HIDE DEF after
<1>6. SumFunctionOnSet(after, Handlers)
        = SumFunctionOnSet(Uncounted, Handlers) - Uncounted[h] + after[h]
  BY <1>2, <1>3, <1>4, HandlersFinite, SumChanges
<1>7. /\ Uncounted[h] = IF Counting(h) THEN handlers[h].size ELSE 0
      /\ after[h] = IF Counting(h)' THEN handlers'[h].size ELSE 0
  BY DEF Uncounted, after
<1>8. SumFunction(Uncounted)' = SumFunction(after)
  BY <1>1 DEF SumFunction
<1> QED BY <1>1, <1>2, <1>3, <1>5, <1>6, <1>7, <1>8 DEF SumFunction

LEMMA AdmittedSums ==
  ASSUME TypeOK
  PROVE  /\ SumFunction(admitted) \in Nat
         /\ (\A f \in Files : admitted[f] = 0) => SumFunction(admitted) = 0
<1>1. (\A f \in Files : admitted[f] \in Nat) /\ DOMAIN admitted = Files
  BY FileStorageAssumption DEF TypeOK
<1>2. SumFunctionOnSet(admitted, Files) \in Nat
  BY <1>1, FilesFinite, SumOfNaturals
<1>3. (\A f \in Files : admitted[f] = 0) => SumFunctionOnSet(admitted, Files) = 0
  BY FilesFinite, SumOfZeros
<1> QED BY <1>1, <1>2, <1>3 DEF SumFunction

LEMMA AdmittedChanges ==
  ASSUME TypeOK, NEW f \in Files, NEW size \in Nat, admitted' = [admitted EXCEPT ![f] = size]
  PROVE  SumFunction(admitted)' = SumFunction(admitted) - admitted[f] + size
<1> DEFINE after == [admitted EXCEPT ![f] = size]
<1>1. (\A e \in Files : admitted[e] \in Nat) /\ DOMAIN admitted = Files
  BY FileStorageAssumption DEF TypeOK
<1>2. /\ DOMAIN after = Files /\ \A e \in Files \ {f} : after[e] = admitted[e]
      /\ after[f] = size /\ \A e \in Files : after[e] \in Nat
  BY <1>1 DEF TypeOK
<1>3. SumFunction(admitted)' = SumFunction(after)
  BY DEF SumFunction
<1> HIDE DEF after
<1>4. SumFunctionOnSet(after, Files) = SumFunctionOnSet(admitted, Files) - admitted[f] + after[f]
  BY <1>1, <1>2, FilesFinite, SumChanges
<1> QED BY <1>1, <1>2, <1>3, <1>4 DEF SumFunction

LEMMA AdmittedInductive ==
  TypeOK /\ Requests /\ OpenAdmitted /\ [Next]_vars => OpenAdmitted'
<1> SUFFICES ASSUME TypeOK, Requests, OpenAdmitted, [Next]_vars PROVE OpenAdmitted'
  OBVIOUS
<1>1. ASSUME NEW h \in Handlers, InitializeChunkedUpload(h) PROVE OpenAdmitted'
  BY <1>1 DEF InitializeChunkedUpload, OpenAdmitted, TypeOK, Requests, Early, At
<1>2. ASSUME NEW h \in Handlers, NEW f \in Files, NEW size \in StatedSizes,
             CompleteChunkedUpload(h, f, size) PROVE OpenAdmitted'
  BY <1>2 DEF CompleteChunkedUpload, OpenAdmitted, TypeOK
<1>3. CASE Restart
  BY <1>3 DEF Restart, OpenAdmitted
<1>4. CASE UNCHANGED <<sessions, admitted>>
  BY <1>4 DEF OpenAdmitted
<1> QED BY <1>1, <1>2, <1>3, <1>4
        DEF Next, Proceed, vars, CheckQuota, CreateQuota, StoreObject, SaveRecord, ReadUsed,
            WriteUsed, SaveDeleted, DeleteObjectFails, RemoveRecordFails, RequestFails,
            DeleteObject, RemoveRecord, Upload, DeleteFile, CleanupDeletedFiles, Day

\* A step outside of the uploads that passed the quota.
LEMMA QuietStep ==
  ASSUME TypeOK, TypeOK', QuotaInv, NEW h \in Handlers, ~Uploading(h), ~Uploading(h)',
         \A g \in Handlers \ {h} : handlers'[g] = handlers[g],
         quota'.used = quota.used, quota.exists => quota'.exists,
         UNCHANGED <<sessions, admitted, excess>>, recorded' = recorded, disturbed' = disturbed
  PROVE  QuotaInv'
<1>1. ~Counting(h) /\ ~Counting(h)' /\ ~At(h, "writeUsed") /\ ~At(h, "writeUsed")'
  BY DEF Counting, Uploading, At
<1>2. OneUpload'
  BY <1>1 DEF QuotaInv, OneUpload, Uploading, At
<1>3. NoRow'
  BY DEF QuotaInv, NoRow, Uploading
<1>4. SumFunction(Awaited)' = SumFunction(Awaited)
  BY AwaitedChanges, AwaitedSums
<1>5. SumFunction(Uncounted)' = SumFunction(Uncounted)
  BY <1>1, UncountedChanges, UncountedSums
<1>6. QuotaHeld'
  BY <1>4 DEF QuotaInv, QuotaHeld, SumFunction
<1>7. Counted'
  BY <1>1, <1>5 DEF QuotaInv, Counted, At
<1> QED BY <1>2, <1>3, <1>6, <1>7 DEF QuotaInv

\* An upload passes the quota.
LEMMA Admission ==
  ASSUME TypeOK, TypeOK', OpenAdmitted, QuotaInv, NEW h \in Handlers, ~Uploading(h),
         NEW pc \in {"store", "initialize"},
         Becomes(h, pc, handlers[h].file, handlers[h].size, handlers[h].seen, handlers[h].todo),
         Fits(quota.used, handlers[h].size),
         disturbed' = (IF Underway THEN disturbed \union {"overlap"} ELSE disturbed),
         quota'.used = quota.used, quota'.exists,
         UNCHANGED <<sessions, admitted, excess>>, recorded' = recorded
  PROVE  QuotaInv'
<1>1. /\ ~Counting(h) /\ ~Counting(h)' /\ ~At(h, "writeUsed") /\ ~At(h, "writeUsed")'
      /\ Uploading(h)' /\ \A g \in Handlers \ {h} : handlers'[g] = handlers[g]
  BY DEF Counting, Uploading, At, Becomes
<1>2. "overlap" \notin disturbed' =>
        /\ disturbed' = disturbed /\ (\A g \in Handlers : ~Uploading(g))
        /\ sessions = {}
  BY DEF Underway, TypeOK
<1>3. OneUpload'
  BY <1>1, <1>2 DEF OneUpload, Uploading, At
<1>4. NoRow'
  BY DEF NoRow
<1>5. SumFunction(Awaited)' = SumFunction(Awaited) + handlers[h].size
  BY <1>1, AwaitedChanges, AwaitedSums DEF Becomes
<1>6. SumFunction(Uncounted)' = SumFunction(Uncounted)
  BY <1>1, UncountedChanges, UncountedSums
<1>7. QuotaHeld'
  <2> SUFFICES ASSUME "overlap" \notin disturbed'
               PROVE  quota'.used + SumFunction(Awaited)' + SumFunction(admitted)'
                         <= MaxBytes + excess'
    BY DEF QuotaHeld
  <2>1. SumFunction(Awaited) = 0 /\ SumFunction(admitted) = 0
    BY <1>2, AwaitedSums, AdmittedSums DEF OpenAdmitted
  <2>2. SumFunction(admitted)' = SumFunction(admitted)
    BY DEF SumFunction
  <2>3. quota.used + handlers[h].size <= MaxBytes
    BY DEF Fits
  <2>4. quota.used \in Nat /\ handlers[h].size \in Nat /\ excess \in Nat
    BY RecordOf, FileStorageAssumption DEF TypeOK
  <2> QED BY <1>5, <2>1, <2>2, <2>3, <2>4, FileStorageAssumption
<1>8. Counted'
  <2>1. disturbed' = {} => disturbed = {}
    BY <1>2
  <2> QED BY <1>1, <1>6, <2>1 DEF QuotaInv, Counted, At
<1> QED BY <1>3, <1>4, <1>7, <1>8 DEF QuotaInv

LEMMA QuotaInductive ==
  TypeOK /\ TypeOK' /\ FilesInv /\ OpenAdmitted /\ QuotaInv /\ [Next]_vars => QuotaInv'
<1> SUFFICES ASSUME TypeOK, TypeOK', FilesInv, OpenAdmitted, QuotaInv, [Next]_vars
             PROVE  QuotaInv'
  OBVIOUS
<1> USE FileStorageAssumption
<1>t. /\ quota \in [exists: BOOLEAN, used: Nat] /\ quota.used \in Nat
      /\ sessions \subseteq Files /\ recorded \in Nat /\ excess \in Nat
      /\ handlers' \in [Handlers -> Handler]
  BY DEF TypeOK
<1>i. Requests /\ OneUpload /\ NoRow /\ QuotaHeld /\ Counted
  BY DEF FilesInv, QuotaInv
<1>1. ASSUME NEW h \in Handlers, CheckQuota(h) PROVE QuotaInv'
  <2>1. CASE quota.exists /\ Admit(h, quota.used)
    <3>1. /\ ~Uploading(h) /\ quota' = quota
          /\ UNCHANGED <<sessions, admitted, excess>> /\ recorded' = recorded
      BY <1>1 DEF CheckQuota, Uploading, At
    <3>2. CASE Becomes(h, "idle", 0, 0, 0, {}) /\ UNCHANGED disturbed
      BY <3>1, <3>2, QuietStep DEF Becomes, Uploading
    <3> QED BY <2>1, <3>1, <3>2, AdmitBecomes, Admission
  <2>2. CASE Goto(h, "createQuota") /\ UNCHANGED disturbed
    BY <1>1, <2>2, GotoBecomes, QuietStep DEF CheckQuota, Becomes, Uploading, At
  <2> QED BY <1>1, <2>1, <2>2 DEF CheckQuota
<1>2. ASSUME NEW h \in Handlers, CreateQuota(h) PROVE QuotaInv'
  <2>1. /\ ~Uploading(h) /\ quota'.used = quota.used /\ quota'.exists
        /\ UNCHANGED <<sessions, admitted, excess>> /\ recorded' = recorded
    BY <1>2, <1>t DEF CreateQuota, Uploading, At
  <2>2. CASE Becomes(h, "idle", 0, 0, 0, {}) /\ UNCHANGED disturbed
    BY <2>1, <2>2, QuietStep DEF Becomes, Uploading
  <2>3. CASE ~quota.exists /\ Admit(h, 0)
    <3>1. quota.used = 0
      BY <2>3, <1>i DEF NoRow
    <3> QED BY <2>1, <2>2, <2>3, <3>1, AdmitBecomes, Admission
  <2> QED BY <1>2, <2>2, <2>3, FinishBecomes DEF CreateQuota
<1>3. ASSUME NEW h \in Handlers, StoreObject(h) PROVE QuotaInv'
  <2>1. /\ At(h, "store") /\ quota' = quota
        /\ UNCHANGED <<sessions, admitted, excess>> /\ recorded' = recorded
        /\ disturbed' = disturbed
        /\ \E size \in 1..handlers[h].size : Becomes(h, "save", handlers[h].file, size, 0, {})
    BY <1>3, RequestBecomes DEF StoreObject, OptimizedSizes
  <2>2. \A g \in Handlers \ {h} : handlers'[g] = handlers[g]
    BY <2>1 DEF Becomes
  <2>3. OneUpload'
    BY <2>1, <1>t, <1>i DEF OneUpload, Uploading, At, Becomes
  <2>4. NoRow'
    BY <2>1, <1>t, <1>i DEF NoRow, Uploading, At, Becomes
  <2>5. QuotaHeld'
    <3>1. SumFunction(Awaited)' <= SumFunction(Awaited)
      BY <2>1, <2>2, AwaitedChanges, AwaitedSums, RecordOf DEF Uploading, At, Becomes
    <3>2. SumFunction(admitted)' = SumFunction(admitted)
      BY <2>1 DEF SumFunction
    <3>3. SumFunction(Awaited)' \in Int
      BY <2>2, AwaitedChanges, AwaitedSums
    <3> QED BY <2>1, <3>1, <3>2, <3>3, <1>t, <1>i, AwaitedSums, AdmittedSums DEF QuotaHeld
  <2>6. Counted'
    <3>1. SumFunction(Uncounted)' = SumFunction(Uncounted)
      BY <2>1, <2>2, UncountedChanges, UncountedSums DEF Counting, At, Becomes
    <3> QED BY <2>1, <2>2, <3>1, <1>i DEF Counted, At, Becomes
  <2> QED BY <2>3, <2>4, <2>5, <2>6 DEF QuotaInv
<1>4. ASSUME NEW h \in Handlers, InitializeChunkedUpload(h) PROVE QuotaInv'
  <2>1. /\ At(h, "initialize") /\ quota' = quota /\ recorded' = recorded
        /\ sessions' = sessions \union {handlers[h].file} /\ excess' = excess
        /\ admitted' = [admitted EXCEPT ![handlers[h].file] = handlers[h].size]
        /\ disturbed' = disturbed /\ handlers[h].file \in Files
        /\ handlers[h].size \in Nat /\ Becomes(h, "idle", 0, 0, 0, {})
    BY <1>4, <1>i, FinishBecomes, RecordOf DEF InitializeChunkedUpload, Requests, Early, At
  <2>2. \A g \in Handlers \ {h} : handlers'[g] = handlers[g]
    BY <2>1 DEF Becomes
  <2>3. OneUpload'
    BY <2>1, <1>t, <1>i DEF OneUpload, Uploading, At, Becomes
  <2>4. NoRow'
    BY <2>1, <1>t, <1>i DEF NoRow, Uploading, At, Becomes
  <2>5. QuotaHeld'
    <3>1. SumFunction(Awaited)' = SumFunction(Awaited) - handlers[h].size
      BY <2>1, <2>2, AwaitedChanges, AwaitedSums DEF Uploading, At, Becomes
    <3>2. SumFunction(admitted)'
            = SumFunction(admitted) - admitted[handlers[h].file] + handlers[h].size
      BY <2>1, AdmittedChanges
    <3>3. admitted[handlers[h].file] \in Nat
      BY <2>1, <1>t DEF TypeOK
    <3> QED BY <2>1, <3>1, <3>2, <3>3, <1>t, <1>i, AwaitedSums, AdmittedSums DEF QuotaHeld
  <2>6. Counted'
    <3>1. SumFunction(Uncounted)' = SumFunction(Uncounted)
      BY <2>1, <2>2, UncountedChanges, UncountedSums DEF Counting, At, Becomes
    <3> QED BY <2>1, <2>2, <3>1, <1>i DEF Counted, At, Becomes
  <2> QED BY <2>3, <2>4, <2>5, <2>6 DEF QuotaInv
<1>5. ASSUME NEW h \in Handlers, SaveRecord(h) PROVE QuotaInv'
  <2>1. /\ At(h, "save") /\ quota' = quota
        /\ UNCHANGED <<sessions, admitted, excess>> /\ disturbed' = disturbed
        /\ recorded' = recorded + handlers[h].size /\ handlers[h].size \in Nat
        /\ Becomes(h, "readUsed", handlers[h].file, handlers[h].size, handlers[h].seen,
                   handlers[h].todo)
    BY <1>5, GotoBecomes, RecordOf DEF SaveRecord
  <2>2. \A g \in Handlers \ {h} : handlers'[g] = handlers[g]
    BY <2>1 DEF Becomes
  <2>3. OneUpload'
    BY <2>1, <1>t, <1>i DEF OneUpload, Uploading, At, Becomes
  <2>4. NoRow'
    BY <2>1, <1>t, <1>i DEF NoRow, Uploading, At, Becomes
  <2>5. QuotaHeld'
    <3>1. SumFunction(Awaited)' = SumFunction(Awaited)
      BY <2>1, <2>2, AwaitedChanges, AwaitedSums DEF Uploading, At, Becomes
    <3> QED BY <2>1, <3>1, <1>i DEF QuotaHeld, SumFunction
  <2>6. Counted'
    <3>1. SumFunction(Uncounted)' = SumFunction(Uncounted) + handlers[h].size
      BY <2>1, <2>2, UncountedChanges, UncountedSums DEF Counting, At, Becomes
    <3>2. \A g \in Handlers : handlers[g].seen \in Nat
      BY RecordOf
    <3> QED BY <2>1, <2>2, <3>1, <3>2, <1>t, <1>i, UncountedSums DEF Counted, At, Becomes
  <2> QED BY <2>3, <2>4, <2>5, <2>6 DEF QuotaInv
<1>6. ASSUME NEW h \in Handlers, ReadUsed(h) PROVE QuotaInv'
  <2>1. /\ At(h, "readUsed") /\ quota' = quota
        /\ UNCHANGED <<sessions, admitted, excess>> /\ disturbed' = disturbed
        /\ recorded' = recorded
        /\ Becomes(h, "writeUsed", handlers[h].file, handlers[h].size, quota.used, {})
    BY <1>6, RequestBecomes DEF ReadUsed
  <2>2. \A g \in Handlers \ {h} : handlers'[g] = handlers[g]
    BY <2>1 DEF Becomes
  <2>3. OneUpload'
    BY <2>1, <1>t, <1>i DEF OneUpload, Uploading, At, Becomes
  <2>4. NoRow'
    BY <2>1, <1>t, <1>i DEF NoRow, Uploading, At, Becomes
  <2>5. QuotaHeld'
    <3>1. SumFunction(Awaited)' = SumFunction(Awaited)
      BY <2>1, <2>2, AwaitedChanges, AwaitedSums DEF Uploading, At, Becomes
    <3> QED BY <2>1, <3>1, <1>i DEF QuotaHeld, SumFunction
  <2>6. Counted'
    <3>1. SumFunction(Uncounted)' = SumFunction(Uncounted)
      BY <2>1, <2>2, UncountedChanges, UncountedSums DEF Counting, At, Becomes
    <3> QED BY <2>1, <2>2, <3>1, <1>i DEF Counted, At, Becomes
  <2> QED BY <2>3, <2>4, <2>5, <2>6 DEF QuotaInv
<1>7. ASSUME NEW h \in Handlers, WriteUsed(h) PROVE QuotaInv'
  <2>1. /\ At(h, "writeUsed") /\ quota'.used = handlers[h].seen + handlers[h].size
        /\ quota'.exists = quota.exists /\ UNCHANGED <<sessions, admitted, excess>>
        /\ disturbed' = disturbed
        /\ recorded' = recorded /\ handlers[h].size \in Nat /\ handlers[h].seen \in Nat
        /\ Becomes(h, "idle", 0, 0, 0, {})
    BY <1>7, <1>t, FinishBecomes, RecordOf DEF WriteUsed
  <2>2. \A g \in Handlers \ {h} : handlers'[g] = handlers[g]
    BY <2>1 DEF Becomes
  <2>3. OneUpload'
    BY <2>1, <1>t, <1>i DEF OneUpload, Uploading, At, Becomes
  <2>4. NoRow'
    BY <2>1, <1>t, <1>i DEF NoRow, OneUpload, Uploading, At, Becomes
  <2>5. QuotaHeld'
    <3>1. SumFunction(Awaited)' = SumFunction(Awaited) - handlers[h].size
      BY <2>1, <2>2, AwaitedChanges, AwaitedSums DEF Uploading, At, Becomes
    <3>2. SumFunction(admitted)' = SumFunction(admitted)
      BY <2>1 DEF SumFunction
    <3>3. "overlap" \notin disturbed => handlers[h].seen = quota.used
      BY <2>1, <1>i DEF OneUpload
    <3> QED BY <2>1, <3>1, <3>2, <3>3, <1>t, <1>i, AwaitedSums, AdmittedSums DEF QuotaHeld
  <2>6. Counted'
    <3>1. SumFunction(Uncounted)' = SumFunction(Uncounted) - handlers[h].size
      BY <2>1, <2>2, UncountedChanges, UncountedSums DEF Counting, At, Becomes
    <3>2. \A g \in Handlers : handlers[g].seen \in Nat
      BY RecordOf
    <3>3. disturbed = {} => handlers[h].seen = quota.used
      BY <2>1, <1>i DEF OneUpload
    <3>4. handlers[h].seen + SumFunction(Uncounted) <= recorded
      BY <2>1, <1>i DEF Counted
    <3>5. /\ quota'.used + SumFunction(Uncounted)' <= recorded'
          /\ disturbed' = {} => quota'.used + SumFunction(Uncounted)' = recorded'
      BY <2>1, <3>1, <3>3, <3>4, <1>t, <1>i, UncountedSums DEF Counted
    <3>6. ASSUME NEW g \in Handlers, At(g, "writeUsed")'
          PROVE  handlers'[g].seen + SumFunction(Uncounted)' <= recorded'
      <4>1. g # h /\ handlers'[g] = handlers[g] /\ At(g, "writeUsed")
        BY <2>1, <2>2, <3>6 DEF At, Becomes
      <4>2. handlers[g].seen + SumFunction(Uncounted) <= recorded
        BY <4>1, <1>i DEF Counted
      <4> QED BY <2>1, <3>1, <3>2, <4>1, <4>2, <1>t, UncountedSums
    <3> QED BY <3>5, <3>6 DEF Counted
  <2> QED BY <2>3, <2>4, <2>5, <2>6 DEF QuotaInv
<1>8. ASSUME NEW h \in Handlers, RequestFails(h) PROVE QuotaInv'
  <2>1. /\ quota' = quota
        /\ UNCHANGED <<sessions, admitted, excess>> /\ recorded' = recorded
        /\ disturbed \subseteq disturbed' /\ disturbed' \subseteq disturbed \union {"fault"}
        /\ Counting(h) => "fault" \in disturbed'
        /\ Becomes(h, "idle", 0, 0, 0, {})
    BY <1>8, FinishBecomes DEF RequestFails, FaultIf, Unfinished, Counting
  <2>2. \A g \in Handlers \ {h} : handlers'[g] = handlers[g]
    BY <2>1 DEF Becomes
  <2>3. OneUpload'
    BY <2>1, <1>t, <1>i DEF OneUpload, Uploading, At, Becomes
  <2>4. NoRow'
    BY <2>1, <1>t, <1>i DEF NoRow, Uploading, At, Becomes
  <2>5. QuotaHeld'
    <3>1. SumFunction(Awaited)' <= SumFunction(Awaited) /\ SumFunction(Awaited)' \in Int
      BY <2>1, <2>2, AwaitedChanges, AwaitedSums DEF Uploading, At, Becomes
    <3>2. SumFunction(admitted)' = SumFunction(admitted)
      BY <2>1 DEF SumFunction
    <3> QED BY <2>1, <3>1, <3>2, <1>t, <1>i, AwaitedSums, AdmittedSums DEF QuotaHeld
  <2>6. Counted'
    <3>1. /\ SumFunction(Uncounted)' <= SumFunction(Uncounted) /\ SumFunction(Uncounted)' \in Int
          /\ ~Counting(h) => SumFunction(Uncounted)' = SumFunction(Uncounted)
      BY <2>1, <2>2, UncountedChanges, UncountedSums DEF Counting, At, Becomes
    <3>2. \A g \in Handlers : handlers[g].seen \in Nat
      BY RecordOf
    <3>3. /\ quota'.used + SumFunction(Uncounted)' <= recorded'
          /\ disturbed' = {} => quota'.used + SumFunction(Uncounted)' = recorded'
      BY <2>1, <3>1, <1>t, <1>i, UncountedSums DEF Counted
    <3>4. ASSUME NEW g \in Handlers, At(g, "writeUsed")'
          PROVE  handlers'[g].seen + SumFunction(Uncounted)' <= recorded'
      <4>1. g # h /\ handlers'[g] = handlers[g] /\ At(g, "writeUsed")
        BY <2>1, <2>2, <3>4 DEF At, Becomes
      <4>2. handlers[g].seen + SumFunction(Uncounted) <= recorded
        BY <4>1, <1>i DEF Counted
      <4> QED BY <2>1, <3>1, <3>2, <4>1, <4>2, <1>t, UncountedSums
    <3> QED BY <3>3, <3>4 DEF Counted
  <2> QED BY <2>3, <2>4, <2>5, <2>6 DEF QuotaInv
<1>9. ASSUME NEW h \in Handlers, NEW f \in Files, NEW size \in StatedSizes,
             CompleteChunkedUpload(h, f, size) PROVE QuotaInv'
  <2>1. /\ At(h, "idle") /\ f \in sessions /\ quota' = quota /\ recorded' = recorded
        /\ sessions' = sessions \ {f} /\ admitted' = [admitted EXCEPT ![f] = 0]
        /\ excess' = excess + Surplus(size, admitted[f]) /\ disturbed' = disturbed
        /\ Becomes(h, "save", f, size, 0, {})
    BY <1>9, RequestBecomes DEF CompleteChunkedUpload
  <2>2. \A g \in Handlers \ {h} : handlers'[g] = handlers[g]
    BY <2>1 DEF Becomes
  <2>3. OneUpload'
    BY <2>1, <1>t, <1>i DEF OneUpload, Uploading, At, Becomes
  <2>4. NoRow'
    BY <2>1, <1>t, <1>i DEF NoRow, Uploading, At, Becomes
  <2>5. QuotaHeld'
    <3>1. SumFunction(Awaited)' = SumFunction(Awaited) + size
      BY <2>1, <2>2, SurplusIs, AwaitedChanges, AwaitedSums DEF Uploading, At, Becomes
    <3>2. SumFunction(admitted)' = SumFunction(admitted) - admitted[f] + 0
      BY <2>1, AdmittedChanges
    <3> QED BY <2>1, <3>1, <3>2, <1>t, <1>i, SurplusIs, AwaitedSums, AdmittedSums DEF QuotaHeld
  <2>6. Counted'
    <3>1. SumFunction(Uncounted)' = SumFunction(Uncounted)
      BY <2>1, <2>2, UncountedChanges, UncountedSums DEF Counting, At, Becomes
    <3> QED BY <2>1, <2>2, <3>1, <1>i DEF Counted, At, Becomes
  <2> QED BY <2>3, <2>4, <2>5, <2>6 DEF QuotaInv
<1>10. ASSUME NEW h \in Handlers, SaveDeleted(h) PROVE QuotaInv'
  BY <1>10, FinishBecomes, QuietStep DEF SaveDeleted, Becomes, Uploading, At
<1>11. ASSUME NEW h \in Handlers, NEW size \in Sizes, NEW chunked \in BOOLEAN,
             Upload(h, size, chunked) PROVE QuotaInv'
  BY <1>11, RequestBecomes, QuietStep, ZenonT(30) DEF Upload, Becomes, Uploading, At
<1>12. ASSUME NEW h \in Handlers, NEW f \in Files, DeleteObject(h, f) PROVE QuotaInv'
  BY <1>12, GotoBecomes, QuietStep DEF DeleteObject, Becomes, Uploading, At
<1>13. ASSUME NEW h \in Handlers, DeleteObjectFails(h) PROVE QuotaInv'
  <2>1. SweepsWith(h, Others(h))
    BY <1>13, RecordOf, SweepOnBecomes DEF DeleteObjectFails, Others
  <2> QED BY <1>13, <2>1, QuietStep DEF DeleteObjectFails, SweepsWith, Becomes, Uploading, At
<1>14. ASSUME NEW h \in Handlers, RemoveRecordFails(h) PROVE QuotaInv'
  <2>1. SweepsWith(h, Others(h))
    BY <1>14, RecordOf, SweepOnBecomes DEF RemoveRecordFails, Others
  <2> QED BY <1>14, <2>1, QuietStep DEF RemoveRecordFails, SweepsWith, Becomes, Uploading, At
<1>15. ASSUME NEW h \in Handlers, CleanupDeletedFiles(h) PROVE QuotaInv'
  <2>1. SweepsWith(h, ExpiredFiles)
    BY <1>15, RecordOf, SweepOnBecomes DEF CleanupDeletedFiles, ExpiredFiles
  <2> QED BY <1>15, <2>1, QuietStep DEF CleanupDeletedFiles, SweepsWith, Becomes, Uploading, At
<1>16. ASSUME NEW h \in Handlers, NEW f \in Files, RemoveRecord(h, f) PROVE QuotaInv'
  <2>1. SweepsWith(h, Others(h))
    BY <1>16, RecordOf, SweepOnBecomes DEF RemoveRecord, Others
  <2> QED BY <1>16, <2>1, QuietStep DEF RemoveRecord, SweepsWith, Becomes, Uploading, At
<1>17. ASSUME NEW h \in Handlers, NEW f \in Files, DeleteFile(h, f) PROVE QuotaInv'
  <2>1. Becomes(h, "saveDeleted", f, 0, 0, {})
    BY <1>17, RequestBecomes DEF DeleteFile
  <2> QED BY <1>17, <2>1, QuietStep DEF DeleteFile, Becomes, Uploading, At
<1>18. CASE Restart
  <2>1. /\ quota' = quota /\ recorded' = recorded /\ disturbed \subseteq disturbed'
        /\ \A h \in Handlers : handlers'[h].pc = "idle"
        /\ sessions' = {} /\ excess' = excess
        /\ (\E h \in Handlers : Counting(h)) => "fault" \in disturbed'
        /\ disturbed' \subseteq disturbed \union {"fault"}
    BY <1>18 DEF Restart, Idle, FaultIf, Unfinished, Counting
  <2>2. SumFunction(Awaited)' = 0
    <3> DEFINE after == [g \in Handlers |-> IF Uploading(g)' THEN handlers'[g].size ELSE 0]
    <3>1. \A h \in Handlers : after[h] = 0
      BY <2>1 DEF Uploading
    <3>2. Awaited' = after /\ DOMAIN after = Handlers
      BY DEF Awaited, Uploading
    <3> HIDE DEF after
    <3> QED BY <3>1, <3>2, HandlersFinite, SumOfZeros DEF SumFunction
  <2>3. SumFunction(Uncounted)' = 0
    <3> DEFINE after == [g \in Handlers |-> IF Counting(g)' THEN handlers'[g].size ELSE 0]
    <3>1. \A h \in Handlers : after[h] = 0
      BY <2>1 DEF Counting
    <3>2. Uncounted' = after /\ DOMAIN after = Handlers
      BY DEF Uncounted, Counting
    <3> HIDE DEF after
    <3> QED BY <3>1, <3>2, HandlersFinite, SumOfZeros DEF SumFunction
  <2>4. SumFunction(admitted)' = 0
    <3>1. DOMAIN admitted' = Files /\ \A f \in Files : admitted'[f] = 0
      BY <1>18 DEF Restart
    <3> QED BY <3>1, FilesFinite, SumOfZeros DEF SumFunction
  <2>5. OneUpload' /\ NoRow'
    BY <2>1, <1>i DEF OneUpload, NoRow, Uploading, At
  <2>6. QuotaHeld'
    BY <2>1, <2>2, <2>4, <1>t, <1>i, AwaitedSums, AdmittedSums DEF QuotaHeld
  <2>7. Counted'
    <3>1. disturbed' = {} => SumFunction(Uncounted) = 0
      BY <2>1, UncountedSums
    <3> QED BY <2>1, <2>3, <3>1, <1>t, <1>i, UncountedSums DEF Counted, At
  <2> QED BY <2>5, <2>6, <2>7 DEF QuotaInv
<1>19. CASE Day \/ UNCHANGED vars
  <2>1. UNCHANGED <<quota, sessions, handlers, admitted, excess, recorded, disturbed>>
    BY <1>19 DEF Day, vars
  <2> QED BY <2>1
        DEF QuotaInv, OneUpload, NoRow, QuotaHeld, Counted, Awaited, Uncounted, SumFunction,
            Uploading, Counting, At
<1> QED BY <1>1, <1>2, <1>3, <1>4, <1>5, <1>6, <1>7, <1>8, <1>9, <1>10, <1>11, <1>12, <1>13,
           <1>14, <1>15, <1>16, <1>17, <1>18, <1>19
           DEF Next, Proceed

\* QuotaRight: unless uploads overlap, what is used and what is under way exceeds
\* the quota by no more than completions state beyond the totalSize that was
\* checked, and the quota counts the sizes on record (checkStorageQuota,
\* completeChunkedUpload, updateStorageQuota).
THEOREM QuotaKept == Spec => []QuotaRight
<1>1. Init => QuotaInv
  <2> SUFFICES ASSUME Init PROVE QuotaInv
    OBVIOUS
  <2>1. /\ quota.used = 0 /\ recorded = 0 /\ \A h \in Handlers : handlers[h].pc = "idle"
        /\ sessions = {} /\ excess = 0 /\ \A f \in Files : admitted[f] = 0
    BY DEF Init, Idle
  <2>2. TypeOK
    BY Initially
  <2>3. SumFunction(Awaited) = 0 /\ SumFunction(Uncounted) = 0 /\ SumFunction(admitted) = 0
    BY <2>1, <2>2, AwaitedSums, UncountedSums, AdmittedSums DEF Uploading, Counting
  <2> QED BY <2>1, <2>3, FileStorageAssumption
        DEF QuotaInv, OneUpload, NoRow, QuotaHeld, Counted, Uploading, At
<1>2. TypeOK /\ QuotaInv => QuotaRight
  <2> SUFFICES ASSUME TypeOK, QuotaInv PROVE UsageCounted
    BY DEF QuotaRight, QuotaInv
  <2>1. quota.used \in Nat /\ recorded \in Nat /\ SumFunction(Uncounted) \in Nat
    BY UncountedSums DEF TypeOK
  <2>2. (\A h \in Handlers : ~At(h, "readUsed") /\ ~At(h, "writeUsed")) =>
          SumFunction(Uncounted) = 0
    BY UncountedSums DEF Counting, At
  <2> QED BY <2>1, <2>2 DEF QuotaInv, Counted, UsageCounted
<1>3. TypeOK /\ TypeOK' /\ FilesInv /\ OpenAdmitted /\ QuotaInv /\ [Next]_vars => QuotaInv'
  BY QuotaInductive
<1>4. Init => OpenAdmitted
  BY DEF Init, OpenAdmitted
<1>5. TypeOK /\ FilesInv /\ OpenAdmitted /\ [Next]_vars => OpenAdmitted'
  BY AdmittedInductive DEF FilesInv
<1> QED BY <1>1, <1>2, <1>3, <1>4, <1>5, FilesInvariant, PTL DEF Spec
===============================================================================
