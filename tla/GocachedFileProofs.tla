------------------------- MODULE GocachedFileProofs -------------------------
(***************************************************************************)
(* Theorems about the files Gocached keeps beside its tables.  They rest   *)
(* on the invariant of the tables, TablesInv.                              *)
(***************************************************************************)
EXTENDS GocachedFiles, GocachedProofs

-----------------------------------------------------------------------------
(* The files: none is left where the cleaner will not find it. *)

FilesInv == EveryFileAccounted /\ RemovedStayRemoved

(* Most steps add no file, take no row away, and leave waiting PUTs alone. *)
LEMMA FilesUntouched ==
    ASSUME FilesInv, UNCHANGED <<blobs, batch, left>>, disk' \subseteq disk,
           Deleting' => Deleting,
           \A p \in Putters : put[p].pc = "lock" => put'[p] = put[p]
    PROVE  FilesInv'
BY DEF FilesInv, EveryFileAccounted, RemovedStayRemoved

LEMMA InitFiles == Init => FilesInv
<1> SUFFICES ASSUME Init PROVE FilesInv
  OBVIOUS
<1>1. RemovedStayRemoved
  BY DEF Init, RemovedStayRemoved, Deleting
<1>2. EveryFileAccounted
  <2>1. CASE disk = {}
    BY <2>1 DEF EveryFileAccounted
  <2>2. ASSUME NEW b, NEW f, blobs = {b}, disk = {f}, b.SHA256 = f.sha
        PROVE  EveryFileAccounted
    BY <2>2 DEF EveryFileAccounted
  <2> QED
    BY <2>1, <2>2 DEF Init, MigratedFromV3
<1> QED
  BY <1>1, <1>2 DEF FilesInv

LEMMA NextFiles ==
    ASSUME "io" \notin Faults, "crash" \notin Faults
    PROVE  TablesInv /\ FilesInv /\ [Next]_vars => FilesInv'
<1> SUFFICES ASSUME TablesInv, FilesInv, [Next]_vars PROVE FilesInv'
  OBVIOUS
<1> USE DEF tables, cleanVars
<1>P. put \in [Putters -> PutState] /\ blobs \subseteq BlobRow /\ disk \subseteq File
  BY DEF TablesInv, TypeOK
<1>1. ASSUME NEW p \in Putters, PutStart(p) \/ PutBodyFails(p) \/ PutInsertAction(p)
      PROVE  FilesInv'
  <2>1. \A q \in Putters : put[q].pc = "lock" => put'[q] = put[q]
    BY <1>P, <1>1 DEF PutStart, PutBodyFails, PutInsertAction
  <2> QED
    BY <1>1, <2>1, FilesUntouched DEF PutStart, PutBodyFails, PutInsertAction, Deleting
<1>2. ASSUME NEW p \in Putters, PutRename(p) PROVE FilesInv'
  <2> DEFINE c == put[p].req.content
  <2>1. \A q \in Putters : put[q].pc = "lock" => put'[q] = put[q]
    BY <1>P, <1>2 DEF PutRename
  <2>2. put'[p].pc = "lock" /\ put'[p].req.content = c
    BY <1>P, <1>2 DEF PutRename
  <2>3. disk' = disk \cup {FileWrittenFor(c)} /\ FileWrittenFor(c).sha = c
    BY <1>2 DEF PutRename, Renamed, FileWrittenFor
  <2>4. UNCHANGED <<blobs, batch, left, cleanPC>>
    BY <1>2 DEF PutRename
  <2>5. EveryFileAccounted'
    BY <2>1, <2>2, <2>3, <2>4 DEF FilesInv, EveryFileAccounted
  <2>6. RemovedStayRemoved'
    BY <2>1, <2>2, <2>3, <2>4 DEF FilesInv, RemovedStayRemoved, Deleting
  <2> QED
    BY <2>5, <2>6 DEF FilesInv
<1>3. ASSUME NEW p \in Putters, PutUpsertBlob(p) PROVE FilesInv'
  <2> DEFINE c == put[p].req.content
  <2>1. blobs' = UpsertBlob(blobs, c, lastBlobID + 1) /\ UNCHANGED <<disk, cleanPC>>
    BY <1>3 DEF PutUpsertBlob
  <2>2. blobs \subseteq blobs' /\ \E b \in blobs' : b.SHA256 = c
    BY <2>1, UpsertHasRow
  <2>3. \A q \in Putters \ {p} : put'[q] = put[q]
    BY <1>P, <1>3 DEF PutUpsertBlob
  <2>4. EveryFileAccounted'
    BY <2>1, <2>2, <2>3 DEF FilesInv, EveryFileAccounted
  <2>5. ~Deleting'
    BY <1>3, <2>1, ProcessesAssumption DEF PutUpsertBlob, Takes, TablesInv, LockHeld, Deleting
  <2> QED
    BY <2>4, <2>5 DEF FilesInv, RemovedStayRemoved
<1>4. ASSUME NEW p \in Putters, PutFails(p) PROVE FilesInv'
  BY <1>4 DEF PutFails
<1>5. ASSUME NEW g \in Getters,
             GetBump(g) \/ GetOpen(g) \/ \E id \in ActionIDs : GetLookup(g, id)
      PROVE  FilesInv'
  BY <1>5, FilesUntouched DEF GetBump, GetOpen, GetLookup, Deleting
<1>6. CASE TimerFlush \/ Tick \/ RemoveByHand
  BY <1>6, FilesUntouched DEF TimerFlush, Tick, RemoveByHand, Deleting
<1>7. CASE CleanWake \/ CleanFlush
  BY <1>7, FilesUntouched DEF CleanWake, CleanFlush, Deleting
<1>8. CASE CleanStats
  <2>1. ~Deleting'
    BY <1>8 DEF CleanStats, GoesOnWithSize, PassEnds, Deleting
  <2> QED
    BY <1>8, <2>1, FilesUntouched DEF CleanStats
<1>9. CASE CleanAge \/ CleanSize
  <2>1. ~Deleting' /\ UNCHANGED <<blobs, disk, put>>
    BY <1>9 DEF CleanAge, CleanSize, Deleting
  <2> QED
    BY <2>1 DEF FilesInv, EveryFileAccounted, RemovedStayRemoved
<1>10. CASE DeleteBegin
  <2>1. batch' \ left' = {} /\ UNCHANGED <<blobs, disk, put>>
    BY <1>10 DEF DeleteBegin
  <2> QED
    BY <2>1 DEF FilesInv, EveryFileAccounted, RemovedStayRemoved
<1>11. ASSUME NEW id \in left, DeleteRemove(id) PROVE FilesInv'
  <2>1. UNCHANGED <<blobs, put, batch, cleanPC>> /\ disk' \subseteq disk
        /\ left' = left \ {id} /\ Deleting
    BY <1>11 DEF DeleteRemove, Deleting
  <2>2. \A b \in blobs, f \in disk : b.BlobID = id /\ f.sha = b.SHA256 => f \notin disk'
    <3> TAKE b \in blobs, f \in disk
    <3> HAVE b.BlobID = id /\ f.sha = b.SHA256
    <3>1. f \in FilesOf(b.SHA256)
      BY <1>P DEF File, FilesOf
    <3>2. b \in {x \in blobs : x.BlobID = id}
      OBVIOUS
    <3> QED
      BY <1>11, <3>1, <3>2 DEF DeleteRemove
  <2>3. EveryFileAccounted'
    BY <2>1 DEF FilesInv, EveryFileAccounted
  <2>4. RemovedStayRemoved'
    BY <2>1, <2>2 DEF FilesInv, RemovedStayRemoved
  <2> QED
    BY <2>3, <2>4 DEF FilesInv
<1>12. CASE DeleteCommit
  <2>1. blobs' = {b \in blobs : b.BlobID \notin batch} /\ left = {} /\ Deleting
        /\ UNCHANGED <<disk, put>>
    BY <1>12 DEF DeleteCommit, FilesRemoved, Deleting
  <2>2. ~Deleting'
    BY <1>12 DEF DeleteCommit, AfterDelete, GoesOnWithSize, PassEnds, Deleting
  <2>3. EveryFileAccounted'
    <3> SUFFICES ASSUME NEW f \in disk
                 PROVE  \/ \E b \in blobs' : b.SHA256 = f.sha
                        \/ \E p \in Putters : put[p].pc = "lock" /\ put[p].req.content = f.sha
      BY <2>1 DEF EveryFileAccounted
    <3>1. CASE \E b \in blobs : b.SHA256 = f.sha /\ b.BlobID \in batch
      BY <2>1, <3>1 DEF FilesInv, RemovedStayRemoved
    <3>2. CASE \E b \in blobs : b.SHA256 = f.sha /\ b.BlobID \notin batch
      BY <2>1, <3>2
    <3> QED
      BY <3>1, <3>2 DEF FilesInv, EveryFileAccounted
  <2> QED
    BY <2>2, <2>3 DEF FilesInv, RemovedStayRemoved
<1>13. CASE DeleteFails \/ CleanQueryFails \/ Crash
  BY <1>13 DEF DeleteFails, CleanQueryFails, Crash
<1>14. CASE UNCHANGED vars
  BY <1>14, FilesUntouched DEF vars, Deleting
<1> QED
  BY <1>1, <1>2, <1>3, <1>4, <1>5, <1>6, <1>7, <1>8, <1>9, <1>10, <1>11, <1>12, <1>13,
     <1>14 DEF Next, PutStep, CleanStep

(* Without crashes and failing statements, every file has a blob row or a  *)
(* PUT about to insert one: concurrent PUTs and deletions leak no file,    *)
(* even of the two a body may have.                                        *)
THEOREM NoFileLeaks ==
    ASSUME "io" \notin Faults, "crash" \notin Faults
    PROVE  Spec => []EveryFileAccounted
<1>1. TablesInv /\ FilesInv /\ [Next]_vars => FilesInv'
  BY NextFiles
<1>2. FilesInv => EveryFileAccounted
  BY DEF FilesInv
<1> QED
  BY <1>1, <1>2, InitFiles, TablesConsistent, PTL DEF Spec

-----------------------------------------------------------------------------
(* The cleaner removes no file but those of its batch. *)

LEMMA StepKeepsFiles ==
    ASSUME "hand" \notin Faults, TablesInv, [Next]_vars,
           NEW b \in blobs, b.BlobID \notin batch, Servable(b)
    PROVE  Inline(b.SHA256) \/ FileOpenedFor(b) \in disk'
<1> USE DEF tables, cleanVars
<1>1. CASE Inline(b.SHA256)
  BY <1>1
<1>2. CASE disk \subseteq disk'
  BY <1>2 DEF Servable
<1>3. ASSUME NEW id \in left, DeleteRemove(id), FileOpenedFor(b) \in disk
      PROVE  FileOpenedFor(b) \in disk'
  <2>1. id \in batch
    BY DEF TablesInv, TypeOK
  <2>2. \A x \in blobs : x.BlobID = id => x.SHA256 # b.SHA256
    BY <2>1 DEF TablesInv, KeysUnique
  <2>3. \A x \in blobs : x.BlobID = id => FileOpenedFor(b) \notin FilesOf(x.SHA256)
    BY <2>2 DEF FileOpenedFor, FilesOf
  <2> QED
    BY <1>3, <2>3 DEF DeleteRemove
<1>4. ASSUME NEW p \in Putters, PutStart(p) \/ PutStep(p) PROVE disk \subseteq disk'
  BY <1>4 DEF PutStart, PutStep, PutRename, Renamed, PutBodyFails, PutUpsertBlob,
              PutInsertAction, PutFails
<1>5. ASSUME NEW g \in Getters,
             GetBump(g) \/ GetOpen(g) \/ \E id \in ActionIDs : GetLookup(g, id)
      PROVE  disk' = disk
  BY <1>5 DEF GetBump, GetOpen, GetLookup
<1>6. CASE TimerFlush \/ Tick \/ Crash \/ CleanWake \/ CleanFlush \/ CleanStats
  BY <1>2, <1>6 DEF TimerFlush, Tick, Crash, CleanWake, CleanFlush, CleanStats
<1>7. CASE CleanAge \/ CleanSize \/ DeleteBegin \/ DeleteCommit \/ CleanQueryFails
  BY <1>2, <1>7 DEF CleanAge, CleanSize, DeleteBegin, DeleteCommit, CleanQueryFails
<1>8. CASE DeleteFails
  <2>1. CASE UNCHANGED disk
    BY <1>2, <2>1
  <2>2. ASSUME NEW c \in blobs, c.BlobID \in left, disk' = disk \ OnlyLZ4FileOf(c.SHA256)
        PROVE  Inline(b.SHA256) \/ FileOpenedFor(b) \in disk'
    <3>1. c # b /\ c.SHA256 # b.SHA256
      BY <2>2 DEF TablesInv, TypeOK, KeysUnique
    <3>2. FileOpenedFor(b) \notin OnlyLZ4FileOf(c.SHA256)
      BY <3>1 DEF FileOpenedFor, OnlyLZ4FileOf
    <3> QED
      BY <2>2, <3>2 DEF Servable
  <2> QED
    BY <1>8, <2>1, <2>2 DEF DeleteFails
<1>9. CASE RemoveByHand
  BY <1>9 DEF RemoveByHand
<1>10. CASE UNCHANGED vars
  BY <1>2, <1>10 DEF vars
<1> QED
  BY <1>1, <1>2, <1>3, <1>4, <1>5, <1>6, <1>7, <1>8, <1>9, <1>10
     DEF Next, CleanStep, Servable

(* A blob that is not being deleted does not lose its file, for the bodies *)
(* of two rows are never the same.                                         *)
THEOREM DeletionsAreConfined ==
    ASSUME "hand" \notin Faults
    PROVE  Spec => OnlyBatchFilesGo
<1>1. TablesInv /\ [Next]_vars =>
        [\A b \in blobs : b.BlobID \notin batch /\ Servable(b) =>
            \/ Inline(b.SHA256)
            \/ FileOpenedFor(b) \in disk']_vars
  BY StepKeepsFiles
<1> QED
  BY <1>1, TablesConsistent, PTL DEF Spec, OnlyBatchFilesGo

-----------------------------------------------------------------------------
(* A row without its file has lost it in one of the ways of GocachedFiles. *)

(* The row PUT inserts is the one GET opens the file of, unless the frame  *)
(* is as long as the body.                                                 *)
LEMMA OpensWhatWasWritten ==
    ASSUME NEW c \in Contents, ~Misnamed(c), NEW id
    PROVE  LET b == [BlobID |-> id, SHA256 |-> c, StoredSize |-> StoredSizeOf(c)]
           IN  b.SHA256 = c /\ FileOpenedFor(b) = FileWrittenFor(c)
<1>1. (StoredSizeOf(c) # Size[c]) <=> Compressed(c)
  BY DEF Misnamed, StoredSizeOf
<1>2. (StoredSizeOf(c) # Size[c]) \in BOOLEAN /\ Compressed(c) \in BOOLEAN
  BY DEF Compressed
<1>3. (StoredSizeOf(c) # Size[c]) = Compressed(c)
  BY <1>1, <1>2
<1> QED
  BY <1>3 DEF FileOpenedFor, FileWrittenFor

LEMMA InitRows == FilesInit => RowsInv
<1> SUFFICES ASSUME FilesInit PROVE RowsInv
  OBVIOUS
<1>1. WaitingHaveFiles
  BY DEF FilesInit, Init, NotPutting, Waiting, WaitingHaveFiles
<1>2. \A b \in blobs : Servable(b)
  <2>1. ASSUME NEW req \in PutRequests,
               blobs = {[BlobID |-> 1, SHA256 |-> req.content,
                         StoredSize |-> Size[req.content]]},
               disk = {[sha |-> req.content, lz4 |-> FALSE]}
        PROVE  \A b \in blobs : Servable(b)
    <3>1. \A b \in blobs : b.SHA256 = req.content /\ b.StoredSize = Size[b.SHA256]
      BY <2>1
    <3>2. \A b \in blobs : FileOpenedFor(b) = [sha |-> req.content, lz4 |-> FALSE]
      <4> TAKE b \in blobs
      <4>1. (b.StoredSize # Size[b.SHA256]) = FALSE
        BY <3>1
      <4> QED
        BY <3>1, <4>1 DEF FileOpenedFor
    <3> QED
      BY <2>1, <3>2 DEF Servable
  <2> QED
    BY <2>1 DEF FilesInit, Init, MigratedFromV3
<1> QED
  BY <1>1, <1>2 DEF RowsInv, EveryRowAccounted, Accounted

(* Whatever removes files, what is left to show of a step: a row that is   *)
(* not being deleted keeps its file, a new row has one, and so has a PUT   *)
(* that comes to the lock.                                                 *)
LEMMA RowsStay ==
    ASSUME RowsInv, lost' = (lost \cup Torn \cup Robbed) \ disk',
           \A b \in blobs \cap blobs' :
               b.BlobID \notin batch /\ Servable(b) =>
                   Inline(b.SHA256) \/ FileOpenedFor(b) \in disk',
           \A b \in blobs' \ blobs :
               \/ Inline(b.SHA256) \/ FileOpenedFor(b) \in disk' \cup lost'
               \/ Misnamed(b.SHA256),
           \A p \in Putters : put'[p].pc = "lock" =>
               \/ put'[p] = put[p]
               \/ Inline(put'[p].req.content)
               \/ FileWrittenFor(put'[p].req.content) \in disk'
    PROVE  RowsInv'
<1>1. ASSUME NEW b \in blobs' PROVE b.BlobID \in batch' \/ Accounted(b)'
  <2>1. CASE b \notin blobs
    BY <2>1 DEF Accounted, Servable
  <2>2. CASE b \in blobs /\ b.BlobID \in batch /\ b.BlobID \notin batch'
    <3>1. FileOpenedFor(b) \in Torn
      BY <2>2 DEF Torn
    <3> QED
      BY <3>1 DEF Accounted, Servable
  <2>3. CASE b \in blobs /\ b.BlobID \notin batch
    <3>1. Servable(b) \/ FileOpenedFor(b) \in lost \/ Misnamed(b.SHA256)
      BY <2>3 DEF RowsInv, EveryRowAccounted, Accounted
    <3> QED
      BY <2>3, <3>1 DEF Accounted, Servable
  <2> QED
    BY <2>1, <2>2, <2>3
<1>2. ASSUME NEW p \in Putters, put'[p].pc = "lock"
      PROVE  \/ Inline(put'[p].req.content)
             \/ FileWrittenFor(put'[p].req.content) \in disk' \cup lost'
  <2>1. CASE put'[p] = put[p]
    <3> DEFINE f == FileWrittenFor(put[p].req.content)
    <3>1. Inline(put[p].req.content) \/ f \in disk \cup lost
      BY <1>2, <2>1 DEF RowsInv, WaitingHaveFiles, Waiting
    <3>2. f \in disk /\ f \notin disk' => f \in Robbed
      BY <1>2, <2>1 DEF Robbed, Waiting
    <3> QED
      BY <2>1, <3>1, <3>2
  <2> QED
    BY <1>2, <2>1
<1> QED
  BY <1>1, <1>2 DEF RowsInv, EveryRowAccounted, WaitingHaveFiles, Waiting

LEMMA NextRows ==
    ASSUME "hand" \notin Faults
    PROVE  TablesInv /\ RowsInv /\ [FilesNext]_filesVars => RowsInv'
<1> SUFFICES ASSUME TablesInv, RowsInv, [FilesNext]_filesVars PROVE RowsInv'
  OBVIOUS
<1> USE DEF tables, cleanVars
<1>P. put \in [Putters -> PutState] /\ blobs \subseteq BlobRow
  BY DEF TablesInv, TypeOK
<1>1. CASE UNCHANGED filesVars
  BY <1>1 DEF filesVars, vars, RowsInv, EveryRowAccounted, Accounted, Servable,
              WaitingHaveFiles, Waiting
<1>2. CASE FilesNext
  <2>L. Next /\ lost' = (lost \cup Torn \cup Robbed) \ disk'
    BY <1>2 DEF FilesNext
  <2>K. \A b \in blobs \cap blobs' :
            b.BlobID \notin batch /\ Servable(b) =>
                Inline(b.SHA256) \/ FileOpenedFor(b) \in disk'
    BY <2>L, StepKeepsFiles
  <2>1. ASSUME NEW p \in Putters, PutStart(p) PROVE RowsInv'
    <3>1. PICK r \in PutRequests :
            put' = [put EXCEPT ![p] =
                      [pc |-> IF Inline(r.content) THEN "lock" ELSE "upload", req |-> r]]
      BY <2>1 DEF PutStart
    <3>2. put'[p].pc = "lock" => Inline(put'[p].req.content)
      BY <1>P, <3>1
    <3>3. \A q \in Putters \ {p} : put'[q] = put[q]
      BY <1>P, <3>1
    <3>4. blobs' = blobs
      BY <2>1 DEF PutStart
    <3> QED
      BY <2>L, <2>K, <3>2, <3>3, <3>4, RowsStay
  <2>2. ASSUME NEW p \in Putters, PutRename(p) PROVE RowsInv'
    <3>1. put'[p].req = put[p].req /\ \A q \in Putters \ {p} : put'[q] = put[q]
      BY <1>P, <2>2 DEF PutRename
    <3>2. FileWrittenFor(put[p].req.content) \in disk' /\ blobs' = blobs
      BY <2>2 DEF PutRename, Renamed
    <3> QED
      BY <2>L, <2>K, <3>1, <3>2, RowsStay
  <2>3. ASSUME NEW p \in Putters, PutUpsertBlob(p) PROVE RowsInv'
    <3> DEFINE c == put[p].req.content
               new == [BlobID |-> lastBlobID + 1, SHA256 |-> c, StoredSize |-> StoredSizeOf(c)]
    <3>1. c \in Contents /\ put[p].pc = "lock"
      BY <1>P, <2>3, RequestsAssumption DEF PutUpsertBlob, PutState
    <3>2. blobs' \subseteq blobs \cup {new} /\ disk' = disk
      BY <2>3 DEF PutUpsertBlob, UpsertBlob
    <3>3. new.SHA256 = c /\ (Misnamed(c) \/ FileOpenedFor(new) = FileWrittenFor(c))
      BY <3>1, OpensWhatWasWritten
    <3>4. Inline(c) \/ FileWrittenFor(c) \in disk \cup lost
      BY <3>1 DEF RowsInv, WaitingHaveFiles, Waiting
    <3> HIDE DEF new
    <3>5. \A b \in blobs' \ blobs :
              \/ Inline(b.SHA256) \/ FileOpenedFor(b) \in disk' \cup lost'
              \/ Misnamed(b.SHA256)
      BY <2>L, <3>2, <3>3, <3>4
    <3>6. \A q \in Putters : put'[q].pc = "lock" => put'[q] = put[q]
      BY <1>P, <2>3 DEF PutUpsertBlob
    <3> QED
      BY <2>L, <2>K, <3>5, <3>6, RowsStay
  <2>4. ASSUME blobs' \subseteq blobs,
               \A q \in Putters : put'[q].pc = "lock" => put'[q] = put[q]
        PROVE  RowsInv'
    BY <2>L, <2>K, <2>4, RowsStay
  <2>5. ASSUME NEW p \in Putters, PutBodyFails(p) \/ PutInsertAction(p) \/ PutFails(p)
        PROVE  RowsInv'
    <3>1. \A q \in Putters : put'[q].pc = "lock" => put'[q] = put[q]
      BY <1>P, <2>5 DEF PutBodyFails, PutInsertAction, PutFails, NotPutting
    <3>2. blobs' = blobs
      BY <2>5 DEF PutBodyFails, PutInsertAction, PutFails
    <3> QED
      BY <2>4, <3>1, <3>2
  <2>6. ASSUME NEW g \in Getters,
               GetBump(g) \/ GetOpen(g) \/ \E id \in ActionIDs : GetLookup(g, id)
        PROVE  RowsInv'
    BY <2>4, <2>6 DEF GetBump, GetOpen, GetLookup
  <2>7. CASE TimerFlush \/ Tick \/ CleanWake \/ CleanFlush \/ CleanStats \/ RemoveByHand
    BY <2>4, <2>7 DEF TimerFlush, Tick, CleanWake, CleanFlush, CleanStats, RemoveByHand
  <2>8. CASE CleanAge \/ CleanSize \/ DeleteBegin \/ \E id \in left : DeleteRemove(id)
    BY <2>4, <2>8 DEF CleanAge, CleanSize, DeleteBegin, DeleteRemove
  <2>9. CASE DeleteCommit \/ DeleteFails \/ CleanQueryFails
    BY <2>4, <2>9 DEF DeleteCommit, DeleteFails, CleanQueryFails
  <2>10. CASE Crash
    <3>1. blobs' = blobs /\ \A q \in Putters : put'[q].pc # "lock"
      BY <2>10 DEF Crash, NotPutting
    <3> QED
      BY <2>4, <3>1
  <2> QED
    BY <2>L, <2>1, <2>2, <2>3, <2>5, <2>6, <2>7, <2>8, <2>9, <2>10
       DEF Next, PutStep, CleanStep
<1> QED
  BY <1>1, <1>2

LEMMA FilesWatchGocached == FilesSpec => Spec
<1>1. FilesInit => Init
  BY DEF FilesInit
<1>2. [FilesNext]_filesVars => [Next]_vars
  BY DEF FilesNext, filesVars
<1> QED
  BY <1>1, <1>2, PTL DEF FilesSpec, Spec

(* Through crashes of the process and failing statements and unlinks, and  *)
(* whichever PUTs, migrated rows and deletions come together, a row that   *)
(* is not being deleted has the file that GET opens for it, but for those  *)
(* lost to a deletion that did not commit or overtook a PUT, and the       *)
(* bodies as long as their frames.                                         *)
THEOREM RowsAreAccounted ==
    ASSUME "hand" \notin Faults
    PROVE  FilesSpec => []EveryRowAccounted
<1>1. TablesInv /\ RowsInv /\ [FilesNext]_filesVars => RowsInv'
  BY NextRows
<1>2. RowsInv => EveryRowAccounted
  BY DEF RowsInv
<1> QED
  BY <1>1, <1>2, InitRows, FilesWatchGocached, TablesConsistent, PTL DEF FilesSpec

-----------------------------------------------------------------------------
(* A server without limits deletes nothing, so it loses nothing. *)

NothingDeleted ==
    /\ cleanPC \in {"sleep", "flush", "stats", "refresh"}
    /\ batch = {} /\ lost = {}

LEMMA NextUnlimited ==
    ASSUME MaxAge = 0, MaxSize = 0, "hand" \notin Faults
    PROVE  NothingDeleted /\ [FilesNext]_filesVars => NothingDeleted'
<1> SUFFICES ASSUME NothingDeleted, [FilesNext]_filesVars PROVE NothingDeleted'
  OBVIOUS
<1> USE DEF tables, cleanVars
<1>C. cleanPC \in {"sleep", "flush", "stats", "refresh"} /\ batch = {} /\ lost = {}
  BY DEF NothingDeleted
<1>1. CASE UNCHANGED filesVars
  BY <1>C, <1>1 DEF filesVars, vars, NothingDeleted
<1>2. CASE FilesNext
  <2>1. ASSUME disk \subseteq disk' PROVE lost' = {}
    <3>1. Torn = {}
      BY <1>C DEF Torn
    <3>2. Robbed = {}
      BY <2>1 DEF Robbed
    <3> QED
      BY <1>C, <1>2, <3>1, <3>2 DEF FilesNext
  <2>2. ASSUME NEW p \in Putters, PutStart(p) \/ PutStep(p)
        PROVE  disk \subseteq disk' /\ UNCHANGED <<cleanPC, batch>>
    BY <2>2 DEF PutStart, PutStep, PutRename, Renamed, PutBodyFails, PutUpsertBlob,
                PutInsertAction, PutFails
  <2>3. ASSUME NEW g \in Getters,
               GetBump(g) \/ GetOpen(g) \/ \E id \in ActionIDs : GetLookup(g, id)
        PROVE  UNCHANGED <<disk, cleanPC, batch>>
    BY <2>3 DEF GetBump, GetOpen, GetLookup
  <2>4. CASE TimerFlush \/ Tick
    BY <1>C, <2>1, <2>4 DEF TimerFlush, Tick, NothingDeleted
  <2>5. CASE CleanWake \/ CleanFlush
    BY <1>C, <2>1, <2>5 DEF CleanWake, CleanFlush, NothingDeleted
  <2>6. CASE CleanStats
    <3>1. cleanPC' \in {"sleep", "refresh"}
      BY <2>6 DEF CleanStats, GoesOnWithSize, PassEnds
    <3> QED
      BY <1>C, <2>1, <2>6, <3>1 DEF CleanStats, NothingDeleted
  <2>7. CASE CleanAge \/ CleanSize \/ DeleteBegin \/ DeleteCommit \/ DeleteFails
             \/ \E id \in left : DeleteRemove(id)
    BY <1>C, <2>7 DEF CleanAge, CleanSize, DeleteBegin, DeleteCommit, DeleteFails, DeleteRemove
  <2>8. CASE CleanQueryFails
    BY <1>C, <2>1, <2>8 DEF CleanQueryFails, PassFails, NothingDeleted
  <2>9. CASE Crash
    BY <2>1, <2>9 DEF Crash, NothingDeleted
  <2>10. CASE RemoveByHand
    BY <2>10 DEF RemoveByHand
  <2> QED
    BY <1>C, <1>2, <2>1, <2>2, <2>3, <2>4, <2>5, <2>6, <2>7, <2>8, <2>9, <2>10
       DEF FilesNext, Next, CleanStep, NothingDeleted
<1> QED
  BY <1>1, <1>2

(* With the default options, no limit on age or size, every row can be     *)
(* served, whatever crashes or fails between the statements of PUT; but    *)
(* for the bodies as long as their frames.                                 *)
THEOREM UnlimitedServesItsRows ==
    ASSUME MaxAge = 0, MaxSize = 0, "hand" \notin Faults
    PROVE  FilesSpec => [](\A b \in blobs : Servable(b) \/ Misnamed(b.SHA256))
<1>1. FilesInit => NothingDeleted
  BY DEF FilesInit, Init, NothingDeleted
<1>2. NothingDeleted /\ [FilesNext]_filesVars => NothingDeleted'
  BY NextUnlimited
<1>3. NothingDeleted /\ EveryRowAccounted
        => \A b \in blobs : Servable(b) \/ Misnamed(b.SHA256)
  BY DEF NothingDeleted, EveryRowAccounted, Accounted
<1> QED
  BY <1>1, <1>2, <1>3, RowsAreAccounted, PTL DEF FilesSpec
=============================================================================
