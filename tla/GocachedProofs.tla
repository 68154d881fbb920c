--------------------------- MODULE GocachedProofs ---------------------------
(***************************************************************************)
(* Theorems about the types and the tables of Gocached, for any number of  *)
(* clients, bodies, limits and requests, and for every bound on time and   *)
(* on BlobIDs.                                                             *)
(***************************************************************************)
EXTENDS Gocached, TLAPS

USE OutputsAssumption, SizesAssumption, RequestsAssumption, LimitsAssumption,
    ProcessesAssumption

-----------------------------------------------------------------------------
(* What the statements do to the tables. *)

LEMMA StoredSizeType == \A c \in Contents : StoredSizeOf(c) \in Nat
BY DEF StoredSizeOf

LEMMA FileWrittenType == \A c \in Contents : FileWrittenFor(c) \in File
<1> TAKE c \in Contents
<1>1. Compressed(c) \in BOOLEAN
  BY DEF Compressed
<1> QED
  BY <1>1 DEF FileWrittenFor, File

(* A list of candidates holds BlobIDs of the Blobs table. *)
LEMMA CandidatesAreBlobs ==
    ASSUME NEW A, NEW B, NEW cutoff, NEW limit,
           NEW S \in CleanCandidates(A, B, cutoff, limit)
    PROVE  S \subseteq {b.BlobID : b \in B}
BY DEF CleanCandidates, Evictable

LEMMA BatchesAreCandidates ==
    ASSUME NEW A, NEW B, NEW toClean, NEW C, NEW S \in SizeBatches(A, B, toClean, C)
    PROVE  S \subseteq C
BY DEF SizeBatches

LEMMA UpsertType ==
    ASSUME NEW B \in SUBSET BlobRow, NEW c \in Contents, NEW id \in Nat
    PROVE  UpsertBlob(B, c, id) \subseteq BlobRow
BY StoredSizeType DEF UpsertBlob, BlobRow

(* After an upsert there is a row for the body, and the old rows stay. *)
LEMMA UpsertHasRow ==
    ASSUME NEW B, NEW c, NEW id
    PROVE  /\ \E b \in UpsertBlob(B, c, id) : b.SHA256 = c
           /\ B \subseteq UpsertBlob(B, c, id)
<1> DEFINE new == [BlobID |-> id, SHA256 |-> c, StoredSize |-> StoredSizeOf(c)]
<1>1. CASE \E b \in B : b.SHA256 = c
  BY <1>1 DEF UpsertBlob
<1>2. CASE ~ \E b \in B : b.SHA256 = c
  <2>1. UpsertBlob(B, c, id) = B \cup {new}
    BY <1>2 DEF UpsertBlob
  <2>2. new.SHA256 = c
    OBVIOUS
  <2> QED
    BY <2>1, <2>2
<1> QED
  BY <1>1, <1>2

LEMMA InsertType ==
    ASSUME NEW A \in SUBSET ActionRow, NEW row \in ActionRow
    PROVE  InsertOrIgnore(A, row) \subseteq ActionRow
BY DEF InsertOrIgnore

(* The flush rewrites the access time of a row and nothing else. *)
LEMMA FlushKeepsRows ==
    ASSUME NEW A \in SUBSET ActionRow, NEW dirty,
           \A x \in DOMAIN dirty : dirty[x] \in Nat
    PROVE  /\ WithAccessTimes(A, dirty) \subseteq ActionRow
           /\ \A r \in WithAccessTimes(A, dirty) : \E a \in A :
                 r.ActionID = a.ActionID /\ r.BlobID = a.BlobID
                 /\ r.AltOutputID = a.AltOutputID
BY DEF WithAccessTimes, ActionRow

-----------------------------------------------------------------------------
(* Type correctness. *)

LEMMA InitType == Init => TypeOK
<1> SUFFICES ASSUME Init PROVE TypeOK
  OBVIOUS
<1>1. blobs \subseteq BlobRow /\ actions \subseteq ActionRow /\ disk \subseteq File
      /\ lastBlobID \in Nat
  <2>1. CASE blobs = {} /\ actions = {} /\ disk = {} /\ lastBlobID = 0
    BY <2>1
  <2>2. ASSUME NEW req \in PutRequests,
               blobs = {[BlobID |-> 1, SHA256 |-> req.content,
                         StoredSize |-> Size[req.content]]},
               actions = {[ActionID |-> req.action, BlobID |-> 1,
                           AltOutputID |-> AltOutputFor(req.output, req.content),
                           AccessTime |-> 0]},
               disk = {[sha |-> req.content, lz4 |-> FALSE]},
               lastBlobID = 1
        PROVE  blobs \subseteq BlobRow /\ actions \subseteq ActionRow /\ disk \subseteq File
               /\ lastBlobID \in Nat
    BY <2>2 DEF BlobRow, ActionRow, File, AltOutputFor
  <2> QED
    BY <2>1, <2>2 DEF Init, MigratedFromV3
<1>2. put \in [Putters -> PutState] /\ get \in [Getters -> GetState]
  BY DEF Init, NotPutting, NotGetting, PutState, GetState
<1> QED
  BY <1>1, <1>2 DEF Init, TypeOK, NoneDirty

LEMMA NextType == TypeOK /\ [Next]_vars => TypeOK'
<1> SUFFICES ASSUME TypeOK, [Next]_vars PROVE TypeOK'
  OBVIOUS
<1> USE DEF TypeOK, tables, cleanVars
<1>1. ASSUME NEW p \in Putters, PutStart(p) PROVE TypeOK'
  <2>1. PICK r \in PutRequests :
          put' = [put EXCEPT ![p] =
                    [pc |-> IF Inline(r.content) THEN "lock" ELSE "upload", req |-> r]]
    BY <1>1 DEF PutStart
  <2>2. put' \in [Putters -> PutState]
    BY <2>1 DEF PutState
  <2> QED
    BY <1>1, <2>2 DEF PutStart
<1>2. ASSUME NEW p \in Putters, PutRename(p) PROVE TypeOK'
  <2>1. put[p].req \in PutRequests /\ put[p].req.content \in Contents
    BY <1>2 DEF PutRename, PutState
  <2>2. put' \in [Putters -> PutState]
    BY <1>2, <2>1 DEF PutRename, PutState
  <2>3. disk' \subseteq File
    BY <1>2, <2>1, FileWrittenType DEF PutRename, Renamed
  <2> QED
    BY <1>2, <2>2, <2>3 DEF PutRename
<1>3. ASSUME NEW p \in Putters, PutBodyFails(p) PROVE TypeOK'
  <2>1. put' \in [Putters -> PutState]
    BY <1>3 DEF PutBodyFails, PutState, NotPutting
  <2> QED
    BY <1>3, <2>1 DEF PutBodyFails
<1>4. ASSUME NEW p \in Putters, PutUpsertBlob(p) PROVE TypeOK'
  <2> DEFINE c == put[p].req.content
  <2>1. put[p].req \in PutRequests /\ c \in Contents
    BY <1>4 DEF PutUpsertBlob, PutState
  <2>2. blobs' = UpsertBlob(blobs, c, lastBlobID + 1)
    BY <1>4 DEF PutUpsertBlob
  <2>3. blobs' \subseteq BlobRow
    BY <2>1, <2>2, UpsertType
  <2>4. (CHOOSE b \in blobs' : b.SHA256 = c) \in blobs'
    BY <2>2, UpsertHasRow
  <2>5. (CHOOSE b \in blobs' : b.SHA256 = c).BlobID \in Nat
    BY <2>3, <2>4 DEF BlobRow
  <2>6. put' \in [Putters -> PutState]
    BY <1>4, <2>1, <2>5 DEF PutUpsertBlob, PutState
  <2>7. lastBlobID' \in Nat
    BY <1>4 DEF PutUpsertBlob
  <2> QED
    BY <1>4, <2>3, <2>6, <2>7 DEF PutUpsertBlob, Takes
<1>5. ASSUME NEW p \in Putters, PutInsertAction(p) PROVE TypeOK'
  <2> DEFINE r == put[p].req
  <2>1. r \in PutRequests /\ put[p].blobID \in Nat
    BY <1>5 DEF PutInsertAction, PutState
  <2>2. [ActionID |-> r.action, BlobID |-> put[p].blobID,
         AltOutputID |-> AltOutputFor(r.output, r.content), AccessTime |-> now] \in ActionRow
    BY <2>1 DEF ActionRow, AltOutputFor
  <2>3. actions' \subseteq ActionRow
    BY <1>5, <2>2, InsertType DEF PutInsertAction
  <2>4. put' \in [Putters -> PutState]
    BY <1>5 DEF PutInsertAction, PutState, NotPutting
  <2> QED
    BY <1>5, <2>3, <2>4 DEF PutInsertAction, Releases
<1>6. ASSUME NEW p \in Putters, PutFails(p) PROVE TypeOK'
  <2>1. put' \in [Putters -> PutState]
    BY <1>6 DEF PutFails, PutState, NotPutting
  <2> QED
    BY <1>6, <2>1 DEF PutFails, Releases
<1>7. ASSUME NEW g \in Getters, NEW id \in ActionIDs, GetLookup(g, id) PROVE TypeOK'
  <2> DEFINE found == {ab \in Joined(actions, blobs) : ab[1].ActionID = id}
  <2>1. ASSUME NEW ab \in found
        PROVE  /\ ab[1] \in ActionRow /\ ab[2] \in BlobRow
               /\ Entry(ab[1], ab[2]) \in EntryType
               /\ FileOpenedFor(ab[2]) \in File
    <3>1. ab[1] \in actions /\ ab[2] \in blobs
      BY <2>1 DEF Joined
    <3>2. ab[1] \in ActionRow /\ ab[2] \in BlobRow
      BY <3>1
    <3>3. Entry(ab[1], ab[2]) \in EntryType
      BY <3>2 DEF Entry, EntryType, OutputOf, ActionRow, BlobRow
    <3>4. FileOpenedFor(ab[2]) \in File
      BY <3>2 DEF FileOpenedFor, File, BlobRow
    <3> QED
      BY <3>2, <3>3, <3>4
  <2>2. ASSUME NEW s \in GetState, get' = [get EXCEPT ![g] = s]
        PROVE  get' \in [Getters -> GetState]
    BY <2>2
  <2>3. Miss(id) \in GetState /\ Failed(id) \in GetState
    BY DEF Miss, Failed, GetState
  <2>4. ASSUME NEW ab \in found
        PROVE  [status |-> "found", action |-> id, entry |-> Entry(ab[1], ab[2]),
                file |-> FileOpenedFor(ab[2]), time |-> ab[1].AccessTime] \in GetState
    BY <2>1, <2>4 DEF GetState, ActionRow
  <2>5. get' \in [Getters -> GetState]
    BY <1>7, <2>2, <2>3, <2>4 DEF GetLookup
  <2> QED
    BY <1>7, <2>5 DEF GetLookup
<1>8. ASSUME NEW g \in Getters, GetBump(g) PROVE TypeOK'
  <2>1. get[g].action \in ActionIDs /\ get[g].entry \in EntryType /\ get[g].file \in File
    BY <1>8 DEF GetBump, GetState
  <2>2. get' \in [Getters -> GetState]
    BY <1>8, <2>1 DEF GetBump, GetState, Hit
  <2>3. /\ DOMAIN accessDirty' \subseteq ActionIDs
        /\ \A a \in DOMAIN accessDirty' : accessDirty'[a] \in Nat
    BY <1>8, <2>1 DEF GetBump, BumpAccessTime
  <2> QED
    BY <1>8, <2>2, <2>3 DEF GetBump
<1>9. ASSUME NEW g \in Getters, GetOpen(g) PROVE TypeOK'
  <2>1. get[g].action \in ActionIDs /\ get[g].entry \in EntryType
    BY <1>9 DEF GetOpen, GetState
  <2>2. get' \in [Getters -> GetState]
    BY <1>9, <2>1 DEF GetOpen, GetState, Hit, Miss, Failed
  <2> QED
    BY <1>9, <2>2 DEF GetOpen
<1>10. ASSUME FlushAccessTimes
      PROVE  /\ actions' \subseteq ActionRow
             /\ DOMAIN accessDirty' \subseteq ActionIDs
             /\ \A a \in DOMAIN accessDirty' : accessDirty'[a] \in Nat
  BY <1>10, FlushKeepsRows DEF FlushAccessTimes, NoneDirty
<1>11. CASE TimerFlush
  BY <1>10, <1>11 DEF TimerFlush
<1>12. CASE CleanWake
  BY <1>12 DEF CleanWake
<1>13. CASE CleanFlush
  BY <1>10, <1>13 DEF CleanFlush
<1>14. ASSUME NEW us, GoesOnWithSize(us)
       PROVE  cleanPC' \in {"size", "refresh", "sleep"} /\ serving' \in BOOLEAN
  BY <1>14 DEF GoesOnWithSize, PassEnds
<1>15. CASE CleanStats
  <2>1. cleanPC' \in {"age", "size", "refresh", "sleep"} /\ serving' \in BOOLEAN
    BY <1>14, <1>15 DEF CleanStats
  <2> QED
    BY <1>15, <2>1 DEF CleanStats
<1>16. CASE CleanAge
  <2>1. batch' \subseteq {b.BlobID : b \in blobs} 
    BY <1>16, CandidatesAreBlobs DEF CleanAge
  <2>2. batch' \subseteq Nat
    BY <2>1 DEF BlobRow
  <2> QED
    BY <1>16, <2>2 DEF CleanAge
<1>17. CASE CleanSize
  <2>1. batch' \subseteq {b.BlobID : b \in blobs}
    BY <1>17, CandidatesAreBlobs, BatchesAreCandidates DEF CleanSize
  <2>2. batch' \subseteq Nat
    BY <2>1 DEF BlobRow
  <2> QED
    BY <1>17, <2>2 DEF CleanSize
<1>18. CASE DeleteBegin
  BY <1>18 DEF DeleteBegin, Takes
<1>19. ASSUME NEW id \in left, DeleteRemove(id) PROVE TypeOK'
  BY <1>19 DEF DeleteRemove
<1>20. CASE DeleteCommit
  <2>1. cleanPC' \in {"size", "refresh", "sleep"} /\ serving' \in BOOLEAN
    BY <1>14, <1>20 DEF DeleteCommit, AfterDelete, PassEnds
  <2> QED
    BY <1>20, <2>1 DEF DeleteCommit, FilesRemoved, Releases
<1>21. CASE DeleteFails
  BY <1>21 DEF DeleteFails, PassFails, Releases
<1>22. CASE CleanQueryFails
  BY <1>22 DEF CleanQueryFails, PassFails
<1>23. CASE Tick
  BY <1>23 DEF Tick
<1>24. CASE Crash
  BY <1>24 DEF Crash, NotPutting, NotGetting, NoneDirty, PutState, GetState
<1>25. CASE RemoveByHand
  BY <1>25 DEF RemoveByHand
<1>26. CASE UNCHANGED vars
  BY <1>26 DEF vars
<1> QED
  BY <1>1, <1>2, <1>3, <1>4, <1>5, <1>6, <1>7, <1>8, <1>9, <1>11, <1>12, <1>13, <1>15,
     <1>16, <1>17, <1>18, <1>19, <1>20, <1>21, <1>22, <1>23, <1>24, <1>25, <1>26
     DEF Next, PutStep, CleanStep

(* Every variable of the server keeps its type, through crashes, failing   *)
(* statements and files removed by hand.                                   *)
THEOREM TypeCorrect == Spec => []TypeOK
BY InitType, NextType, PTL DEF Spec

-----------------------------------------------------------------------------
(* The tables: no action row without its blob row. *)

LEMMA UpsertKeepsKeys ==
    ASSUME NEW B \in SUBSET BlobRow, NEW c \in Contents, NEW last \in Nat,
           \A x, y \in B : x.BlobID = y.BlobID \/ x.SHA256 = y.SHA256 => x = y,
           \A x \in B : x.BlobID <= last
    PROVE  /\ \A x, y \in UpsertBlob(B, c, last + 1) :
                 x.BlobID = y.BlobID \/ x.SHA256 = y.SHA256 => x = y
           /\ \A x \in UpsertBlob(B, c, last + 1) : x.BlobID <= last + 1
           /\ UpsertBlob(B, c, last + 1) = B => \A x \in B : x.BlobID <= last
<1> DEFINE new == [BlobID |-> last + 1, SHA256 |-> c, StoredSize |-> StoredSizeOf(c)]
<1>0. \A x \in B : x.BlobID \in Nat
  BY DEF BlobRow
<1>1. CASE \E b \in B : b.SHA256 = c
  BY <1>0, <1>1 DEF UpsertBlob
<1>2. CASE ~ \E b \in B : b.SHA256 = c
  <2>1. UpsertBlob(B, c, last + 1) = B \cup {new}
    BY <1>2 DEF UpsertBlob
  <2>2. new.BlobID = last + 1 /\ new.SHA256 = c
    OBVIOUS
  <2>3. \A x \in B : x.BlobID # new.BlobID /\ x.SHA256 # new.SHA256
    BY <1>0, <1>2, <2>2
  <2> HIDE DEF new
  <2> QED
    BY <1>0, <2>1, <2>2, <2>3
<1> QED
  BY <1>1, <1>2

LEMMA InsertKeepsKeys ==
    ASSUME NEW A, NEW row,
           \A x, y \in A : x.ActionID = y.ActionID => x = y
    PROVE  \A x, y \in InsertOrIgnore(A, row) : x.ActionID = y.ActionID => x = y
BY DEF InsertOrIgnore

LEMMA FlushKeepsKeys ==
    ASSUME NEW A \in SUBSET ActionRow, NEW dirty,
           \A x, y \in A : x.ActionID = y.ActionID => x = y
    PROVE  \A x, y \in WithAccessTimes(A, dirty) : x.ActionID = y.ActionID => x = y
<1> TAKE x \in WithAccessTimes(A, dirty), y \in WithAccessTimes(A, dirty)
<1>1. PICK a \in A : x = IF a.ActionID \in DOMAIN dirty
                         THEN [a EXCEPT !.AccessTime = dirty[a.ActionID]] ELSE a
  BY DEF WithAccessTimes
<1>2. PICK b \in A : y = IF b.ActionID \in DOMAIN dirty
                         THEN [b EXCEPT !.AccessTime = dirty[b.ActionID]] ELSE b
  BY DEF WithAccessTimes
<1>3. x.ActionID = a.ActionID /\ y.ActionID = b.ActionID
  BY <1>1, <1>2 DEF ActionRow
<1> QED
  BY <1>1, <1>2, <1>3

LEMMA InitTables == Init => TablesInv
<1> SUFFICES ASSUME Init PROVE TablesInv
  OBVIOUS
<1>1. TypeOK
  BY InitType
<1>2. KeysUnique /\ NoMissingBlobRows
  <2>1. CASE blobs = {} /\ actions = {} /\ lastBlobID = 0
    BY <2>1 DEF KeysUnique, NoMissingBlobRows
  <2>2. ASSUME NEW b, NEW a, blobs = {b}, actions = {a}, b.BlobID = 1, a.BlobID = 1,
               lastBlobID = 1
        PROVE  KeysUnique /\ NoMissingBlobRows
    BY <2>2 DEF KeysUnique, NoMissingBlobRows
  <2> QED
    BY <2>1, <2>2 DEF Init, MigratedFromV3
<1>3. LockHeld /\ BlobKept
  BY DEF Init, LockHeld, BlobKept, Deleting, NotPutting
<1> QED
  BY <1>1, <1>2, <1>3 DEF TablesInv

(* Most steps leave the tables, and who is in the middle of a transaction, *)
(* as they are.                                                            *)
LEMMA TablesUntouched ==
    ASSUME TablesInv, TypeOK', UNCHANGED <<tables, writeMu>>, Deleting' <=> Deleting,
           \A p \in Putters :
              put'[p].pc = "insert" <=> put[p].pc = "insert",
           \A p \in Putters : put[p].pc = "insert" => put'[p] = put[p]
    PROVE  TablesInv'
BY DEF TablesInv, tables, KeysUnique, LockHeld, BlobKept, NoMissingBlobRows

LEMMA FlushKeepsTables ==
    ASSUME TablesInv, TypeOK', FlushAccessTimes, UNCHANGED <<blobs, lastBlobID, writeMu, put>>,
           Deleting' <=> Deleting
    PROVE  TablesInv'
<1>1. KeysUnique'
  BY FlushKeepsKeys DEF TablesInv, TypeOK, KeysUnique, FlushAccessTimes
<1>2. NoMissingBlobRows'
  BY FlushKeepsRows DEF TablesInv, TypeOK, NoMissingBlobRows, FlushAccessTimes
<1>3. LockHeld' /\ BlobKept'
  BY DEF TablesInv, LockHeld, BlobKept
<1> QED
  BY <1>1, <1>2, <1>3 DEF TablesInv

LEMMA NextTables == TablesInv /\ [Next]_vars => TablesInv'
<1> SUFFICES ASSUME TablesInv, [Next]_vars PROVE TablesInv'
  OBVIOUS
<1> USE DEF tables, cleanVars
<1>T. TypeOK /\ TypeOK'
  BY NextType DEF TablesInv
<1>P. put \in [Putters -> PutState]
  BY <1>T DEF TypeOK
<1>1. ASSUME NEW p \in Putters, PutStart(p) PROVE TablesInv'
  <2>1. \A q \in Putters : put'[q].pc = "insert" <=> put[q].pc = "insert"
    BY <1>P, <1>1 DEF PutStart
  <2>2. \A q \in Putters : put[q].pc = "insert" => put'[q] = put[q]
    BY <1>P, <1>1 DEF PutStart
  <2> QED
    BY <1>T, <1>1, <2>1, <2>2, TablesUntouched DEF PutStart, Deleting
<1>2. ASSUME NEW p \in Putters, PutRename(p) \/ PutBodyFails(p) PROVE TablesInv'
  <2>1. \A q \in Putters : put'[q].pc = "insert" <=> put[q].pc = "insert"
    BY <1>P, <1>2 DEF PutRename, PutBodyFails, NotPutting
  <2>2. \A q \in Putters : put[q].pc = "insert" => put'[q] = put[q]
    BY <1>P, <1>2 DEF PutRename, PutBodyFails
  <2> QED
    BY <1>T, <1>2, <2>1, <2>2, TablesUntouched DEF PutRename, PutBodyFails, Deleting
<1>3. ASSUME NEW p \in Putters, PutUpsertBlob(p) PROVE TablesInv'
  <2> DEFINE c == put[p].req.content
  <2>1. c \in Contents
    BY <1>P, <1>3 DEF PutUpsertBlob, PutState
  <2>2. blobs' = UpsertBlob(blobs, c, lastBlobID + 1)
    BY <1>3 DEF PutUpsertBlob
  <2>3. blobs \subseteq blobs'
    BY <2>2, UpsertHasRow
  <2>4. KeysUnique'
    <3>1. blobs \in SUBSET BlobRow /\ lastBlobID \in Nat
      BY <1>T DEF TypeOK
    <3>2. /\ \A x, y \in blobs : x.BlobID = y.BlobID \/ x.SHA256 = y.SHA256 => x = y
          /\ \A x \in blobs : x.BlobID <= lastBlobID
      BY DEF TablesInv, KeysUnique
    <3>3. /\ \A x, y \in blobs' : x.BlobID = y.BlobID \/ x.SHA256 = y.SHA256 => x = y
          /\ \A x \in blobs' : x.BlobID <= lastBlobID + 1
      BY <2>1, <2>2, <3>1, <3>2, UpsertKeepsKeys
    <3>4. lastBlobID' = IF blobs' = blobs THEN lastBlobID ELSE lastBlobID + 1
      BY <1>3 DEF PutUpsertBlob
    <3>5. actions' = actions
      BY <1>3 DEF PutUpsertBlob
    <3> QED
      BY <3>2, <3>3, <3>4, <3>5 DEF TablesInv, KeysUnique
  <2>5. NoMissingBlobRows'
    BY <1>3, <2>3 DEF PutUpsertBlob, TablesInv, NoMissingBlobRows
  <2>6. put'[p].pc = "insert" /\ \A q \in Putters \ {p} : put'[q] = put[q]
    BY <1>P, <1>3 DEF PutUpsertBlob
  <2>7. LockHeld'
    BY <1>3, <2>6, ProcessesAssumption DEF PutUpsertBlob, Takes, TablesInv, LockHeld, Deleting
  <2>8. BlobKept'
    <3>1. put'[p].req = put[p].req
          /\ put'[p].blobID = (CHOOSE b \in blobs' : b.SHA256 = c).BlobID
      BY <1>P, <1>3 DEF PutUpsertBlob
    <3>2. \E b \in blobs' : b.SHA256 = c
      BY <2>2, UpsertHasRow
    <3>3. \E b \in blobs' : b.BlobID = put'[p].blobID /\ b.SHA256 = put'[p].req.content
      BY <3>1, <3>2
    <3> QED
      BY <2>3, <2>6, <3>3 DEF TablesInv, BlobKept
  <2> QED
    BY <1>T, <2>4, <2>5, <2>7, <2>8 DEF TablesInv
<1>4. ASSUME NEW p \in Putters, PutInsertAction(p) PROVE TablesInv'
  <2> DEFINE row == [ActionID |-> put[p].req.action, BlobID |-> put[p].blobID,
                     AltOutputID |-> AltOutputFor(put[p].req.output, put[p].req.content),
                     AccessTime |-> now]
  <2>1. actions' = InsertOrIgnore(actions, row) /\ UNCHANGED <<blobs, lastBlobID>>
    BY <1>4 DEF PutInsertAction
  <2>2. KeysUnique'
    BY <2>1, InsertKeepsKeys DEF TablesInv, KeysUnique
  <2>3. \E b \in blobs : b.BlobID = row.BlobID
    BY <1>4 DEF PutInsertAction, TablesInv, BlobKept
  <2>4. NoMissingBlobRows'
    BY <2>1, <2>3 DEF InsertOrIgnore, TablesInv, NoMissingBlobRows
  <2>5. put'[p].pc # "insert" /\ \A q \in Putters \ {p} : put'[q] = put[q]
    BY <1>P, <1>4 DEF PutInsertAction, NotPutting
  <2>6. writeMu = p
    BY <1>4 DEF PutInsertAction, TablesInv, LockHeld
  <2>7. LockHeld' /\ BlobKept'
    BY <1>4, <2>5, <2>6, ProcessesAssumption
       DEF PutInsertAction, Releases, TablesInv, LockHeld, BlobKept, Deleting
  <2> QED
    BY <1>T, <2>2, <2>4, <2>7 DEF TablesInv
<1>5. ASSUME NEW p \in Putters, PutFails(p) PROVE TablesInv'
  <2>1. UNCHANGED <<blobs, actions, lastBlobID, cleanPC>>
    BY <1>5 DEF PutFails
  <2>2. put'[p].pc # "insert" /\ \A q \in Putters \ {p} : put'[q] = put[q]
    BY <1>P, <1>5 DEF PutFails, NotPutting
  <2>3. LockHeld' /\ BlobKept'
    BY <1>5, <2>1, <2>2, ProcessesAssumption
       DEF PutFails, Releases, TablesInv, LockHeld, BlobKept, Deleting
  <2> QED
    BY <1>T, <2>1, <2>3 DEF TablesInv, KeysUnique, NoMissingBlobRows
<1>6. ASSUME NEW g \in Getters, NEW id \in ActionIDs, GetLookup(g, id) PROVE TablesInv'
  BY <1>T, <1>6, TablesUntouched DEF GetLookup, Deleting
<1>7. ASSUME NEW g \in Getters, GetBump(g) \/ GetOpen(g) PROVE TablesInv'
  BY <1>T, <1>7, TablesUntouched DEF GetBump, GetOpen, Deleting
<1>8. CASE TimerFlush
  BY <1>T, <1>8, FlushKeepsTables DEF TimerFlush, Deleting
<1>9. CASE CleanWake
  BY <1>T, <1>9, TablesUntouched DEF CleanWake, Deleting
<1>10. CASE CleanFlush
  <2>1. ~Deleting /\ ~Deleting' /\ UNCHANGED <<blobs, lastBlobID, writeMu, put>>
    BY <1>10 DEF CleanFlush, Deleting
  <2>2. CASE FlushAccessTimes
    BY <1>T, <2>1, <2>2, FlushKeepsTables
  <2>3. CASE UNCHANGED actions
    BY <1>T, <2>1, <2>3, TablesUntouched
  <2> QED
    BY <1>10, <2>2, <2>3 DEF CleanFlush
<1>11. CASE CleanStats
  <2>1. ~Deleting /\ ~Deleting'
    BY <1>11 DEF CleanStats, GoesOnWithSize, PassEnds, Deleting
  <2> QED
    BY <1>T, <1>11, <2>1, TablesUntouched DEF CleanStats
<1>12. CASE CleanAge \/ CleanSize \/ CleanQueryFails
  BY <1>T, <1>12, TablesUntouched DEF CleanAge, CleanSize, CleanQueryFails, PassFails, Deleting
<1>13. CASE DeleteBegin
  <2>1. UNCHANGED <<blobs, actions, lastBlobID, put>> /\ Deleting'
    BY <1>13 DEF DeleteBegin, Deleting
  <2>2. LockHeld'
    BY <1>13, <2>1, ProcessesAssumption DEF DeleteBegin, Takes, TablesInv, LockHeld
  <2> QED
    BY <1>T, <2>1, <2>2 DEF TablesInv, KeysUnique, BlobKept, NoMissingBlobRows
<1>14. ASSUME NEW id \in left, DeleteRemove(id) PROVE TablesInv'
  BY <1>T, <1>14, TablesUntouched DEF DeleteRemove, Deleting
<1>15. CASE DeleteCommit
  <2>1. blobs' = {b \in blobs : b.BlobID \notin batch}
        /\ actions' = {a \in actions : a.BlobID \notin batch}
        /\ UNCHANGED <<lastBlobID, put>> /\ writeMu' = Nobody
    BY <1>15 DEF DeleteCommit, Releases
  <2>2. KeysUnique' /\ NoMissingBlobRows'
    BY <2>1 DEF TablesInv, KeysUnique, NoMissingBlobRows
  <2>3. writeMu = Cleaner
    BY <1>15 DEF DeleteCommit, TablesInv, LockHeld, Deleting
  <2>4. \A p \in Putters : put[p].pc # "insert"
    BY <2>3, ProcessesAssumption DEF TablesInv, LockHeld
  <2>5. ~Deleting'
    BY <1>15 DEF DeleteCommit, AfterDelete, GoesOnWithSize, PassEnds, Deleting
  <2>6. LockHeld' /\ BlobKept'
    BY <2>1, <2>4, <2>5, ProcessesAssumption DEF LockHeld, BlobKept
  <2> QED
    BY <1>T, <2>2, <2>6 DEF TablesInv
<1>16. CASE DeleteFails
  <2>1. writeMu = Cleaner /\ UNCHANGED <<blobs, actions, lastBlobID, put>>
        /\ writeMu' = Nobody /\ ~Deleting'
    BY <1>16 DEF DeleteFails, PassFails, Releases, TablesInv, LockHeld, Deleting
  <2>2. \A p \in Putters : put[p].pc # "insert"
    BY <2>1, ProcessesAssumption DEF TablesInv, LockHeld
  <2>3. LockHeld' /\ BlobKept'
    BY <2>1, <2>2, ProcessesAssumption DEF LockHeld, BlobKept
  <2> QED
    BY <1>T, <2>1, <2>3 DEF TablesInv, KeysUnique, NoMissingBlobRows
<1>17. CASE Tick \/ RemoveByHand
  BY <1>T, <1>17, TablesUntouched DEF Tick, RemoveByHand, Deleting
<1>18. CASE Crash
  <2>1. UNCHANGED <<blobs, actions, lastBlobID>> /\ writeMu' = Nobody /\ ~Deleting'
        /\ \A p \in Putters : put'[p].pc # "insert"
    BY <1>18 DEF Crash, NotPutting, Deleting
  <2> QED
    BY <1>T, <2>1, ProcessesAssumption
       DEF TablesInv, KeysUnique, LockHeld, BlobKept, NoMissingBlobRows
<1>19. CASE UNCHANGED vars
  BY <1>T, <1>19, TablesUntouched DEF vars, Deleting
<1> QED
  BY <1>1, <1>2, <1>3, <1>4, <1>5, <1>6, <1>7, <1>8, <1>9, <1>10, <1>11, <1>12, <1>13,
     <1>14, <1>15, <1>16, <1>17, <1>18, <1>19 DEF Next, PutStep, CleanStep

LEMMA TablesConsistent == Spec => []TablesInv
BY InitTables, NextTables, PTL DEF Spec

(* An action row always has its blob row, whatever fails or crashes: the   *)
(* MissingBlobRows of usageStats is zero.                                  *)
THEOREM NoActionDangles == Spec => []NoMissingBlobRows
<1>1. TablesInv => NoMissingBlobRows
  BY DEF TablesInv
<1> QED
  BY <1>1, TablesConsistent, PTL
=============================================================================
