--------------------------- MODULE GocachedTables ---------------------------
(***************************************************************************)
(* The data of gocached, the storage server: the rows of its two SQLite    *)
(* tables, the files of its data directory, and the SQL statements as      *)
(* operators on sets of rows.  Nothing here has state.                     *)
(*                                                                         *)
(* A content stands for a request body and for its SHA-256: two bodies     *)
(* have one hash exactly when they are equal.  The namespace of a row is   *)
(* left out (the code writes 0 everywhere), and so are CreateTime, which   *)
(* is never read, and the columns that a content determines                *)
(* (UncompressedSize, SmallData).                                          *)
(***************************************************************************)
EXTENDS Integers, FiniteSets, FiniteSetsExt

CONSTANTS ActionIDs,        \* action keys
          Contents,         \* object bodies, each standing for its hash too
          OutputIDs,        \* output IDs a client may name
          Size,             \* [Contents -> Nat], length of a body
          LZ4Size,          \* [Contents -> Nat], length of its lz4 frame
          SmallObjectSize,  \* 1 << 10 in the code
          NoAltOutput       \* the empty AltOutputID

ASSUME OutputsAssumption == Contents \subseteq OutputIDs /\ NoAltOutput \notin OutputIDs
ASSUME SizesAssumption ==
    /\ Size \in [Contents -> Nat] /\ LZ4Size \in [Contents -> Nat]
    /\ SmallObjectSize \in Nat

(* Where PUT stores a body: inline in its Blobs row, or in a file that is  *)
(* an lz4 frame from two bytes above the inline limit on.                  *)
Inline(c)     == Size[c] <= SmallObjectSize
Compressed(c) == Size[c] >= SmallObjectSize + 2
StoredSizeOf(c) == IF Compressed(c) THEN LZ4Size[c] ELSE Size[c]

(* A file under dir/xx/: the plain name is the hash, the other one has     *)
(* the suffix ".lz4".                                                      *)
File    == [sha : Contents, lz4 : BOOLEAN]
OnlyLZ4FileOf(c) == [sha : {c}, lz4 : {TRUE}]  \* the name deleteBlobs removes first
FilesOf(c) == [sha : {c}, lz4 : BOOLEAN]
FileWrittenFor(c) == [sha |-> c, lz4 |-> Compressed(c)]

BlobRow   == [BlobID : Nat, SHA256 : Contents, StoredSize : Nat]
ActionRow == [ActionID : ActionIDs, BlobID : Nat,
              AltOutputID : OutputIDs \cup {NoAltOutput}, AccessTime : Nat]

(* The file GET opens for a row: it takes a row for lz4 when the stored    *)
(* size differs from the uncompressed one.                                 *)
FileOpenedFor(b) == [sha |-> b.SHA256, lz4 |-> b.StoredSize # Size[b.SHA256]]

-----------------------------------------------------------------------------
(* Statements of PUT. *)

(* INSERT INTO Blobs ... ON CONFLICT(SHA256) DO UPDATE: an existing row    *)
(* keeps its BlobID and its StoredSize.                                    *)
InsertBlob(blobs, c, fresh) ==  \* mutant: no unique index on SHA256
    blobs \cup {[BlobID |-> fresh, SHA256 |-> c, StoredSize |-> StoredSizeOf(c)]}
UpsertBlob(blobs, c, fresh) ==
    IF \E b \in blobs : b.SHA256 = c
    THEN blobs
    ELSE blobs \cup {[BlobID |-> fresh, SHA256 |-> c, StoredSize |-> StoredSizeOf(c)]}

(* INSERT OR IGNORE INTO Actions. *)
InsertOrReplace(actions, row) ==  \* mutant
    {a \in actions : a.ActionID # row.ActionID} \cup {row}
InsertOrIgnore(actions, row) ==
    IF \E a \in actions : a.ActionID = row.ActionID THEN actions ELSE actions \cup {row}

(* A request names an output ID; it is kept only when it is not the hash.  *)
AltOutputFor(output, c) == IF output = c THEN NoAltOutput ELSE output
OutputOf(a, b) == IF a.AltOutputID = NoAltOutput THEN b.SHA256 ELSE a.AltOutputID

-----------------------------------------------------------------------------
(* Statements of GET and of the access-time flush. *)

(* SELECT ... FROM Actions a, Blobs b WHERE a.BlobID = b.BlobID. *)
Joined(actions, blobs) ==
    {ab \in actions \X blobs : ab[1].BlobID = ab[2].BlobID}

(* UPDATE Actions SET AccessTime for every key of the pending map. *)
WithAccessTimes(actions, dirty) ==
    {IF a.ActionID \in DOMAIN dirty THEN [a EXCEPT !.AccessTime = dirty[a.ActionID]] ELSE a :
        a \in actions}

-----------------------------------------------------------------------------
(* Statements of the cleaner. *)

AccessTimes(actions, id) == {a.AccessTime : a \in {r \in actions : r.BlobID = id}}
LastAccess(actions, id)  == Max(AccessTimes(actions, id))
BytesOf(blobs, ids) ==
    MapThenSumSet(LAMBDA b : b.StoredSize, {b \in blobs : b.BlobID \in ids})

(* The size usageStats reports counts a blob once per action naming it. *)
UsedBytes(actions, blobs) ==
    MapThenSumSet(LAMBDA ab : ab[2].StoredSize, Joined(actions, blobs))

(* Blobs LEFT JOIN Actions ... HAVING MAX(AccessTime) <= cutoff.  The MAX  *)
(* over no rows is NULL, so a blob that no action names is not selected.   *)
EvictableBefore(actions, blobs, cutoff) ==  \* mutant: < cutoff
    {id \in {b.BlobID : b \in blobs} :
        AccessTimes(actions, id) # {} /\ LastAccess(actions, id) < cutoff}
EvictableByOneAction(actions, blobs, cutoff) ==  \* mutant: HAVING MIN(AccessTime)
    {id \in {b.BlobID : b \in blobs} : \E t \in AccessTimes(actions, id) : t <= cutoff}
Evictable(actions, blobs, cutoff) ==
    {id \in {b.BlobID : b \in blobs} :
        AccessTimes(actions, id) # {} /\ LastAccess(actions, id) <= cutoff}

(* S may be the first rows of the candidate list C in its ORDER BY, ties   *)
(* broken in any way.                                                      *)
AnyOf(actions, S, C) == TRUE  \* mutant: no ORDER BY
OldestOf(actions, S, C) ==
    \A x \in S, y \in C \ S : LastAccess(actions, x) <= LastAccess(actions, y)

(* ... ORDER BY MAX(AccessTime) LIMIT limit. *)
CleanCandidates(actions, blobs, cutoff, limit) ==
    LET C == Evictable(actions, blobs, cutoff)
        n == Min({limit, Cardinality(C)})
    IN  {S \in SUBSET C : Cardinality(S) = n /\ OldestOf(actions, S, C)}

(* The loop over the candidates of the size phase: it takes them in order  *)
(* until they make up toClean bytes, or takes them all.                    *)
SizeBatches(actions, blobs, toClean, candidates) ==
    {S \in SUBSET candidates :
        /\ OldestOf(actions, S, candidates)
        /\ \/ S = candidates
           \/ BytesOf(blobs, S) >= toClean
        /\ S # {} => \E z \in S :
              /\ OldestOf(actions, S \ {z}, S)
              /\ BytesOf(blobs, S \ {z}) < toClean}
=============================================================================
