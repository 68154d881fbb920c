------------------------------ MODULE Gocached ------------------------------
(***************************************************************************)
(* The storage server, gocached: its PUT and GET handlers, the flush of    *)
(* pending access times, and the cleaner that evicts old objects.          *)
(*                                                                         *)
(* Handlers run concurrently, each in its own goroutine; so do the cleaner *)
(* and the flush timer.  One action is one atomic effect of a handler: a   *)
(* rename or an unlink, a statement of SQLite (or the transaction it is    *)
(* in, at its commit), a section under srv.mu.  sqliteWriteMu, which is    *)
(* held across several of these, is a variable.                            *)
(*                                                                         *)
(* The rows of the tables and the files outlive a crash; the rest does not.*)
(***************************************************************************)
EXTENDS GocachedTables

CONSTANTS PutRequests,     \* the PUTs clients may send
          Legacy,          \* bodies a database migrated from v3 may hold in a plain file
          Putters, Getters,
          MaxAge, MaxSize, \* the server's options; 0 means no limit
          RelAtime,        \* relAtimeSeconds
          CandidateLimit,  \* the size phase's LIMIT, 10000 in the code
          Faults,          \* which of "crash", "io" and "hand" may happen
          MaxTime,         \* bound: the clock stops here
          MaxBlobID,       \* bound: BlobIDs handed out
          NoEntry,         \* no entry in the abstract cache
          Nobody, Cleaner  \* holders of sqliteWriteMu other than putters

ASSUME RequestsAssumption ==
    PutRequests \subseteq [action : ActionIDs, output : OutputIDs, content : Contents]
ASSUME LegacyAssumption == \A c \in Legacy : c \in Contents /\ ~Inline(c)
ASSUME LimitsAssumption ==
    /\ MaxAge \in Nat /\ MaxSize \in Nat /\ RelAtime \in Nat \ {0}
    /\ CandidateLimit \in Nat /\ MaxTime \in Nat /\ MaxBlobID \in Nat
ASSUME EntriesAssumption == NoEntry \notin [output : OutputIDs, content : Contents]
ASSUME FaultsAssumption == Faults \subseteq {"crash", "io", "hand"}
ASSUME ProcessesAssumption ==
    Nobody \notin Putters /\ Cleaner \notin Putters /\ Nobody # Cleaner

VARIABLES blobs, actions,  \* the rows of the tables
          lastBlobID,      \* Blobs' AUTOINCREMENT sequence
          disk,            \* the files of the data directory
          now,             \* srv.now()
          serving,         \* NewServer has returned
          accessDirty,     \* pending access times, by action
          writeMu,         \* who holds sqliteWriteMu
          put,             \* the PUT each putter has in flight
          get,             \* the GET each getter sent last
          cleanPC,         \* where the cleaner is
          usage,           \* its usageStats, less what it has since deleted
          batch,           \* the BlobIDs it is deleting
          left             \* those whose files it has not removed yet

tables     == <<blobs, actions, lastBlobID>>
cleanVars  == <<cleanPC, usage, batch, left>>
vars == <<blobs, actions, lastBlobID, disk, now, serving, accessDirty, writeMu,
          put, get, cleanPC, usage, batch, left>>

NotPutting == [pc |-> "idle"]
NotGetting == [status |-> "idle"]
NoUsage    == [Size |-> 0, TooOld |-> 0, Cleaned |-> FALSE]
NoneDirty  == [a \in {} |-> 0]

(* What one PUT left to a v3 server, which never compressed, and the       *)
(* migration to v4 kept: the stored size stands for the uncompressed one.  *)
MigratedFromV3(req) ==
    /\ req.content \in Legacy
    /\ blobs = {[BlobID |-> 1, SHA256 |-> req.content, StoredSize |-> Size[req.content]]}
    /\ actions = {[ActionID |-> req.action, BlobID |-> 1,
                   AltOutputID |-> AltOutputFor(req.output, req.content), AccessTime |-> 0]}
    /\ disk = {[sha |-> req.content, lz4 |-> FALSE]}
    /\ lastBlobID = 1

Init == /\ \/ blobs = {} /\ actions = {} /\ disk = {} /\ lastBlobID = 0
           \/ \E req \in PutRequests : MigratedFromV3(req)
        /\ now = 0 /\ serving = FALSE
        /\ accessDirty = NoneDirty
        /\ writeMu = Nobody
        /\ put = [p \in Putters |-> NotPutting]
        /\ get = [g \in Getters |-> NotGetting]
        /\ cleanPC = "flush" /\ usage = NoUsage /\ batch = {} /\ left = {}

(* sqliteWriteMu *)
TakesUnasked(p) == writeMu' = p  \* mutant
Takes(p)  == writeMu = Nobody /\ writeMu' = p
Keeps     == UNCHANGED writeMu   \* mutant
Releases  == writeMu' = Nobody

-----------------------------------------------------------------------------
(* PUT /action/output *)

InFlight == {p \in Putters : put[p].pc # "idle"}

PutStart(p) ==
    /\ serving /\ put[p].pc = "idle"
    /\ lastBlobID + Cardinality(InFlight) < MaxBlobID
    /\ \E r \in PutRequests :
          put' = [put EXCEPT ![p] =
                    [pc |-> IF Inline(r.content) THEN "lock" ELSE "upload", req |-> r]]
    /\ UNCHANGED <<tables, disk, now, serving, accessDirty, writeMu, get, cleanVars>>

(* The body is in its temporary file; the rename gives it its name.        *)
RenamedIfNew(c) ==  \* mutant: a body whose row is there is not written again
    IF \E b \in blobs : b.SHA256 = c THEN disk ELSE disk \cup {FileWrittenFor(c)}
Renamed(c) == disk \cup {FileWrittenFor(c)}

PutRename(p) ==
    /\ put[p].pc = "upload"
    /\ disk' = Renamed(put[p].req.content)
    /\ put' = [put EXCEPT ![p] = [pc |-> "lock", req |-> put[p].req]]
    /\ UNCHANGED <<tables, now, serving, accessDirty, writeMu, get, cleanVars>>

(* The body is short, or the client goes away; the temporary is removed.   *)
PutBodyFails(p) ==
    /\ put[p].pc = "upload"
    /\ put' = [put EXCEPT ![p] = NotPutting]
    /\ UNCHANGED <<tables, disk, now, serving, accessDirty, writeMu, get, cleanVars>>

PutUpsertBlob(p) ==
    /\ put[p].pc = "lock" /\ Takes(p)
    /\ LET c == put[p].req.content
       IN /\ blobs' = UpsertBlob(blobs, c, lastBlobID + 1)
          /\ lastBlobID' = IF blobs' = blobs THEN lastBlobID ELSE lastBlobID + 1
          /\ put' = [put EXCEPT ![p] =
                       [pc |-> "insert", req |-> put[p].req,
                        blobID |-> (CHOOSE b \in blobs' : b.SHA256 = c).BlobID]]
    /\ UNCHANGED <<actions, disk, now, serving, accessDirty, get, cleanVars>>

PutInsertAction(p) ==
    /\ put[p].pc = "insert"
    /\ LET r == put[p].req
       IN  actions' = InsertOrIgnore(actions,
                          [ActionID |-> r.action, BlobID |-> put[p].blobID,
                           AltOutputID |-> AltOutputFor(r.output, r.content),
                           AccessTime |-> now])
    /\ put' = [put EXCEPT ![p] = NotPutting]
    /\ Releases
    /\ UNCHANGED <<blobs, lastBlobID, disk, now, serving, accessDirty, get, cleanVars>>

(* Either insert may fail; what came before it stays.                      *)
PutFails(p) ==
    /\ "io" \in Faults
    /\ \/ put[p].pc = "lock" /\ writeMu = Nobody /\ UNCHANGED writeMu
       \/ put[p].pc = "insert" /\ Releases
    /\ put' = [put EXCEPT ![p] = NotPutting]
    /\ UNCHANGED <<tables, disk, now, serving, accessDirty, get, cleanVars>>

-----------------------------------------------------------------------------
(* GET /action *)

Entry(a, b) == [output |-> OutputOf(a, b), content |-> b.SHA256]
Hit(a, e)   == [status |-> "hit", action |-> a, entry |-> e]
Miss(a)     == [status |-> "miss", action |-> a]
Failed(a)   == [status |-> "error", action |-> a]

(* The row is read, and with it where the body is and when it was last    *)
(* recorded as used.                                                       *)
GetLookup(g, id) ==
    /\ serving /\ get[g].status \notin {"found", "open"}
    /\ LET found == {ab \in Joined(actions, blobs) : ab[1].ActionID = id}
       IN \/ /\ found = {}
             /\ get' = [get EXCEPT ![g] = Miss(id)]
          \/ \E ab \in found :
             get' = [get EXCEPT ![g] =
                       [status |-> "found", action |-> id, entry |-> Entry(ab[1], ab[2]),
                        file |-> FileOpenedFor(ab[2]), time |-> ab[1].AccessTime]]
          \/ /\ "io" \in Faults
             /\ get' = [get EXCEPT ![g] = Failed(id)]
    /\ UNCHANGED <<tables, disk, now, serving, accessDirty, writeMu, put, cleanVars>>

(* maybeBumpAccessTime and enqueueAccessTimeBump: when the time read from  *)
(* the row is a day old by now, this one is noted, unless one is already.  *)
AtMostADayOld(time) == time >= now - RelAtime  \* mutant
Recent(time) == time > now - RelAtime

BumpAccessTime(id, time) ==
    accessDirty' =
        IF Recent(time) \/ id \in DOMAIN accessDirty
        THEN accessDirty
        ELSE [a \in DOMAIN accessDirty \cup {id} |-> IF a = id THEN now ELSE accessDirty[a]]

GetBump(g) ==
    /\ get[g].status = "found"
    /\ LET id == get[g].action
           e  == get[g].entry
       IN /\ BumpAccessTime(id, get[g].time)
          /\ get' = [get EXCEPT ![g] =
                       IF Inline(e.content) THEN Hit(id, e)
                       ELSE [status |-> "open", action |-> id, entry |-> e,
                             file |-> get[g].file]]
    /\ UNCHANGED <<tables, disk, now, serving, writeMu, put, cleanVars>>

(* getObjectFromDiskOrPeer.  An open file can be read after its unlink.    *)
GetOpen(g) ==
    /\ get[g].status = "open"
    /\ LET id == get[g].action
       IN \/ /\ get[g].file \in disk
             /\ get' = [get EXCEPT ![g] = Hit(id, get[g].entry)]
          \/ /\ get[g].file \notin disk
             /\ get' = [get EXCEPT ![g] = Miss(id)]
          \/ /\ "io" \in Faults
             /\ get' = [get EXCEPT ![g] = Failed(id)]
    /\ UNCHANGED <<tables, disk, now, serving, accessDirty, writeMu, put, cleanVars>>

-----------------------------------------------------------------------------
(* flushAccessTimeBumps, by its timer or on behalf of usageStats.  When it *)
(* fails the map stays, and a new timer is set.                            *)

FlushAccessTimes ==
    /\ writeMu = Nobody
    /\ actions' = WithAccessTimes(actions, accessDirty)
    /\ accessDirty' = NoneDirty

TimerFlush ==
    /\ DOMAIN accessDirty # {}
    /\ FlushAccessTimes
    /\ UNCHANGED <<blobs, lastBlobID, disk, now, serving, writeMu, put, get, cleanVars>>

-----------------------------------------------------------------------------
(* The cleaner: runCleanLoop, and the pass start makes before it serves. *)

CleanWake ==
    /\ cleanPC = "sleep"
    /\ cleanPC' = "flush"
    /\ UNCHANGED <<tables, disk, now, serving, accessDirty, writeMu, put, get,
                   usage, batch, left>>

(* usageStats runs before a pass, and after one that deleted something.    *)
CleanFlush ==
    /\ cleanPC \in {"flush", "refresh"}
    /\ \/ DOMAIN accessDirty = {} /\ UNCHANGED <<actions, accessDirty>>
       \/ DOMAIN accessDirty # {} /\ FlushAccessTimes
       \/ /\ "io" \in Faults /\ writeMu = Nobody
          /\ UNCHANGED <<actions, accessDirty>>
    /\ cleanPC' = IF cleanPC = "flush" THEN "stats" ELSE "sleep"
    /\ UNCHANGED <<blobs, lastBlobID, disk, now, serving, writeMu, put, get,
                   usage, batch, left>>

(* A pass that fails in NewServer ends the process, and it is started      *)
(* again; one that fails in the loop waits for the next.                   *)
PassFails == cleanPC' = IF serving THEN "sleep" ELSE "flush"
PassEnds(cleaned) == /\ cleanPC' = IF serving /\ cleaned THEN "refresh" ELSE "sleep"
                     /\ serving' = TRUE
                     /\ usage' = NoUsage

(* for srv.maxSize > 0 && all.Size > srv.maxSize *)
GoesOnWithSize(us) ==
    IF MaxSize > 0 /\ us.Size > MaxSize
    THEN cleanPC' = "size" /\ usage' = us /\ UNCHANGED serving
    ELSE PassEnds(us.Cleaned)

OlderThanMaxAge(row) == now - row.AccessTime > MaxAge  \* mutant
TooOld(row) == now - row.AccessTime >= MaxAge

CleanStats ==
    /\ cleanPC = "stats"
    /\ LET old == {ab \in Joined(actions, blobs) : TooOld(ab[1])}
           us  == [Size |-> UsedBytes(actions, blobs), TooOld |-> Cardinality(old),
                   Cleaned |-> FALSE]
       IN  IF MaxAge > 0 /\ us.TooOld > 0
           THEN cleanPC' = "age" /\ usage' = us /\ UNCHANGED serving
           ELSE GoesOnWithSize(us)
    /\ UNCHANGED <<tables, disk, now, accessDirty, writeMu, put, get, batch, left>>

CleanAge ==
    /\ cleanPC = "age"
    /\ batch' \in CleanCandidates(actions, blobs, now - MaxAge, usage.TooOld + 1)
    /\ cleanPC' = "lockAge"
    /\ UNCHANGED <<tables, disk, now, serving, accessDirty, writeMu, put, get, usage, left>>

CleanSize ==
    /\ cleanPC = "size"
    /\ \E candidates \in CleanCandidates(actions, blobs, now, CandidateLimit) :
          batch' \in SizeBatches(actions, blobs, usage.Size - MaxSize, candidates)
    /\ cleanPC' = "lockSize"
    /\ UNCHANGED <<tables, disk, now, serving, accessDirty, writeMu, put, get, usage, left>>

(* deleteBlobs: one transaction.  Nobody else sees its deletes before the  *)
(* commit, but everybody sees the files go.                                *)
DeleteBegin ==
    /\ cleanPC \in {"lockAge", "lockSize"} /\ Takes(Cleaner)
    /\ left' = batch
    /\ cleanPC' = IF cleanPC = "lockAge" THEN "deleteAge" ELSE "deleteSize"
    /\ UNCHANGED <<tables, disk, now, serving, accessDirty, put, get, usage, batch>>

DeleteRemove(id) ==
    /\ cleanPC \in {"deleteAge", "deleteSize"} /\ id \in left
    /\ disk' = disk \ UNION {FilesOf(b.SHA256) : b \in {x \in blobs : x.BlobID = id}}
    /\ left' = left \ {id}
    /\ UNCHANGED <<tables, now, serving, accessDirty, writeMu, put, get,
                   cleanPC, usage, batch>>

FilesRemovedSoon == TRUE  \* mutant
FilesRemoved == left = {}

(* The size phase never comes back for a second batch: either this one     *)
(* made up the excess, or it held every candidate.                         *)
AfterDeleteAgain(us) == GoesOnWithSize(us)  \* mutant
AfterDelete(us) == IF cleanPC = "deleteAge" THEN GoesOnWithSize(us) ELSE PassEnds(us.Cleaned)

DeleteCommit ==
    /\ cleanPC \in {"deleteAge", "deleteSize"} /\ FilesRemoved
    /\ blobs' = {b \in blobs : b.BlobID \notin batch}
    /\ actions' = {a \in actions : a.BlobID \notin batch}
    /\ AfterDelete([usage EXCEPT !.Size = @ - BytesOf(blobs, batch),
                                 !.Cleaned = @ \/ batch # {}])
    /\ Releases
    /\ batch' = {}
    /\ UNCHANGED <<lastBlobID, disk, now, accessDirty, put, get, left>>

(* An unlink or a statement fails: the transaction is rolled back, but the *)
(* files removed so far are gone, and of two names perhaps only the first. *)
DeleteFails ==
    /\ "io" \in Faults
    /\ cleanPC \in {"deleteAge", "deleteSize"}
    /\ PassFails
    /\ Releases
    /\ \/ UNCHANGED disk
       \/ \E b \in blobs : b.BlobID \in left /\ disk' = disk \ OnlyLZ4FileOf(b.SHA256)
    /\ usage' = NoUsage /\ batch' = {} /\ left' = {}
    /\ UNCHANGED <<tables, now, serving, accessDirty, put, get>>

(* A query of usageStats or of cleanCandidates fails.                      *)
CleanQueryFails ==
    /\ "io" \in Faults
    /\ cleanPC \in {"stats", "age", "size"}
    /\ PassFails
    /\ usage' = NoUsage
    /\ UNCHANGED <<tables, disk, now, serving, accessDirty, writeMu, put, get, batch, left>>

-----------------------------------------------------------------------------
(* What surrounds the server. *)

Tick ==
    /\ now < MaxTime
    /\ now' = now + 1
    /\ UNCHANGED <<tables, disk, serving, accessDirty, writeMu, put, get, cleanVars>>

(* The process dies and is started again.  SQLite keeps committed          *)
(* transactions and drops the others; files stay.                          *)
Crash ==
    /\ "crash" \in Faults
    /\ serving' = FALSE
    /\ accessDirty' = NoneDirty
    /\ writeMu' = Nobody
    /\ put' = [p \in Putters |-> NotPutting]
    /\ get' = [g \in Getters |-> NotGetting]
    /\ cleanPC' = "flush" /\ usage' = NoUsage /\ batch' = {} /\ left' = {}
    /\ UNCHANGED <<tables, disk, now>>

(* "maybe somebody delete it by hand from the filesystem" *)
RemoveByHand ==
    /\ "hand" \in Faults
    /\ \E f \in disk : disk' = disk \ {f}
    /\ UNCHANGED <<tables, now, serving, accessDirty, writeMu, put, get, cleanVars>>

-----------------------------------------------------------------------------
PutStep(p) == \/ PutRename(p) \/ PutBodyFails(p) \/ PutUpsertBlob(p)
              \/ PutInsertAction(p) \/ PutFails(p)
CleanStep  == \/ CleanFlush \/ CleanStats \/ CleanAge \/ CleanSize
              \/ DeleteBegin \/ (\E id \in left : DeleteRemove(id)) \/ DeleteCommit
              \/ DeleteFails \/ CleanQueryFails

Next == \/ \E p \in Putters : PutStart(p) \/ PutStep(p)
        \/ \E g \in Getters : \/ \E id \in ActionIDs : GetLookup(g, id)
                             \/ GetBump(g) \/ GetOpen(g)
        \/ TimerFlush
        \/ CleanWake \/ CleanStep
        \/ Tick \/ Crash \/ RemoveByHand

Spec == Init /\ [][Next]_vars

(***************************************************************************)
(* Fairness.  A goroutine that can run is run, and sqliteWriteMu is handed *)
(* over: sync.Mutex switches to FIFO when a waiter starves, hence SF for   *)
(* the steps that take it.  The clean loop's and the flush's timers fire.  *)
(* Nothing is assumed of clients: an upload may stall for ever, and no     *)
(* request need ever come.                                                 *)
(***************************************************************************)
Fairness ==
    /\ \A p \in Putters : SF_vars(PutUpsertBlob(p)) /\ WF_vars(PutInsertAction(p))
    /\ \A g \in Getters : WF_vars(GetBump(g)) /\ WF_vars(GetOpen(g))
    /\ SF_vars(TimerFlush)
    /\ WF_vars(CleanWake) /\ SF_vars(CleanFlush)
    /\ WF_vars(CleanStats) /\ WF_vars(CleanAge) /\ WF_vars(CleanSize)
    /\ SF_vars(DeleteBegin) /\ WF_vars(\E id \in left : DeleteRemove(id))
    /\ WF_vars(DeleteCommit)

FairSpec == Spec /\ Fairness

-----------------------------------------------------------------------------
(* Properties. *)

PutState == [pc : {"idle"}]
            \cup [pc : {"upload", "lock"}, req : PutRequests]
            \cup [pc : {"insert"}, req : PutRequests, blobID : Nat]
EntryType == [output : OutputIDs, content : Contents]
GetState == [status : {"idle"}]
            \cup [status : {"miss", "error"}, action : ActionIDs]
            \cup [status : {"hit"}, action : ActionIDs, entry : EntryType]
            \cup [status : {"found"}, action : ActionIDs, entry : EntryType, file : File,
                  time : Nat]
            \cup [status : {"open"}, action : ActionIDs, entry : EntryType, file : File]

(* The type of each variable.  usage is left out: it is only ever compared. *)
TypeOK ==
    /\ blobs \subseteq BlobRow /\ actions \subseteq ActionRow
    /\ lastBlobID \in Nat
    /\ disk \subseteq File
    /\ now \in Nat /\ serving \in BOOLEAN
    /\ DOMAIN accessDirty \subseteq ActionIDs
    /\ \A a \in DOMAIN accessDirty : accessDirty[a] \in Nat
    /\ writeMu \in Putters \cup {Nobody, Cleaner}
    /\ put \in [Putters -> PutState]
    /\ get \in [Getters -> GetState]
    /\ cleanPC \in {"sleep", "flush", "stats", "age", "lockAge", "deleteAge",
                    "size", "lockSize", "deleteSize", "refresh"}
    /\ batch \subseteq Nat /\ left \subseteq batch
    /\ cleanPC \notin {"deleteAge", "deleteSize"} => left = {}

(* An action row names a blob row: "MissingBlobRows ... should always be   *)
(* zero in a healthy system".  The cleaner must not delete a blob between  *)
(* the two inserts of a PUT that was given its BlobID.                     *)
NoMissingBlobRows == \A a \in actions : \E b \in blobs : b.BlobID = a.BlobID

(* Primary keys and unique indexes.                                        *)
KeysUnique ==
    /\ \A b, c \in blobs : b.BlobID = c.BlobID \/ b.SHA256 = c.SHA256 => b = c
    /\ \A b \in blobs : b.BlobID <= lastBlobID
    /\ \A a, b \in actions : a.ActionID = b.ActionID => a = b

(* Who is between the statements of a transaction holds sqliteWriteMu.     *)
Deleting == cleanPC \in {"deleteAge", "deleteSize"}
LockHeld ==
    /\ \A p \in Putters : put[p].pc = "insert" <=> writeMu = p
    /\ Deleting <=> writeMu = Cleaner

(* The row whose BlobID a PUT was given stays until the PUT has used it.   *)
BlobKept ==
    \A p \in Putters : put[p].pc = "insert" =>
        \E b \in blobs : b.BlobID = put[p].blobID /\ b.SHA256 = put[p].req.content

(* The inductive invariant behind NoMissingBlobRows.                       *)
TablesInv == TypeOK /\ KeysUnique /\ LockHeld /\ BlobKept /\ NoMissingBlobRows

(* Every file of the data directory belongs to a blob row, or to a PUT     *)
(* that renamed it and has yet to insert the row: without faults no file   *)
(* is left where the cleaner will not find it, whichever of the two names  *)
(* it has.                                                                 *)
EveryFileAccounted ==
    \A f \in disk :
        \/ \E b \in blobs : b.SHA256 = f.sha
        \/ \E p \in Putters : put[p].pc = "lock" /\ put[p].req.content = f.sha

(* What makes it inductive: a file the cleaner has removed stays removed,  *)
(* but for a PUT that wrote it again and waits for the lock.               *)
RemovedStayRemoved ==
    Deleting => \A b \in blobs : b.BlobID \in batch \ left =>
        \A f \in disk : f.sha = b.SHA256 =>
            \E p \in Putters : put[p].pc = "lock" /\ put[p].req.content = f.sha

(* A hit on the row is answered from the row or from a file that exists.   *)
Servable(b) == Inline(b.SHA256) \/ FileOpenedFor(b) \in disk

(* What GET finds in the tables it can serve, but for what the cleaner is  *)
(* deleting: the file is in place before its row.  It holds until the      *)
(* cleaner overtakes a PUT, fails, or is cut short; see GocachedFiles.     *)
RowsServable ==
    \A ab \in Joined(actions, blobs) : ab[2].BlobID \in batch \/ Servable(ab[2])

(* The cleaner takes away only the files of the blobs it deletes: a blob   *)
(* outside its batch can be served after any step if it could before.      *)
OnlyBatchFilesGo ==
    [][\A b \in blobs : b.BlobID \notin batch /\ Servable(b) =>
            \/ Inline(b.SHA256)
            \/ FileOpenedFor(b) \in disk']_vars

(* A PUT whose body has arrived is answered, however often the cleaner and *)
(* the flush take the lock.                                                *)
PutsEnd == \A p \in Putters : put[p].pc = "lock" ~> put[p].pc = "idle"

(* A cleaning pass ends, so NewServer returns and the loop comes round.    *)
PassesEnd == cleanPC # "sleep" ~> cleanPC = "sleep"

Quiet == InFlight = {}
ReferencedBytes == BytesOf(blobs, {a.BlobID : a \in actions})
StoredBytes     == BytesOf(blobs, {b.BlobID : b \in blobs})

(* When PUTs stop, the blobs that actions name come to fit in MaxSize.     *)
SizeLimitReached ==
    MaxSize > 0 => (<>[]Quiet => <>[](ReferencedBytes <= MaxSize))

(* When the clock stops, no blob stays whose last recorded use is MaxAge   *)
(* ago, unless it is orphaned.                                             *)
AgeLimitReached ==
    MaxAge > 0 => (<>[]Quiet =>
        <>[](Evictable(actions, blobs, now - MaxAge) = {}))

(* "WithMaxSize sets the maximum size of the cache in bytes": what is      *)
(* stored, named by an action or not, comes to fit in it.                  *)
StoredWithinLimit ==
    MaxSize > 0 => (<>[]Quiet => <>[](StoredBytes <= MaxSize))

(* What clients see of the server is the cache of ActionCache: the tables  *)
(* give its map, and a GET its reader.                                     *)
Mapped(id) == LET found == {ab \in Joined(actions, blobs) : ab[1].ActionID = id}
              IN  IF found = {} THEN NoEntry
                  ELSE LET ab == CHOOSE x \in found : TRUE IN Entry(ab[1], ab[2])
GetSeen(g) == IF get[g].status \in {"found", "open"}
              THEN [status |-> "open", action |-> get[g].action, entry |-> get[g].entry]
              ELSE get[g]

Abstract == INSTANCE ActionCache WITH
    Entries <- EntryType, Readers <- Getters,
    Offers  <- {<<r.action, [output |-> r.output, content |-> r.content]>> : r \in PutRequests},
    cache   <- [id \in ActionIDs |-> Mapped(id)],
    reader  <- [g \in Getters |-> GetSeen(g)]

(* gocached implements ActionCache: a hit is the entry some PUT gave for   *)
(* that action, as the tables held it when the GET looked it up; a stored  *)
(* entry is never replaced by another.                                     *)
ImplementsActionCache == Abstract!Spec
=============================================================================
