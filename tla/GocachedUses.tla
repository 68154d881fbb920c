---------------------------- MODULE GocachedUses ----------------------------
(***************************************************************************)
(* Gocached, with the uses of its actions beside it.  The rows hold access *)
(* times, which are not the times of the uses: a use within a day of the   *)
(* recorded one that its GET read is not recorded, a recorded one waits in *)
(* accessDirty until a flush, the flush writes it over whatever the row    *)
(* holds by then, and a crash forgets it.  The cleaner goes by the rows.   *)
(*                                                                         *)
(* The variables here are history variables: each action is one of         *)
(* Gocached, together with an assignment to the four of them, and they are *)
(* read by no guard.                                                       *)
(***************************************************************************)
EXTENDS Gocached

VARIABLES lastUse,    \* when a GET that found it last came to note it, or it was stored
          forgotten,  \* actions whose last use a crash took from accessDirty
          lag,        \* the longest that a time has waited in accessDirty
          fresh       \* actions used since the last pass's flush, or not written by it

watched  == <<lastUse, forgotten, lag, fresh>>
usesVars == <<vars, watched>>

UsesInit == /\ Init
            /\ lastUse = [id \in ActionIDs |-> 0]
            /\ forgotten = {} /\ lag = 0 /\ fresh = {}

Used(id) == /\ lastUse' = [lastUse EXCEPT ![id] = now]
            /\ forgotten' = forgotten \ {id}
            /\ fresh' = fresh \cup {id}
            /\ UNCHANGED lag

Finds(g) == GetBump(g) /\ Used(get[g].action)

Stores(p) ==
    /\ PutInsertAction(p)
    /\ IF actions' # actions THEN Used(put[p].req.action) ELSE UNCHANGED watched

PassFlushes ==
    /\ CleanFlush
    /\ fresh' = IF cleanPC = "flush" THEN DOMAIN accessDirty' ELSE fresh
    /\ UNCHANGED <<lastUse, forgotten, lag>>

TimePasses ==
    /\ Tick
    /\ lag' = IF \E id \in DOMAIN accessDirty : now' - accessDirty[id] > lag
              THEN lag + 1 ELSE lag
    /\ UNCHANGED <<lastUse, forgotten, fresh>>

Forgets ==
    /\ Crash
    /\ forgotten' = forgotten \cup DOMAIN accessDirty
    /\ fresh' = {}
    /\ UNCHANGED <<lastUse, lag>>

UsesNothing ==
    /\ \/ \E p \in Putters : PutStart(p) \/ PutRename(p) \/ PutBodyFails(p)
                             \/ PutUpsertBlob(p) \/ PutFails(p)
       \/ \E g \in Getters : (\E id \in ActionIDs : GetLookup(g, id)) \/ GetOpen(g)
       \/ TimerFlush
       \/ CleanWake \/ CleanStats \/ CleanAge \/ CleanSize
       \/ DeleteBegin \/ (\E id \in left : DeleteRemove(id)) \/ DeleteCommit
       \/ DeleteFails \/ CleanQueryFails
       \/ RemoveByHand
    /\ UNCHANGED watched

UsesNext == \/ \E g \in Getters : Finds(g)
            \/ \E p \in Putters : Stores(p)
            \/ PassFlushes \/ TimePasses \/ Forgets \/ UsesNothing

UsesSpec == UsesInit /\ [][UsesNext]_usesVars

-----------------------------------------------------------------------------
(* Properties. *)

(* How far a row's access time may be behind: a use less than a day after  *)
(* the time its GET read is not recorded, and what the GET read is itself  *)
(* replaced when a flush writes a time that waited.                        *)
Slack == RelAtime - 1 + lag

Pending(id) == id \in DOMAIN accessDirty

(* A row's access time is never later than the last use of its action, and *)
(* unless a newer one is pending, or died with a process, at most Slack    *)
(* earlier: also when the row was deleted and put again while a time of    *)
(* the old one waited, which the flush then writes over the newer.         *)
AccessTimesTrackUses ==
    \A a \in actions :
        LET id == a.ActionID
        IN  /\ a.AccessTime <= lastUse[id]
            /\ Pending(id) \/ id \in forgotten \/ lastUse[id] <= a.AccessTime + Slack

Gone == {a \in actions : \A b \in actions' : b.ActionID # a.ActionID}

(* An action that the cleaner deletes for its age was not used for MaxAge, *)
(* less Slack.  Excepted are those used while the pass was under way (its  *)
(* candidates are chosen before it takes the lock, and nobody looks again),*)
(* and those whose use a crash forgot.  With a MaxAge of a day or less     *)
(* this says nothing: such an object is evicted however often it is read.  *)
OnlyUnusedAgeOut ==
    [][cleanPC = "deleteAge" =>
         \A a \in Gone :
             \/ a.ActionID \in fresh \cup forgotten
             \/ lastUse[a.ActionID] + MaxAge <= now + Slack]_usesVars

(* To get under MaxSize the cleaner deletes what was used the longest ago, *)
(* to within Slack: each blob that stays has an action used no earlier     *)
(* than any that goes, less Slack, with the same exceptions.               *)
LeastUsedGoFirst ==
    [][cleanPC = "deleteSize" =>
         \A a \in Gone, kept \in {b.BlobID : b \in actions'} :
             \/ a.ActionID \in fresh \cup forgotten
             \/ \E b \in actions' : b.BlobID = kept
                                    /\ lastUse[a.ActionID] <= lastUse[b.ActionID] + Slack]_usesVars

(* What makes them inductive: the times of the map, and what was true of   *)
(* the batch when it was chosen stays true until it is deleted.            *)
WatchedOK ==
    /\ lastUse \in [ActionIDs -> Nat] /\ lag \in Nat
    /\ \A id \in ActionIDs : lastUse[id] <= now
    /\ DOMAIN accessDirty \subseteq fresh
    /\ \A id \in DOMAIN accessDirty : accessDirty[id] <= lastUse[id]
                                      /\ now <= accessDirty[id] + lag

(* A GET that has read a row is ahead of the row by at most lag.           *)
FoundNotAhead ==
    \A g \in Getters : get[g].status = "found" =>
        /\ get[g].time <= now
        /\ \A a \in actions : a.ActionID = get[g].action =>
              Pending(a.ActionID) \/ get[g].time <= a.AccessTime + lag

Unused(id)      == lastUse[id] + MaxAge <= now + Slack
NoLater(id, to) == lastUse[id] <= lastUse[to] + Slack

BatchUnused ==
    cleanPC \in {"lockAge", "deleteAge"} =>
        \A a \in actions : a.BlobID \in batch =>
            a.ActionID \in fresh \cup forgotten \/ Unused(a.ActionID)

BatchLeastUsed ==
    cleanPC \in {"lockSize", "deleteSize"} =>
        \A a, c \in actions : a.BlobID \in batch /\ c.BlobID \notin batch =>
            \/ a.ActionID \in fresh \cup forgotten
            \/ \E b \in actions : b.BlobID = c.BlobID /\ NoLater(a.ActionID, b.ActionID)

UsesInv == /\ WatchedOK /\ AccessTimesTrackUses
           /\ BatchUnused /\ BatchLeastUsed
=============================================================================
