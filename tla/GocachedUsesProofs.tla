------------------------- MODULE GocachedUsesProofs -------------------------
(***************************************************************************)
(* What the access times of gocached say about the uses of its objects,    *)
(* and what its cleaner therefore evicts, for any number of clients, any   *)
(* requests and limits, any RelAtime, and times that wait however long.    *)
(*                                                                         *)
(* The inductive invariant is TablesInv of Gocached, which GocachedProofs  *)
(* proves, with UsesInv and FoundNotAhead.                                 *)
(***************************************************************************)
EXTENDS GocachedUses, GocachedProofs, WellFoundedInduction

USE OutputsAssumption, SizesAssumption, RequestsAssumption, LimitsAssumption,
    ProcessesAssumption

Inv == TablesInv /\ UsesInv /\ FoundNotAhead

-----------------------------------------------------------------------------
(* MAX(AccessTime). *)

LEMMA LeastNatural ==
    ASSUME NEW T, T \subseteq Nat, T # {}
    PROVE  \E x \in T : \A y \in T : x <= y
<1> DEFINE R == OpToRel(<, Nat)
<1>1. IsWellFoundedOn(R, Nat)
  BY NatLessThanWellFounded
<1>2. \A x, y \in Nat : <<x, y>> \in R <=> x < y
  BY DEF OpToRel
<1> HIDE DEF R
<1>3. PICK x \in T : \A y \in T : ~(<<y, x>> \in R)
  BY <1>1, WFMin
<1>4. \A y \in T : x <= y
  <2> TAKE y \in T
  <2>1. x \in Nat /\ y \in Nat
    OBVIOUS
  <2>2. ~(y < x)
    BY <1>2, <1>3, <2>1
  <2> QED
    BY <2>1, <2>2
<1> QED
  BY <1>4

LEMMA MaxOfBounded ==
    ASSUME NEW T, T \subseteq Nat, T # {}, NEW n \in Nat, \A t \in T : t <= n
    PROVE  Max(T) \in T /\ \A t \in T : t <= Max(T)
<1> DEFINE D == {n - t : t \in T}
<1>1. D \subseteq Nat
  <2>1. \A t \in T : n - t \in Nat
    OBVIOUS
  <2> QED
    BY <2>1
<1>2. D # {}
  <2>1. PICK t : t \in T
    OBVIOUS
  <2>2. n - t \in D
    BY <2>1
  <2> QED
    BY <2>2
<1>3. PICK x \in D : \A y \in D : x <= y
  BY <1>1, <1>2, LeastNatural
<1>4. PICK m \in T : x = n - m
  OBVIOUS
<1>5. \A t \in T : m >= t
  <2> TAKE t \in T
  <2>1. x <= n - t
    BY <1>3
  <2> QED
    BY <1>4, <2>1
<1> QED
  BY <1>5 DEF Max

(* The time by which the cleaner takes a blob is that of one of the        *)
(* actions naming it, and no other's is later.                             *)
LEMMA LastAccessIsLatest ==
    ASSUME NEW A \in SUBSET ActionRow, NEW n \in Nat, \A a \in A : a.AccessTime <= n,
           NEW c \in A
    PROVE  /\ c.AccessTime <= LastAccess(A, c.BlobID)
           /\ \E b \in A : b.BlobID = c.BlobID /\ b.AccessTime = LastAccess(A, c.BlobID)
<1> DEFINE T == AccessTimes(A, c.BlobID)
<1>1. T \subseteq Nat /\ c.AccessTime \in T /\ \A t \in T : t <= n
  BY DEF AccessTimes, ActionRow
<1>2. T # {}
  BY <1>1
<1> HIDE DEF T
<1>3. Max(T) \in T /\ \A t \in T : t <= Max(T)
  BY <1>1, <1>2, MaxOfBounded
<1>4. \A t \in T : \E b \in A : b.BlobID = c.BlobID /\ b.AccessTime = t
  BY DEF T, AccessTimes
<1>5. LastAccess(A, c.BlobID) = Max(T)
  BY DEF LastAccess, T
<1> QED
  BY <1>1, <1>3, <1>4, <1>5

-----------------------------------------------------------------------------
(* The pieces of a step. *)

LEMMA IsAStep == UsesNext => Next
BY DEF UsesNext, Finds, Stores, PassFlushes, TimePasses, Forgets, UsesNothing,
       Next, PutStep, CleanStep

LEMMA SlackOK ==
    ASSUME lag \in Nat
    PROVE  Slack \in Nat /\ Slack >= lag /\ Slack >= RelAtime - 1
BY DEF Slack

LEMMA SumGrows ==
    ASSUME NEW r \in Nat, NEW x \in Nat, NEW y \in Nat, x <= y
    PROVE  r + y \in Nat /\ r + x <= r + y
OBVIOUS

LEMMA SlackGrows ==
    ASSUME lag \in Nat, lag' \in Nat, lag <= lag'
    PROVE  Slack' \in Nat /\ Slack <= Slack'
<1>1. PICK r \in Nat : r = RelAtime - 1
  OBVIOUS
<1>2. Slack = r + lag /\ Slack' = r + lag'
  BY <1>1 DEF Slack
<1>3. r + lag' \in Nat /\ r + lag <= r + lag'
  BY SumGrows
<1> QED
  BY <1>2, <1>3

LEMMA RowTypes ==
    ASSUME TypeOK, NEW a \in actions
    PROVE  a.ActionID \in ActionIDs /\ a.BlobID \in Nat /\ a.AccessTime \in Nat
BY DEF TypeOK, ActionRow

(* The cleaner has a batch, chosen for its age or to get under MaxSize.    *)
Chosen == cleanPC \in {"lockAge", "deleteAge", "lockSize", "deleteSize"}

LEMMA NothingUsed ==
    ASSUME Inv, UNCHANGED <<actions, accessDirty, now, batch>>, UNCHANGED watched,
           \/ cleanPC' = cleanPC
           \/ cleanPC = "lockAge" /\ cleanPC' = "deleteAge"
           \/ cleanPC = "lockSize" /\ cleanPC' = "deleteSize"
    PROVE  UsesInv'
<1>1. WatchedOK' /\ AccessTimesTrackUses'
  BY DEF Inv, UsesInv, watched, WatchedOK, AccessTimesTrackUses, Pending, Slack
<1>2. BatchUnused'
  BY DEF Inv, UsesInv, watched, BatchUnused, Unused, Slack, Chosen
<1>3. BatchLeastUsed'
  BY DEF Inv, UsesInv, watched, BatchLeastUsed, NoLater, Slack, Chosen
<1> QED
  BY <1>1, <1>2, <1>3 DEF UsesInv

(* ... and steps that leave the cleaner with nothing chosen.               *)
LEMMA RowsGo ==
    ASSUME Inv, actions' \subseteq actions, UNCHANGED <<accessDirty, now, watched>>, ~Chosen'
    PROVE  UsesInv'
<1>1. WatchedOK' /\ AccessTimesTrackUses'
  BY DEF Inv, UsesInv, watched, WatchedOK, AccessTimesTrackUses, Pending, Slack
<1>2. BatchUnused' /\ BatchLeastUsed'
  BY DEF BatchUnused, BatchLeastUsed, Chosen
<1> QED
  BY <1>1, <1>2 DEF UsesInv

-----------------------------------------------------------------------------
(* Each step keeps UsesInv. *)

(* The pending times go to the rows, whatever these hold.                  *)
LEMMA FlushWrites ==
    ASSUME TypeOK, FlushAccessTimes
    PROVE  /\ \A r \in actions' : \E a \in actions :
                 /\ r.ActionID = a.ActionID /\ r.BlobID = a.BlobID
                 /\ r.AccessTime = IF Pending(a.ActionID) THEN accessDirty[a.ActionID]
                                   ELSE a.AccessTime
           /\ \A a \in actions : \E r \in actions' :
                 r.ActionID = a.ActionID /\ r.BlobID = a.BlobID
           /\ DOMAIN accessDirty' = {}
<1> DEFINE New(a) == IF a.ActionID \in DOMAIN accessDirty
                     THEN [a EXCEPT !.AccessTime = accessDirty[a.ActionID]] ELSE a
<1>1. actions' = {New(a) : a \in actions}
  BY DEF FlushAccessTimes, WithAccessTimes
<1>2. ASSUME NEW a \in actions
      PROVE  /\ New(a).ActionID = a.ActionID /\ New(a).BlobID = a.BlobID
             /\ New(a).AccessTime = IF Pending(a.ActionID) THEN accessDirty[a.ActionID]
                                    ELSE a.AccessTime
  BY DEF TypeOK, ActionRow, Pending
<1>3. DOMAIN accessDirty' = {}
  BY DEF FlushAccessTimes, NoneDirty
<1> HIDE DEF New
<1> QED
  BY <1>1, <1>2, <1>3

LEMMA FlushTracks ==
    ASSUME Inv, FlushAccessTimes, UNCHANGED <<now, lastUse, forgotten, lag>>,
           fresh' = fresh \/ fresh' = {}
    PROVE  WatchedOK' /\ AccessTimesTrackUses'
<1>1. TypeOK /\ WatchedOK /\ AccessTimesTrackUses
  BY DEF Inv, TablesInv, UsesInv
<1>2. DOMAIN accessDirty' = {}
  BY <1>1, FlushWrites
<1>3. WatchedOK'
  BY <1>1, <1>2 DEF WatchedOK
<1>4. AccessTimesTrackUses'
  <2> SUFFICES ASSUME NEW r \in actions'
               PROVE  /\ r.AccessTime <= lastUse[r.ActionID]
                      /\ r.ActionID \in forgotten
                         \/ lastUse[r.ActionID] <= r.AccessTime + Slack
    BY DEF AccessTimesTrackUses, Slack
  <2>1. PICK a \in actions :
            /\ r.ActionID = a.ActionID
            /\ r.AccessTime = IF Pending(a.ActionID) THEN accessDirty[a.ActionID]
                              ELSE a.AccessTime
    BY <1>1, FlushWrites
  <2> DEFINE id == a.ActionID
  <2>2. id \in ActionIDs /\ lastUse[id] \in Nat /\ lastUse[id] <= now /\ now \in Nat
        /\ lag \in Nat
    BY <1>1, RowTypes DEF WatchedOK, TypeOK
  <2>3. Slack \in Nat /\ Slack >= lag
    BY <2>2, SlackOK
  <2>4. CASE Pending(id)
    <3>1. accessDirty[id] \in Nat /\ accessDirty[id] <= lastUse[id]
          /\ now <= accessDirty[id] + lag
      BY <1>1, <2>4 DEF WatchedOK, TypeOK, Pending
    <3>2. lastUse[id] <= accessDirty[id] + Slack
      BY <2>2, <2>3, <3>1
    <3> QED
      BY <2>1, <2>4, <3>1, <3>2
  <2>5. CASE ~Pending(id)
    BY <1>1, <2>1, <2>5 DEF AccessTimesTrackUses
  <2> QED
    BY <2>4, <2>5
<1> QED
  BY <1>3, <1>4

LEMMA TimerFlushKeeps == ASSUME Inv, TimerFlush, UNCHANGED watched PROVE UsesInv'
<1>1. TypeOK /\ FlushAccessTimes /\ UNCHANGED <<now, cleanPC, batch, lastUse, forgotten, lag, fresh>>
  BY DEF Inv, TablesInv, TimerFlush, cleanVars, watched
<1>2. WatchedOK' /\ AccessTimesTrackUses'
  BY <1>1, FlushTracks
<1>3. BatchUnused'
  <2> SUFFICES ASSUME cleanPC \in {"lockAge", "deleteAge"}, NEW r \in actions', r.BlobID \in batch
               PROVE  r.ActionID \in fresh \cup forgotten \/ Unused(r.ActionID)
    BY <1>1 DEF BatchUnused, Unused, Slack
  <2>1. PICK a \in actions : r.ActionID = a.ActionID /\ r.BlobID = a.BlobID
    BY <1>1, FlushWrites
  <2> QED
    BY <2>1 DEF Inv, UsesInv, BatchUnused
<1>4. BatchLeastUsed'
  <2> SUFFICES ASSUME cleanPC \in {"lockSize", "deleteSize"},
                      NEW r \in actions', NEW c \in actions',
                      r.BlobID \in batch, c.BlobID \notin batch
               PROVE  \/ r.ActionID \in fresh \cup forgotten
                      \/ \E b \in actions' : b.BlobID = c.BlobID
                                             /\ NoLater(r.ActionID, b.ActionID)
    BY <1>1 DEF BatchLeastUsed, NoLater, Slack
  <2>1. PICK a \in actions : r.ActionID = a.ActionID /\ r.BlobID = a.BlobID
    BY <1>1, FlushWrites
  <2>2. PICK d \in actions : c.BlobID = d.BlobID
    BY <1>1, FlushWrites
  <2>3. \/ a.ActionID \in fresh \cup forgotten
        \/ \E b \in actions : b.BlobID = d.BlobID /\ NoLater(a.ActionID, b.ActionID)
    BY <2>1, <2>2 DEF Inv, UsesInv, BatchLeastUsed
  <2>4. \A b \in actions : \E x \in actions' : x.ActionID = b.ActionID /\ x.BlobID = b.BlobID
    BY <1>1, FlushWrites
  <2> QED
    BY <2>1, <2>2, <2>3, <2>4
<1> QED
  BY <1>2, <1>3, <1>4 DEF UsesInv

LEMMA PassFlushesKeeps == ASSUME Inv, PassFlushes PROVE UsesInv'
<1>1. ~Chosen' /\ UNCHANGED <<now, lastUse, forgotten, lag>>
  BY DEF PassFlushes, CleanFlush, Chosen
<1>2. CASE FlushAccessTimes
  <2>1. TypeOK
    BY DEF Inv, TablesInv
  <2>2. fresh' = fresh \/ fresh' = {}
    BY <1>2, <2>1, FlushWrites DEF PassFlushes
  <2>3. WatchedOK' /\ AccessTimesTrackUses'
    BY <1>1, <1>2, <2>2, FlushTracks
  <2> QED
    BY <1>1, <2>3 DEF UsesInv, BatchUnused, BatchLeastUsed, Chosen
<1>3. CASE UNCHANGED <<actions, accessDirty>>
  <2>1. DOMAIN accessDirty \subseteq fresh'
    BY <1>3 DEF PassFlushes, Inv, UsesInv, WatchedOK
  <2>2. WatchedOK'
    BY <1>1, <1>3, <2>1 DEF Inv, UsesInv, WatchedOK
  <2>3. AccessTimesTrackUses'
    BY <1>1, <1>3 DEF Inv, UsesInv, AccessTimesTrackUses, Pending, Slack
  <2> QED
    BY <1>1, <2>2, <2>3 DEF UsesInv, BatchUnused, BatchLeastUsed, Chosen
<1> QED
  BY <1>2, <1>3 DEF PassFlushes, CleanFlush

(* A use: of an action whose row is, or will be, as recent, or whose time  *)
(* is noted.                                                               *)
LEMMA UseKeepsBatch ==
    ASSUME Inv, NEW id \in ActionIDs, Used(id), UNCHANGED <<now, cleanPC, batch>>,
           \A a \in actions' : a \in actions \/ a.ActionID = id,
           actions \subseteq actions'
    PROVE  BatchUnused' /\ BatchLeastUsed'
<1>1. /\ WatchedOK /\ now \in Nat /\ TypeOK
      /\ lastUse' \in [ActionIDs -> Nat] /\ lastUse'[id] = now
      /\ \A x \in ActionIDs : x # id => lastUse'[x] = lastUse[x]
      /\ \A x \in ActionIDs : lastUse[x] \in Nat /\ lastUse[x] <= lastUse'[x]
                              /\ lastUse[x] <= now
  BY DEF Inv, TablesInv, TypeOK, UsesInv, WatchedOK, Used
<1>2. Slack' = Slack /\ Slack \in Nat
  BY <1>1, SlackOK DEF Used, Slack, WatchedOK
<1>3. \A x \in ActionIDs : x \in fresh \cup forgotten => x \in fresh' \cup forgotten'
  BY DEF Used
<1>4. id \in fresh'
  BY DEF Used
<1>5. \A a \in actions' : a.ActionID \in ActionIDs
  BY <1>1, RowTypes
<1>6. BatchUnused'
  <2> SUFFICES ASSUME cleanPC \in {"lockAge", "deleteAge"},
                      NEW a \in actions', a.BlobID \in batch, a.ActionID # id
               PROVE  a.ActionID \in fresh' \cup forgotten'
                      \/ lastUse'[a.ActionID] + MaxAge <= now + Slack
    BY <1>2, <1>4 DEF BatchUnused, Unused
  <2>1. a \in actions
    OBVIOUS
  <2> QED
    BY <1>1, <1>3, <1>5, <2>1 DEF Inv, UsesInv, BatchUnused, Unused
<1>7. BatchLeastUsed'
  <2> SUFFICES ASSUME cleanPC \in {"lockSize", "deleteSize"},
                      NEW a \in actions', NEW c \in actions',
                      a.BlobID \in batch, c.BlobID \notin batch,
                      a.ActionID \notin fresh' \cup forgotten'
               PROVE  \E b \in actions' :
                         b.BlobID = c.BlobID
                         /\ lastUse'[a.ActionID] <= lastUse'[b.ActionID] + Slack
    BY <1>2 DEF BatchLeastUsed, NoLater
  <2>1. a \in actions /\ a.ActionID # id /\ lastUse'[a.ActionID] = lastUse[a.ActionID]
        /\ a.ActionID \in ActionIDs
    BY <1>1, <1>4, <1>5
  <2>2. CASE c.ActionID = id
    <3>1. lastUse[a.ActionID] <= now + Slack
      BY <1>1, <1>2, <2>1
    <3> QED
      BY <1>1, <2>1, <2>2, <3>1
  <2>3. CASE c \in actions
    <3>1. PICK b \in actions : b.BlobID = c.BlobID /\ NoLater(a.ActionID, b.ActionID)
      BY <1>3, <1>5, <2>1, <2>3 DEF Inv, UsesInv, BatchLeastUsed
    <3>2. b.ActionID \in ActionIDs
      BY <1>5
    <3>3. lastUse[a.ActionID] <= lastUse'[b.ActionID] + Slack
      BY <1>1, <1>2, <2>1, <3>1, <3>2 DEF NoLater
    <3> QED
      BY <2>1, <3>1, <3>3
  <2> QED
    BY <2>2, <2>3
<1> QED
  BY <1>6, <1>7

LEMMA FindsKeeps ==
    ASSUME Inv, NEW g \in Getters, Finds(g)
    PROVE  UsesInv'
<1> DEFINE id   == get[g].action
           time == get[g].time
<1>1. UNCHANGED <<actions, now, cleanPC, batch>>
      /\ TypeOK /\ KeysUnique /\ WatchedOK /\ AccessTimesTrackUses /\ FoundNotAhead
  BY DEF Finds, GetBump, tables, cleanVars, Inv, TablesInv, UsesInv
<1>F. get[g].status = "found" /\ id \in ActionIDs /\ time \in Nat
      /\ BumpAccessTime(id, time) /\ Used(id)
  <2>1. get[g] \in GetState /\ get[g].status = "found"
    BY <1>1 DEF TypeOK, Finds, GetBump
  <2>2. id \in ActionIDs /\ time \in Nat
    BY <2>1 DEF GetState
  <2> QED
    BY <2>1, <2>2 DEF Finds, GetBump
<1> HIDE DEF id, time
<1>2. /\ now \in Nat /\ lag \in Nat /\ lag' = lag
      /\ lastUse' = [lastUse EXCEPT ![id] = now] /\ lastUse \in [ActionIDs -> Nat]
      /\ forgotten' = forgotten \ {id} /\ fresh' = fresh \cup {id}
  BY <1>F, <1>1 DEF Used, TypeOK, WatchedOK
<1>3. /\ DOMAIN accessDirty' \subseteq DOMAIN accessDirty \cup {id}
      /\ DOMAIN accessDirty \subseteq DOMAIN accessDirty'
      /\ \A x \in DOMAIN accessDirty : accessDirty'[x] = accessDirty[x]
      /\ ~Recent(time) => id \in DOMAIN accessDirty'
      /\ id \notin DOMAIN accessDirty /\ id \in DOMAIN accessDirty' => accessDirty'[id] = now
  BY <1>F DEF BumpAccessTime
<1>4. WatchedOK'
  <2>1. ASSUME NEW x \in DOMAIN accessDirty'
        PROVE  accessDirty'[x] <= lastUse'[x] /\ now <= accessDirty'[x] + lag
    <3>1. CASE x \in DOMAIN accessDirty
      <4>1. /\ x \in ActionIDs /\ accessDirty[x] \in Nat /\ accessDirty[x] <= lastUse[x]
            /\ now <= accessDirty[x] + lag /\ lastUse[x] <= now /\ lastUse[x] \in Nat
        BY <1>1, <3>1 DEF WatchedOK, TypeOK
      <4>2. lastUse'[x] \in {lastUse[x], now}
        BY <1>2, <4>1
      <4> QED
        BY <1>2, <1>3, <3>1, <4>1, <4>2
    <3>2. CASE x \notin DOMAIN accessDirty
      <4>1. x = id /\ accessDirty'[x] = now
        BY <1>3, <3>2
      <4> QED
        BY <1>F, <1>2, <4>1
    <3> QED
      BY <3>1, <3>2
  <2>2. lastUse' \in [ActionIDs -> Nat]
    BY <1>2
  <2>3. ASSUME NEW x \in ActionIDs PROVE lastUse'[x] <= now
    <3>1. lastUse[x] <= now /\ lastUse'[x] \in {lastUse[x], now}
      BY <1>1, <1>2 DEF WatchedOK
    <3> QED
      BY <1>2, <3>1
  <2>4. DOMAIN accessDirty' \subseteq fresh'
    BY <1>1, <1>2, <1>3 DEF WatchedOK
  <2> QED
    BY <1>1, <1>2, <2>1, <2>2, <2>3, <2>4 DEF WatchedOK
<1>5. AccessTimesTrackUses'
  <2> SUFFICES ASSUME NEW a \in actions
               PROVE  /\ a.AccessTime <= lastUse'[a.ActionID]
                      /\ \/ a.ActionID \in DOMAIN accessDirty' \cup forgotten'
                         \/ lastUse'[a.ActionID] <= a.AccessTime + Slack
    BY <1>1, <1>2 DEF AccessTimesTrackUses, Pending, Slack
  <2>1. /\ a.ActionID \in ActionIDs /\ a.AccessTime \in Nat
        /\ lastUse[a.ActionID] \in Nat /\ lastUse[a.ActionID] <= now
        /\ a.AccessTime <= lastUse[a.ActionID]
    BY <1>1, RowTypes DEF WatchedOK, AccessTimesTrackUses
  <2>2. CASE a.ActionID = id
    <3>1. lastUse'[a.ActionID] = now /\ a.AccessTime <= now
      BY <1>2, <2>1, <2>2
    <3>2. CASE id \in DOMAIN accessDirty'
      BY <2>2, <3>1, <3>2
    <3>3. CASE id \notin DOMAIN accessDirty'
      <4>1. time > now - RelAtime
        BY <1>3, <3>3 DEF Recent
      <4>2. time <= a.AccessTime + lag
        BY <1>F, <1>1, <1>3, <2>2, <3>3 DEF FoundNotAhead, Pending, id, time
      <4>3. now <= a.AccessTime + (RelAtime - 1 + lag)
        BY <1>F, <1>2, <2>1, <4>1, <4>2
      <4> QED
        BY <3>1, <4>3 DEF Slack
    <3> QED
      BY <3>2, <3>3
  <2>3. CASE a.ActionID # id
    BY <1>1, <1>2, <1>3, <2>1, <2>3 DEF AccessTimesTrackUses, Pending
  <2> QED
    BY <2>2, <2>3
<1>6. BatchUnused' /\ BatchLeastUsed'
  BY <1>F, <1>1, UseKeepsBatch
<1> QED
  BY <1>4, <1>5, <1>6 DEF UsesInv

LEMMA StoresKeeps == ASSUME Inv, NEW p \in Putters, Stores(p) PROVE UsesInv'
<1> DEFINE id == put[p].req.action
           row == [ActionID |-> id, BlobID |-> put[p].blobID,
                   AltOutputID |-> AltOutputFor(put[p].req.output, put[p].req.content),
                   AccessTime |-> now]
<1>1. /\ actions' = InsertOrIgnore(actions, row)
      /\ UNCHANGED <<now, accessDirty, cleanPC, batch>>
      /\ TypeOK /\ WatchedOK /\ AccessTimesTrackUses
  BY DEF Stores, PutInsertAction, cleanVars, Inv, TablesInv, UsesInv
<1>2. CASE actions' = actions
  <2>1. /\ UNCHANGED <<actions, accessDirty, now, batch>>
        /\ UNCHANGED watched /\ cleanPC' = cleanPC
    BY <1>1, <1>2 DEF Stores
  <2> QED
    BY <2>1, NothingUsed
<1>3. CASE actions' # actions
  <2>1. actions' = actions \cup {row} /\ \A a \in actions : a.ActionID # id
    BY <1>1, <1>3 DEF InsertOrIgnore
  <2>2. id \in ActionIDs
    <3>1. put[p] \in PutState /\ put[p].pc = "insert"
      BY <1>1 DEF TypeOK, Stores, PutInsertAction
    <3> QED
      BY <3>1 DEF PutState
  <2>3. Used(id)
    BY <1>3 DEF Stores
  <2>4. /\ now \in Nat /\ lag \in Nat /\ lag' = lag
        /\ lastUse' = [lastUse EXCEPT ![id] = now] /\ lastUse \in [ActionIDs -> Nat]
        /\ forgotten' = forgotten \ {id} /\ fresh' = fresh \cup {id}
        /\ Slack \in Nat /\ Slack' = Slack
    BY <1>1, <2>3, SlackOK DEF Used, TypeOK, WatchedOK, Slack
  <2>5. WatchedOK'
    <3>1. ASSUME NEW x \in DOMAIN accessDirty
          PROVE  accessDirty[x] <= lastUse'[x] /\ now <= accessDirty[x] + lag
      <4>1. /\ x \in ActionIDs /\ accessDirty[x] \in Nat /\ accessDirty[x] <= lastUse[x]
            /\ now <= accessDirty[x] + lag /\ lastUse[x] <= now /\ lastUse[x] \in Nat
        BY <1>1 DEF WatchedOK, TypeOK
      <4>2. now \in Nat /\ (lastUse'[x] = lastUse[x] \/ lastUse'[x] = now)
        BY <2>4, <4>1
      <4> QED
        BY <4>1, <4>2
    <3>2. \A x \in ActionIDs : lastUse[x] <= now
      BY <1>1 DEF WatchedOK
    <3>3. lastUse' \in [ActionIDs -> Nat] /\ \A x \in ActionIDs : lastUse'[x] <= now
      <4> HIDE DEF id
      <4>1. lastUse' \in [ActionIDs -> Nat]
        BY <2>4
      <4>2. ASSUME NEW x \in ActionIDs PROVE lastUse'[x] <= now
        <5>1. CASE x = id
          BY <2>4, <5>1
        <5>2. CASE x # id
          BY <2>4, <3>2, <5>2
        <5> QED
          BY <5>1, <5>2
      <4> QED
        BY <4>1, <4>2
    <3>4. DOMAIN accessDirty \subseteq fresh'
      BY <1>1, <2>4 DEF WatchedOK
    <3> QED
      BY <1>1, <2>4, <3>1, <3>3, <3>4 DEF WatchedOK
  <2>6. AccessTimesTrackUses'
    <3>1. ASSUME NEW a \in actions
          PROVE  /\ a.AccessTime <= lastUse'[a.ActionID]
                 /\ \/ a.ActionID \in DOMAIN accessDirty \cup forgotten'
                    \/ lastUse'[a.ActionID] <= a.AccessTime + Slack
      <4>1. lastUse'[a.ActionID] = lastUse[a.ActionID] /\ a.ActionID # id
        BY <1>1, <2>1, <2>4, RowTypes
      <4> QED
        BY <1>1, <2>4, <4>1 DEF AccessTimesTrackUses, Pending
    <3>2. row.AccessTime <= lastUse'[id] /\ lastUse'[id] <= row.AccessTime + Slack
      BY <2>2, <2>4
    <3> QED
      BY <1>1, <2>1, <2>4, <3>1, <3>2 DEF AccessTimesTrackUses, Pending
  <2>7. BatchUnused' /\ BatchLeastUsed'
    BY <1>1, <2>1, <2>2, <2>3, UseKeepsBatch
  <2> QED
    BY <2>5, <2>6, <2>7 DEF UsesInv
<1> QED
  BY <1>2, <1>3

LEMMA TimePassesKeeps == ASSUME Inv, TimePasses PROVE UsesInv'
<1>1. /\ TypeOK /\ WatchedOK /\ AccessTimesTrackUses
      /\ now \in Nat /\ now' = now + 1 /\ lag \in Nat
      /\ UNCHANGED <<actions, accessDirty, cleanPC, batch, lastUse, forgotten, fresh>>
  BY DEF Inv, TablesInv, UsesInv, TypeOK, WatchedOK, TimePasses, Tick, tables, cleanVars
<1>2. lag' \in {lag, lag + 1}
      /\ \A id \in DOMAIN accessDirty : now + 1 - accessDirty[id] <= lag'
  <2>1. \A id \in DOMAIN accessDirty : accessDirty[id] \in Nat /\ now <= accessDirty[id] + lag
    BY <1>1 DEF WatchedOK, TypeOK
  <2>2. CASE \E id \in DOMAIN accessDirty : now' - accessDirty[id] > lag
    <3>1. lag' = lag + 1
      BY <2>2 DEF TimePasses
    <3> QED
      BY <1>1, <2>1, <3>1
  <2>3. CASE ~ \E id \in DOMAIN accessDirty : now' - accessDirty[id] > lag
    <3>1. lag' = lag
      BY <2>3 DEF TimePasses
    <3> QED
      BY <1>1, <2>1, <2>3, <3>1
  <2> QED
    BY <2>2, <2>3
<1>3. Slack \in Nat /\ Slack' \in Nat /\ Slack <= Slack'
  BY <1>1, <1>2, SlackOK, SlackGrows
<1>4. WatchedOK'
  <2>1. \A id \in ActionIDs : lastUse[id] <= now + 1
    BY <1>1 DEF WatchedOK
  <2>2. \A id \in DOMAIN accessDirty : now + 1 <= accessDirty[id] + lag'
    BY <1>1, <1>2 DEF TypeOK
  <2> QED
    BY <1>1, <1>2, <2>1, <2>2 DEF WatchedOK
<1>5. \A a \in actions : a.ActionID \in ActionIDs /\ a.AccessTime \in Nat
                         /\ lastUse[a.ActionID] \in Nat
  BY <1>1, RowTypes DEF WatchedOK
<1>6. AccessTimesTrackUses'
  <2> SUFFICES ASSUME NEW a \in actions
               PROVE  /\ a.AccessTime <= lastUse[a.ActionID]
                      /\ Pending(a.ActionID) \/ a.ActionID \in forgotten
                         \/ lastUse[a.ActionID] <= a.AccessTime + Slack'
    BY <1>1 DEF AccessTimesTrackUses, Pending
  <2>1. /\ a.AccessTime <= lastUse[a.ActionID]
        /\ Pending(a.ActionID) \/ a.ActionID \in forgotten
           \/ lastUse[a.ActionID] <= a.AccessTime + Slack
    BY <1>1 DEF AccessTimesTrackUses
  <2> QED
    BY <1>3, <1>5, <2>1
<1>7. BatchUnused'
  <2> SUFFICES ASSUME cleanPC \in {"lockAge", "deleteAge"}, NEW a \in actions, a.BlobID \in batch,
                      a.ActionID \notin fresh \cup forgotten
               PROVE  lastUse[a.ActionID] + MaxAge <= now + 1 + Slack'
    BY <1>1 DEF BatchUnused, Unused
  <2>1. lastUse[a.ActionID] + MaxAge <= now + Slack
    BY DEF Inv, UsesInv, BatchUnused, Unused
  <2> QED
    BY <1>1, <1>3, <1>5, <2>1
<1>8. BatchLeastUsed'
  <2> SUFFICES ASSUME cleanPC \in {"lockSize", "deleteSize"}, NEW a \in actions, NEW c \in actions,
                      a.BlobID \in batch, c.BlobID \notin batch,
                      a.ActionID \notin fresh \cup forgotten
               PROVE  \E b \in actions :
                         b.BlobID = c.BlobID
                         /\ lastUse[a.ActionID] <= lastUse[b.ActionID] + Slack'
    BY <1>1 DEF BatchLeastUsed, NoLater
  <2>1. PICK b \in actions : b.BlobID = c.BlobID /\ NoLater(a.ActionID, b.ActionID)
    BY DEF Inv, UsesInv, BatchLeastUsed
  <2>2. lastUse[a.ActionID] <= lastUse[b.ActionID] + Slack'
    BY <1>3, <1>5, <2>1 DEF NoLater
  <2> QED
    BY <2>1, <2>2
<1> QED
  BY <1>4, <1>6, <1>7, <1>8 DEF UsesInv

LEMMA ForgetsKeeps == ASSUME Inv, Forgets PROVE UsesInv'
<1>1. /\ UNCHANGED <<actions, now, lastUse, lag>> /\ DOMAIN accessDirty' = {}
      /\ forgotten' = forgotten \cup DOMAIN accessDirty /\ cleanPC' = "flush"
  BY DEF Forgets, Crash, tables, NoneDirty
<1>2. WatchedOK'
  BY <1>1 DEF Inv, UsesInv, WatchedOK
<1>3. AccessTimesTrackUses'
  BY <1>1 DEF Inv, UsesInv, AccessTimesTrackUses, Pending, Slack
<1> QED
  BY <1>1, <1>2, <1>3 DEF UsesInv, BatchUnused, BatchLeastUsed

(* What the cleaner chooses, by the access times, and so by the uses.      *)
LEMMA ByAccessTime ==
    ASSUME Inv, NEW a \in actions, a.ActionID \notin fresh \cup forgotten
    PROVE  lastUse[a.ActionID] <= a.AccessTime + Slack
BY DEF Inv, UsesInv, WatchedOK, AccessTimesTrackUses, Pending

LEMMA TimesOfRows ==
    ASSUME Inv, NEW a \in actions
    PROVE  /\ now \in Nat /\ lag \in Nat /\ Slack \in Nat
           /\ a.ActionID \in ActionIDs /\ lastUse[a.ActionID] \in Nat
           /\ a.AccessTime \in Nat /\ a.AccessTime <= lastUse[a.ActionID] /\ a.AccessTime <= now
           /\ LastAccess(actions, a.BlobID) \in Nat
           /\ a.AccessTime <= LastAccess(actions, a.BlobID)
           /\ \E b \in actions : b.BlobID = a.BlobID
                                 /\ b.AccessTime = LastAccess(actions, a.BlobID)
           /\ LastAccess(actions, a.BlobID) <= now
<1>1. TypeOK /\ WatchedOK /\ AccessTimesTrackUses
  BY DEF Inv, TablesInv, UsesInv
<1>2. now \in Nat /\ lag \in Nat /\ Slack \in Nat /\ actions \in SUBSET ActionRow
  BY <1>1, SlackOK DEF TypeOK, WatchedOK
<1>3. \A b \in actions : /\ b.ActionID \in ActionIDs /\ lastUse[b.ActionID] \in Nat
                         /\ b.AccessTime \in Nat /\ b.AccessTime <= lastUse[b.ActionID]
                         /\ lastUse[b.ActionID] <= now
  BY <1>1, RowTypes DEF WatchedOK, AccessTimesTrackUses
<1>4. \A b \in actions : b.AccessTime <= now
  BY <1>2, <1>3
<1> QED
  BY <1>2, <1>3, <1>4, LastAccessIsLatest

LEMMA CleanAgeKeeps == ASSUME Inv, CleanAge, UNCHANGED watched PROVE UsesInv'
<1>1. /\ batch' \in CleanCandidates(actions, blobs, now - MaxAge, usage.TooOld + 1)
      /\ cleanPC' = "lockAge"
      /\ UNCHANGED <<actions, accessDirty, now, lastUse, forgotten, lag, fresh>>
  BY DEF CleanAge, tables, watched
<1>2. WatchedOK' /\ AccessTimesTrackUses'
  BY <1>1 DEF Inv, UsesInv, WatchedOK, AccessTimesTrackUses, Pending, Slack
<1>3. BatchLeastUsed'
  BY <1>1 DEF BatchLeastUsed
<1>4. BatchUnused'
  <2> SUFFICES ASSUME NEW a \in actions, a.BlobID \in batch', a.ActionID \notin fresh \cup forgotten
               PROVE  lastUse[a.ActionID] + MaxAge <= now + Slack
    BY <1>1 DEF BatchUnused, Unused, Slack
  <2>1. a.BlobID \in Evictable(actions, blobs, now - MaxAge)
    BY <1>1 DEF CleanCandidates
  <2>2. LastAccess(actions, a.BlobID) <= now - MaxAge
    BY <2>1 DEF Evictable
  <2>3. lastUse[a.ActionID] <= a.AccessTime + Slack
    BY ByAccessTime
  <2> QED
    BY <2>2, <2>3, TimesOfRows
<1> QED
  BY <1>2, <1>3, <1>4 DEF UsesInv

LEMMA CleanSizeKeeps == ASSUME Inv, CleanSize, UNCHANGED watched PROVE UsesInv'
<1>1. /\ cleanPC' = "lockSize"
      /\ UNCHANGED <<actions, accessDirty, now, lastUse, forgotten, lag, fresh>>
  BY DEF CleanSize, tables, watched
<1>2. PICK candidates \in CleanCandidates(actions, blobs, now, CandidateLimit) :
          batch' \in SizeBatches(actions, blobs, usage.Size - MaxSize, candidates)
  BY DEF CleanSize
<1>3. WatchedOK' /\ AccessTimesTrackUses'
  BY <1>1 DEF Inv, UsesInv, WatchedOK, AccessTimesTrackUses, Pending, Slack
<1>4. BatchUnused'
  BY <1>1 DEF BatchUnused
<1>5. BatchLeastUsed'
  <2> SUFFICES ASSUME NEW a \in actions, NEW c \in actions,
                      a.BlobID \in batch', c.BlobID \notin batch',
                      a.ActionID \notin fresh \cup forgotten
               PROVE  \E b \in actions :
                         b.BlobID = c.BlobID
                         /\ lastUse[a.ActionID] <= lastUse[b.ActionID] + Slack
    BY <1>1 DEF BatchLeastUsed, NoLater, Slack
  <2>1. c.BlobID \in Evictable(actions, blobs, now)
    <3>1. PICK x \in blobs : x.BlobID = c.BlobID
      BY DEF Inv, TablesInv, NoMissingBlobRows
    <3>2. c.AccessTime \in AccessTimes(actions, c.BlobID)
      BY DEF AccessTimes
    <3> QED
      BY <3>1, <3>2, TimesOfRows DEF Evictable
  <2>2. a.BlobID \in candidates
    BY <1>2, BatchesAreCandidates
  <2>3. LastAccess(actions, a.BlobID) <= LastAccess(actions, c.BlobID)
    <3>1. CASE c.BlobID \in candidates
      BY <1>2, <3>1 DEF SizeBatches, OldestOf
    <3>2. CASE c.BlobID \notin candidates
      BY <1>2, <2>1, <2>2, <3>2 DEF CleanCandidates, OldestOf
    <3> QED
      BY <3>1, <3>2
  <2>4. PICK b \in actions : b.BlobID = c.BlobID
                             /\ b.AccessTime = LastAccess(actions, c.BlobID)
    BY TimesOfRows
  <2>5. lastUse[a.ActionID] <= a.AccessTime + Slack
    BY ByAccessTime
  <2>6. /\ a.AccessTime \in Nat /\ LastAccess(actions, a.BlobID) \in Nat
        /\ a.AccessTime <= LastAccess(actions, a.BlobID)
        /\ lastUse[a.ActionID] \in Nat /\ Slack \in Nat
    BY TimesOfRows
  <2>7. b.AccessTime \in Nat /\ b.AccessTime <= lastUse[b.ActionID] /\ lastUse[b.ActionID] \in Nat
    BY TimesOfRows
  <2>8. lastUse[a.ActionID] <= lastUse[b.ActionID] + Slack
    BY <2>3, <2>4, <2>5, <2>6, <2>7
  <2> QED
    BY <2>4, <2>8
<1> QED
  BY <1>3, <1>4, <1>5 DEF UsesInv

LEMMA UsesNothingKeeps == ASSUME Inv, UsesNothing PROVE UsesInv'
<1>0. UNCHANGED watched
  BY DEF UsesNothing
<1>1. CASE \/ \E p \in Putters : PutStart(p) \/ PutRename(p) \/ PutBodyFails(p)
                                 \/ PutUpsertBlob(p) \/ PutFails(p)
           \/ \E g \in Getters : (\E id \in ActionIDs : GetLookup(g, id)) \/ GetOpen(g)
           \/ \E id \in left : DeleteRemove(id)
           \/ RemoveByHand
  <2>1. UNCHANGED <<actions, accessDirty, now, batch>> /\ cleanPC' = cleanPC
    BY <1>1 DEF PutStart, PutRename, PutBodyFails, PutUpsertBlob, PutFails, GetLookup, GetOpen,
                DeleteRemove, RemoveByHand, tables, cleanVars
  <2> QED
    BY <1>0, <2>1, NothingUsed
<1>2. CASE TimerFlush
  BY <1>0, <1>2, TimerFlushKeeps
<1>3. CASE CleanAge
  BY <1>0, <1>3, CleanAgeKeeps
<1>4. CASE CleanSize
  BY <1>0, <1>4, CleanSizeKeeps
<1>5. CASE DeleteBegin
  <2>1. /\ UNCHANGED <<actions, accessDirty, now, batch>>
        /\ \/ cleanPC = "lockAge" /\ cleanPC' = "deleteAge"
           \/ cleanPC = "lockSize" /\ cleanPC' = "deleteSize"
    BY <1>5 DEF DeleteBegin, tables
  <2> QED
    BY <1>0, <2>1, NothingUsed
<1>6. CASE CleanWake \/ CleanStats \/ DeleteCommit \/ DeleteFails \/ CleanQueryFails
  <2>1. actions' \subseteq actions /\ UNCHANGED <<accessDirty, now>>
    BY <1>6 DEF CleanWake, CleanStats, DeleteCommit, DeleteFails, CleanQueryFails, tables
  <2>2. ~Chosen'
    <3>1. \A us : GoesOnWithSize(us) => ~Chosen'
      BY DEF GoesOnWithSize, PassEnds, Chosen
    <3>2. CASE CleanWake \/ CleanStats
      BY <3>1, <3>2 DEF CleanWake, CleanStats, Chosen
    <3>3. CASE DeleteCommit
      BY <3>1, <3>3 DEF DeleteCommit, AfterDelete, PassEnds, Chosen
    <3>4. CASE DeleteFails \/ CleanQueryFails
      BY <3>4 DEF DeleteFails, CleanQueryFails, PassFails, Chosen
    <3> QED
      BY <1>6, <3>2, <3>3, <3>4
  <2> QED
    BY <1>0, <2>1, <2>2, RowsGo
<1> QED
  BY <1>1, <1>2, <1>3, <1>4, <1>5, <1>6 DEF UsesNothing

-----------------------------------------------------------------------------
(* Each step keeps FoundNotAhead. *)

(* A row is as it was, or is no older than what waited the longest.        *)
LEMMA FoundStays ==
    ASSUME Inv, lag' \in Nat, now' \in Nat, lag <= lag', now <= now',
           \A g \in Getters : get'[g].status = "found" => get'[g] = get[g],
           \A r \in actions' :
               \/ r.AccessTime \in Nat /\ now <= r.AccessTime + lag
               \/ Pending(r.ActionID)'
               \/ \E a \in actions : /\ ~Pending(a.ActionID) /\ a.ActionID = r.ActionID
                                     /\ a.AccessTime = r.AccessTime
    PROVE  FoundNotAhead'
<1>1. TypeOK /\ FoundNotAhead /\ now \in Nat /\ lag \in Nat
  BY DEF Inv, TablesInv, TypeOK, UsesInv, WatchedOK
<1> SUFFICES ASSUME NEW g \in Getters, get'[g].status = "found"
             PROVE  /\ get[g].time <= now'
                    /\ \A r \in actions' : r.ActionID = get[g].action =>
                          Pending(r.ActionID)' \/ get[g].time <= r.AccessTime + lag'
  BY DEF FoundNotAhead
<1>2. get[g].status = "found" /\ get[g].time \in Nat /\ get[g].time <= now
  <2>1. get[g] \in GetState /\ get[g].status = "found"
    BY <1>1 DEF TypeOK
  <2> QED
    BY <1>1, <2>1 DEF GetState, FoundNotAhead
<1>3. ASSUME NEW r \in actions', r.ActionID = get[g].action, ~Pending(r.ActionID)'
      PROVE  get[g].time <= r.AccessTime + lag'
  <2>1. CASE r.AccessTime \in Nat /\ now <= r.AccessTime + lag
    BY <1>1, <1>2, <2>1
  <2>2. CASE \E a \in actions : /\ ~Pending(a.ActionID) /\ a.ActionID = r.ActionID
                                /\ a.AccessTime = r.AccessTime
    <3>1. PICK a \in actions : /\ ~Pending(a.ActionID) /\ a.ActionID = r.ActionID
                               /\ a.AccessTime = r.AccessTime
      BY <2>2
    <3>2. get[g].time <= a.AccessTime + lag /\ a.AccessTime \in Nat
      BY <1>1, <1>2, <1>3, <3>1, RowTypes DEF FoundNotAhead
    <3> QED
      BY <1>1, <1>2, <3>1, <3>2
  <2> QED
    BY <1>3, <2>1, <2>2
<1> QED
  BY <1>1, <1>2, <1>3

LEMMA LookupFinds ==
    ASSUME Inv, NEW g \in Getters, NEW id \in ActionIDs, GetLookup(g, id), UNCHANGED watched
    PROVE  FoundNotAhead'
<1>1. TypeOK /\ KeysUnique /\ FoundNotAhead /\ get \in [Getters -> GetState]
      /\ UNCHANGED <<actions, accessDirty, now, lag>>
  BY DEF Inv, TablesInv, TypeOK, GetLookup, tables, watched
<1>2. \A q \in Getters \ {g} : get'[q] = get[q]
  BY <1>1 DEF GetLookup
<1>3. ASSUME get'[g].status = "found"
      PROVE  \E a \in actions : /\ get'[g].action = id /\ get'[g].time = a.AccessTime
                                /\ a.ActionID = id
  <2>1. PICK ab \in Joined(actions, blobs) :
            /\ ab[1].ActionID = id
            /\ get' = [get EXCEPT ![g] =
                         [status |-> "found", action |-> id, entry |-> Entry(ab[1], ab[2]),
                          file |-> FileOpenedFor(ab[2]), time |-> ab[1].AccessTime]]
    BY <1>1, <1>3 DEF GetLookup, Miss, Failed
  <2>2. ab[1] \in actions
    BY DEF Joined
  <2> QED
    BY <1>1, <2>1, <2>2
<1>4. ASSUME get'[g].status = "found"
      PROVE  /\ get'[g].time <= now
             /\ \A a \in actions : a.ActionID = get'[g].action =>
                   get'[g].time <= a.AccessTime + lag
  <2>1. PICK c \in actions : /\ get'[g].action = id /\ get'[g].time = c.AccessTime
                             /\ c.ActionID = id
    BY <1>3, <1>4
  <2>2. \A a \in actions : a.ActionID = id => a = c
    BY <1>1, <2>1 DEF KeysUnique
  <2>3. c.AccessTime \in Nat /\ c.AccessTime <= now /\ lag \in Nat
    BY TimesOfRows
  <2> QED
    BY <2>1, <2>2, <2>3
<1> QED
  BY <1>1, <1>2, <1>4 DEF FoundNotAhead, Pending

LEMMA FlushFinds ==
    ASSUME Inv, FlushAccessTimes, UNCHANGED <<now, lag, get>>
    PROVE  FoundNotAhead'
<1>1. TypeOK /\ WatchedOK /\ now \in Nat /\ lag \in Nat
  BY DEF Inv, TablesInv, TypeOK, UsesInv, WatchedOK
<1>2. ASSUME NEW r \in actions'
      PROVE  \/ r.AccessTime \in Nat /\ now <= r.AccessTime + lag
             \/ \E a \in actions : /\ ~Pending(a.ActionID) /\ a.ActionID = r.ActionID
                                   /\ a.AccessTime = r.AccessTime
  <2>1. PICK a \in actions :
            /\ r.ActionID = a.ActionID
            /\ r.AccessTime = IF Pending(a.ActionID) THEN accessDirty[a.ActionID]
                              ELSE a.AccessTime
    BY <1>1, FlushWrites
  <2>2. Pending(a.ActionID) => accessDirty[a.ActionID] \in Nat
                               /\ now <= accessDirty[a.ActionID] + lag
    BY <1>1 DEF WatchedOK, TypeOK, Pending
  <2> QED
    BY <2>1, <2>2
<1> QED
  BY <1>1, <1>2, FoundStays

LEMMA FoundKeeps ==
    ASSUME Inv, [UsesNext]_usesVars
    PROVE  FoundNotAhead'
<1>1. TypeOK /\ get \in [Getters -> GetState] /\ now \in Nat /\ lag \in Nat
      /\ put \in [Putters -> PutState]
  BY DEF Inv, TablesInv, TypeOK, UsesInv, WatchedOK
<1>2. ASSUME actions' \subseteq actions, DOMAIN accessDirty \subseteq DOMAIN accessDirty',
             UNCHANGED <<now, lag>>,
             \A g \in Getters : get'[g].status = "found" => get'[g] = get[g]
      PROVE  FoundNotAhead'
  BY <1>1, <1>2, FoundStays DEF Pending
<1>3. ASSUME NEW g \in Getters, Finds(g) PROVE FoundNotAhead'
  <2>1. UNCHANGED <<actions, now, lag>> /\ DOMAIN accessDirty \subseteq DOMAIN accessDirty'
    BY <1>3 DEF Finds, GetBump, BumpAccessTime, Used, tables
  <2>2. \A q \in Getters : get'[q].status = "found" => get'[q] = get[q]
    BY <1>1, <1>3 DEF Finds, GetBump, Hit
  <2> QED
    BY <1>2, <2>1, <2>2
<1>4. ASSUME NEW p \in Putters, Stores(p) PROVE FoundNotAhead'
  <2>1. UNCHANGED <<now, lag, get, accessDirty>>
    BY <1>4 DEF Stores, PutInsertAction, Used, watched
  <2>2. \A r \in actions' : r \in actions \/ r.AccessTime = now
    BY <1>4 DEF Stores, PutInsertAction, InsertOrIgnore
  <2> QED
    BY <1>1, <2>1, <2>2, FoundStays DEF Pending
<1>5. CASE PassFlushes
  <2>1. CASE FlushAccessTimes
    BY <1>5, <2>1, FlushFinds DEF PassFlushes, CleanFlush
  <2>2. CASE UNCHANGED <<actions, accessDirty>>
    BY <1>2, <1>5, <2>2 DEF PassFlushes, CleanFlush
  <2> QED
    BY <1>5, <2>1, <2>2 DEF PassFlushes, CleanFlush
<1>6. CASE TimePasses
  <2>1. UNCHANGED <<actions, accessDirty, get>> /\ now' = now + 1 /\ lag' \in {lag, lag + 1}
    BY <1>6 DEF TimePasses, Tick, tables
  <2>2. lag' \in Nat /\ lag <= lag' /\ now' \in Nat /\ now <= now'
    BY <1>1, <2>1
  <2> QED
    BY <2>1, <2>2, FoundStays DEF Pending
<1>7. CASE Forgets
  <2>1. get' = [g \in Getters |-> NotGetting]
    BY <1>7 DEF Forgets, Crash
  <2> QED
    BY <2>1 DEF FoundNotAhead, NotGetting
<1>8. CASE UsesNothing
  <2>1. CASE \E g \in Getters, id \in ActionIDs : GetLookup(g, id)
    BY <1>8, <2>1, LookupFinds DEF UsesNothing
  <2>2. CASE TimerFlush
    BY <1>8, <2>2, FlushFinds DEF TimerFlush, UsesNothing, watched
  <2>3. ASSUME NEW g \in Getters, GetOpen(g) PROVE FoundNotAhead'
    <3>1. \A q \in Getters : get'[q].status = "found" => get'[q] = get[q]
      BY <1>1, <2>3 DEF GetOpen, Hit, Miss, Failed
    <3> QED
      BY <1>2, <1>8, <2>3, <3>1 DEF GetOpen, tables, UsesNothing, watched
  <2>4. CASE \E p \in Putters : PutStart(p) \/ PutRename(p) \/ PutBodyFails(p)
                                \/ PutUpsertBlob(p) \/ PutFails(p)
    BY <1>2, <1>8, <2>4 DEF PutStart, PutRename, PutBodyFails, PutUpsertBlob, PutFails,
                            tables, UsesNothing, watched
  <2>5. CASE CleanWake \/ CleanStats \/ CleanAge \/ CleanSize \/ DeleteBegin
             \/ CleanQueryFails \/ RemoveByHand \/ \E id \in left : DeleteRemove(id)
    BY <1>2, <1>8, <2>5 DEF CleanWake, CleanStats, CleanAge, CleanSize, DeleteBegin,
                            CleanQueryFails, RemoveByHand, DeleteRemove, tables,
                            UsesNothing, watched
  <2>6. CASE DeleteCommit \/ DeleteFails
    BY <1>2, <1>8, <2>6 DEF DeleteCommit, DeleteFails, tables, UsesNothing, watched
  <2> QED
    BY <1>8, <2>1, <2>2, <2>3, <2>4, <2>5, <2>6 DEF UsesNothing
<1>9. CASE UNCHANGED usesVars
  BY <1>2, <1>9 DEF usesVars, vars, watched
<1> QED
  BY <1>3, <1>4, <1>5, <1>6, <1>7, <1>8, <1>9 DEF UsesNext

-----------------------------------------------------------------------------
(* The theorems. *)

LEMMA InitUses == UsesInit => Inv
<1> SUFFICES ASSUME UsesInit PROVE Inv
  OBVIOUS
<1>1. TablesInv
  BY InitTables DEF UsesInit
<1>2. WatchedOK
  BY DEF UsesInit, Init, WatchedOK, NoneDirty
<1>3. \A a \in actions : a.AccessTime = 0 /\ a.ActionID \in ActionIDs
  <2>1. actions = {} \/ \E req \in PutRequests : MigratedFromV3(req)
    BY DEF UsesInit, Init
  <2> QED
    BY <2>1 DEF MigratedFromV3
<1>4. AccessTimesTrackUses
  BY <1>3, SlackOK DEF UsesInit, AccessTimesTrackUses
<1>5. BatchUnused /\ BatchLeastUsed
  BY DEF UsesInit, Init, BatchUnused, BatchLeastUsed
<1>6. FoundNotAhead
  BY DEF UsesInit, Init, NotGetting, FoundNotAhead
<1> QED
  BY <1>1, <1>2, <1>4, <1>5, <1>6 DEF Inv, UsesInv

LEMMA NextUses == Inv /\ [UsesNext]_usesVars => Inv'
<1> SUFFICES ASSUME Inv, [UsesNext]_usesVars PROVE Inv'
  OBVIOUS
<1>1. TablesInv'
  <2>1. [Next]_vars
    BY IsAStep DEF usesVars
  <2> QED
    BY <2>1, NextTables DEF Inv
<1>2. UsesInv'
  <2>1. ASSUME NEW g \in Getters, Finds(g) PROVE UsesInv'
    BY <2>1, FindsKeeps
  <2>2. ASSUME NEW p \in Putters, Stores(p) PROVE UsesInv'
    BY <2>2, StoresKeeps
  <2>3. CASE PassFlushes
    BY <2>3, PassFlushesKeeps
  <2>4. CASE TimePasses
    BY <2>4, TimePassesKeeps
  <2>5. CASE Forgets
    BY <2>5, ForgetsKeeps
  <2>6. CASE UsesNothing
    BY <2>6, UsesNothingKeeps
  <2>7. CASE UNCHANGED usesVars
    <3>1. UNCHANGED <<actions, accessDirty, now, batch>> /\ UNCHANGED watched
          /\ cleanPC' = cleanPC
      BY <2>7 DEF usesVars, vars
    <3> QED
      BY <3>1, NothingUsed
  <2> QED
    BY <2>1, <2>2, <2>3, <2>4, <2>5, <2>6, <2>7 DEF UsesNext
<1>3. FoundNotAhead'
  BY FoundKeeps
<1> QED
  BY <1>1, <1>2, <1>3 DEF Inv

LEMMA UsesConsistent == UsesSpec => []Inv
<1> QED
  BY InitUses, NextUses, PTL DEF UsesSpec

(* A row's access time is never after the last use of its action, and,     *)
(* unless one is pending or was forgotten, at most Slack before it.        *)
THEOREM AccessTimesAreClose == UsesSpec => []AccessTimesTrackUses
<1>1. Inv => AccessTimesTrackUses
  BY DEF Inv, UsesInv
<1> QED
  BY <1>1, UsesConsistent, PTL

(* Rows go in one step only.                                               *)
LEMMA RowsGoByDelete ==
    ASSUME Inv, [UsesNext]_usesVars, Gone # {}
    PROVE  DeleteCommit /\ UNCHANGED watched
<1>1. ASSUME FlushAccessTimes PROVE FALSE
  BY <1>1, FlushWrites DEF Inv, TablesInv, Gone
<1>2. ASSUME actions \subseteq actions' PROVE FALSE
  BY <1>2 DEF Gone
<1>3. CASE PassFlushes
  BY <1>1, <1>2, <1>3 DEF PassFlushes, CleanFlush
<1>4. CASE \E p \in Putters : Stores(p)
  BY <1>2, <1>4 DEF Stores, PutInsertAction, InsertOrIgnore
<1>5. CASE (\E g \in Getters : Finds(g)) \/ TimePasses \/ Forgets
  BY <1>2, <1>5 DEF Finds, GetBump, TimePasses, Tick, Forgets, Crash, tables
<1>6. CASE UsesNothing
  <2>1. CASE TimerFlush
    BY <1>1, <2>1 DEF TimerFlush
  <2>2. CASE DeleteCommit
    BY <1>6, <2>2 DEF UsesNothing
  <2>3. CASE ~TimerFlush /\ ~DeleteCommit
    <3>1. actions' = actions
      BY <1>6, <2>3
         DEF UsesNothing, PutStart, PutRename, PutBodyFails, PutUpsertBlob, PutFails, GetLookup,
             GetOpen, DeleteRemove, RemoveByHand, CleanWake, CleanStats, CleanAge, CleanSize,
             DeleteBegin, DeleteFails, CleanQueryFails, tables
    <3> QED
      BY <1>2, <3>1
  <2> QED
    BY <2>1, <2>2, <2>3
<1>7. CASE UNCHANGED usesVars
  BY <1>2, <1>7 DEF usesVars, vars
<1> QED
  BY <1>3, <1>4, <1>5, <1>6, <1>7 DEF UsesNext

(* An action deleted for its age was not used for MaxAge, less Slack.      *)
THEOREM OldOnesWereUnused == UsesSpec => OnlyUnusedAgeOut
<1> DEFINE Justified ==
        cleanPC = "deleteAge" =>
            \A a \in Gone :
                \/ a.ActionID \in fresh \cup forgotten
                \/ lastUse[a.ActionID] + MaxAge <= now + Slack
<1>1. Inv /\ [UsesNext]_usesVars => [Justified]_usesVars
  <2> SUFFICES ASSUME Inv, [UsesNext]_usesVars, cleanPC = "deleteAge", NEW a \in Gone
               PROVE  \/ a.ActionID \in fresh \cup forgotten
                      \/ lastUse[a.ActionID] + MaxAge <= now + Slack
    OBVIOUS
  <2>1. DeleteCommit
    BY RowsGoByDelete
  <2>2. a \in actions /\ a.BlobID \in batch
    BY <2>1 DEF DeleteCommit, Gone
  <2> QED
    BY <2>2 DEF Inv, UsesInv, BatchUnused, Unused
<1>2. OnlyUnusedAgeOut <=> [][Justified]_usesVars
  BY DEF OnlyUnusedAgeOut
<1> QED
  BY <1>1, <1>2, UsesConsistent, PTL DEF UsesSpec

(* What goes to make room was used no later, to within Slack, than         *)
(* something of each blob that stays.                                      *)
THEOREM EvictionIsLeastRecentlyUsed == UsesSpec => LeastUsedGoFirst
<1> DEFINE Justified ==
        cleanPC = "deleteSize" =>
            \A a \in Gone, kept \in {b.BlobID : b \in actions'} :
                \/ a.ActionID \in fresh \cup forgotten
                \/ \E b \in actions' : b.BlobID = kept
                                       /\ lastUse[a.ActionID] <= lastUse[b.ActionID] + Slack
<1>1. Inv /\ [UsesNext]_usesVars => [Justified]_usesVars
  <2> SUFFICES ASSUME Inv, [UsesNext]_usesVars, cleanPC = "deleteSize",
                      NEW a \in Gone, NEW c \in actions'
               PROVE  \/ a.ActionID \in fresh \cup forgotten
                      \/ \E b \in actions' :
                            b.BlobID = c.BlobID
                            /\ lastUse[a.ActionID] <= lastUse[b.ActionID] + Slack
    OBVIOUS
  <2>1. actions' = {x \in actions : x.BlobID \notin batch}
    BY RowsGoByDelete DEF DeleteCommit
  <2>2. a \in actions /\ a.BlobID \in batch /\ c \in actions /\ c.BlobID \notin batch
    BY <2>1 DEF Gone
  <2>3. \/ a.ActionID \in fresh \cup forgotten
        \/ \E b \in actions : b.BlobID = c.BlobID /\ NoLater(a.ActionID, b.ActionID)
    BY <2>2 DEF Inv, UsesInv, BatchLeastUsed
  <2> QED
    BY <2>1, <2>2, <2>3 DEF NoLater
<1>2. LeastUsedGoFirst <=> [][Justified]_usesVars
  BY DEF LeastUsedGoFirst
<1> QED
  BY <1>1, <1>2, UsesConsistent, PTL DEF UsesSpec
=============================================================================
