------------------------- MODULE GocachedFlushProofs -------------------------
(***************************************************************************)
(* Theorems about the flush of access times, its timers and its            *)
(* connections, for any requests, callbacks, timers and size of the pool.  *)
(***************************************************************************)
EXTENDS GocachedFlush, FiniteSetTheorems, TLAPS

USE NamesAssumption, ProcessesAssumption

LEMMA ProcsApart ==
    /\ \A g \in Getters : g \in Procs /\ g \notin Putters /\ g \notin Flushers
    /\ \A p \in Putters : p \in Procs /\ p \notin Flushers
    /\ \A f \in Flushers : f \in Procs /\ f # Nobody
    /\ Scanners \subseteq Flushers /\ Callbacks \subseteq Flushers
BY DEF Procs, Flushers

PCs == {"idle", "query", "scan", "bump", "lock", "insert", "lockWrite", "lockMu",
        "conn", "commit", "lockDelete", "delete", "ended"}
PCType == pc \in [Procs -> PCs]

(* A process goes on alone. *)
LEMMA OneGoes ==
    ASSUME PCType, NEW p \in Procs, NEW to \in PCs, Goes(p, to)
    PROVE  /\ PCType' /\ pc'[p] = to
           /\ \A q \in Procs : q # p => pc'[q] = pc[q]
BY DEF PCType, Goes

LEMMA FlushDoneGoes ==
    ASSUME NEW f, FlushDone(f)
    PROVE  \E to \in {"idle", "query"} : Goes(f, to)
BY DEF FlushDone

LEMMA LooksGoes ==
    ASSUME NEW g, Looks(g)
    PROVE  \E to \in {"idle", "bump"} : Goes(g, to)
BY DEF Looks

-----------------------------------------------------------------------------
(* Wake-ups.  A timer that accessFlushTimer names runs, or its callback    *)
(* has not yet taken it away.                                              *)

UpTo(locksTaken) == \E f \in Flushers : pc[f] \in locksTaken

ScheduledInv ==
    /\ PCType
    /\ timer # NoTimer => armed # {} \/ UpTo({"lockWrite", "lockMu"})
    /\ accessDirty # {} => armed # {} \/ UpTo({"lockWrite", "lockMu", "conn", "commit"})

(* The steps of requests, and those of a scan that are not of the flush,   *)
(* take no flush off its way.                                              *)
LEMMA OthersKeepFlushes ==
    ASSUME PCType, NEW p \in Procs, NEW to \in PCs, Goes(p, to),
           pc[p] \notin {"lockWrite", "lockMu", "conn", "commit"} \/ p \notin Flushers
    PROVE  /\ UpTo({"lockWrite", "lockMu"}) => UpTo({"lockWrite", "lockMu"})'
           /\ UpTo({"lockWrite", "lockMu", "conn", "commit"})
                  => UpTo({"lockWrite", "lockMu", "conn", "commit"})'
BY OneGoes, ProcsApart DEF UpTo

LEMMA InitScheduled == Init => ScheduledInv
BY DEF Init, ScheduledInv, PCType, PCs

LEMMA NextScheduled == ScheduledInv /\ [Next]_vars => ScheduledInv'
<1> SUFFICES ASSUME ScheduledInv, [Next]_vars PROVE ScheduledInv'
  OBVIOUS
<1>T. PCType
  BY DEF ScheduledInv
<1>0. ASSUME UNCHANGED <<accessDirty, timer, armed>>, NEW p \in Procs, NEW to \in PCs, Goes(p, to),
             pc[p] \notin {"lockWrite", "lockMu", "conn", "commit"} \/ p \notin Flushers
      PROVE  ScheduledInv'
  BY <1>0, <1>T, OneGoes, OthersKeepFlushes DEF ScheduledInv
<1>1. ASSUME NEW g \in Getters, GetStart(g) \/ GetQuery(g) \/ GetScan(g) PROVE ScheduledInv'
  <2>1. PICK to \in PCs : Goes(g, to)
    BY <1>1, LooksGoes DEF GetStart, GetQuery, GetScan, PCs
  <2>2. UNCHANGED <<accessDirty, timer, armed>>
    BY <1>1 DEF GetStart, GetQuery, GetScan, times
  <2> QED
    BY <1>0, <2>1, <2>2, ProcsApart
<1>2. ASSUME NEW g \in Getters, GetBump(g) PROVE ScheduledInv'
  <2>1. Goes(g, "idle") /\ "idle" \in PCs
    BY <1>2 DEF GetBump, PCs
  <2>2. PCType'
    BY <1>T, <2>1, OneGoes, ProcsApart
  <2>3. CASE UNCHANGED <<accessDirty, timer, armed>>
    BY <1>0, <2>1, <2>3, ProcsApart
  <2>4. CASE armed' # {}
    BY <2>2, <2>4 DEF ScheduledInv
  <2>5. CASE timer # NoTimer /\ UNCHANGED <<timer, armed>>
    <3>1. armed # {} \/ UpTo({"lockWrite", "lockMu"})
      BY <2>5 DEF ScheduledInv
    <3>2. armed' # {} \/ UpTo({"lockWrite", "lockMu"})'
      BY <1>T, <2>1, <2>5, <3>1, OthersKeepFlushes, ProcsApart
    <3> QED
      BY <2>2, <3>2 DEF ScheduledInv, UpTo
  <2> QED
    BY <1>2, <2>3, <2>4, <2>5 DEF GetBump
<1>3. ASSUME NEW p \in Putters, PutStart(p) \/ PutLock(p) \/ PutInsert(p) PROVE ScheduledInv'
  <2>1. PICK to \in PCs : Goes(p, to)
    BY <1>3 DEF PutStart, PutLock, PutInsert, PCs
  <2>2. UNCHANGED <<accessDirty, timer, armed>>
    BY <1>3 DEF PutStart, PutLock, PutInsert, times
  <2> QED
    BY <1>0, <2>1, <2>2, ProcsApart
<1>4. ASSUME NEW t \in Timers, NEW c \in Callbacks, TimerFires(t, c) PROVE ScheduledInv'
  <2>1. PCType' /\ pc'[c] = "lockWrite"
    BY <1>4, <1>T, OneGoes, ProcsApart DEF TimerFires, PCs
  <2> QED
    BY <2>1, ProcsApart DEF ScheduledInv, UpTo
<1>5. ASSUME NEW f \in Flushers, FlushLockWrite(f) PROVE ScheduledInv'
  <2>1. PCType' /\ pc'[f] = "lockMu"
    BY <1>5, <1>T, OneGoes, ProcsApart DEF FlushLockWrite, PCs
  <2> QED
    BY <2>1 DEF ScheduledInv, UpTo
<1>6. ASSUME NEW f \in Flushers, FlushLockMu(f) PROVE ScheduledInv'
  <2>1. timer' = NoTimer /\ accessDirty' = accessDirty
    BY <1>6 DEF FlushLockMu, ForgetsTimer
  <2>2. CASE accessDirty = {}
    <3>1. PICK to \in {"idle", "query"} : Goes(f, to)
      BY <1>6, <2>2, FlushDoneGoes DEF FlushLockMu
    <3>2. PCType'
      BY <1>T, <3>1, OneGoes, ProcsApart DEF PCs
    <3> QED
      BY <2>1, <2>2, <3>2 DEF ScheduledInv
  <2>3. CASE accessDirty # {}
    <3>1. PICK to \in {"conn", "commit"} : Goes(f, to)
      BY <1>6, <2>3 DEF FlushLockMu
    <3>2. PCType' /\ pc'[f] \in {"conn", "commit"}
      BY <1>T, <3>1, OneGoes, ProcsApart DEF PCs
    <3> QED
      BY <2>1, <3>2 DEF ScheduledInv, UpTo
  <2> QED
    BY <2>2, <2>3
<1>7. ASSUME NEW f \in Flushers, FlushConn(f) PROVE ScheduledInv'
  <2>1. PCType' /\ pc'[f] = "commit" /\ UNCHANGED <<accessDirty, timer, armed>>
    BY <1>7, <1>T, OneGoes, ProcsApart DEF FlushConn, times, PCs
  <2>2. pc[f] = "conn" /\ \A q \in Flushers : q # f => pc'[q] = pc[q]
    BY <1>7, <1>T, OneGoes, ProcsApart DEF FlushConn, PCs
  <2> QED
    BY <2>1, <2>2 DEF ScheduledInv, UpTo
<1>8. ASSUME NEW f \in Flushers, FlushCommit(f) PROVE ScheduledInv'
  <2>1. PICK to \in {"idle", "query"} : Goes(f, to)
    BY <1>8, FlushDoneGoes DEF FlushCommit
  <2>2. PCType' /\ \A q \in Flushers : q # f => pc'[q] = pc[q]
    BY <1>T, <2>1, OneGoes, ProcsApart DEF PCs
  <2>3. pc[f] = "commit" /\ accessDirty' = {} /\ UNCHANGED <<timer, armed>>
    BY <1>8 DEF FlushCommit
  <2> QED
    BY <2>2, <2>3 DEF ScheduledInv, UpTo
<1>9. ASSUME NEW f \in Flushers, FlushFails(f) PROVE ScheduledInv'
  <2>1. PICK to \in {"idle", "query"} : Goes(f, to)
    BY <1>9, FlushDoneGoes DEF FlushFails
  <2>2. PCType'
    BY <1>T, <2>1, OneGoes, ProcsApart DEF PCs
  <2>3. armed' # {}
    BY <1>9 DEF FlushFails, Retries
  <2> QED
    BY <2>2, <2>3 DEF ScheduledInv
<1>10. ASSUME NEW s \in Scanners,
              ScanStart(s) \/ ScanQuery(s) \/ DeleteLock(s) \/ DeleteBlobs(s)
       PROVE  ScheduledInv'
  <2>1. PICK to \in PCs : Goes(s, to)
    BY <1>10 DEF ScanStart, ScanQuery, DeleteLock, DeleteBlobs, PCs
  <2>2. /\ UNCHANGED <<accessDirty, timer, armed>>
        /\ pc[s] \notin {"lockWrite", "lockMu", "conn", "commit"}
    BY <1>10 DEF ScanStart, ScanQuery, DeleteLock, DeleteBlobs, times
  <2> QED
    BY <1>0, <2>1, <2>2, ProcsApart
<1>11. CASE CloseCancels \/ CloseLocked \/ UNCHANGED vars
  <2>1. UNCHANGED <<accessDirty, timer, armed, pc>>
    BY <1>11 DEF CloseCancels, CloseLocked, vars, times
  <2> QED
    BY <2>1 DEF ScheduledInv, UpTo, PCType
<1>12. CASE LoopEnds
  <2>1. /\ Goes(CleanLoop, "ended") /\ pc[CleanLoop] = "idle" /\ "ended" \in PCs
        /\ UNCHANGED <<accessDirty, timer, armed>>
    BY <1>12 DEF LoopEnds, times, PCs
  <2> QED
    BY <1>0, <2>1, ProcsApart
<1> QED
  BY <1>1, <1>2, <1>3, <1>4, <1>5, <1>6, <1>7, <1>8, <1>9, <1>10, <1>11, <1>12
     DEF Next, GetStep, PutStep, FlushStep, ScanStep

(* A pending access time always has a timer running or a flush on its way, *)
(* whichever timers fire late, are set again or belong to failed flushes.  *)
THEOREM NoLostWakeUp == Spec => []FlushScheduled
<1>1. ScheduledInv => FlushScheduled
  BY DEF ScheduledInv, FlushScheduled, UpTo
<1> QED
  BY <1>1, InitScheduled, NextScheduled, PTL DEF Spec

-----------------------------------------------------------------------------
(* Connections.  Whoever gets hold of writeConn holds mu, so Close, which  *)
(* takes mu, and another flush cannot come in between.                     *)

InUse == Cardinality({g \in Getters : pc[g] = "scan"})

MuHeld == /\ \A f \in Flushers : pc[f] \in {"conn", "commit"} => mu = f
          /\ \A f \in Flushers : pc[f] = "conn" => ~writeConn

ConnsInv ==
    /\ TypeOK
    /\ MuHeld
    /\ conns = InUse + (IF writeConn /\ ~Closed THEN 1 ELSE 0)

LEMMA InUseType == InUse \in Nat
<1>1. IsFiniteSet({g \in Getters : pc[g] = "scan"})
  BY FS_Subset
<1> QED
  BY <1>1, FS_CardinalityType DEF InUse

(* Only a getter's step to or from its scan changes how many there are.    *)
LEMMA InUseChanges ==
    ASSUME PCType, NEW p \in Procs, NEW to \in PCs, Goes(p, to)
    PROVE  /\ p \in Getters /\ pc[p] # "scan" /\ to = "scan" => InUse' = InUse + 1
           /\ p \in Getters /\ pc[p] = "scan" /\ to # "scan" => InUse' = InUse - 1
           /\ p \notin Getters \/ (pc[p] # "scan" /\ to # "scan") => InUse' = InUse
<1> DEFINE scanning == {g \in Getters : pc[g] = "scan"}
<1>1. IsFiniteSet(scanning)
  BY FS_Subset
<1>2. pc'[p] = to /\ \A q \in Procs : q # p => pc'[q] = pc[q]
  BY OneGoes
<1>3. InUse = Cardinality(scanning) /\ InUse' = Cardinality(scanning')
  BY DEF InUse
<1>4. CASE p \in Getters /\ pc[p] # "scan" /\ to = "scan"
  <2>1. scanning' = scanning \cup {p} /\ p \notin scanning
    BY <1>2, <1>4, ProcsApart
  <2> QED
    BY <1>1, <1>3, <1>4, <2>1, FS_AddElement
<1>5. CASE p \in Getters /\ pc[p] = "scan" /\ to # "scan"
  <2>1. scanning' = scanning \ {p} /\ p \in scanning
    BY <1>2, <1>5, ProcsApart
  <2> QED
    BY <1>1, <1>3, <1>5, <2>1, FS_RemoveElement
<1>6. CASE p \notin Getters \/ (pc[p] # "scan" /\ to # "scan")
  <2>1. scanning' = scanning
    BY <1>2, <1>6, ProcsApart
  <2> QED
    BY <1>3, <1>4, <1>5, <1>6, <2>1
<1> QED
  BY <1>4, <1>5, <1>6

LEMMA InitConns == Init => ConnsInv
<1> SUFFICES ASSUME Init PROVE ConnsInv
  OBVIOUS
<1>1. {g \in Getters : pc[g] = "scan"} = {}
  BY ProcsApart DEF Init
<1>2. InUse = 0
  BY <1>1, FS_EmptySet DEF InUse
<1>3. TypeOK
  <2>1. 0 \in 0..PoolSize
    BY PoolAssumption
  <2> QED
    BY <2>1 DEF Init, TypeOK
<1>4. MuHeld
  BY ProcsApart DEF Init, MuHeld
<1>5. conns = 0 /\ ~writeConn
  BY DEF Init
<1> QED
  BY <1>2, <1>3, <1>4, <1>5 DEF ConnsInv

(* A step that does not get to the flush's own statements, and leaves mu   *)
(* and writeConn alone.                                                    *)
LEMMA OthersKeepMu ==
    ASSUME PCType, MuHeld, NEW p \in Procs, NEW to \in PCs, Goes(p, to),
           to \notin {"conn", "commit"}, UNCHANGED <<mu, writeConn>>
    PROVE  MuHeld'
<1>1. pc'[p] = to /\ \A q \in Procs : q # p => pc'[q] = pc[q]
  BY OneGoes
<1> QED
  BY <1>1, ProcsApart DEF MuHeld

(* A step by one goroutine that changes neither connections in use nor how *)
(* many getters scan.                                                      *)
LEMMA OthersKeepConns ==
    ASSUME ConnsInv, NEW p \in Procs, NEW to \in PCs, Goes(p, to),
           to \notin {"conn", "commit"},
           p \notin Getters \/ (pc[p] # "scan" /\ to # "scan"),
           UNCHANGED <<mu, writeConn, conns, closing>>, TypeOK'
    PROVE  ConnsInv'
<1>1. PCType
  BY DEF ConnsInv, TypeOK, PCType, PCs
<1>2. MuHeld'
  BY <1>1, OthersKeepMu DEF ConnsInv
<1>3. InUse' = InUse
  BY <1>1, InUseChanges
<1> QED
  BY <1>2, <1>3 DEF ConnsInv, Closed

(* A getter that is about to bump has looked at an action. *)
BumpInv == /\ PCType
           /\ looked \in [Getters -> ActionIDs \cup {NoAction}]
           /\ \A g \in Getters : pc[g] = "bump" => looked[g] \in ActionIDs

LEMMA NextBump == BumpInv /\ [Next]_vars => BumpInv'
<1> SUFFICES ASSUME BumpInv, [Next]_vars PROVE BumpInv'
  OBVIOUS
<1>T. PCType
  BY DEF BumpInv
<1>0. ASSUME UNCHANGED looked, NEW p \in Procs, NEW to \in PCs, Goes(p, to), to # "bump"
      PROVE  BumpInv'
  BY <1>0, <1>T, OneGoes, ProcsApart DEF BumpInv
<1>1. ASSUME NEW g \in Getters, GetStart(g) \/ GetQuery(g) PROVE BumpInv'
  <2>1. \E to \in {"query", "scan", "idle"} : Goes(g, to)
    BY <1>1 DEF GetStart, GetQuery
  <2> QED
    BY <1>0, <1>1, <2>1, ProcsApart DEF GetStart, GetQuery, PCs
<1>2. ASSUME NEW g \in Getters, GetScan(g) PROVE BumpInv'
  <2>1. CASE Goes(g, "idle") /\ UNCHANGED looked
    BY <1>0, <2>1, ProcsApart DEF PCs
  <2>2. CASE \E a \in ActionIDs : Goes(g, "bump") /\ looked' = [looked EXCEPT ![g] = a]
    <3>1. PCType' /\ \A h \in Getters : h # g => pc'[h] = pc[h]
      BY <1>T, <2>2, OneGoes, ProcsApart DEF PCs
    <3> QED
      BY <2>2, <3>1 DEF BumpInv
  <2> QED
    BY <1>2, <2>1, <2>2 DEF GetScan, Looks
<1>3. ASSUME NEW g \in Getters, GetBump(g) PROVE BumpInv'
  <2>1. Goes(g, "idle") /\ looked' = [looked EXCEPT ![g] = NoAction]
    BY <1>3 DEF GetBump
  <2>2. PCType' /\ pc'[g] = "idle" /\ \A h \in Getters : h # g => pc'[h] = pc[h]
    BY <1>T, <2>1, OneGoes, ProcsApart DEF PCs
  <2> QED
    BY <2>1, <2>2 DEF BumpInv
<1>4. ASSUME NEW p \in Putters, PutStart(p) \/ PutLock(p) \/ PutInsert(p) PROVE BumpInv'
  BY <1>0, <1>4, ProcsApart DEF PutStart, PutLock, PutInsert, PCs
<1>5. ASSUME NEW t \in Timers, NEW c \in Callbacks, TimerFires(t, c) PROVE BumpInv'
  BY <1>0, <1>5, ProcsApart DEF TimerFires, PCs
<1>6. ASSUME NEW f \in Flushers,
             FlushLockWrite(f) \/ FlushLockMu(f) \/ FlushConn(f)
             \/ FlushCommit(f) \/ FlushFails(f)
      PROVE  BumpInv'
  <2>1. \E to \in PCs \ {"bump"} : Goes(f, to)
    BY <1>6, FlushDoneGoes
       DEF FlushLockWrite, FlushLockMu, FlushConn, FlushCommit, FlushFails, PCs
  <2>2. UNCHANGED looked
    BY <1>6 DEF FlushLockWrite, FlushLockMu, FlushConn, FlushCommit, FlushFails
  <2> QED
    BY <1>0, <2>1, <2>2, ProcsApart
<1>7. ASSUME NEW s \in Scanners,
             ScanStart(s) \/ ScanQuery(s) \/ DeleteLock(s) \/ DeleteBlobs(s)
      PROVE  BumpInv'
  <2>1. \E to \in PCs \ {"bump"} : Goes(s, to)
    BY <1>7 DEF ScanStart, ScanQuery, DeleteLock, DeleteBlobs, PCs
  <2>2. UNCHANGED looked
    BY <1>7 DEF ScanStart, ScanQuery, DeleteLock, DeleteBlobs
  <2> QED
    BY <1>0, <2>1, <2>2, ProcsApart
<1>8. CASE CloseCancels \/ CloseLocked \/ UNCHANGED vars
  BY <1>8 DEF CloseCancels, CloseLocked, vars, BumpInv, PCType
<1>9. CASE LoopEnds
  BY <1>0, <1>9, ProcsApart DEF LoopEnds, PCs
<1> QED
  BY <1>1, <1>2, <1>3, <1>4, <1>5, <1>6, <1>7, <1>8, <1>9
     DEF Next, GetStep, PutStep, FlushStep, ScanStep

(* The counter is right where connections come and go: a scan, Close, and  *)
(* the flush that gets its own.                                            *)
LEMMA ConnsType ==
    ConnsInv => /\ conns \in 0..PoolSize /\ PoolSize \in Nat
                /\ \A g \in Getters : pc[g] = "scan" => InUse >= 1
<1> SUFFICES ASSUME ConnsInv
             PROVE  /\ conns \in 0..PoolSize /\ PoolSize \in Nat
                    /\ \A g \in Getters : pc[g] = "scan" => InUse >= 1
  OBVIOUS
<1>1. conns \in 0..PoolSize /\ PoolSize \in Nat
  BY PoolAssumption DEF ConnsInv, TypeOK
<1>2. ASSUME NEW g \in Getters, pc[g] = "scan" PROVE InUse >= 1
  <2> DEFINE scanning == {h \in Getters : pc[h] = "scan"}
  <2>1. IsFiniteSet(scanning) /\ g \in scanning
    BY <1>2, FS_Subset
  <2>2. Cardinality(scanning) # 0
    BY <2>1, FS_EmptySet
  <2> QED
    BY <2>2, InUseType DEF InUse
<1> QED
  BY <1>1, <1>2

LEMMA NextConns == BumpInv /\ ConnsInv /\ [Next]_vars => ConnsInv'
<1> SUFFICES ASSUME BumpInv, ConnsInv, [Next]_vars PROVE ConnsInv'
  OBVIOUS
<1>T. TypeOK /\ PCType /\ MuHeld
  BY DEF ConnsInv, TypeOK, PCType, PCs
<1>C. /\ conns = InUse + (IF writeConn /\ ~Closed THEN 1 ELSE 0)
      /\ conns \in Int /\ InUse \in Nat /\ PoolSize \in Nat
      /\ 0 <= conns /\ conns <= PoolSize
  BY ConnsType, InUseType DEF ConnsInv
<1>1. ASSUME NEW g \in Getters, GetStart(g) \/ GetBump(g) PROVE ConnsInv'
  <2>1. PICK to \in {"query", "idle"} : Goes(g, to) /\ pc[g] # "scan"
    BY <1>1 DEF GetStart, GetBump
  <2>2. TypeOK'
    <3>1. PCType'
      BY <1>T, <2>1, OneGoes, ProcsApart DEF PCs
    <3>2. timer' \in Timers \cup {NoTimer} /\ armed' \subseteq Timers
          /\ accessDirty' \subseteq ActionIDs
          /\ looked' \in [Getters -> ActionIDs \cup {NoAction}]
      <4>1. CASE GetStart(g)
        BY <4>1, <1>T DEF GetStart, times, TypeOK
      <4>2. CASE GetBump(g)
        BY <4>2, <1>T DEF GetBump, NewTimers, BumpInv, TypeOK
      <4> QED
        BY <1>1, <4>1, <4>2
    <3> QED
      BY <1>1, <1>T, <3>1, <3>2 DEF GetStart, GetBump, locks, TypeOK, PCType, PCs
  <2> QED
    BY <1>1, <2>1, <2>2, OthersKeepConns, ProcsApart DEF GetStart, GetBump, locks, PCs
<1>2. ASSUME NEW g \in Getters, GetQuery(g) PROVE ConnsInv'
  <2>1. PICK to \in {"scan", "idle"} : Goes(g, to) /\ pc[g] = "query"
    BY <1>2 DEF GetQuery
  <2>2. PCType' /\ MuHeld'
    BY <1>2, <1>T, <2>1, OneGoes, OthersKeepMu, ProcsApart DEF GetQuery, locks, PCs
  <2>3. CASE TakesConn /\ Goes(g, "scan")
    <3>1. InUse' = InUse + 1
      BY <1>T, <2>1, <2>3, InUseChanges, ProcsApart DEF PCs
    <3>2. conns' \in 0..PoolSize /\ conns' = conns + 1
      BY <1>C, <2>3 DEF TakesConn
    <3>3. TypeOK'
      BY <1>2, <1>T, <2>2, <3>2 DEF GetQuery, times, locks, TypeOK, PCType, PCs
    <3> QED
      BY <1>2, <1>C, <2>2, <3>1, <3>2, <3>3 DEF GetQuery, ConnsInv, Closed
  <2>4. CASE UNCHANGED conns /\ Goes(g, "idle")
    <3>1. TypeOK'
      BY <1>2, <1>T, <2>2, <2>4 DEF GetQuery, times, locks, TypeOK, PCType, PCs
    <3> QED
      BY <1>2, <2>1, <2>4, <3>1, OthersKeepConns, ProcsApart DEF GetQuery, locks, PCs
  <2> QED
    BY <1>2, <2>3, <2>4 DEF GetQuery
<1>3. ASSUME NEW g \in Getters, GetScan(g) PROVE ConnsInv'
  <2>1. PICK to \in {"idle", "bump"} : Goes(g, to)
    BY <1>3, LooksGoes DEF GetScan
  <2>2. PCType' /\ MuHeld'
    BY <1>3, <1>T, <2>1, OneGoes, OthersKeepMu, ProcsApart DEF GetScan, locks, PCs
  <2>3. InUse' = InUse - 1 /\ InUse >= 1
    BY <1>3, <1>T, <2>1, InUseChanges, ConnsType, ProcsApart DEF GetScan, PCs
  <2>4. conns' = conns - 1 /\ conns' \in 0..PoolSize
    BY <1>3, <1>C, <2>3 DEF GetScan, ReleasesConn
  <2>5. looked' \in [Getters -> ActionIDs \cup {NoAction}]
    BY <1>3, <1>T DEF GetScan, Looks, TypeOK
  <2>6. TypeOK'
    BY <1>3, <1>T, <2>2, <2>4, <2>5 DEF GetScan, times, locks, TypeOK, PCType, PCs
  <2> QED
    BY <1>3, <1>C, <2>2, <2>3, <2>4, <2>6 DEF GetScan, ConnsInv, Closed
<1>4. ASSUME NEW p \in Putters, PutStart(p) \/ PutLock(p) \/ PutInsert(p) PROVE ConnsInv'
  <2>1. PICK to \in {"lock", "insert", "idle"} : Goes(p, to)
    BY <1>4 DEF PutStart, PutLock, PutInsert
  <2>2. /\ UNCHANGED <<accessDirty, timer, armed, mu, conns, writeConn, looked, closing>>
        /\ writeMu' \in {writeMu, p, Nobody}
    BY <1>4 DEF PutStart, PutLock, PutInsert, times, locks
  <2>3. PCType'
    BY <1>T, <2>1, OneGoes, ProcsApart DEF PCs
  <2>4. TypeOK'
    BY <1>T, <2>2, <2>3 DEF TypeOK, PCType, PCs
  <2> QED
    BY <2>1, <2>2, <2>4, OthersKeepConns, ProcsApart DEF PCs
<1>5. ASSUME NEW t \in Timers, NEW c \in Callbacks, TimerFires(t, c) PROVE ConnsInv'
  <2>1. Goes(c, "lockWrite") /\ UNCHANGED <<mu, conns, writeConn, closing>>
    BY <1>5 DEF TimerFires, locks
  <2>2. PCType'
    BY <1>T, <2>1, OneGoes, ProcsApart DEF PCs
  <2>3. TypeOK'
    BY <1>5, <1>T, <2>2 DEF TimerFires, locks, TypeOK, PCType, PCs
  <2> QED
    BY <2>1, <2>3, OthersKeepConns, ProcsApart DEF PCs
<1>6. ASSUME NEW f \in Flushers, FlushLockWrite(f) PROVE ConnsInv'
  <2>1. Goes(f, "lockMu") /\ UNCHANGED <<mu, conns, writeConn, closing>>
    BY <1>6 DEF FlushLockWrite
  <2>2. PCType'
    BY <1>T, <2>1, OneGoes, ProcsApart DEF PCs
  <2>3. TypeOK'
    BY <1>6, <1>T, <2>2 DEF FlushLockWrite, times, TypeOK, PCType, PCs
  <2> QED
    BY <2>1, <2>3, OthersKeepConns, ProcsApart DEF PCs
<1>7. ASSUME NEW f \in Flushers, FlushLockMu(f) PROVE ConnsInv'
  <2>1. PICK to \in {"idle", "query", "conn", "commit"} :
            /\ Goes(f, to)
            /\ to \in {"conn", "commit"} => mu' = f
            /\ to = "conn" => ~writeConn
            /\ to \in {"idle", "query"} => mu' = mu
    BY <1>7, FlushDoneGoes DEF FlushLockMu
  <2>2. /\ mu = Nobody /\ mu' \in {mu, f} /\ writeMu' \in {writeMu, Nobody}
        /\ timer' = NoTimer
        /\ UNCHANGED <<accessDirty, armed, conns, writeConn, looked, closing>>
    BY <1>7 DEF FlushLockMu, ForgetsTimer
  <2>3. PCType' /\ pc'[f] = to /\ \A q \in Flushers : q # f => pc'[q] = pc[q]
    BY <1>T, <2>1, OneGoes, ProcsApart DEF PCs
  <2>4. \A q \in Flushers : q # f => pc'[q] \notin {"conn", "commit"}
    BY <1>T, <2>2, <2>3, ProcsApart DEF MuHeld
  <2>5. MuHeld'
    BY <2>1, <2>2, <2>3, <2>4 DEF MuHeld
  <2>6. TypeOK'
    BY <1>T, <2>2, <2>3 DEF TypeOK, PCType, PCs
  <2>7. InUse' = InUse
    BY <1>T, <2>1, InUseChanges, ProcsApart DEF PCs
  <2> QED
    BY <1>C, <2>2, <2>5, <2>6, <2>7 DEF ConnsInv, Closed
<1>8. ASSUME NEW f \in Flushers, FlushConn(f) PROVE ConnsInv'
  <2>1. /\ Goes(f, "commit") /\ pc[f] = "conn" /\ mu = f /\ ~writeConn /\ writeConn'
        /\ ~Closed /\ conns' = conns + 1 /\ conns < PoolSize
        /\ UNCHANGED <<accessDirty, timer, armed, writeMu, mu, looked, closing>>
    BY <1>8, <1>T DEF FlushConn, TakesConn, times, locks, MuHeld
  <2>2. PCType' /\ pc'[f] = "commit" /\ \A q \in Flushers : q # f => pc'[q] = pc[q]
    BY <1>T, <2>1, OneGoes, ProcsApart DEF PCs
  <2>3. MuHeld'
    BY <1>T, <2>1, <2>2 DEF MuHeld
  <2>4. InUse' = InUse
    BY <1>T, <2>1, InUseChanges, ProcsApart DEF PCs
  <2>5. conns' \in 0..PoolSize /\ conns' = InUse' + 1
    BY <1>C, <2>1, <2>4
  <2>6. TypeOK'
    BY <1>8, <1>T, <2>1, <2>2, <2>5 DEF FlushConn, TypeOK, PCType, PCs
  <2> QED
    BY <2>1, <2>3, <2>5, <2>6 DEF ConnsInv, Closed
<1>9. ASSUME NEW f \in Flushers, FlushCommit(f) \/ FlushFails(f) PROVE ConnsInv'
  <2>1. PICK to \in {"idle", "query"} : Goes(f, to)
    BY <1>9, FlushDoneGoes DEF FlushCommit, FlushFails
  <2>2. /\ mu = f /\ mu' = Nobody /\ writeMu' = Nobody
        /\ UNCHANGED <<conns, writeConn, looked, closing>>
        /\ accessDirty' \subseteq ActionIDs
        /\ timer' \in Timers \cup {NoTimer} /\ armed' \subseteq Timers
    BY <1>9, <1>T DEF FlushCommit, FlushFails, Retries, NewTimers, MuHeld, TypeOK
  <2>3. PCType' /\ pc'[f] = to /\ \A q \in Flushers : q # f => pc'[q] = pc[q]
    BY <1>T, <2>1, OneGoes, ProcsApart DEF PCs
  <2>4. MuHeld'
    BY <1>T, <2>2, <2>3 DEF MuHeld
  <2>5. TypeOK'
    BY <1>T, <2>2, <2>3 DEF TypeOK, PCType, PCs
  <2>6. InUse' = InUse
    BY <1>T, <2>1, InUseChanges, ProcsApart DEF PCs
  <2> QED
    BY <1>C, <2>2, <2>4, <2>5, <2>6 DEF ConnsInv, Closed
<1>10. ASSUME NEW s \in Scanners,
              ScanStart(s) \/ ScanQuery(s) \/ DeleteLock(s) \/ DeleteBlobs(s)
       PROVE  ConnsInv'
  <2>1. PICK to \in {"query", "lockWrite", "idle", "lockDelete", "delete"} : Goes(s, to)
    BY <1>10 DEF ScanStart, ScanQuery, DeleteLock, DeleteBlobs
  <2>2. /\ UNCHANGED <<accessDirty, timer, armed, mu, conns, writeConn, looked, closing>>
        /\ writeMu' \in {writeMu, s, Nobody}
    BY <1>10 DEF ScanStart, ScanQuery, DeleteLock, DeleteBlobs, times, locks
  <2>3. PCType'
    BY <1>T, <2>1, OneGoes, ProcsApart DEF PCs
  <2>4. TypeOK'
    BY <1>T, <2>2, <2>3, ProcsApart DEF TypeOK, PCType, PCs
  <2> QED
    BY <2>1, <2>2, <2>4, OthersKeepConns, ProcsApart DEF PCs
<1>11. CASE CloseCancels \/ UNCHANGED vars
  <2>1. /\ UNCHANGED <<accessDirty, timer, armed, writeMu, mu, conns, writeConn, pc, looked>>
        /\ Closed' = Closed /\ closing' \in {"cancelled", closing}
    BY <1>11 DEF CloseCancels, vars, times, locks, Closed
  <2> QED
    BY <2>1 DEF ConnsInv, TypeOK, MuHeld, InUse
<1>12. CASE CloseLocked
  <2>1. /\ UNCHANGED <<accessDirty, timer, armed, writeMu, mu, writeConn, pc, looked>>
        /\ ~Closed /\ closing' = "closed" /\ conns' = IF writeConn THEN conns - 1 ELSE conns
    BY <1>12 DEF CloseLocked, ClosesWriteConn, times, locks, Closed
  <2>2. InUse' = InUse /\ conns' = InUse /\ conns' \in 0..PoolSize
    BY <1>C, <2>1 DEF InUse
  <2>3. TypeOK' /\ MuHeld'
    BY <1>T, <2>1, <2>2 DEF TypeOK, MuHeld
  <2> QED
    BY <1>C, <2>1, <2>2, <2>3 DEF ConnsInv, Closed
<1>13. CASE LoopEnds
  <2>1. /\ Goes(CleanLoop, "ended")
        /\ UNCHANGED <<accessDirty, timer, armed, writeMu, mu, conns, writeConn, looked, closing>>
    BY <1>13 DEF LoopEnds, times, locks
  <2>2. PCType'
    BY <1>T, <2>1, OneGoes, ProcsApart DEF PCs
  <2>3. TypeOK'
    BY <1>T, <2>1, <2>2 DEF TypeOK, PCType, PCs
  <2> QED
    BY <2>1, <2>3, OthersKeepConns, ProcsApart DEF PCs
<1> QED
  BY <1>1, <1>2, <1>3, <1>4, <1>5, <1>6, <1>7, <1>8, <1>9, <1>10, <1>11, <1>12, <1>13
     DEF Next, GetStep, PutStep, FlushStep, ScanStep

LEMMA ConnsCounted == Spec => []ConnsInv
<1>1. Init => BumpInv
  BY ProcsApart DEF Init, BumpInv, PCType, PCs
<1> QED
  BY <1>1, NextBump, InitConns, NextConns, PTL DEF Spec

(* Every variable keeps its type; above all, no more connections are in    *)
(* use than the pool has, and none is returned twice.                      *)
THEOREM FlushTypes == Spec => []TypeOK
<1>1. ConnsInv => TypeOK
  BY DEF ConnsInv
<1> QED
  BY <1>1, ConnsCounted, PTL

(* After Close, only queries that had begun before it have connections:    *)
(* that of the flush is closed, whenever the flush got it.                 *)
THEOREM CloseLeavesNoConnection == Spec => []CloseReleasesConns
<1>1. ConnsInv => CloseReleasesConns
  <2> SUFFICES ASSUME ConnsInv, Closed PROVE conns = InUse
    BY DEF CloseReleasesConns, InUse
  <2> QED
    BY InUseType DEF ConnsInv
<1> QED
  BY <1>1, ConnsCounted, PTL

-----------------------------------------------------------------------------
(* Waits.  Who is between two statements of sqliteWriteMu's, or of mu's,   *)
(* is who holds it.                                                        *)

UnderWriteMu == {"insert", "delete", "lockMu", "conn", "commit"}
UnderMu      == {"conn", "commit"}

HoldersInv ==
    /\ PCType
    /\ writeMu \in Procs \cup {Nobody} /\ mu \in Procs \cup {Nobody}
    /\ \A p \in Procs : pc[p] \in UnderWriteMu <=> writeMu = p
    /\ \A p \in Procs : pc[p] \in UnderMu <=> mu = p

(* A step takes a mutex nobody has, gives its own back, or leaves it.      *)
Passes(m, under, p, to) ==
    IF to \in under
    THEN IF pc[p] \in under THEN m' = m ELSE m = Nobody /\ m' = p
    ELSE IF pc[p] \in under THEN m' = Nobody ELSE m' = m

LEMMA OnePasses ==
    ASSUME HoldersInv, NEW p \in Procs, NEW to \in PCs, Goes(p, to),
           Passes(writeMu, UnderWriteMu, p, to), Passes(mu, UnderMu, p, to)
    PROVE  HoldersInv'
<1>1. /\ PCType' /\ pc'[p] = to
      /\ \A q \in Procs : q # p => pc'[q] = pc[q]
  BY OneGoes DEF HoldersInv
<1>2. Nobody \notin Procs
  BY DEF Procs, Flushers
<1>3. /\ writeMu' \in Procs \cup {Nobody}
      /\ \A q \in Procs : pc'[q] \in UnderWriteMu <=> writeMu' = q
  <2>1. CASE to \in UnderWriteMu /\ pc[p] \in UnderWriteMu
    BY <1>1, <1>2, <2>1 DEF HoldersInv, Passes
  <2>2. CASE to \in UnderWriteMu /\ pc[p] \notin UnderWriteMu
    BY <1>1, <1>2, <2>2 DEF HoldersInv, Passes
  <2>3. CASE to \notin UnderWriteMu /\ pc[p] \in UnderWriteMu
    BY <1>1, <1>2, <2>3 DEF HoldersInv, Passes
  <2>4. CASE to \notin UnderWriteMu /\ pc[p] \notin UnderWriteMu
    BY <1>1, <1>2, <2>4 DEF HoldersInv, Passes
  <2> QED
    BY <2>1, <2>2, <2>3, <2>4
<1>4. /\ mu' \in Procs \cup {Nobody}
      /\ \A q \in Procs : pc'[q] \in UnderMu <=> mu' = q
  <2>1. CASE to \in UnderMu /\ pc[p] \in UnderMu
    BY <1>1, <1>2, <2>1 DEF HoldersInv, Passes
  <2>2. CASE to \in UnderMu /\ pc[p] \notin UnderMu
    BY <1>1, <1>2, <2>2 DEF HoldersInv, Passes
  <2>3. CASE to \notin UnderMu /\ pc[p] \in UnderMu
    BY <1>1, <1>2, <2>3 DEF HoldersInv, Passes
  <2>4. CASE to \notin UnderMu /\ pc[p] \notin UnderMu
    BY <1>1, <1>2, <2>4 DEF HoldersInv, Passes
  <2> QED
    BY <2>1, <2>2, <2>3, <2>4
<1> QED
  BY <1>1, <1>3, <1>4 DEF HoldersInv

LEMMA InitHolders == Init => HoldersInv
BY DEF Init, HoldersInv, PCType, PCs, UnderWriteMu, UnderMu, Procs, Flushers

LEMMA NextHolders == HoldersInv /\ [Next]_vars => HoldersInv'
<1> SUFFICES ASSUME HoldersInv, [Next]_vars PROVE HoldersInv'
  OBVIOUS
<1> USE DEF Passes, UnderWriteMu, UnderMu, PCs
<1>1. ASSUME NEW g \in Getters, GetStart(g) \/ GetQuery(g) \/ GetScan(g) \/ GetBump(g)
      PROVE  HoldersInv'
  <2>1. PICK to \in {"query", "scan", "bump", "idle"} : Goes(g, to)
    BY <1>1, LooksGoes DEF GetStart, GetQuery, GetScan, GetBump
  <2>2. pc[g] \in {"idle", "query", "scan", "bump"} /\ UNCHANGED <<writeMu, mu>>
    BY <1>1 DEF GetStart, GetQuery, GetScan, GetBump, locks
  <2> QED
    BY <2>1, <2>2, OnePasses, ProcsApart
<1>2. ASSUME NEW p \in Putters, PutStart(p) \/ PutLock(p) \/ PutInsert(p) PROVE HoldersInv'
  BY <1>2, OnePasses, ProcsApart DEF PutStart, PutLock, PutInsert, locks
<1>3. ASSUME NEW t \in Timers, NEW c \in Callbacks, TimerFires(t, c) PROVE HoldersInv'
  BY <1>3, OnePasses, ProcsApart DEF TimerFires, locks
<1>4. ASSUME NEW f \in Flushers, FlushLockWrite(f) PROVE HoldersInv'
  BY <1>4, OnePasses, ProcsApart DEF FlushLockWrite
<1>5. ASSUME NEW f \in Flushers, FlushLockMu(f) PROVE HoldersInv'
  <2>1. CASE FlushDone(f) /\ writeMu' = Nobody /\ UNCHANGED mu
    <3>1. PICK to \in {"idle", "query"} : Goes(f, to)
      BY <2>1, FlushDoneGoes
    <3> QED
      BY <1>5, <2>1, <3>1, OnePasses, ProcsApart DEF FlushLockMu
  <2>2. CASE Goes(f, IF writeConn THEN "commit" ELSE "conn") /\ mu' = f /\ UNCHANGED writeMu
    BY <1>5, <2>2, OnePasses, ProcsApart DEF FlushLockMu
  <2> QED
    BY <1>5, <2>1, <2>2 DEF FlushLockMu
<1>6. ASSUME NEW f \in Flushers, FlushConn(f) PROVE HoldersInv'
  BY <1>6, OnePasses, ProcsApart DEF FlushConn, locks
<1>7. ASSUME NEW f \in Flushers, FlushCommit(f) \/ FlushFails(f) PROVE HoldersInv'
  <2>1. PICK to \in {"idle", "query"} : Goes(f, to)
    BY <1>7, FlushDoneGoes DEF FlushCommit, FlushFails
  <2>2. pc[f] \in {"conn", "commit"} /\ writeMu' = Nobody /\ mu' = Nobody
    BY <1>7 DEF FlushCommit, FlushFails
  <2> QED
    BY <2>1, <2>2, OnePasses, ProcsApart
<1>8. ASSUME NEW s \in Scanners,
             ScanStart(s) \/ ScanQuery(s) \/ DeleteLock(s) \/ DeleteBlobs(s)
      PROVE  HoldersInv'
  <2>1. CASE ScanStart(s)
    BY <2>1, OnePasses, ProcsApart DEF ScanStart, locks
  <2>2. CASE ScanQuery(s)
    BY <2>2, OnePasses, ProcsApart DEF ScanQuery, locks
  <2>3. CASE DeleteLock(s) \/ DeleteBlobs(s)
    BY <2>3, OnePasses, ProcsApart DEF DeleteLock, DeleteBlobs
  <2> QED
    BY <1>8, <2>1, <2>2, <2>3
<1>9. CASE CloseCancels \/ CloseLocked \/ UNCHANGED vars
  BY <1>9 DEF CloseCancels, CloseLocked, vars, locks, HoldersInv, PCType
<1>10. CASE LoopEnds
  BY <1>10, OnePasses, ProcsApart DEF LoopEnds, locks
<1> QED
  BY <1>1, <1>2, <1>3, <1>4, <1>5, <1>6, <1>7, <1>8, <1>9, <1>10
     DEF Next, GetStep, PutStep, FlushStep, ScanStep

LEMMA HoldersHold == Spec => []HoldersInv
BY InitHolders, NextHolders, PTL DEF Spec

(* Of a pool of two or more that is used up, the flush has one: a query    *)
(* has another.                                                            *)
LEMMA PoolIsUsedByScans ==
    ASSUME ConnsInv, PoolSize >= 2, ~NeedsConn
    PROVE  \E g \in Getters : pc[g] = "scan"
<1>1. conns >= PoolSize /\ conns \in Int /\ PoolSize \in Int
  BY ConnsType DEF NeedsConn, ConnsInv
<1>2. InUse \in Nat /\ conns <= InUse + 1
  BY InUseType DEF ConnsInv
<1>3. InUse # 0
  BY <1>1, <1>2
<1> QED
  BY <1>3, FS_EmptySet DEF InUse

(* Where the pool has two connections or more, nobody waits in a circle:   *)
(* not two or three of many, whatever becomes of the others, nor during    *)
(* Close.  With one connection they do, as the run one_connection shows.   *)
THEOREM WaitsAreOrdered ==
    ASSUME PoolSize >= 2 PROVE Spec => []WaitsInOrder
<1>1. HoldersInv /\ ConnsInv => WaitsInOrder
  <2> SUFFICES ASSUME HoldersInv, ConnsInv, NEW p \in Procs, Working(p), ~MayGo(p)
               PROVE  \E q \in Procs : Working(q) /\ WaitsFor(p, q) /\ Level(q) > Level(p)
    BY DEF WaitsInOrder
  <2> USE DEF Working, Level, WantsWriteMu, WantsMu, WantsConn, UnderWriteMu, UnderMu
  <2>1. CASE WantsWriteMu(p) /\ writeMu # Nobody
    <3>1. writeMu \in Procs /\ pc[writeMu] \in UnderWriteMu
      BY <2>1 DEF HoldersInv
    <3> QED
      BY <2>1, <3>1 DEF WaitsFor
  <2>2. CASE WantsMu(p) /\ mu # Nobody
    <3>1. mu \in Procs /\ pc[mu] \in UnderMu
      BY <2>2 DEF HoldersInv
    <3> QED
      BY <2>2, <3>1 DEF WaitsFor
  <2>3. CASE WantsConn(p) /\ ~NeedsConn
    <3>1. PICK g \in Getters : pc[g] = "scan"
      BY <2>3, PoolIsUsedByScans
    <3> QED
      BY <2>3, <3>1, ProcsApart DEF WaitsFor
  <2> QED
    BY <2>1, <2>2, <2>3 DEF MayGo
<1> QED
  BY <1>1, HoldersHold, ConnsCounted, PTL

SomebodyGoes == (\E p \in Procs : Working(p)) => \E p \in Procs : MayGo(p)

(* So while anything is under way, somebody can go on: a wait is for       *)
(* somebody further on in the order, and who is furthest waits for nobody. *)
THEOREM NobodyIsStuck ==
    ASSUME PoolSize >= 2 PROVE Spec => []SomebodyGoes
<1>1. WaitsInOrder => SomebodyGoes
  <2> SUFFICES ASSUME WaitsInOrder, NEW p \in Procs, Working(p)
               PROVE  \E q \in Procs : MayGo(q)
    BY DEF SomebodyGoes
  <2>1. \A q \in Procs : Level(q) \in 1..4
    BY DEF Level
  <2>2. ASSUME NEW q \in Procs, Working(q), Level(q) = 4 PROVE MayGo(q)
    BY <2>2 DEF Level, MayGo
  <2>3. ASSUME NEW q \in Procs, Working(q), Level(q) >= 3 PROVE \E r \in Procs : MayGo(r)
    BY <2>1, <2>2, <2>3 DEF WaitsInOrder
  <2>4. ASSUME NEW q \in Procs, Working(q), Level(q) >= 2 PROVE \E r \in Procs : MayGo(r)
    BY <2>1, <2>3, <2>4 DEF WaitsInOrder
  <2> QED
    BY <2>1, <2>4 DEF WaitsInOrder
<1> QED
  BY <1>1, WaitsAreOrdered, PTL

(* What a flush writes is what was pending when it took mu, and all of it, *)
(* while nobody else writes: with any number of requests, callbacks and    *)
(* scanners it is one step to the others, as Gocached takes it to be.      *)
THEOREM FlushesAreAtomic == Spec => FlushIsOneStep
<1> DEFINE Alone ==
        \A f \in Flushers : pc[f] \in {"conn", "commit"} =>
          /\ accessDirty' \subseteq accessDirty
          /\ pc'[f] \in {"conn", "commit"} => accessDirty' = accessDirty
          /\ \A p \in Procs \ {f} :
                pc[p] \notin {"insert", "delete", "lockMu", "conn", "commit"}
<1>1. HoldersInv /\ [Next]_vars => [Alone]_vars
  <2> SUFFICES ASSUME HoldersInv, Next, NEW f \in Flushers, pc[f] \in {"conn", "commit"}
               PROVE  /\ accessDirty' \subseteq accessDirty
                      /\ pc'[f] \in {"conn", "commit"} => accessDirty' = accessDirty
                      /\ \A p \in Procs \ {f} :
                            pc[p] \notin {"insert", "delete", "lockMu", "conn", "commit"}
    OBVIOUS
  <2>1. writeMu = f /\ mu = f /\ f # Nobody
    BY ProcsApart DEF HoldersInv, UnderWriteMu, UnderMu, Procs
  <2>2. \A p \in Procs \ {f} : pc[p] \notin {"insert", "delete", "lockMu", "conn", "commit"}
    BY <2>1 DEF HoldersInv, UnderWriteMu
  <2>3. \A g \in Getters : ~GetBump(g)
    BY <2>1 DEF GetBump, BumpLocks
  <2>4. ASSUME NEW e \in Flushers, FlushCommit(e)
        PROVE  accessDirty' = {} /\ pc'[f] \notin {"conn", "commit"}
    <3>1. e = f /\ accessDirty' = {}
      BY <2>2, <2>4 DEF FlushCommit, Procs
    <3>2. PICK to \in {"idle", "query"} : Goes(f, to)
      BY <2>4, <3>1, FlushDoneGoes DEF FlushCommit
    <3>3. f \in DOMAIN pc
      BY DEF HoldersInv, PCType, Procs
    <3> QED
      BY <3>1, <3>2, <3>3 DEF Goes
  <2>5. CASE \E e \in Flushers : FlushCommit(e)
    BY <2>2, <2>4, <2>5
  <2>6. CASE ~\E e \in Flushers : FlushCommit(e)
    <3>1. accessDirty' = accessDirty
      BY <2>3, <2>6
         DEF Next, GetStep, PutStep, FlushStep, ScanStep, times,
             GetStart, GetQuery, GetScan, PutStart, PutLock, PutInsert, TimerFires,
             FlushLockWrite, FlushLockMu, FlushConn, FlushFails, ScanStart, ScanQuery,
             DeleteLock, DeleteBlobs, CloseCancels, CloseLocked, LoopEnds
    <3> QED
      BY <2>2, <3>1
  <2> QED
    BY <2>5, <2>6
<1>2. FlushIsOneStep <=> [][Alone]_vars
  BY DEF FlushIsOneStep
<1> QED
  BY <1>1, <1>2, HoldersHold, PTL DEF Spec
=============================================================================
