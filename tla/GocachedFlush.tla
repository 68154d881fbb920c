---------------------------- MODULE GocachedFlush ----------------------------
(***************************************************************************)
(* What Gocached takes as one step, seen from inside: the pending access   *)
(* times of gocached, the timer that flushes them, the locks the flush     *)
(* takes (sqliteWriteMu, then mu), and the pool of SQLite connections that *)
(* every statement draws on.  What statements read and write is left out:  *)
(* whether an access time that GET reads is a day old is any choice.       *)
(*                                                                         *)
(* A connection is held for a statement or a transaction, while waiting    *)
(* for nothing else, so a step that uses one needs a free one and returns  *)
(* it; only the query of GET is split where it returns it.  The flush      *)
(* keeps its own connection, writeConn, once it has one.                   *)
(*                                                                         *)
(* Close may come at any time: it cancels the context of the loops, and    *)
(* then, under mu, closes writeConn and the pool.  What waits for a        *)
(* connection fails from then on, and what has one keeps it to the end of  *)
(* its statement.                                                          *)
(***************************************************************************)
EXTENDS Integers, FiniteSets

CONSTANTS ActionIDs,
          Getters, Putters, \* requests
          Scanners,         \* callers of usageStats: the clean loop and POST /usage
          CleanLoop,        \* the one of them that deletes
          Callbacks,        \* bound: timer callbacks that run at a time
          Timers,           \* bound: timers that exist at a time
          PoolSize,         \* min(runtime.NumCPU(), 4)
          SoftLimit,        \* accessBatchSizeSoftLimit, 1000 in the code
          Nobody, NoTimer, NoAction

ASSUME PoolAssumption == PoolSize \in 1..4 /\ SoftLimit \in Nat
ASSUME NamesAssumption ==
    /\ CleanLoop \in Scanners
    /\ Nobody \notin Getters \cup Putters \cup Scanners \cup Callbacks
    /\ NoTimer \notin Timers /\ NoAction \notin ActionIDs
ASSUME ProcessesAssumption ==
    /\ IsFiniteSet(Getters)
    /\ Getters \cap (Putters \cup Scanners \cup Callbacks) = {}
    /\ Putters \cap (Scanners \cup Callbacks) = {} /\ Scanners \cap Callbacks = {}

Flushers == Scanners \cup Callbacks
Procs    == Getters \cup Putters \cup Flushers

VARIABLES accessDirty,  \* actions with a pending access time
          timer,        \* accessFlushTimer
          armed,        \* timers whose time is running
          writeMu, mu,  \* holders of sqliteWriteMu and, exclusively, of mu
          conns,        \* connections in use
          writeConn,    \* the flush has its connection
          pc,           \* where each goroutine is
          looked,       \* the action each getter is about to bump
          closing       \* how far Close is

vars  == <<accessDirty, timer, armed, writeMu, mu, conns, writeConn, pc, looked, closing>>
locks == <<writeMu, mu>>
times == <<accessDirty, timer, armed>>

Init == /\ accessDirty = {}
        /\ timer = NoTimer /\ armed = {}
        /\ writeMu = Nobody /\ mu = Nobody
        /\ conns = 0 /\ writeConn = FALSE
        /\ pc = [p \in Procs |-> "idle"]
        /\ looked = [g \in Getters |-> NoAction]
        /\ closing = "open"

Goes(p, to)  == pc' = [pc EXCEPT ![p] = to]
Closed       == closing = "closed"
NeedsConn    == conns < PoolSize \/ Closed  \* and then fails
OpensConn    == ~Closed /\ conns' = conns + 1  \* mutant: no SetMaxOpenConns
TakesConn    == ~Closed /\ conns < PoolSize /\ conns' = conns + 1
ReleasesConn == conns' = conns - 1

(* time.AfterFunc, when there is no timer.  Where all of Timers run, the   *)
(* new one counts as one of them.                                          *)
NewTimers == IF armed = Timers THEN Timers ELSE Timers \ armed

-----------------------------------------------------------------------------
(* GET: the join, then maybeBumpAccessTime. *)

GetStart(g) ==
    /\ pc[g] = "idle" /\ Goes(g, "query")
    /\ UNCHANGED <<times, locks, conns, writeConn, looked, closing>>

GetQueryOutwaits(g) ==  \* mutant: waits for a connection of a closed pool
    /\ pc[g] = "query" /\ TakesConn /\ Goes(g, "scan")
    /\ UNCHANGED <<times, locks, writeConn, looked, closing>>

GetQuery(g) ==
    /\ pc[g] = "query"
    /\ \/ TakesConn /\ Goes(g, "scan")
       \/ NeedsConn /\ UNCHANGED conns /\ Goes(g, "idle")
    /\ UNCHANGED <<times, locks, writeConn, looked, closing>>

(* maybeBumpAccessTime goes on only when the time read is a day old.       *)
Looks(g) == \/ Goes(g, "idle") /\ UNCHANGED looked
            \/ \E a \in ActionIDs : Goes(g, "bump") /\ looked' = [looked EXCEPT ![g] = a]

(* QueryRow's Scan closes the rows, before the access time is looked at.   *)
GetScanKeepsConn(g) ==  \* mutant
    /\ pc[g] = "scan" /\ UNCHANGED conns /\ Looks(g)
    /\ UNCHANGED <<times, locks, writeConn, closing>>

GetScan(g) ==
    /\ pc[g] = "scan" /\ ReleasesConn /\ Looks(g)
    /\ UNCHANGED <<times, locks, writeConn, closing>>

(* mu is held for the length of the step. *)
BumpsUnlocked == TRUE  \* mutant
BumpLocks     == mu = Nobody

(* enqueueAccessTimeBump.  A new timer is armed; one that was set is armed *)
(* again, whether or not it has fired, while the batch is small.           *)
GetBump(g) ==
    /\ pc[g] = "bump" /\ BumpLocks /\ Goes(g, "idle")
    /\ looked' = [looked EXCEPT ![g] = NoAction]
    /\ LET a == looked[g]
       IN \/ a \in accessDirty /\ UNCHANGED <<accessDirty, timer, armed>>
          \/ /\ a \notin accessDirty
             /\ accessDirty' = accessDirty \cup {a}
             /\ \/ /\ timer = NoTimer
                   /\ timer' \in NewTimers
                   /\ armed' = armed \cup {timer'}
                \/ /\ timer # NoTimer
                   /\ Cardinality(accessDirty') < SoftLimit
                   /\ armed' = armed \cup {timer}
                   /\ UNCHANGED timer
                \/ /\ timer # NoTimer
                   /\ Cardinality(accessDirty') >= SoftLimit
                   /\ UNCHANGED <<timer, armed>>
    /\ UNCHANGED <<locks, conns, writeConn, closing>>

-----------------------------------------------------------------------------
(* PUT: statements under sqliteWriteMu. *)

PutStart(p) ==
    /\ pc[p] = "idle" /\ Goes(p, "lock")
    /\ UNCHANGED <<times, locks, conns, writeConn, looked, closing>>

PutLock(p) ==
    /\ pc[p] = "lock" /\ writeMu = Nobody
    /\ writeMu' = p /\ Goes(p, "insert")
    /\ UNCHANGED <<times, mu, conns, writeConn, looked, closing>>

PutInsert(p) ==
    /\ pc[p] = "insert" /\ NeedsConn /\ Goes(p, "idle")
    /\ writeMu' = Nobody
    /\ UNCHANGED <<times, mu, conns, writeConn, looked, closing>>

-----------------------------------------------------------------------------
(* flushAccessTimeBumps: the callback of a timer, or called by usageStats. *)

FlushDone(f) == Goes(f, IF f \in Callbacks THEN "idle" ELSE "query")

TimerFires(t, c) ==
    /\ t \in armed /\ pc[c] = "idle"
    /\ armed' = armed \ {t}
    /\ Goes(c, "lockWrite")
    /\ UNCHANGED <<accessDirty, timer, locks, conns, writeConn, looked, closing>>

FlushLockWrite(f) ==
    /\ pc[f] = "lockWrite" /\ writeMu = Nobody
    /\ writeMu' = f /\ Goes(f, "lockMu")
    /\ UNCHANGED <<times, mu, conns, writeConn, looked, closing>>

ForgetsTimer == timer' = NoTimer

FlushLockMu(f) ==
    /\ pc[f] = "lockMu" /\ mu = Nobody
    /\ ForgetsTimer
    /\ \/ accessDirty = {} /\ FlushDone(f) /\ writeMu' = Nobody /\ UNCHANGED mu
       \/ /\ accessDirty # {}
          /\ Goes(f, IF writeConn THEN "commit" ELSE "conn")
          /\ mu' = f /\ UNCHANGED writeMu
    /\ UNCHANGED <<accessDirty, armed, conns, writeConn, looked, closing>>

FlushConn(f) ==
    /\ pc[f] = "conn" /\ TakesConn
    /\ writeConn' = TRUE /\ Goes(f, "commit")
    /\ UNCHANGED <<times, locks, looked, closing>>

FlushCommit(f) ==
    /\ pc[f] = "commit" /\ ~Closed /\ FlushDone(f)
    /\ accessDirty' = {}
    /\ writeMu' = Nobody /\ mu' = Nobody
    /\ UNCHANGED <<timer, armed, conns, writeConn, looked, closing>>

(* Any statement may fail, and does once writeConn or the pool is closed.  *)
(* A new timer is set, and the map kept.                                   *)
GivesUp == UNCHANGED <<timer, armed>>  \* mutant
Retries == /\ timer' \in NewTimers
           /\ armed' = armed \cup {timer'}

FlushFails(f) ==
    /\ \/ pc[f] = "conn" /\ NeedsConn
       \/ pc[f] = "commit"
    /\ FlushDone(f)
    /\ Retries
    /\ writeMu' = Nobody /\ mu' = Nobody
    /\ UNCHANGED <<accessDirty, conns, writeConn, looked, closing>>

-----------------------------------------------------------------------------
(* usageStats, and the clean loop's deleteBlobs. *)

ScanStart(s) ==
    /\ pc[s] = "idle" /\ mu = Nobody
    /\ Goes(s, IF accessDirty = {} THEN "query" ELSE "lockWrite")
    /\ UNCHANGED <<times, locks, conns, writeConn, looked, closing>>

ScanQuery(s) ==
    /\ pc[s] = "query" /\ NeedsConn
    /\ \/ Goes(s, "idle")
       \/ s = CleanLoop /\ ~Closed /\ Goes(s, "lockDelete")
    /\ UNCHANGED <<times, locks, conns, writeConn, looked, closing>>

DeleteLock(s) ==
    /\ pc[s] = "lockDelete" /\ writeMu = Nobody
    /\ writeMu' = s /\ Goes(s, "delete")
    /\ UNCHANGED <<times, mu, conns, writeConn, looked, closing>>

DeleteBlobs(s) ==
    /\ pc[s] = "delete" /\ NeedsConn /\ Goes(s, "idle")
    /\ writeMu' = Nobody
    /\ UNCHANGED <<times, mu, conns, writeConn, looked, closing>>

-----------------------------------------------------------------------------
(* Close. *)

CloseCancels ==
    /\ closing = "open" /\ closing' = "cancelled"
    /\ UNCHANGED <<times, locks, conns, writeConn, pc, looked>>

KeepsWriteConn  == UNCHANGED conns  \* mutant
ClosesWriteConn == conns' = IF writeConn THEN conns - 1 ELSE conns

CloseLocked ==
    /\ closing = "cancelled" /\ mu = Nobody /\ closing' = "closed"
    /\ ClosesWriteConn
    /\ UNCHANGED <<times, locks, writeConn, pc, looked>>

LoopEnds ==
    /\ pc[CleanLoop] = "idle" /\ closing # "open" /\ Goes(CleanLoop, "ended")
    /\ UNCHANGED <<times, locks, conns, writeConn, looked, closing>>

-----------------------------------------------------------------------------
GetStep(g) == GetQuery(g) \/ GetScan(g) \/ GetBump(g)
PutStep(p) == PutLock(p) \/ PutInsert(p)
FlushStep(f) == \/ FlushLockWrite(f) \/ FlushLockMu(f) \/ FlushConn(f) \/ FlushCommit(f)
                \/ Closed /\ FlushFails(f)
ScanStep(s) == ScanQuery(s) \/ DeleteLock(s) \/ DeleteBlobs(s)

Next == \/ \E g \in Getters : GetStart(g) \/ GetStep(g)
        \/ \E p \in Putters : PutStart(p) \/ PutStep(p)
        \/ \E f \in Flushers : FlushStep(f) \/ FlushFails(f)
        \/ \E t \in Timers, c \in Callbacks : TimerFires(t, c)
        \/ \E s \in Scanners : ScanStart(s) \/ ScanStep(s)
        \/ CloseCancels \/ CloseLocked \/ LoopEnds

Spec == Init /\ [][Next]_vars

(* Goroutines run; mutexes and the pool's queue are FIFO under contention, *)
(* hence SF where a step waits for one.  Timers fire.                      *)
Fairness ==
    /\ \A g \in Getters : SF_vars(GetStep(g))
    /\ \A p \in Putters : SF_vars(PutStep(p))
    /\ \A f \in Flushers : SF_vars(FlushStep(f))
    /\ SF_vars(\E t \in Timers, c \in Callbacks : TimerFires(t, c))
    /\ \A s \in Scanners : SF_vars(ScanStep(s))

FairSpec == Spec /\ Fairness

-----------------------------------------------------------------------------
(* Properties. *)

TypeOK ==
    /\ accessDirty \subseteq ActionIDs
    /\ timer \in Timers \cup {NoTimer} /\ armed \subseteq Timers
    /\ writeMu \in Putters \cup Flushers \cup {Nobody}
    /\ mu \in Flushers \cup {Nobody}
    /\ conns \in 0..PoolSize /\ writeConn \in BOOLEAN
    /\ pc \in [Procs -> {"idle", "query", "scan", "bump", "lock", "insert",
                         "lockWrite", "lockMu", "conn", "commit", "lockDelete", "delete", "ended"}]
    /\ looked \in [Getters -> ActionIDs \cup {NoAction}]
    /\ closing \in {"open", "cancelled", "closed"}

(* No lost wake-up: a pending access time has a timer running, or a flush  *)
(* on its way that will see it, however timers, resets of timers that have *)
(* already fired, usageStats, failing flushes and Close interleave.        *)
FlushScheduled ==
    accessDirty # {} =>
        \/ armed # {}
        \/ \E f \in Flushers : pc[f] \in {"lockWrite", "lockMu", "conn", "commit"}

(* Who waits for what.  A request, a flush or usageStats under way waits   *)
(* for one of the two mutexes, for a connection, or for nothing.           *)
Working(p) == pc[p] \notin {"idle", "ended"}
WantsWriteMu(p) == pc[p] \in {"lock", "lockWrite", "lockDelete"}
WantsMu(p)      == pc[p] \in {"bump", "lockMu"}
WantsConn(p)    == pc[p] \in {"query", "insert", "delete", "conn"}
MayGo(p) == /\ Working(p)
            /\ WantsWriteMu(p) => writeMu = Nobody
            /\ WantsMu(p) => mu = Nobody
            /\ WantsConn(p) => NeedsConn
WaitsFor(p, q) == \/ WantsWriteMu(p) /\ writeMu = q
                  \/ WantsMu(p) /\ mu = q
                  \/ WantsConn(p) /\ ~NeedsConn /\ pc[q] = "scan"

(* sqliteWriteMu comes before mu, and mu before the pool. *)
Level(p) == IF WantsWriteMu(p) THEN 1 ELSE IF WantsMu(p) THEN 2
            ELSE IF WantsConn(p) THEN 3 ELSE 4

(* No circular wait, of few or of all: whoever cannot go on waits for      *)
(* somebody at work who wants nothing, or only what comes later in the     *)
(* order ("before srv.mu").  The flush waits for a connection with both    *)
(* locks held, so no one may wait for a lock holding one.                  *)
WaitsInOrder ==
    \A p \in Procs : Working(p) =>
        \/ MayGo(p)
        \/ \E q \in Procs : Working(q) /\ WaitsFor(p, q) /\ Level(q) > Level(p)

(* There is nothing else to wait for: whoever may go has a step, before,   *)
(* during and after Close.                                                 *)
OnlyTheseWaits ==
    /\ \A g \in Getters : MayGo(g) => ENABLED GetStep(g)
    /\ \A p \in Putters : MayGo(p) => ENABLED PutStep(p)
    /\ \A f \in Callbacks : MayGo(f) => ENABLED FlushStep(f)
    /\ \A s \in Scanners : MayGo(s) => ENABLED (FlushStep(s) \/ ScanStep(s))

(* To everyone else a flush is one step, as Gocached has it: from when it  *)
(* looks at the pending times until it has written and dropped them no     *)
(* time is added, which would be dropped unwritten, and nobody else writes *)
(* to the database, though it waits for a connection in between.           *)
FlushIsOneStep ==
    [][\A f \in Flushers : pc[f] \in {"conn", "commit"} =>
          /\ accessDirty' \subseteq accessDirty
          /\ pc'[f] \in {"conn", "commit"} => accessDirty' = accessDirty
          /\ \A p \in Procs \ {f} :
                pc[p] \notin {"insert", "delete", "lockMu", "conn", "commit"}]_vars

(* Close loses no connection: once it has closed the pool, the ones in use *)
(* are those of queries that began before, whatever flush was getting hold *)
(* of writeConn while Close waited for mu.                                 *)
CloseReleasesConns == Closed => conns = Cardinality({g \in Getters : pc[g] = "scan"})

(* usageStats returns.                                                     *)
UsageStatsReturns == \A s \in Scanners : []<>(pc[s] \in {"idle", "ended"})
=============================================================================
