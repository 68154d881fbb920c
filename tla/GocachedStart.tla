---------------------------- MODULE GocachedStart ----------------------------
(***************************************************************************)
(* The life of a gocached process: NewServer opens the database, with a    *)
(* migration if need be, looks at usage and cleans, and loads the key sets *)
(* of the issuers, in this order, and any error ends it; then requests are *)
(* served, Close may come, and the process may die at any point and be     *)
(* started again.  (What cleaning does to rows is in Gocached.)            *)
(***************************************************************************)
EXTENDS GocachedMigration, GocachedSessions

vars == <<v3, v4, tmp, step, published, everPublished, signingKeys, loaded, refresh,
          failed, phase, loops, sessions, issued, request, now>>

Init == MigrationInit /\ SessionsInit

(* A PUT writes a row, if the database is open.                            *)
ServePut(r) ==
    /\ request[r].method = "PUT" /\ Answer(r)
    /\ \/ phase = "serving" /\ NewPut
       \/ UNCHANGED migrationVars

ServeGet(r) == request[r].method = "GET" /\ Answer(r) /\ UNCHANGED migrationVars

(* NewServer fails or the process dies.                                    *)
StartStops ==
    /\ phase = "down"
    /\ MigrationStops \/ Down
    /\ UNCHANGED sessionVars

Dies == Stop /\ Down

OpensDatabase ==
    /\ OldPut \/ OldCheckpoint \/ OpenDB \/ Migrates \/ ExecSchema
    /\ UNCHANGED sessionVars

ServesSessions ==
    /\ \/ LoadKeys /\ step = "up"
       \/ Serve \/ Close \/ \E l \in loops : LoopReturns(l)
       \/ Refreshes \/ CleanSessions \/ OutsideMoves \/ Exchanges \/ Admissions
    /\ UNCHANGED migrationVars

Next == \/ OpensDatabase
        \/ ServesSessions
        \/ \E r \in Requests : ServePut(r) \/ ServeGet(r)
        \/ StartStops \/ Dies

FairSpec == Init /\ [][Next]_vars /\ SessionsFairness

TypeOK == MigrationTypeOK /\ SessionsTypeOK
=============================================================================
