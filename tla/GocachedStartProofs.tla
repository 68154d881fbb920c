------------------------- MODULE GocachedStartProofs -------------------------
(***************************************************************************)
(* Theorems about the life of a gocached process: that an upgrade keeps    *)
(* the rows, and that no request is served without its key sets and        *)
(* claims, for any rows, issuers, keys, tokens and requests.               *)
(***************************************************************************)
EXTENDS GocachedStart, TLAPS

Spec == Init /\ [][Next]_vars

LEMMA FairRunsAreRuns == FairSpec => Spec
BY DEF FairSpec, Spec

-----------------------------------------------------------------------------
(* The database files. *)

(* The steps that touch the files; all others leave them. *)
FileStep == \/ OldPut \/ OldCheckpoint \/ OpenDB \/ Migrates \/ ExecSchema
            \/ NewPut \/ MigrationStops \/ Down

LEMMA FilesMove == [Next]_vars => FileStep \/ UNCHANGED migrationVars
BY DEF Next, vars, FileStep, migrationVars, OpensDatabase, ServesSessions,
       ServePut, ServeGet, StartStops, Dies

(* The copy has the rows of v3 in its main file, v3 has all of its rows in *)
(* its own until the rename, and v4 is never less than complete.           *)
MigrationInv ==
    /\ MigrationTypeOK
    /\ v4 # NoFile => v4.has = Statements
    /\ step \in {"checkpoint", "copy", "statements", "rename"} =>
           v4 = NoFile /\ v3 # NoFile
    /\ step \in {"copy", "statements", "rename"} => v3.rowsInLog = {}
    /\ step \in {"statements", "rename"} =>
           tmp # NoFile /\ tmp.rows = v3.rows /\ tmp.rowsInLog = {}
    /\ step = "rename" => tmp.has = Statements /\ tmp.hasInLog = {}
    /\ step = "open" => v3 = NoFile \/ v4 # NoFile
    /\ step = "up" => v4 # NoFile

LEMMA EmptyType == \A has \in SUBSET Statements : Empty(has) \in Database
BY DEF Empty, Database

LEMMA DatabaseOperators ==
    ASSUME NEW db \in Database
    PROVE  /\ Checkpointed(db) \in Database
           /\ Checkpointed(db).rows = db.rows /\ Checkpointed(db).has = db.has
           /\ Checkpointed(db).rowsInLog = {} /\ Checkpointed(db).hasInLog = {}
           /\ MainFile(db) \in Database
           /\ MainFile(db).rows = db.rows \ db.rowsInLog
           /\ MainFile(db).has = db.has \ db.hasInLog
           /\ MainFile(db).rowsInLog = {}
           /\ \A s \in Statements : /\ Executed(db, s) \in Database
                                    /\ Executed(db, s).rows = db.rows
                                    /\ Executed(db, s).rowsInLog = db.rowsInLog
           /\ \A r \in Rows : /\ Inserted(db, r) \in Database
                              /\ Inserted(db, r).rows = db.rows \cup {r}
BY DEF Database, Checkpointed, MainFile, Executed, Inserted

LEMMA InitMigration == Init => MigrationInv
BY EmptyType DEF Init, MigrationInit, MigrationInv, MigrationTypeOK

(* What is renamed to v4 is all there, in its main file.                   *)
LEMMA RenamedIsComplete ==
    MigrationInv /\ step = "rename" =>
        /\ MainFile(tmp) \in Database
        /\ MainFile(tmp).rows = v3.rows /\ MainFile(tmp).has = Statements
<1> SUFFICES ASSUME MigrationInv, step = "rename"
             PROVE  /\ MainFile(tmp) \in Database
                    /\ MainFile(tmp).rows = v3.rows /\ MainFile(tmp).has = Statements
  OBVIOUS
<1>1. tmp \in Database /\ tmp.rows = v3.rows /\ tmp.rowsInLog = {}
      /\ tmp.has = Statements /\ tmp.hasInLog = {}
  BY DEF MigrationInv, MigrationTypeOK
<1>2. /\ MainFile(tmp) \in Database
      /\ MainFile(tmp).rows = tmp.rows \ tmp.rowsInLog
      /\ MainFile(tmp).has = tmp.has \ tmp.hasInLog
  BY <1>1, DatabaseOperators
<1> QED
  BY <1>1, <1>2

LEMMA NextMigration == MigrationInv /\ [Next]_vars => MigrationInv'
<1> SUFFICES ASSUME MigrationInv, [Next]_vars PROVE MigrationInv'
  OBVIOUS
<1> USE NoFileAssumption DEF MigrationInv, MigrationTypeOK
<1>1. CASE OldPut \/ OldCheckpoint
  BY <1>1, DatabaseOperators DEF OldPut, OldCheckpoint
<1>2. CASE OpenDB
  BY <1>2 DEF OpenDB, files
<1>3. CASE MigrateCheckpoint
  BY <1>3, DatabaseOperators DEF MigrateCheckpoint, CheckpointV3
<1>4. CASE MigrateCopy
  <2>1. v3 \in Database /\ v3.rowsInLog = {}
    BY <1>4 DEF MigrateCopy
  <2>2. /\ tmp' \in Database /\ tmp'.rowsInLog = {}
        /\ tmp'.rows = v3.rows \ v3.rowsInLog
    BY <1>4, <2>1, DatabaseOperators DEF MigrateCopy
  <2>3. tmp'.rows = v3.rows
    BY <2>1, <2>2
  <2> QED
    BY <1>4, <2>1, <2>2, <2>3 DEF MigrateCopy
<1>5. CASE MigrateStatement
  <2>1. PICK s \in Statements : tmp' = Executed(tmp, s)
    BY <1>5 DEF MigrateStatement, Statements
  <2>2. tmp \in Database
    BY <1>5 DEF MigrateStatement
  <2>3. tmp' \in Database /\ tmp'.rows = tmp.rows /\ tmp'.rowsInLog = tmp.rowsInLog
    BY <2>1, <2>2, DatabaseOperators
  <2> QED
    BY <1>5, <2>3 DEF MigrateStatement
<1>6. CASE MigrateClose
  BY <1>6, DatabaseOperators DEF MigrateClose
<1>7. CASE MigrateRename
  <2>1. v4' \in Database /\ v4'.has = Statements
    BY <1>7, RenamedIsComplete DEF MigrateRename
  <2> QED
    BY <1>7, <2>1 DEF MigrateRename
<1>8. CASE ExecSchema
  <2>1. Empty(Statements) \in Database /\ Empty(Statements).has = Statements
    BY EmptyType DEF Empty
  <2> QED
    BY <1>8, <2>1 DEF ExecSchema
<1>9. CASE NewPut
  <2>1. PICK r \in Rows : v4' = [v4 EXCEPT !.rows = @ \cup {r}]
    BY <1>9 DEF NewPut
  <2>2. v4 \in Database /\ v4' \in Database /\ v4'.has = v4.has
    BY <1>9, <2>1 DEF NewPut, Database
  <2> QED
    BY <1>9, <2>2 DEF NewPut
<1>10. CASE MigrationStops
  BY <1>10 DEF MigrationStops, RemovesTemp
<1>11. CASE Down
  BY <1>11 DEF Down, files
<1>12. CASE UNCHANGED migrationVars
  BY <1>12 DEF migrationVars
<1> QED
  BY <1>1, <1>2, <1>3, <1>4, <1>5, <1>6, <1>7, <1>8, <1>9, <1>10, <1>11, <1>12, FilesMove
     DEF FileStep, Migrates

Version == IF v4 = NoFile THEN 3 ELSE 4

(* Each step adds a row, or changes the version alone, or shows nothing. *)
LEMMA MigrationSteps ==
    MigrationInv /\ [Next]_vars =>
        \/ (\E r \in Rows : Readable' = Readable \cup {r}) /\ Version' = Version
        \/ Version = 3 /\ Version' = 4 /\ Readable' = Readable
        \/ Version' = Version /\ Readable' = Readable
<1> SUFFICES ASSUME MigrationInv, [Next]_vars
             PROVE  \/ (\E r \in Rows : Readable' = Readable \cup {r}) /\ Version' = Version
                    \/ Version = 3 /\ Version' = 4 /\ Readable' = Readable
                    \/ Version' = Version /\ Readable' = Readable
  OBVIOUS
<1>0. MigrationInv'
  BY NextMigration
<1> USE NoFileAssumption DEF MigrationInv, MigrationTypeOK, Version, Readable
<1>1. CASE OldPut
  BY <1>1, DatabaseOperators DEF OldPut
<1>2. CASE OldCheckpoint
  BY <1>2, DatabaseOperators DEF OldCheckpoint
<1>3. CASE MigrateCheckpoint
  BY <1>3, DatabaseOperators DEF MigrateCheckpoint, CheckpointV3
<1>4. CASE OpenDB \/ MigrationStops \/ Down
  BY <1>4 DEF OpenDB, MigrationStops, Down, files
<1>5. CASE MigrateCopy \/ MigrateStatement \/ MigrateClose
  BY <1>5 DEF MigrateCopy, MigrateStatement, MigrateClose
<1>6. CASE MigrateRename
  <2>1. v4' \in Database /\ v4'.has = Statements /\ v4'.rows = v3.rows
    BY <1>6, RenamedIsComplete DEF MigrateRename
  <2> QED
    BY <1>6, <2>1 DEF MigrateRename
<1>7. CASE ExecSchema
  BY <1>7, <1>0 DEF ExecSchema, Empty
<1>8. CASE NewPut
  <2>1. PICK r \in Rows : v4' = [v4 EXCEPT !.rows = @ \cup {r}]
    BY <1>8 DEF NewPut
  <2>2. v4' # NoFile /\ v4 # NoFile
    BY <1>8, <1>0 DEF NewPut
  <2>3. v4'.rows = v4.rows \cup {r} /\ v4'.has = v4.has
    BY <2>1, <2>2 DEF Database
  <2> QED
    BY <2>2, <2>3
<1>9. CASE UNCHANGED migrationVars
  BY <1>9 DEF migrationVars
<1> QED
  BY <1>1, <1>2, <1>3, <1>4, <1>5, <1>6, <1>7, <1>8, <1>9, FilesMove DEF FileStep, Migrates

(* Whatever the migration dies of and however often it begins again, the   *)
(* rows that could be read can be read: migrateV3ToV4 implements           *)
(* DatabaseUpgrade.                                                        *)
THEOREM UpgradeKeepsRows == FairSpec => KeepsItsRows
<1>1. Init => Upgrade!Init
  BY NoFileAssumption, EmptyType
     DEF Init, MigrationInit, Upgrade!Init, Readable, Empty
<1>2. MigrationInv /\ [Next]_vars =>
          [Upgrade!Next]_<<IF v4 = NoFile THEN 3 ELSE 4, Readable>>
  BY MigrationSteps DEF Version, Upgrade!Next, Upgrade!Put, Upgrade!Upgrade
<1> QED
  BY <1>1, <1>2, InitMigration, NextMigration, FairRunsAreRuns, PTL
     DEF Spec, KeepsItsRows, Upgrade!Spec

-----------------------------------------------------------------------------
(* Key sets, sessions and requests. *)

SessionStep ==
    \/ \E i \in Issuers : Rotate(i) \/ FetchJWKS(i) \/ FetchFails(i)
    \/ Tick \/ RefreshWakes \/ LoadKeys \/ Serve \/ Stop \/ Close
    \/ \E l \in loops : LoopReturns(l)
    \/ \E jwt \in JWTs, t \in Tokens : Exchange(jwt, t)
    \/ \E r \in Requests, method \in {"GET", "PUT"}, t \in Tokens : Admit(r, method, t)
    \/ \E r \in Requests : Answer(r)
    \/ CleanSessions

LEMMA SessionsMove == [Next]_vars => SessionStep \/ UNCHANGED sessionVars
BY SessionsAssumption
   DEF Next, vars, SessionStep, sessionVars, OpensDatabase, ServesSessions, ServePut, ServeGet,
       StartStops, Dies, Refreshes, OutsideMoves, Admissions, Exchanges

LEMMA InitSessionTypes == Init => SessionsTypeOK
<1>1. FirstKey \in [Issuers -> Keys \ OtherKeys]
  BY KeysAssumption DEF FirstKey, OneKeyEach
<1>2. [i \in Issuers |-> {FirstKey[i]}] \in [Issuers -> SUBSET Keys]
  BY <1>1
<1>3. DOMAIN NoSessions = {}
  BY DEF NoSessions
<1>4. 0 \in 0..MaxTime
  BY SessionsAssumption
<1> QED
  BY <1>2, <1>3, <1>4 DEF Init, SessionsInit, SessionsTypeOK

(* What an exchange and the session cleaner leave are sessions. *)
LEMMA NextSessionTypes == SessionsTypeOK /\ [Next]_vars => SessionsTypeOK'
<1> SUFFICES ASSUME SessionsTypeOK, [Next]_vars PROVE SessionsTypeOK'
  OBVIOUS
<1> USE SessionsAssumption DEF SessionsTypeOK
<1>1. ASSUME NEW i \in Issuers, Rotate(i) PROVE SessionsTypeOK'
  <2>1. PICK k \in Keys, old \in {{}, published[i]} :
            /\ published' = [published EXCEPT ![i] = old \cup {k}]
            /\ everPublished' = [everPublished EXCEPT ![i] = @ \cup {k}]
    BY <1>1 DEF Rotate
  <2>2. published' \in [Issuers -> SUBSET Keys] /\ everPublished' \in [Issuers -> SUBSET Keys]
    BY <2>1
  <2> QED
    BY <1>1, <2>2 DEF Rotate, keyVars
<1>2. ASSUME NEW i \in Issuers, FetchJWKS(i) PROVE SessionsTypeOK'
  BY <1>2 DEF FetchJWKS, Loads, issuerVars
<1>3. ASSUME NEW i \in Issuers, FetchFails(i) PROVE SessionsTypeOK'
  BY <1>3 DEF FetchFails, AsksTheRest, issuerVars
<1>4. CASE Tick
  BY <1>4 DEF Tick, issuerVars, keyVars
<1>5. CASE RefreshWakes \/ LoadKeys \/ Serve \/ Close
  BY <1>5 DEF RefreshWakes, LoadKeys, Serve, Close, issuerVars, keyVars
<1>6. CASE Stop
  BY <1>6 DEF Stop, NoSessions, issuerVars
<1>7. ASSUME NEW l \in loops, LoopReturns(l) PROVE SessionsTypeOK'
  BY <1>7 DEF LoopReturns, issuerVars, keyVars
<1>8. ASSUME NEW jwt \in JWTs, NEW t \in Tokens, Exchange(jwt, t) PROVE SessionsTypeOK'
  <2> DEFINE new == [expiry |-> now + TTL, claims |-> jwt, globalNSWrite |-> jwt.global]
  <2>1. new \in Sessions
    BY <1>8 DEF Exchange, Sessions, JWTs
  <2>2. /\ DOMAIN sessions' = DOMAIN sessions \cup {t}
        /\ \A u \in DOMAIN sessions' : sessions'[u] = IF u = t THEN new ELSE sessions[u]
    BY <1>8 DEF Exchange
  <2>3. \A u \in DOMAIN sessions' : sessions'[u] \in Sessions
    BY <2>1, <2>2
  <2> QED
    BY <1>8, <2>2, <2>3 DEF Exchange, issuerVars, keyVars
<1>9. ASSUME NEW r \in Requests, NEW method \in {"GET", "PUT"}, NEW t \in Tokens,
             Admit(r, method, t)
      PROVE  SessionsTypeOK'
  <2>1. sessions[t] \in Sessions
    BY <1>9 DEF Admit, Admits
  <2>2. request' \in [Requests -> {NoRequest} \cup
                [token : Tokens, method : {"GET", "PUT"}, session : Sessions]]
    BY <1>9, <2>1 DEF Admit
  <2> QED
    BY <1>9, <2>2 DEF Admit, issuerVars, keyVars
<1>10. ASSUME NEW r \in Requests, Answer(r) PROVE SessionsTypeOK'
  BY <1>10 DEF Answer, issuerVars, keyVars
<1>11. CASE CleanSessions
  BY <1>11 DEF CleanSessions, NotExpired, issuerVars, keyVars
<1>12. CASE UNCHANGED sessionVars
  BY <1>12 DEF sessionVars
<1> QED
  BY <1>1, <1>2, <1>3, <1>4, <1>5, <1>6, <1>7, <1>8, <1>9, <1>10, <1>11, <1>12, SessionsMove
     DEF SessionStep

LEMMA RunsKeepTypes == Spec => [](MigrationInv /\ SessionsTypeOK)
BY InitMigration, NextMigration, InitSessionTypes, NextSessionTypes, PTL DEF Spec

(* Every variable of a gocached process keeps its type. *)
THEOREM StartTypes == FairSpec => []TypeOK
<1>1. MigrationInv /\ SessionsTypeOK => TypeOK
  BY DEF MigrationInv, TypeOK
<1> QED
  BY <1>1, RunsKeepTypes, FairRunsAreRuns, PTL

(* While NewServer asks the issuers, all that it has asked have answered,  *)
(* or it knows of an error.                                                *)
LoadedInv ==
    /\ phase = "loading" /\ ~failed => Issuers \ refresh \subseteq loaded
    /\ KeysLoaded

(* Nobody looks for a key before all issuers have given theirs, whichever  *)
(* of them fail, and however often the server is started.                  *)
THEOREM KeysAreLoaded == FairSpec => []KeysLoaded
<1>1. Init => LoadedInv
  BY DEF Init, SessionsInit, LoadedInv, KeysLoaded, Serving
<1>2. SessionsTypeOK /\ LoadedInv /\ [Next]_vars => LoadedInv'
  <2> SUFFICES ASSUME SessionsTypeOK, LoadedInv, [Next]_vars PROVE LoadedInv'
    OBVIOUS
  <2> USE DEF LoadedInv, KeysLoaded, Serving
  <2>1. ASSUME NEW i \in Issuers, FetchJWKS(i) PROVE LoadedInv'
    BY <2>1 DEF FetchJWKS, Loads, SessionsTypeOK
  <2>2. ASSUME NEW i \in Issuers, FetchFails(i) PROVE LoadedInv'
    BY <2>2 DEF FetchFails, AsksTheRest
  <2>3. CASE RefreshWakes \/ LoadKeys \/ Serve \/ Close \/ Stop
    BY <2>3 DEF RefreshWakes, LoadKeys, Serve, HasAllKeys, Close, Stop, keyVars, SessionsTypeOK
  <2>4. ASSUME UNCHANGED <<keyVars, phase>> PROVE LoadedInv'
    BY <2>4 DEF keyVars
  <2>5. CASE SessionStep
    BY <2>1, <2>2, <2>3, <2>4, <2>5
       DEF SessionStep, Rotate, Tick, LoopReturns, Exchange, Admit, Answer, CleanSessions
  <2>6. CASE UNCHANGED sessionVars
    BY <2>4, <2>6 DEF sessionVars, keyVars
  <2> QED
    BY <2>5, <2>6, SessionsMove
<1>3. LoadedInv => KeysLoaded
  BY DEF LoadedInv
<1> QED
  BY <1>1, <1>2, <1>3, RunsKeepTypes, FairRunsAreRuns, PTL DEF Spec

(* A session that may be given and used. *)
Authorised(session) ==
    /\ session.claims.key \in everPublished[session.claims.iss] \ OtherKeys
    /\ session.claims.required
    /\ session.globalNSWrite => session.claims.global

(* The validator knows only keys that their issuer published for signing,  *)
(* and all that was made with them, in the map or already handed to a      *)
(* request, is authorised.                                                 *)
AuthorisedInv ==
    /\ \A i \in Issuers : published[i] \subseteq everPublished[i]
    /\ \A i \in Issuers : signingKeys[i] \subseteq everPublished[i] \ OtherKeys
    /\ \A t \in DOMAIN sessions : Authorised(sessions[t])
    /\ \A r \in Requests : request[r] # NoRequest =>
           /\ Authorised(request[r].session)
           /\ request[r].method = "PUT" => request[r].session.globalNSWrite

LEMMA NextAuthorised == SessionsTypeOK /\ AuthorisedInv /\ [Next]_vars => AuthorisedInv'
<1> SUFFICES ASSUME SessionsTypeOK, AuthorisedInv, [Next]_vars PROVE AuthorisedInv'
  OBVIOUS
<1>1. ASSUME NEW i \in Issuers, Rotate(i) PROVE AuthorisedInv'
  <2>1. PICK k \in Keys, old \in {{}, published[i]} :
            /\ published' = [published EXCEPT ![i] = old \cup {k}]
            /\ everPublished' = [everPublished EXCEPT ![i] = @ \cup {k}]
    BY <1>1 DEF Rotate
  <2>2. \A j \in Issuers : /\ everPublished[j] \subseteq everPublished'[j]
                            /\ published'[j] \subseteq everPublished'[j]
    BY <2>1 DEF SessionsTypeOK, AuthorisedInv
  <2>3. \A session \in Sessions : Authorised(session) => Authorised(session)'
    BY <2>2 DEF Authorised, Sessions, JWTs
  <2>4. UNCHANGED <<signingKeys, sessions, request>>
    BY <1>1 DEF Rotate, keyVars
  <2>5. \A r \in Requests : request[r] # NoRequest => request[r].session \in Sessions
    BY DEF SessionsTypeOK
  <2>6. \A t \in DOMAIN sessions : Authorised(sessions[t])'
    BY <2>3, <2>4 DEF SessionsTypeOK, AuthorisedInv, Authorised
  <2>7. \A r \in Requests : request[r] # NoRequest => Authorised(request[r].session)'
    BY <2>3, <2>4, <2>5 DEF AuthorisedInv, Authorised
  <2> QED
    BY <2>2, <2>4, <2>6, <2>7 DEF AuthorisedInv, Authorised
<1>2. ASSUME NEW i \in Issuers, FetchJWKS(i) PROVE AuthorisedInv'
  BY <1>2 DEF FetchJWKS, Loads, issuerVars, SessionsTypeOK, AuthorisedInv, Authorised
<1>3. ASSUME NEW jwt \in JWTs, NEW t \in Tokens, Exchange(jwt, t) PROVE AuthorisedInv'
  <2> DEFINE new == [expiry |-> now + TTL, claims |-> jwt, globalNSWrite |-> jwt.global]
  <2>1. Authorised(new)
    BY <1>3 DEF Exchange, KnownToIssuer, JWTs, AuthorisedInv, Authorised
  <2>2. /\ DOMAIN sessions' = DOMAIN sessions \cup {t}
        /\ \A u \in DOMAIN sessions' : sessions'[u] = IF u = t THEN new ELSE sessions[u]
    BY <1>3 DEF Exchange
  <2>3. \A u \in DOMAIN sessions' : Authorised(sessions'[u])
    BY <2>1, <2>2 DEF AuthorisedInv
  <2> QED
    BY <1>3, <2>3 DEF Exchange, issuerVars, keyVars, AuthorisedInv, Authorised
<1>4. ASSUME NEW r \in Requests, NEW method \in {"GET", "PUT"}, NEW t \in Tokens,
             Admit(r, method, t)
      PROVE  AuthorisedInv'
  <2>1. Authorised(sessions[t]) /\ (method = "PUT" => sessions[t].globalNSWrite)
    BY <1>4 DEF Admit, Admits, AuthorisedInv
  <2> QED
    BY <1>4, <2>1 DEF Admit, issuerVars, keyVars, SessionsTypeOK, AuthorisedInv, Authorised
<1>5. CASE Stop
  BY <1>5 DEF Stop, NoSessions, issuerVars, AuthorisedInv, Authorised
<1>6. ASSUME NEW r \in Requests, Answer(r) PROVE AuthorisedInv'
  BY <1>6 DEF Answer, issuerVars, keyVars, SessionsTypeOK, AuthorisedInv, Authorised
<1>7. CASE CleanSessions
  BY <1>7 DEF CleanSessions, NotExpired, issuerVars, keyVars, AuthorisedInv, Authorised
<1>8. ASSUME UNCHANGED <<published, everPublished, signingKeys, sessions, request>>
      PROVE  AuthorisedInv'
  BY <1>8 DEF AuthorisedInv, Authorised
<1>9. CASE SessionStep
  BY <1>1, <1>2, <1>3, <1>4, <1>5, <1>6, <1>7, <1>8, <1>9
     DEF SessionStep, Tick, RefreshWakes, LoadKeys, Serve, Close, LoopReturns, FetchFails,
         issuerVars, keyVars
<1>10. CASE UNCHANGED sessionVars
  BY <1>8, <1>10 DEF sessionVars
<1> QED
  BY <1>9, <1>10, SessionsMove

(* Through rotations, failed refreshes and restarts, a request is served   *)
(* for a JWT that its own issuer's key signed and that had the claims.     *)
THEOREM OnlyAuthorisedRequests == FairSpec => []RequestsAreAuthorised
<1>1. Init => AuthorisedInv
  BY DEF Init, SessionsInit, AuthorisedInv, NoSessions
<1>2. SessionsTypeOK /\ AuthorisedInv => RequestsAreAuthorised
  <2> SUFFICES ASSUME SessionsTypeOK, AuthorisedInv, NEW r \in Requests,
                      request[r] # NoRequest
               PROVE  /\ request[r].session.claims.key
                             \in everPublished[request[r].session.claims.iss] \ OtherKeys
                      /\ request[r].session.claims.required
                      /\ request[r].method = "PUT" => request[r].session.claims.global
    BY DEF RequestsAreAuthorised
  <2> QED
    BY DEF AuthorisedInv, Authorised
<1> QED
  BY <1>1, <1>2, NextAuthorised, RunsKeepTypes, FairRunsAreRuns, PTL DEF Spec
=============================================================================
