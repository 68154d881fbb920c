-------------------------- MODULE GocachedMigration --------------------------
(***************************************************************************)
(* The database files of gocached over an upgrade: openDB, and the copy    *)
(* that migrateV3ToV4 makes, changes and renames to gocached-v4.db.        *)
(*                                                                         *)
(* A SQLite database is a main file and a write-ahead log.  A commit is in *)
(* the log until a checkpoint, and copying or renaming the main file takes *)
(* nothing of the log with it.  A database is a record of its rows, those  *)
(* of them that only the log has, and the statements of the migration that *)
(* it has had, again with those that only the log has.                     *)
(*                                                                         *)
(* The old server, which knows only v3, runs when the new one does not and *)
(* there is no v4; upgrading is one way.                                   *)
(***************************************************************************)
EXTENDS FiniteSets

CONSTANTS Rows,    \* rows of Actions with their blobs
          NoFile

Renamed == "BlobSize is StoredSize"
Added   == "UncompressedSize"
Filled  == "UncompressedSize is set"
Statements == {Renamed, Added, Filled}

Database  == [rows : SUBSET Rows, rowsInLog : SUBSET Rows,
              has : SUBSET Statements, hasInLog : SUBSET Statements]
ASSUME NoFileAssumption == NoFile \notin Database

Empty(has) == [rows |-> {}, rowsInLog |-> {}, has |-> has, hasInLog |-> {}]

VARIABLES v3, v4,  \* gocached-v3.db and gocached-v4.db
          tmp,     \* gocached-v4-migrate-*.db of the migration that runs
          step     \* how far openDB is

files == <<v3, v4, tmp>>
migrationVars == <<v3, v4, tmp, step>>

MigrationInit == /\ v3 \in {NoFile, Empty({})}
                 /\ v4 = NoFile /\ tmp = NoFile
                 /\ step = "down"

Checkpointed(db) == [db EXCEPT !.rowsInLog = {}, !.hasInLog = {}]

(* What is in the main file alone. *)
MainFile(db) == [rows |-> db.rows \ db.rowsInLog, rowsInLog |-> {},
                 has |-> db.has \ db.hasInLog, hasInLog |-> {}]

Executed(db, statement) == [db EXCEPT !.has = @ \cup {statement},
                                      !.hasInLog = @ \cup {statement}]
Inserted(db, r) == [db EXCEPT !.rows = @ \cup {r}, !.rowsInLog = @ \cup {r}]

-----------------------------------------------------------------------------
(* The old server. *)

OldPut ==
    /\ step = "down" /\ v3 # NoFile /\ v4 = NoFile
    /\ \E r \in Rows \ v3.rows : v3' = Inserted(v3, r)
    /\ UNCHANGED <<v4, tmp, step>>

OldCheckpoint ==
    /\ step = "down" /\ v3 # NoFile /\ v4 = NoFile
    /\ v3' = Checkpointed(v3)
    /\ UNCHANGED <<v4, tmp, step>>

-----------------------------------------------------------------------------
(* openDB *)

OpenDB ==
    /\ step = "down"
    /\ step' = IF v4 = NoFile /\ v3 # NoFile THEN "checkpoint" ELSE "open"
    /\ UNCHANGED files

(* migrateV3ToV4 *)
SkipCheckpoint == UNCHANGED v3  \* mutant
CheckpointV3   == v3' = Checkpointed(v3)

MigrateCheckpoint ==
    /\ step = "checkpoint" /\ step' = "copy"
    /\ CheckpointV3
    /\ UNCHANGED <<v4, tmp>>

MigrateCopy ==
    /\ step = "copy" /\ step' = "statements"
    /\ tmp' = MainFile(v3)
    /\ UNCHANGED <<v3, v4>>

(* The statements, in their order. *)
MigrateStatement ==
    /\ step = "statements"
    /\ \/ Renamed \notin tmp.has /\ tmp' = Executed(tmp, Renamed)
       \/ /\ Renamed \in tmp.has /\ Added \notin tmp.has
          /\ tmp' = Executed(tmp, Added)
       \/ /\ Added \in tmp.has /\ Filled \notin tmp.has
          /\ tmp' = Executed(tmp, Filled)
    /\ UNCHANGED <<v3, v4, step>>

(* The last statement, a checkpoint, and Close. *)
MigrateClose ==
    /\ step = "statements" /\ tmp.has = Statements
    /\ tmp' = Checkpointed(tmp) /\ step' = "rename"
    /\ UNCHANGED <<v3, v4>>

MigrateRename ==
    /\ step = "rename" /\ step' = "open"
    /\ v4' = MainFile(tmp) /\ tmp' = NoFile
    /\ UNCHANGED v3

(* An error, after which the temporary file is removed, or death, after    *)
(* which its random name is never opened.                                  *)
LeavesTemp  == UNCHANGED tmp  \* mutant: an error return before the defer
RemovesTemp == tmp' = NoFile

MigrationStops ==
    /\ step \notin {"down", "up"}
    /\ RemovesTemp /\ step' = "down"
    /\ UNCHANGED <<v3, v4>>

(* The schema is all IF NOT EXISTS: it makes the tables of a new database, *)
(* and leaves one with tables as it is.                                    *)
ExecSchema ==
    /\ step = "open" /\ step' = "up"
    /\ v4' = IF v4 = NoFile THEN Empty(Statements) ELSE v4
    /\ UNCHANGED <<v3, tmp>>

-----------------------------------------------------------------------------
(* While the server is up.  Nobody copies v4, so its log is left out. *)

NewPut ==
    /\ step = "up"
    /\ \E r \in Rows \ v4.rows : v4' = [v4 EXCEPT !.rows = @ \cup {r}]
    /\ UNCHANGED <<v3, tmp, step>>

(* SQLite keeps what was committed. *)
Down ==
    /\ step = "up" /\ step' = "down"
    /\ UNCHANGED files

-----------------------------------------------------------------------------
Migrates == \/ MigrateCheckpoint \/ MigrateCopy \/ MigrateStatement
            \/ MigrateClose \/ MigrateRename

MigrationTypeOK ==
    /\ v3 \in Database \cup {NoFile} /\ v4 \in Database \cup {NoFile}
    /\ tmp \in Database \cup {NoFile}
    /\ tmp # NoFile => step \in {"statements", "rename"}
    /\ step \in {"down", "checkpoint", "copy", "statements", "rename", "open", "up"}

(* A row that GET can serve: with UncompressedSize left at zero, every     *)
(* body would be taken for lz4.                                            *)
Readable == IF v4 = NoFile THEN IF v3 = NoFile THEN {} ELSE v3.rows
            ELSE IF v4.has = Statements THEN v4.rows ELSE {}

(* Whenever the migration dies or fails, and whatever of v3 is still in    *)
(* its log when it begins, the rows that could be read can be read.        *)
Upgrade == INSTANCE DatabaseUpgrade WITH
               version <- IF v4 = NoFile THEN 3 ELSE 4,
               rows    <- Readable
KeepsItsRows == Upgrade!Spec
=============================================================================
