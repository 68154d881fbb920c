---------------------------- MODULE GocachedFiles ----------------------------
(***************************************************************************)
(* Gocached, with the files that its rows have lost beside it.  A row's    *)
(* file is put in place before the row, and nothing ties the two together  *)
(* afterwards: the cleaner removes files inside a transaction that may     *)
(* never commit, and a PUT renames its file without the lock the cleaner   *)
(* removes it under.                                                       *)
(*                                                                         *)
(* lost is a history variable: each step is one of Gocached, together with *)
(* an assignment to lost, and no guard reads it.                           *)
(***************************************************************************)
EXTENDS Gocached

VARIABLE lost  \* names removed in one of the two ways below, and not written since

filesVars == <<vars, lost>>

(* What a deletion that does not commit may have removed: its rows are     *)
(* there again.                                                            *)
Torn == {FileOpenedFor(b) : b \in {x \in blobs' : x.BlobID \in batch \ batch'}}

(* What is removed of a PUT that has renamed its file and not yet inserted *)
(* its row.                                                                *)
Waiting == {p \in Putters : put[p].pc = "lock"}
Robbed  == {FileWrittenFor(put[p].req.content) : p \in Waiting} \cap (disk \ disk')

FilesInit == Init /\ lost = {}
FilesNext == Next /\ lost' = (lost \cup Torn \cup Robbed) \ disk'

FilesSpec == FilesInit /\ [][FilesNext]_filesVars

-----------------------------------------------------------------------------
(* Properties. *)

(* PUT gives the name ".lz4" by the length of the body, GET looks for it   *)
(* by whether the stored length differs from the body's.  They disagree on *)
(* a body whose lz4 frame is just as long.                                 *)
Misnamed(c) == Compressed(c) /\ LZ4Size[c] = Size[c]

(* A row has the file that GET opens for it, but for three reasons, each   *)
(* of them one the code admits: the cleaner is deleting the row; its file  *)
(* was lost to a deletion that did not commit, or to one that overtook a   *)
(* PUT; its body is one of those that PUT and GET name differently.  So no *)
(* crash of a PUT, no failing statement or short body of one, no older     *)
(* row from v3 and no PUT of the same body twice leaves a row that is      *)
(* nothing but misses.                                                     *)
Accounted(b) == Servable(b) \/ FileOpenedFor(b) \in lost \/ Misnamed(b.SHA256)
EveryRowAccounted == \A b \in blobs : b.BlobID \in batch \/ Accounted(b)

(* What makes it inductive: so has a PUT that waits for the lock.          *)
WaitingHaveFiles ==
    \A p \in Waiting :
        LET c == put[p].req.content
        IN  Inline(c) \/ FileWrittenFor(c) \in disk \cup lost

RowsInv == EveryRowAccounted /\ WaitingHaveFiles
=============================================================================
