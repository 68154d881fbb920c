------------------------------ MODULE DiskCache ------------------------------
(***************************************************************************)
(* The directory of DiskCache, everywhere but on Windows: an output file   *)
(* per output ID and an action file, the index entry, per action ID.       *)
(* Goroutines of one go-cacher, and go-cachers that share the directory,   *)
(* read and write it without locks.  A file is written to a temporary and  *)
(* renamed, so each operator below is one effect on the directory; a       *)
(* temporary left by a process that dies is never read.                    *)
(***************************************************************************)
CONSTANTS ActionIDs, OutputIDs,
          NoOutput   \* there is no action file

VARIABLES outputs,   \* each output file: never there, whole, of another length, removed
          entries    \* what each action file names

disk == <<outputs, entries>>

DiskInit == /\ outputs = [o \in OutputIDs |-> "absent"]
            /\ entries = [a \in ActionIDs |-> NoOutput]

DiskTypeOK == /\ outputs \in [OutputIDs -> {"absent", "stored", "broken", "removed"}]
              /\ entries \in [ActionIDs -> OutputIDs \cup {NoOutput}]

(* Put writes the output first and the action file second.  The length of  *)
(* the output is looked at when it has been renamed.                       *)
WriteOutputFile(o)    == /\ outputs' = [outputs EXCEPT ![o] = "stored"]
                         /\ UNCHANGED entries
WriteBroken(o)        == /\ outputs' = [outputs EXCEPT ![o] = "broken"]
                         /\ UNCHANGED entries
WriteActionFile(a, o) == /\ entries' = [entries EXCEPT ![a] = o]
                         /\ UNCHANGED outputs

(* Somebody makes room. *)
RemoveOutputFile(o) == /\ outputs[o] \in {"stored", "broken"}
                       /\ outputs' = [outputs EXCEPT ![o] = "removed"]
                       /\ UNCHANGED entries
=============================================================================
