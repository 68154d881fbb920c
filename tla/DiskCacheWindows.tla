--------------------------- MODULE DiskCacheWindows ---------------------------
(***************************************************************************)
(* DiskCache on Windows: output and action files are written in place, by  *)
(* any number of goroutines and processes, and removed after an error.     *)
(*                                                                         *)
(* An output file is a sequence of chunks, each the one its body has there *)
(* or another; only the size and hash of a body matter otherwise.  The     *)
(* record of an action file has a length that depends on the output (its   *)
(* size is in it); a file is the record written to it last, how much of    *)
(* that is left, and its length.  A write or a truncation is one step.     *)
(* Files are opened to share reading and writing, but not deletion.        *)
(***************************************************************************)
EXTENDS Integers, Sequences

CONSTANTS Actions, Outputs,
          Offers,     \* the actions and outputs that are put
          Size,       \* of every output, in chunks
          WrongSizes, \* of bodies that are not their output
          RecordLen,  \* RecordLen[o]: of a record that names o
          Writers,    \* puts at a time
          FaultSets,  \* what may happen together of Faults
          NoFile, NoPut

(* A process dies; a disk or a source fails; a body is not its output.     *)
Faults == {"exit", "error", "wrong"}

ASSUME WindowsAssumption ==
    /\ Offers \subseteq Actions \X Outputs
    /\ Size \in Nat \ {0} /\ WrongSizes \subseteq Nat \ {0}
    /\ RecordLen \in [Outputs -> Nat \ {0}]
    /\ FaultSets \subseteq SUBSET Faults

VARIABLES output,  \* files by output
          action,  \* files by action
          put,     \* where each put is
          stored,  \* the offers for which an output was written and checked
          faults   \* what may happen in this behaviour

diskVars == <<output, action, put, stored>>
files    == <<output, action>>

Good == "good"
Bad  == "bad"
Whole == [i \in 1..Size |-> Good]

EmptyRecord == [names |-> NoFile, have |-> 0, len |-> 0]

(* A file that is not there is told from one of any contents, and a record *)
(* without a name from one with any.                                       *)
ASSUME NoFileAssumption ==
    /\ NoFile \notin Outputs /\ NoFile \notin Seq({Good, Bad})
    /\ NoFile \notin [names : Outputs \cup {NoFile}, have : Nat, len : Nat]

DiskInit == /\ output = [o \in Outputs |-> NoFile]
            /\ action = [a \in Actions |-> NoFile]
            /\ put = [w \in Writers |-> NoPut]
            /\ stored = {}
            /\ faults \in FaultSets

(* json.Unmarshal takes a record that is all there, with nothing after it. *)
Parses(a) == /\ action[a] # NoFile
             /\ action[a].names # NoFile
             /\ action[a].have = RecordLen[action[a].names]
             /\ action[a].len = action[a].have
Named(a) == action[a].names

At(w, pc) == put[w] # NoPut /\ put[w].pc = pc
Goes(w, pc) == put' = [put EXCEPT ![w].pc = pc, ![w].at = 0]
Ends(w) == put' = [put EXCEPT ![w] = NoPut]
OpenedOutputs == {put[w].output : w \in {v \in Writers : At(v, "write")}}
OpenedAction(a) == \E w \in Writers :
                       (At(w, "record") \/ At(w, "truncate")) /\ put[w].action = a

-----------------------------------------------------------------------------
(* DiskCache.Put and writeOutputFile *)

Body(good, size) == [good |-> good, size |-> size]
Bodies == {Body(TRUE, Size)}
          \cup (IF "wrong" \in faults THEN {Body(FALSE, n) : n \in WrongSizes} ELSE {})

PutStart(w, a, o, body) ==
    /\ put[w] = NoPut
    /\ put' = [put EXCEPT ![w] = [action |-> a, output |-> o, body |-> body,
                                  pc |-> "stat", trunc |-> FALSE, at |-> 0]]
    /\ UNCHANGED <<files, stored>>

Saved(w) == stored' = stored \cup {<<put[w].action, put[w].output>>}

(* The stat, and the hash of a file of the right size.  One that has it is *)
(* kept and the source drained; a longer one will be truncated.            *)
IsThere(w)      == output[put[w].output] # NoFile  \* mutant
IsThereWhole(w) == output[put[w].output] = Whole /\ put[w].body.size = Size
IsLonger(w)     == /\ output[put[w].output] # NoFile
                   /\ Len(output[put[w].output]) > put[w].body.size

PutStat(w) ==
    /\ At(w, "stat")
    /\ \/ IsThereWhole(w) /\ Goes(w, "openAction") /\ Saved(w)
       \/ "error" \in faults /\ IsThereWhole(w) /\ Ends(w) /\ UNCHANGED stored
       \/ /\ ~IsThereWhole(w) /\ UNCHANGED stored
          /\ put' = [put EXCEPT ![w].pc = "open", ![w].trunc = IsLonger(w)]
    /\ UNCHANGED files

OpenEmptied(w) ==  \* mutant: O_TRUNC, as os.Create has it
    output' = [output EXCEPT ![put[w].output] = <<>>]
OpenInPlace(w) ==
    output' = [output EXCEPT ![put[w].output] =
                  IF @ = NoFile \/ put[w].trunc THEN <<>> ELSE @]

PutOpen(w) ==
    /\ At(w, "open")
    /\ put' = [put EXCEPT ![w].pc = "write", ![w].trunc = FALSE]
    /\ OpenInPlace(w)
    /\ UNCHANGED <<action, stored>>

(* What is skipped is zero. *)
Written(file, n, chunk) ==
    [i \in 1..(IF n > Len(file) THEN n ELSE Len(file)) |->
        IF i = n THEN chunk ELSE IF i <= Len(file) THEN file[i] ELSE Bad]

PutWrite(w) ==
    /\ At(w, "write") /\ put[w].at < put[w].body.size
    /\ put' = [put EXCEPT ![w].at = @ + 1]
    /\ output' = [output EXCEPT ![put[w].output] =
                     Written(@, put[w].at + 1, IF put[w].body.good THEN Good ELSE Bad)]
    /\ UNCHANGED <<action, stored>>

(* The hash is of what was read, not of what is in the file.               *)
HashIgnored(w) == TRUE  \* mutant
HashMatches(w) == put[w].body.good

PutWritten(w) ==
    /\ At(w, "write") /\ put[w].at = put[w].body.size
    /\ IF HashMatches(w) THEN Goes(w, "openAction") ELSE Goes(w, "remove")
    /\ IF put[w].body.good THEN Saved(w) ELSE UNCHANGED stored
    /\ UNCHANGED files

(* The source ends early, or the disk fails. *)
PutWriteFails(w) ==
    /\ "error" \in faults /\ At(w, "write") /\ Goes(w, "remove")
    /\ UNCHANGED <<files, stored>>

-----------------------------------------------------------------------------
(* writeActionFile *)

OpenedEmptied(a) ==  \* mutant: as os.WriteFile
    action' = [action EXCEPT ![a] = EmptyRecord]
OpenedInPlace(a) ==
    action' = [action EXCEPT ![a] = IF @ = NoFile THEN EmptyRecord ELSE @]

ActionOpen(w) ==
    /\ At(w, "openAction") /\ Goes(w, "record")
    /\ OpenedInPlace(put[w].action)
    /\ UNCHANGED <<output, stored>>

ActionWrite(w) ==
    /\ At(w, "record") /\ Goes(w, "truncate")
    /\ LET n == RecordLen[put[w].output]
       IN action' = [action EXCEPT ![put[w].action] =
                        [names |-> put[w].output, have |-> n,
                         len |-> IF @.len > n THEN @.len ELSE n]]
    /\ UNCHANGED <<output, stored>>

ActionTruncate(w) ==
    /\ At(w, "truncate") /\ Ends(w)
    /\ LET n    == RecordLen[put[w].output]
           file == action[put[w].action]
       IN action' = [action EXCEPT ![put[w].action] =
                        [file EXCEPT !.len = n,
                                     !.have = IF file.have > n THEN n ELSE file.have]]
    /\ UNCHANGED <<output, stored>>

ActionFails(w) ==
    /\ "error" \in faults /\ (At(w, "record") \/ At(w, "truncate"))
    /\ Goes(w, "removeAction")
    /\ UNCHANGED <<files, stored>>

(* os.Remove, after Close: it fails on a file that is open elsewhere.      *)
RemoveOutput(w, opened) ==
    /\ At(w, "remove") /\ Ends(w)
    /\ LET o == put[w].output
       IN output' = IF o \in opened THEN output
                    ELSE [output EXCEPT ![o] = NoFile]
    /\ UNCHANGED <<action, stored>>

RemoveAction(w) ==
    /\ At(w, "removeAction") /\ Ends(w)
    /\ LET a == put[w].action
       IN action' = IF OpenedAction(a) THEN action
                    ELSE [action EXCEPT ![a] = NoFile]
    /\ UNCHANGED <<output, stored>>

(* The process that puts dies. *)
Exit(w) ==
    /\ "exit" \in faults /\ put[w] # NoPut /\ Ends(w)
    /\ UNCHANGED <<files, stored>>

PutStep(w, opened) ==
    \/ PutStat(w) \/ PutOpen(w) \/ PutWrite(w) \/ PutWritten(w) \/ PutWriteFails(w)
    \/ ActionOpen(w) \/ ActionWrite(w) \/ ActionTruncate(w) \/ ActionFails(w)
    \/ RemoveOutput(w, opened) \/ RemoveAction(w) \/ Exit(w)
=============================================================================
