------------------------- MODULE GoCacherServerProofs -------------------------
(***************************************************************************)
(* Theorems about go-cacher-server over the DiskCache of Windows: that     *)
(* files written in place, without locks, never tell a client something    *)
(* that is not so, for any actions, outputs, lengths, number of puts and   *)
(* clients, and choice of faults.                                          *)
(***************************************************************************)
EXTENDS GoCacherServer, SequenceTheorems, TLAPS

Chunks  == {Good, Bad}
Records == {f \in [names : Outputs \cup {NoFile}, have : Nat, len : Nat] : f.have <= f.len}

PutRecords == [action : Actions, output : Outputs, body : [good : BOOLEAN, size : Nat],
               pc : {"stat", "open", "write", "openAction", "record", "truncate",
                     "remove", "removeAction"},
               trunc : BOOLEAN, at : Nat]
Puts == {p \in PutRecords : <<p.action, p.output>> \in Offers /\ p.at <= p.body.size}

Gets == {g \in [action : Actions, output : Outputs, pc : {"stat", "output", "read", "sent"},
                length : Nat, body : Seq(Chunks)] :
            /\ Len(g.body) <= g.length
            /\ g.pc \in {"stat", "output"} => g.body = <<>>}

Types == /\ output \in [Outputs -> Seq(Chunks) \cup {NoFile}]
         /\ action \in [Actions -> Records \cup {NoFile}]
         /\ put \in [Writers -> Puts \cup {NoPut}]
         /\ get \in [Readers -> Gets \cup {NoGet}]
         /\ stored \subseteq Offers

(* On Windows a file that is open is not removed. *)
OpenFilesStay ==
    /\ \A w \in Writers : At(w, "write") => output[put[w].output] \in Seq(Chunks)
    /\ \A r \in Readers : Reads(r, "read") => output[get[r].output] \in Seq(Chunks)
    /\ \A w \in Writers : At(w, "record") \/ At(w, "truncate")
                              => action[put[w].action] \in Records

TypeInv == Types /\ OpenFilesStay

-----------------------------------------------------------------------------
(* The operators of the model. *)

LEMMA WrittenChunks ==
    ASSUME NEW file \in Seq(Chunks), NEW n \in Nat \ {0}, NEW chunk \in Chunks
    PROVE  /\ Written(file, n, chunk) \in Seq(Chunks)
           /\ Len(Written(file, n, chunk)) = IF n > Len(file) THEN n ELSE Len(file)
           /\ \A i \in 1..(IF n > Len(file) THEN n ELSE Len(file)) :
                 Written(file, n, chunk)[i] = IF i = n THEN chunk
                                              ELSE IF i <= Len(file) THEN file[i] ELSE Bad
<1> DEFINE k == IF n > Len(file) THEN n ELSE Len(file)
<1>1. k \in Nat /\ file \in [1..Len(file) -> Chunks]
  BY LenProperties
<1>2. Written(file, n, chunk) \in [1..k -> Chunks]
  BY <1>1 DEF Written, Chunks
<1>3. Written(file, n, chunk) \in Seq(Chunks)
  BY <1>1, <1>2, SeqDef
<1>4. DOMAIN Written(file, n, chunk) = 1..k
  BY <1>2
<1>5. Len(Written(file, n, chunk)) = k
  BY <1>1, <1>3, <1>4, LenProperties
<1> QED
  BY <1>3, <1>5 DEF Written

LEMMA WholeFile == /\ Whole \in Seq(Chunks) /\ Len(Whole) = Size
                   /\ \A i \in 1..Size : Whole[i] = Good
<1>1. Size \in Nat /\ Whole \in [1..Size -> Chunks]
  BY WindowsAssumption DEF Whole, Chunks
<1>2. Whole \in Seq(Chunks)
  BY <1>1, SeqDef
<1>3. Len(Whole) = Size
  BY <1>1, <1>2, LenProperties
<1> QED
  BY <1>2, <1>3 DEF Whole

(* What a step of a put leaves of it. *)
Moves(w) == /\ put' \in [Writers -> Puts \cup {NoPut}]
            /\ put'[w] \in Puts
            /\ put'[w].action = put[w].action /\ put'[w].output = put[w].output
            /\ put'[w].body = put[w].body
            /\ \A v \in Writers \ {w} : put'[v] = put[v]

LEMMA OnePutMoves ==
    ASSUME Types, NEW w \in Writers, NEW p \in Puts, put' = [put EXCEPT ![w] = p],
           p.action = put[w].action, p.output = put[w].output, p.body = put[w].body
    PROVE  Moves(w) /\ put'[w] = p
BY DEF Types, Moves

(* With any step but a write, a put goes on at the next place.             *)
LEMMA PutGoes ==
    ASSUME Types, NEW w \in Writers, put[w] # NoPut,
           NEW pc \in {"openAction", "remove", "record", "truncate", "removeAction"},
           Goes(w, pc)
    PROVE  Moves(w) /\ put'[w].pc = pc /\ put'[w].trunc = put[w].trunc
<1> DEFINE q  == [put[w] EXCEPT !.pc = pc]
           p  == [q EXCEPT !.at = 0]
           to == [put EXCEPT ![w] = q]
<1>1. put[w] \in Puts /\ put[w] \in PutRecords /\ put \in [Writers -> Puts \cup {NoPut}]
  BY DEF Types, Puts
<1>2. to[w] = q /\ put' = [to EXCEPT ![w] = [to[w] EXCEPT !.at = 0]]
  BY <1>1 DEF Goes
<1>3. put' = [put EXCEPT ![w] = p]
  BY <1>1, <1>2
<1>4. /\ p.pc = pc /\ p.at = 0 /\ p.action = put[w].action
      /\ p.output = put[w].output /\ p.body = put[w].body /\ p.trunc = put[w].trunc
  BY <1>1 DEF PutRecords
<1>5. q \in PutRecords
  BY <1>1 DEF PutRecords
<1>6. p \in PutRecords
  BY <1>5 DEF PutRecords
<1>7. <<p.action, p.output>> \in Offers /\ p.at <= p.body.size
  BY <1>1, <1>4 DEF Puts, PutRecords
<1> HIDE DEF p
<1> QED
  BY <1>3, <1>4, <1>6, <1>7, OnePutMoves DEF Puts

LEMMA PutOpens ==
    ASSUME Types, NEW w \in Writers, put[w] # NoPut, put[w].pc \in {"stat", "open"},
           NEW pc \in {"open", "write"}, NEW trunc \in BOOLEAN,
           put' = [put EXCEPT ![w].pc = pc, ![w].trunc = trunc]
    PROVE  Moves(w) /\ put'[w].pc = pc /\ put'[w].trunc = trunc /\ put'[w].at = put[w].at
<1> DEFINE q  == [put[w] EXCEPT !.pc = pc]
           p  == [q EXCEPT !.trunc = trunc]
           to == [put EXCEPT ![w] = q]
<1>1. put[w] \in Puts /\ put[w] \in PutRecords /\ put \in [Writers -> Puts \cup {NoPut}]
  BY DEF Types, Puts
<1>2. to[w] = q /\ put' = [to EXCEPT ![w] = [to[w] EXCEPT !.trunc = trunc]]
  BY <1>1
<1>3. put' = [put EXCEPT ![w] = p]
  BY <1>1, <1>2
<1>4. /\ p.pc = pc /\ p.at = put[w].at /\ p.action = put[w].action
      /\ p.output = put[w].output /\ p.body = put[w].body /\ p.trunc = trunc
  BY <1>1 DEF PutRecords
<1>5. q \in PutRecords
  BY <1>1 DEF PutRecords
<1>6. p \in PutRecords
  BY <1>5 DEF PutRecords
<1>7. <<p.action, p.output>> \in Offers /\ p.at <= p.body.size
  BY <1>1, <1>4 DEF Puts, PutRecords
<1> HIDE DEF p
<1> QED
  BY <1>3, <1>4, <1>6, <1>7, OnePutMoves DEF Puts

LEMMA PutWrites ==
    ASSUME Types, NEW w \in Writers, put[w] # NoPut, put[w].at < put[w].body.size,
           put' = [put EXCEPT ![w].at = @ + 1]
    PROVE  /\ Moves(w) /\ put'[w].pc = put[w].pc /\ put'[w].trunc = put[w].trunc
           /\ put'[w].at = put[w].at + 1
<1> DEFINE p == [put[w] EXCEPT !.at = put[w].at + 1]
<1>1. put[w] \in Puts /\ put[w] \in PutRecords /\ put \in [Writers -> Puts \cup {NoPut}]
  BY DEF Types, Puts
<1>2. put' = [put EXCEPT ![w] = p]
  OBVIOUS
<1>3. /\ p.pc = put[w].pc /\ p.at = put[w].at + 1 /\ p.action = put[w].action
      /\ p.output = put[w].output /\ p.body = put[w].body /\ p.trunc = put[w].trunc
  BY <1>1 DEF PutRecords
<1>4. p \in PutRecords
  BY <1>1 DEF PutRecords
<1>5. <<p.action, p.output>> \in Offers /\ p.at <= p.body.size
  BY <1>1, <1>3 DEF Puts, PutRecords
<1> HIDE DEF p
<1> QED
  BY <1>2, <1>3, <1>4, <1>5, OnePutMoves DEF Puts

LEMMA PutEnds ==
    ASSUME Types, NEW w \in Writers, Ends(w)
    PROVE  /\ put' \in [Writers -> Puts \cup {NoPut}] /\ put'[w] = NoPut
           /\ \A v \in Writers \ {w} : put'[v] = put[v]
BY DEF Types, Ends

LEMMA PutStarts ==
    ASSUME Types, NEW w \in Writers, NEW offer \in Offers, NEW body \in Bodies,
           PutStart(w, offer[1], offer[2], body)
    PROVE  /\ put' \in [Writers -> Puts \cup {NoPut}]
           /\ put'[w] \in Puts /\ put'[w].pc = "stat" /\ put'[w].at = 0
           /\ put'[w].trunc = FALSE /\ put'[w].body = body
           /\ \A v \in Writers \ {w} : put'[v] = put[v]
<1>1. offer[1] \in Actions /\ offer[2] \in Outputs /\ <<offer[1], offer[2]>> \in Offers
  BY WindowsAssumption
<1>2. body \in [good : BOOLEAN, size : Nat]
  <2>1. \A n \in Nat : /\ Body(TRUE, n) \in [good : BOOLEAN, size : Nat]
                       /\ Body(FALSE, n) \in [good : BOOLEAN, size : Nat]
    BY DEF Body
  <2>2. body = Body(TRUE, Size) \/ \E n \in WrongSizes : body = Body(FALSE, n)
    BY DEF Bodies
  <2> QED
    BY <2>1, <2>2, WindowsAssumption
<1>3. PICK p : /\ put' = [put EXCEPT ![w] = p]
               /\ p = [action |-> offer[1], output |-> offer[2], body |-> body,
                       pc |-> "stat", trunc |-> FALSE, at |-> 0]
  BY DEF PutStart
<1>4. p \in PutRecords /\ p.at <= body.size
  BY <1>1, <1>2, <1>3 DEF PutRecords
<1>5. p \in Puts
  BY <1>1, <1>3, <1>4 DEF Puts
<1>6. /\ put' \in [Writers -> Puts \cup {NoPut}] /\ put'[w] = p
      /\ \A v \in Writers \ {w} : put'[v] = put[v]
  BY <1>3, <1>5 DEF Types
<1>7. p.pc = "stat" /\ p.at = 0 /\ p.body = body /\ p.trunc = FALSE
  BY <1>3
<1> QED
  BY <1>5, <1>6, <1>7

(* Where a put that is under way after a step comes from.                  *)
LEMMA PutStepMoves ==
    ASSUME Types, NEW w \in Writers, NEW opened, PutStep(w, opened)
    PROVE  /\ put' \in [Writers -> Puts \cup {NoPut}]
           /\ \A v \in Writers \ {w} : put'[v] = put[v]
           /\ put[w] \in Puts /\ put[w] # NoPut
           /\ put'[w] # NoPut =>
                 /\ Moves(w)
                 /\ \/ /\ PutStat(w) /\ ~IsThereWhole(w) /\ put'[w].pc = "open"
                       /\ put'[w].trunc = IsLonger(w) /\ put'[w].at = put[w].at
                    \/ /\ PutOpen(w) /\ put'[w].pc = "write"
                       /\ ~put'[w].trunc /\ put'[w].at = put[w].at
                    \/ /\ PutWrite(w) /\ put'[w].pc = "write" /\ put'[w].at = put[w].at + 1
                       /\ put'[w].trunc = put[w].trunc
                    \/ /\ PutStat(w) /\ IsThereWhole(w) /\ Saved(w)
                       /\ put'[w].pc = "openAction" /\ put'[w].trunc = put[w].trunc
                    \/ /\ PutWritten(w) /\ put[w].body.good /\ Saved(w)
                       /\ put'[w].pc = "openAction" /\ put'[w].trunc = put[w].trunc
                    \/ /\ (PutWritten(w) /\ ~put[w].body.good) \/ PutWriteFails(w)
                       /\ put'[w].pc = "remove" /\ put'[w].trunc = put[w].trunc
                    \/ /\ ActionOpen(w)
                       /\ put'[w].pc = "record" /\ put'[w].trunc = put[w].trunc
                    \/ /\ ActionWrite(w)
                       /\ put'[w].pc = "truncate" /\ put'[w].trunc = put[w].trunc
                    \/ /\ ActionFails(w)
                       /\ put'[w].pc = "removeAction" /\ put'[w].trunc = put[w].trunc
<1> DEFINE Rest == put' \in [Writers -> Puts \cup {NoPut}]
                   /\ \A v \in Writers \ {w} : put'[v] = put[v]
<1>1. put[w] \in Puts /\ put[w] # NoPut
  BY DEF Types, PutStep, PutStat, PutOpen, PutWrite, PutWritten, PutWriteFails, ActionOpen,
         ActionWrite, ActionTruncate, ActionFails, RemoveOutput, RemoveAction, Exit, At
<1>2. Moves(w) => Rest
  BY DEF Moves
<1>3. Ends(w) => Rest /\ put'[w] = NoPut
  BY PutEnds
<1>4. CASE PutStat(w)
  <2>1. CASE IsThereWhole(w) /\ Goes(w, "openAction") /\ Saved(w)
    BY <1>1, <1>2, <1>4, <2>1, PutGoes
  <2>2. CASE Ends(w)
    BY <1>1, <1>3, <2>2
  <2>3. CASE /\ ~IsThereWhole(w)
             /\ put' = [put EXCEPT ![w].pc = "open", ![w].trunc = IsLonger(w)]
    <3>1. IsLonger(w) \in BOOLEAN
      BY DEF IsLonger
    <3>2. /\ Moves(w) /\ put'[w].pc = "open" /\ put'[w].trunc = IsLonger(w)
          /\ put'[w].at = put[w].at
      BY <1>1, <1>4, <2>3, <3>1, PutOpens DEF PutStat, At
    <3> QED
      BY <1>1, <1>2, <1>4, <2>3, <3>2
  <2> QED
    BY <1>4, <2>1, <2>2, <2>3 DEF PutStat
<1>5. CASE PutOpen(w)
  <2>1. /\ Moves(w) /\ put'[w].pc = "write" /\ put'[w].trunc = FALSE
        /\ put'[w].at = put[w].at
    BY <1>1, <1>5, PutOpens DEF PutOpen, At
  <2> QED
    BY <1>1, <1>2, <1>5, <2>1
<1>6. CASE PutWrite(w)
  <2>1. /\ Moves(w) /\ put'[w].pc = "write" /\ put'[w].at = put[w].at + 1
        /\ put'[w].trunc = put[w].trunc
    BY <1>1, <1>6, PutWrites DEF PutWrite, At
  <2> QED
    BY <1>1, <1>2, <1>6, <2>1
<1>7. CASE PutWritten(w)
  <2>1. CASE put[w].body.good
    <3>1. Goes(w, "openAction") /\ Saved(w)
      BY <1>7, <2>1 DEF PutWritten, HashMatches
    <3> QED
      BY <1>1, <1>2, <1>7, <2>1, <3>1, PutGoes
  <2>2. CASE ~put[w].body.good
    <3>1. Goes(w, "remove")
      BY <1>7, <2>2 DEF PutWritten, HashMatches
    <3> QED
      BY <1>1, <1>2, <1>7, <2>2, <3>1, PutGoes
  <2> QED
    BY <2>1, <2>2
<1>8. CASE PutWriteFails(w)
  <2>1. Goes(w, "remove")
    BY <1>8 DEF PutWriteFails
  <2> QED
    BY <1>1, <1>2, <1>8, <2>1, PutGoes
<1>9. CASE ActionOpen(w)
  <2>1. Goes(w, "record")
    BY <1>9 DEF ActionOpen
  <2> QED
    BY <1>1, <1>2, <1>9, <2>1, PutGoes
<1>10. CASE ActionWrite(w)
  <2>1. Goes(w, "truncate")
    BY <1>10 DEF ActionWrite
  <2> QED
    BY <1>1, <1>2, <1>10, <2>1, PutGoes
<1>11. CASE ActionFails(w)
  <2>1. Goes(w, "removeAction")
    BY <1>11 DEF ActionFails
  <2> QED
    BY <1>1, <1>2, <1>11, <2>1, PutGoes
<1>12. CASE ActionTruncate(w) \/ RemoveOutput(w, opened) \/ RemoveAction(w) \/ Exit(w)
  <2>1. Ends(w)
    BY <1>12 DEF ActionTruncate, RemoveOutput, RemoveAction, Exit
  <2> QED
    BY <1>1, <1>3, <2>1
<1> QED
  BY <1>4, <1>5, <1>6, <1>7, <1>8, <1>9, <1>10, <1>11, <1>12 DEF PutStep

(* What it leaves of the files.                                            *)
LEMMA OutputFilesMove ==
    ASSUME TypeInv, NEW w \in Writers, PutStep(w, OpenedFiles)
    PROVE  /\ output' \in [Outputs -> Seq(Chunks) \cup {NoFile}]
           /\ \A o \in OpenedFiles \cap Outputs :
                  output[o] \in Seq(Chunks) => output'[o] \in Seq(Chunks)
           /\ PutOpen(w) => output'[put[w].output] \in Seq(Chunks)
<1> DEFINE o == put[w].output
<1>1. /\ output \in [Outputs -> Seq(Chunks) \cup {NoFile}]
      /\ put[w] \in Puts /\ put[w] \in PutRecords /\ o \in Outputs /\ put[w].at \in Nat
  BY PutStepMoves DEF TypeInv, Types, Puts, PutRecords
<1>2. <<>> \in Seq(Chunks)
  BY EmptySeq
<1>3. CASE PutOpen(w)
  BY <1>1, <1>2, <1>3 DEF PutOpen, OpenInPlace
<1>4. CASE PutWrite(w)
  <2>1. output[o] \in Seq(Chunks)
    BY <1>4 DEF TypeInv, OpenFilesStay, PutWrite
  <2> DEFINE chunk == IF put[w].body.good THEN Good ELSE Bad
             n     == put[w].at + 1
             file  == Written(output[o], n, chunk)
  <2>2. chunk \in Chunks /\ n \in Nat \ {0}
    BY <1>1 DEF Chunks
  <2>3. output' = [output EXCEPT ![o] = file]
    BY <1>4 DEF PutWrite
  <2> HIDE DEF chunk, n
  <2>4. file \in Seq(Chunks)
    BY <2>1, <2>2, WrittenChunks
  <2>5. ~PutOpen(w)
    BY <1>4 DEF PutWrite, PutOpen, At
  <2> HIDE DEF file
  <2> QED
    BY <1>1, <2>3, <2>4, <2>5
<1>5. CASE RemoveOutput(w, OpenedFiles)
  <2>1. ~PutOpen(w)
    BY <1>5 DEF RemoveOutput, PutOpen, At
  <2>2. output' = IF o \in OpenedFiles THEN output ELSE [output EXCEPT ![o] = NoFile]
    BY <1>5 DEF RemoveOutput
  <2> QED
    BY <1>1, <2>1, <2>2
<1>6. CASE output' = output /\ ~PutOpen(w)
  BY <1>1, <1>6
<1> QED
  BY <1>3, <1>4, <1>5, <1>6
     DEF PutStep, PutStat, PutWritten, PutWriteFails, ActionOpen, ActionWrite, ActionTruncate,
         ActionFails, RemoveAction, Exit, files

(* An action file is the record written to it last, or none of it.         *)
LEMMA ActionFilesMove ==
    ASSUME TypeInv, NEW w \in Writers, PutStep(w, OpenedFiles)
    PROVE  /\ action' \in [Actions -> Records \cup {NoFile}]
           /\ \A a \in Actions : OpenedAction(a) /\ action[a] \in Records
                                    => action'[a] \in Records
           /\ ActionOpen(w) \/ ActionWrite(w) => action'[put[w].action] \in Records
<1> DEFINE a == put[w].action
           n == RecordLen[put[w].output]
<1>1. /\ action \in [Actions -> Records \cup {NoFile}]
      /\ put[w] \in PutRecords /\ a \in Actions /\ n \in Nat
      /\ put[w].output \in Outputs
  BY PutStepMoves, WindowsAssumption DEF TypeInv, Types, Puts, PutRecords
<1>2. CASE ActionOpen(w)
  <2>1. EmptyRecord \in Records
    BY DEF EmptyRecord, Records
  <2>2. action' = [action EXCEPT ![a] = IF action[a] = NoFile THEN EmptyRecord ELSE action[a]]
    BY <1>2 DEF ActionOpen, OpenedInPlace
  <2> QED
    BY <1>1, <2>1, <2>2
<1>3. CASE ActionWrite(w)
  <2>1. action[a] \in Records
    BY <1>3 DEF TypeInv, OpenFilesStay, ActionWrite
  <2> DEFINE rec == [names |-> put[w].output, have |-> n,
                     len |-> IF action[a].len > n THEN action[a].len ELSE n]
  <2>2. rec \in Records
    BY <1>1, <2>1 DEF Records
  <2>3. action' = [action EXCEPT ![a] = rec]
    BY <1>3 DEF ActionWrite
  <2> HIDE DEF rec
  <2> QED
    BY <1>1, <2>2, <2>3
<1>4. CASE ActionTruncate(w)
  <2>1. action[a] \in Records
    BY <1>4 DEF TypeInv, OpenFilesStay, ActionTruncate
  <2> DEFINE cut == [action[a] EXCEPT !.len = n]
             rec == [cut EXCEPT !.have = IF action[a].have > n THEN n ELSE action[a].have]
  <2>2. rec \in Records
    <3>1. /\ cut \in [names : Outputs \cup {NoFile}, have : Nat, len : Nat]
          /\ cut.len = n /\ action[a].have \in Nat
      BY <1>1, <2>1 DEF Records
    <3>2. /\ rec \in [names : Outputs \cup {NoFile}, have : Nat, len : Nat]
          /\ rec.len = n /\ rec.have = IF action[a].have > n THEN n ELSE action[a].have
      BY <1>1, <3>1
    <3> HIDE DEF cut, rec
    <3> QED
      BY <1>1, <3>1, <3>2 DEF Records
  <2>3. action' = [action EXCEPT ![a] = rec]
    BY <1>4 DEF ActionTruncate
  <2>4. ~ActionOpen(w) /\ ~ActionWrite(w)
    BY <1>4 DEF ActionTruncate, ActionOpen, ActionWrite, At
  <2> HIDE DEF rec
  <2> QED
    BY <1>1, <2>2, <2>3, <2>4
<1>5. CASE RemoveAction(w)
  <2>1. ~ActionOpen(w) /\ ~ActionWrite(w)
    BY <1>5 DEF RemoveAction, ActionOpen, ActionWrite, At
  <2>2. action' = IF OpenedAction(a) THEN action ELSE [action EXCEPT ![a] = NoFile]
    BY <1>5 DEF RemoveAction
  <2> QED
    BY <1>1, <2>1, <2>2
<1>6. CASE action' = action /\ ~ActionOpen(w) /\ ~ActionWrite(w)
  BY <1>1, <1>6
<1>7. CASE PutStat(w) \/ PutOpen(w) \/ PutWrite(w) \/ PutWritten(w) \/ PutWriteFails(w)
           \/ ActionFails(w) \/ RemoveOutput(w, OpenedFiles) \/ Exit(w)
  <2>1. action' = action
    BY <1>7 DEF PutStat, PutOpen, PutWrite, PutWritten, PutWriteFails, ActionFails,
                RemoveOutput, Exit, files
  <2> QED
    BY <1>6, <2>1, <1>2, <1>3
<1> QED
  BY <1>2, <1>3, <1>4, <1>5, <1>7 DEF PutStep

LEMMA StoredMoves ==
    ASSUME TypeInv, NEW w \in Writers, PutStep(w, OpenedFiles)
    PROVE  stored' \subseteq Offers /\ stored \subseteq stored'
<1>1. stored \subseteq Offers /\ <<put[w].action, put[w].output>> \in Offers
  BY PutStepMoves DEF TypeInv, Types, Puts
<1>2. stored' = stored \/ Saved(w)
  BY DEF PutStep, PutStat, PutOpen, PutWrite, PutWritten, PutWriteFails, ActionOpen,
         ActionWrite, ActionTruncate, ActionFails, RemoveOutput, RemoveAction, Exit, files
<1> QED
  BY <1>1, <1>2 DEF Saved

-----------------------------------------------------------------------------
(* Types. *)

LEMMA WriteIsOpen ==
    ASSUME TypeInv, NEW w \in Writers, At(w, "write")
    PROVE  /\ put[w].output \in OpenedFiles \cap Outputs
           /\ output[put[w].output] \in Seq(Chunks)
BY DEF TypeInv, Types, OpenFilesStay, At, Puts, PutRecords, OpenedFiles, OpenedOutputs

LEMMA ReadIsOpen ==
    ASSUME TypeInv, NEW r \in Readers, Reads(r, "read")
    PROVE  /\ get[r].output \in OpenedFiles \cap Outputs
           /\ output[get[r].output] \in Seq(Chunks)
BY DEF TypeInv, Types, OpenFilesStay, Reads, Gets, OpenedFiles

LEMMA PutKeepsTypes ==
    ASSUME TypeInv, NEW w \in Writers, PutStep(w, OpenedFiles), UNCHANGED get PROVE TypeInv'
<1> USE DEF TypeInv
<1>1. Types'
  BY PutStepMoves, OutputFilesMove, ActionFilesMove, StoredMoves DEF Types
<1>2. ASSUME NEW v \in Writers, At(v, "write")' PROVE output'[put'[v].output] \in Seq(Chunks)
  <2>1. put'[v] # NoPut /\ put'[v].pc = "write"
    BY <1>2 DEF At
  <2>2. CASE v = w
    <3>1. PutOpen(w) \/ PutWrite(w)
      BY <2>1, <2>2, PutStepMoves
    <3>2. put'[w].output = put[w].output /\ put[w].output \in Outputs
      BY <2>1, <2>2, PutStepMoves DEF Moves, Puts, PutRecords
    <3>3. PutWrite(w) => At(w, "write")
      BY DEF PutWrite
    <3> QED
      BY <2>2, <3>1, <3>2, <3>3, WriteIsOpen, OutputFilesMove
  <2>3. CASE v # w
    <3>1. At(v, "write") /\ put'[v] = put[v]
      BY <2>1, <2>3, PutStepMoves DEF At
    <3> QED
      BY <3>1, WriteIsOpen, OutputFilesMove
  <2> QED
    BY <2>2, <2>3
<1>3. ASSUME NEW r \in Readers, Reads(r, "read")'
      PROVE  output'[get'[r].output] \in Seq(Chunks)
  <2>1. Reads(r, "read") /\ get'[r] = get[r]
    BY <1>3 DEF Reads
  <2> QED
    BY <2>1, ReadIsOpen, OutputFilesMove
<1>4. ASSUME NEW v \in Writers, At(v, "record")' \/ At(v, "truncate")'
      PROVE  action'[put'[v].action] \in Records
  <2>1. put'[v] # NoPut /\ put'[v].pc \in {"record", "truncate"}
    BY <1>4 DEF At
  <2>2. CASE v = w
    <3>1. (ActionOpen(w) \/ ActionWrite(w)) /\ put'[w].action = put[w].action
      BY <2>1, <2>2, PutStepMoves DEF Moves
    <3> QED
      BY <2>2, <3>1, ActionFilesMove
  <2>3. CASE v # w
    <3>1. (At(v, "record") \/ At(v, "truncate")) /\ put'[v] = put[v]
      BY <2>1, <2>3, PutStepMoves DEF At
    <3>2. /\ OpenedAction(put[v].action) /\ action[put[v].action] \in Records
          /\ put[v].action \in Actions
      BY <3>1 DEF OpenedAction, OpenFilesStay, Types, At, Puts, PutRecords
    <3> QED
      BY <3>1, <3>2, ActionFilesMove
  <2> QED
    BY <2>2, <2>3
<1> QED
  BY <1>1, <1>2, <1>3, <1>4 DEF OpenFilesStay

LEMMA OneGetMoves ==
    ASSUME Types, NEW r \in Readers, NEW g \in Gets \cup {NoGet}, get' = [get EXCEPT ![r] = g]
    PROVE  /\ get' \in [Readers -> Gets \cup {NoGet}] /\ get'[r] = g
           /\ \A q \in Readers \ {r} : get'[q] = get[q]
BY DEF Types

GetStep(r) == HandleGetAction(r) \/ StatOutput(r) \/ HandleGetOutput(r) \/ SendChunk(r)
              \/ GetDone(r)

(* Where a client's GET that is under way after a step comes from.         *)
LEMMA GetStepMoves ==
    ASSUME TypeInv, NEW r \in Readers, GetStep(r)
    PROVE  /\ get' \in [Readers -> Gets \cup {NoGet}]
           /\ \A q \in Readers \ {r} : get'[q] = get[q]
           /\ get'[r] # NoGet =>
                \/ /\ get'[r].pc = "stat"
                   /\ get[r] = NoGet /\ get'[r].action \in Actions
                   /\ Parses(get'[r].action) /\ get'[r].output = Named(get'[r].action)
                \/ /\ get[r] # NoGet
                   /\ get'[r].action = get[r].action /\ get'[r].output = get[r].output
                   /\ \/ get[r].pc = "stat" /\ get'[r].pc = "output"
                      \/ /\ get[r].pc = "stat" /\ get'[r].pc = "sent"
                         /\ Len(output[get[r].output]) = 0
                      \/ /\ get[r].pc = "output" /\ get'[r].pc = "read"
                         /\ output[get[r].output] \in Seq(Chunks)
                         /\ get'[r].length = Len(output[get[r].output])
                         /\ get'[r].body = <<>>
                      \/ /\ Reads(r, "read") /\ MorePromised(r) /\ get'[r].pc = "read"
                         /\ get'[r].length = get[r].length
                         /\ get'[r].body = Append(get[r].body,
                                                 output[get[r].output][Sent(r) + 1])
                      \/ /\ Reads(r, "read") /\ ~MorePromised(r) /\ get'[r].pc = "sent"
                         /\ get'[r].length = get[r].length /\ get'[r].body = get[r].body
<1> DEFINE GetRecords == [action : Actions, output : Outputs,
                          pc : {"stat", "output", "read", "sent"},
                          length : Nat, body : Seq(Chunks)]
<1>1. Types /\ (get[r] # NoGet => get[r] \in Gets /\ get[r] \in GetRecords)
  BY DEF TypeInv, Types, Gets
<1>2. <<>> \in Seq(Chunks) /\ Len(<<>>) = 0
  BY EmptySeq
<1>3. CASE GetEnds(r)
  BY <1>1, <1>3, OneGetMoves DEF GetEnds
<1>4. CASE HandleGetAction(r)
  <2>1. PICK a \in Actions : Parses(a) /\ IsTold(r, a) /\ get[r] = NoGet
    BY <1>4 DEF HandleGetAction
  <2>2. Named(a) \in Outputs
    BY <2>1 DEF TypeInv, Types, Parses, Named, Records
  <2> DEFINE g == [action |-> a, output |-> Named(a), pc |-> "stat", length |-> 0,
                   body |-> <<>>]
  <2>3. g \in Gets /\ g.pc = "stat" /\ g.output = Named(a) /\ g.action = a
    BY <1>2, <2>2 DEF Gets
  <2> HIDE DEF g
  <2>4. get' = [get EXCEPT ![r] = g]
    BY <2>1 DEF g, IsTold
  <2> QED
    BY <1>1, <2>1, <2>3, <2>4, OneGetMoves
<1>5. ASSUME StatOutput(r), NEW to \in {"output", "sent"},
             to = "sent" => Len(output[get[r].output]) = 0,
             get' = [get EXCEPT ![r].pc = to]
      PROVE  /\ get' \in [Readers -> Gets \cup {NoGet}]
             /\ \A q \in Readers \ {r} : get'[q] = get[q]
             /\ get[r] # NoGet /\ get'[r].action = get[r].action
             /\ get'[r].output = get[r].output /\ get[r].pc = "stat" /\ get'[r].pc = to
             /\ to = "sent" => Len(output[get[r].output]) = 0
  <2> DEFINE g == [get[r] EXCEPT !.pc = to]
  <2>1. get[r] # NoGet /\ get[r].pc = "stat"
    BY <1>5 DEF StatOutput, Reads
  <2>2. /\ g \in GetRecords /\ g.pc = to /\ g.output = get[r].output
        /\ g.action = get[r].action /\ g.length = get[r].length /\ g.body = get[r].body
    BY <1>1, <2>1
  <2>3. Len(get[r].body) <= get[r].length /\ get[r].body = <<>>
    BY <1>1, <2>1 DEF Gets
  <2>4. get' = [get EXCEPT ![r] = g]
    BY <1>5
  <2> HIDE DEF g
  <2>5. g \in Gets
    BY <2>2, <2>3 DEF Gets
  <2> QED
    BY <1>1, <1>5, <2>1, <2>2, <2>4, <2>5, OneGetMoves
<1>6. CASE /\ HandleGetOutput(r) /\ output[get[r].output] # NoFile
           /\ get' = [get EXCEPT ![r].pc = "read", ![r].length = Len(output[get[r].output])]
  <2> DEFINE h == [get[r] EXCEPT !.pc = "read"]
             g == [h EXCEPT !.length = Len(output[get[r].output])]
             to == [get EXCEPT ![r] = h]
  <2>1. get[r] # NoGet /\ get[r].pc = "output"
    BY <1>6 DEF HandleGetOutput, Reads
  <2>2. get[r].body = <<>> /\ get[r].output \in Outputs
    BY <1>1, <2>1 DEF Gets
  <2>3. output[get[r].output] \in Seq(Chunks)
    BY <1>6, <2>2 DEF TypeInv, Types
  <2>4. Len(output[get[r].output]) \in Nat
    BY <2>3, LenProperties
  <2>5. h \in GetRecords
    BY <1>1, <2>1
  <2>6. /\ g \in GetRecords /\ g.pc = "read" /\ g.output = get[r].output
        /\ g.action = get[r].action /\ g.length = Len(output[get[r].output]) /\ g.body = <<>>
    BY <1>1, <2>1, <2>2, <2>4, <2>5
  <2>7. to[r] = h /\ get' = [to EXCEPT ![r] = [to[r] EXCEPT !.length = Len(output[get[r].output])]]
    BY <1>1, <1>6 DEF Types
  <2>8. get' = [get EXCEPT ![r] = g]
    BY <1>1, <2>7 DEF Types
  <2> HIDE DEF g
  <2>9. g \in Gets
    BY <1>2, <2>4, <2>6 DEF Gets
  <2> QED
    BY <1>1, <2>1, <2>3, <2>6, <2>8, <2>9, OneGetMoves
<1>7. CASE /\ SendChunk(r) /\ MorePromised(r)
           /\ get' = [get EXCEPT ![r].body = Append(@, output[get[r].output][Sent(r) + 1])]
  <2> DEFINE file  == output[get[r].output]
             chunk == file[Sent(r) + 1]
             body  == Append(get[r].body, chunk)
             g     == [get[r] EXCEPT !.body = body]
  <2>1. Reads(r, "read") /\ get[r] # NoGet /\ get[r].pc = "read"
    BY <1>7 DEF SendChunk, Reads
  <2>2. file \in Seq(Chunks) /\ get[r].body \in Seq(Chunks) /\ get[r].length \in Nat
    BY <1>1, <2>1, ReadIsOpen
  <2>3. Sent(r) \in Nat /\ Len(file) \in Nat /\ Sent(r) = Len(get[r].body)
    BY <2>2, LenProperties DEF Sent
  <2>4. Sent(r) < get[r].length /\ Sent(r) < Len(file)
    BY <1>7 DEF MorePromised
  <2>5. chunk \in Chunks
    <3>1. Sent(r) + 1 \in 1..Len(file)
      BY <2>3, <2>4
    <3> QED
      BY <2>2, <3>1, ElementOfSeq
  <2> HIDE DEF chunk
  <2>6. body \in Seq(Chunks) /\ Len(body) = Sent(r) + 1
    BY <2>2, <2>3, <2>5, AppendProperties
  <2>7. get' = [get EXCEPT ![r] = g]
    BY <1>7 DEF chunk
  <2> HIDE DEF body
  <2>8. /\ g \in GetRecords /\ g.pc = "read" /\ g.output = get[r].output
        /\ g.action = get[r].action /\ g.length = get[r].length /\ g.body = body
    BY <1>1, <2>1, <2>6
  <2> HIDE DEF g
  <2>9. g \in Gets
    BY <2>2, <2>3, <2>4, <2>6, <2>8 DEF Gets
  <2> QED
    BY <1>1, <1>7, <2>1, <2>7, <2>8, <2>9, OneGetMoves DEF body, chunk
<1>8. CASE SendChunk(r) /\ ~MorePromised(r) /\ get' = [get EXCEPT ![r].pc = "sent"]
  <2> DEFINE g == [get[r] EXCEPT !.pc = "sent"]
  <2>1. Reads(r, "read") /\ get[r] # NoGet
    BY <1>8 DEF SendChunk, Reads
  <2>2. /\ g \in GetRecords /\ g.pc = "sent" /\ g.output = get[r].output
        /\ g.action = get[r].action /\ g.length = get[r].length /\ g.body = get[r].body
    BY <1>1, <2>1
  <2>3. Len(get[r].body) <= get[r].length
    BY <1>1, <2>1 DEF Gets
  <2>4. get' = [get EXCEPT ![r] = g]
    BY <1>8
  <2> HIDE DEF g
  <2>5. g \in Gets
    BY <2>2, <2>3 DEF Gets
  <2> QED
    BY <1>1, <1>8, <2>1, <2>2, <2>4, <2>5, OneGetMoves
<1> QED
  BY <1>3, <1>4, <1>5, <1>6, <1>7, <1>8
     DEF GetStep, StatOutput, HandleGetOutput, SendChunk, GetDone

LEMMA GetKeepsTypes ==
    ASSUME TypeInv, NEW r \in Readers, GetStep(r) PROVE TypeInv'
<1>1. UNCHANGED diskVars
  BY DEF GetStep, HandleGetAction, StatOutput, HandleGetOutput, SendChunk, GetDone
<1>2. Types'
  BY <1>1, GetStepMoves DEF TypeInv, Types, diskVars
<1>3. \A w \in Writers : /\ At(w, "write") <=> At(w, "write")'
                         /\ At(w, "record") <=> At(w, "record")'
                         /\ At(w, "truncate") <=> At(w, "truncate")'
  BY <1>1 DEF At, diskVars
<1>4. ASSUME NEW q \in Readers, Reads(q, "read")'
      PROVE  output'[get'[q].output] \in Seq(Chunks)
  <2>1. output' = output /\ get'[q] # NoGet /\ get'[q].pc = "read"
    BY <1>1, <1>4 DEF Reads, diskVars
  <2>2. CASE q = r
    BY <2>1, <2>2, GetStepMoves, ReadIsOpen
  <2>3. CASE q # r
    BY <2>1, <2>3, GetStepMoves, ReadIsOpen DEF Reads
  <2> QED
    BY <2>2, <2>3
<1> QED
  BY <1>1, <1>2, <1>3, <1>4 DEF TypeInv, OpenFilesStay, diskVars

LEMMA HandlePutKeepsTypes ==
    ASSUME TypeInv, NEW w \in Writers, HandlePut(w) PROVE TypeInv'
<1>1. PICK offer \in Offers, body \in Bodies : PutStart(w, offer[1], offer[2], body)
  BY DEF HandlePut
<1>2. /\ put' \in [Writers -> Puts \cup {NoPut}] /\ put'[w].pc = "stat"
      /\ \A v \in Writers \ {w} : put'[v] = put[v]
  BY <1>1, PutStarts DEF TypeInv
<1>3. UNCHANGED <<files, stored, get>>
  BY <1>1 DEF HandlePut, PutStart
<1> QED
  BY <1>2, <1>3 DEF TypeInv, Types, OpenFilesStay, At, Reads, files

LEMMA NextTypes == TypeInv /\ [Next]_vars => TypeInv'
<1> SUFFICES ASSUME TypeInv, [Next]_vars PROVE TypeInv'
  OBVIOUS
<1>1. CASE UNCHANGED vars
  BY <1>1 DEF vars, TypeInv, Types, OpenFilesStay, At, Reads
<1> QED
  BY <1>1, HandlePutKeepsTypes, PutKeepsTypes, GetKeepsTypes DEF Next, GetStep

LEMMA AlwaysTypes == Spec => []TypeInv
<1>1. Init => TypeInv
  BY DEF Init, DiskInit, TypeInv, Types, OpenFilesStay, At, Reads
<1> QED
  BY <1>1, NextTypes, PTL DEF Spec

(* Files hold chunks, records hold no more than their length, and a put    *)
(* and a client are never past the end of what they write and read.        *)
THEOREM TypesAreKept == Spec => []TypeOK
<1>1. TypeInv => TypeOK
  <2> SUFFICES ASSUME TypeInv PROVE TypeOK
    OBVIOUS
  <2>1. ASSUME NEW o \in Outputs, output[o] # NoFile, NEW i \in 1..Len(output[o])
        PROVE  output[o][i] \in {Good, Bad}
    <3>1. output[o] \in Seq(Chunks)
      BY <2>1 DEF TypeInv, Types
    <3> QED
      BY <3>1, ElementOfSeq DEF Chunks
  <2>2. ASSUME NEW a \in Actions, action[a] # NoFile PROVE action[a].have <= action[a].len
    BY <2>2 DEF TypeInv, Types, Records
  <2>3. ASSUME NEW w \in Writers, put[w] # NoPut PROVE put[w].at \in 0..put[w].body.size
    <3>1. put[w] \in Puts /\ put[w] \in PutRecords
      BY <2>3 DEF TypeInv, Types, Puts
    <3>2. put[w].at \in Nat /\ put[w].body.size \in Nat /\ put[w].at <= put[w].body.size
      BY <3>1 DEF Puts, PutRecords
    <3> QED
      BY <3>2
  <2>4. ASSUME NEW r \in Readers, get[r] # NoGet PROVE Len(get[r].body) <= get[r].length
    BY <2>4 DEF TypeInv, Types, Gets
  <2>5. stored \subseteq Offers
    BY DEF TypeInv, Types
  <2> QED
    BY <2>1, <2>2, <2>3, <2>4, <2>5 DEF TypeOK
<1> QED
  BY <1>1, AlwaysTypes, PTL

-----------------------------------------------------------------------------
(* Entries were stored. *)

(* A put that is past its output file has stored its offer, and so has the *)
(* one whose record an action file holds, whole or not.                    *)
StoredInv ==
    /\ \A w \in Writers :
          put[w] # NoPut /\ put[w].pc \in {"openAction", "record", "truncate"}
              => <<put[w].action, put[w].output>> \in stored
    /\ \A a \in Actions :
          action[a] # NoFile /\ action[a].names # NoFile => <<a, action[a].names>> \in stored

LEMMA TruncateKeepsName ==
    ASSUME action \in [Actions -> Records \cup {NoFile}], NEW w \in Writers,
           action[put[w].action] \in Records, ActionTruncate(w),
           NEW a \in Actions, action'[a] # action[a]
    PROVE  a = put[w].action /\ action'[a].names = action[a].names
<1> DEFINE n   == RecordLen[put[w].output]
           cut == [action[a] EXCEPT !.len = n]
           rec == [cut EXCEPT !.have = IF action[a].have > n THEN n ELSE action[a].have]
<1>1. a = put[w].action
  BY DEF ActionTruncate
<1>2. action' = [action EXCEPT ![a] = rec]
  BY <1>1 DEF ActionTruncate
<1>3. cut.names = action[a].names /\ DOMAIN cut = {"names", "have", "len"}
  BY <1>1 DEF Records
<1>4. rec.names = action[a].names
  BY <1>3
<1> HIDE DEF rec
<1> QED
  BY <1>1, <1>2, <1>4

(* Only a write of a record gives an action file a name.                   *)
LEMMA NamesMove ==
    ASSUME TypeInv, NEW w \in Writers, PutStep(w, OpenedFiles), NEW a \in Actions,
           action'[a] # NoFile, action'[a].names # NoFile
    PROVE  \/ action[a] # NoFile /\ action[a].names = action'[a].names
           \/ ActionWrite(w) /\ a = put[w].action /\ action'[a].names = put[w].output
<1> DEFINE b == put[w].action
<1>1. b \in Actions /\ action \in [Actions -> Records \cup {NoFile}]
  BY PutStepMoves DEF TypeInv, Types, Puts, PutRecords
<1>2. CASE action'[a] = action[a]
  BY <1>2
<1>3. CASE ActionOpen(w) /\ action'[a] # action[a]
  <2>1. action'[a] = EmptyRecord
    BY <1>1, <1>3 DEF ActionOpen, OpenedInPlace
  <2> QED
    BY <2>1 DEF EmptyRecord
<1>4. CASE ActionWrite(w) /\ action'[a] # action[a]
  BY <1>1, <1>4 DEF ActionWrite
<1>5. CASE ActionTruncate(w) /\ action'[a] # action[a]
  <2>1. action[b] \in Records
    BY <1>5 DEF TypeInv, OpenFilesStay, ActionTruncate
  <2>2. a = b /\ action'[a].names = action[a].names
    BY <1>1, <1>5, <2>1, TruncateKeepsName
  <2>3. action[a] # NoFile
    BY <2>1, <2>2, NoFileAssumption DEF Records
  <2> QED
    BY <2>2, <2>3
<1>6. CASE RemoveAction(w) /\ action'[a] # action[a]
  BY <1>1, <1>6 DEF RemoveAction
<1> QED
  BY <1>2, <1>3, <1>4, <1>5, <1>6
     DEF PutStep, PutStat, PutOpen, PutWrite, PutWritten, PutWriteFails, ActionFails,
         RemoveOutput, Exit, files

LEMMA PutKeepsStored ==
    ASSUME TypeInv, StoredInv, NEW w \in Writers, PutStep(w, OpenedFiles) PROVE StoredInv'
<1> USE DEF TypeInv
<1>1. stored \subseteq stored'
  BY StoredMoves
<1>2. ASSUME NEW v \in Writers, put'[v] # NoPut,
             put'[v].pc \in {"openAction", "record", "truncate"}
      PROVE  <<put'[v].action, put'[v].output>> \in stored'
  <2>1. CASE v # w
    BY <1>1, <1>2, <2>1, PutStepMoves DEF StoredInv
  <2>2. CASE v = w
    <3>1. put'[w].action = put[w].action /\ put'[w].output = put[w].output
      BY <1>2, <2>2, PutStepMoves DEF Moves
    <3>2. Saved(w) \/ ActionOpen(w) \/ ActionWrite(w)
      BY <1>2, <2>2, PutStepMoves
    <3>3. Saved(w) => <<put[w].action, put[w].output>> \in stored'
      BY DEF Saved
    <3>4. ActionOpen(w) \/ ActionWrite(w) => <<put[w].action, put[w].output>> \in stored
      BY DEF ActionOpen, ActionWrite, At, StoredInv
    <3> QED
      BY <1>1, <2>2, <3>1, <3>2, <3>3, <3>4
  <2> QED
    BY <2>1, <2>2
<1>3. ASSUME NEW a \in Actions, action'[a] # NoFile, action'[a].names # NoFile
      PROVE  <<a, action'[a].names>> \in stored'
  <2>1. CASE action[a] # NoFile /\ action[a].names = action'[a].names
    BY <1>1, <1>3, <2>1 DEF StoredInv
  <2>2. CASE ActionWrite(w) /\ a = put[w].action /\ action'[a].names = put[w].output
    BY <1>1, <2>2 DEF ActionWrite, At, StoredInv
  <2> QED
    BY <1>3, <2>1, <2>2, NamesMove
<1> QED
  BY <1>2, <1>3 DEF StoredInv

LEMMA NextStored == TypeInv /\ StoredInv /\ [Next]_vars => StoredInv'
<1> SUFFICES ASSUME TypeInv, StoredInv, [Next]_vars PROVE StoredInv'
  OBVIOUS
<1>1. ASSUME NEW w \in Writers, HandlePut(w) PROVE StoredInv'
  <2>1. PICK offer \in Offers, body \in Bodies : PutStart(w, offer[1], offer[2], body)
    BY <1>1 DEF HandlePut
  <2>2. put'[w].pc = "stat" /\ \A v \in Writers \ {w} : put'[v] = put[v]
    BY <2>1, PutStarts DEF TypeInv
  <2>3. UNCHANGED <<action, stored>>
    BY <2>1 DEF PutStart, files
  <2> QED
    BY <2>2, <2>3 DEF StoredInv
<1>2. CASE UNCHANGED diskVars
  BY <1>2 DEF diskVars, StoredInv
<1> QED
  BY <1>1, <1>2, PutKeepsStored
     DEF Next, vars, diskVars, HandleGetAction, StatOutput, HandleGetOutput, SendChunk, GetDone

(* An entry that parses names an output that was put for its action,       *)
(* written and checked first, through every interleaving of records of     *)
(* different lengths, deaths and failures.                                 *)
THEOREM EntriesWereAlwaysStored == Spec => []EntriesWereStored
<1>1. Init => StoredInv
  BY DEF Init, DiskInit, StoredInv
<1>2. StoredInv => EntriesWereStored
  BY DEF StoredInv, EntriesWereStored, Parses, Named
<1> QED
  BY <1>1, <1>2, NextStored, AlwaysTypes, PTL DEF Spec

-----------------------------------------------------------------------------
(* Good bytes. *)

GoodFile(f) == Len(f) <= Size /\ \A i \in 1..Len(f) : f[i] = Good

(* Where every body is its output: a put never truncates, and its file     *)
(* reaches to where it writes next, though others write it too.            *)
GoodInv ==
    "wrong" \notin faults =>
        /\ \A w \in Writers : put[w] # NoPut =>
              /\ put[w].body.good /\ put[w].body.size = Size
              /\ ~put[w].trunc
              /\ put[w].pc \in {"stat", "open"} => put[w].at = 0
              /\ put[w].pc = "write" => put[w].at <= Len(output[put[w].output])
        /\ \A o \in Outputs : output[o] # NoFile => GoodFile(output[o])

LEMMA GoodWhole ==
    ASSUME NEW f \in Seq(Chunks), GoodFile(f), Len(f) = Size PROVE f = Whole
<1>1. Size \in Nat /\ Len(f) \in Nat
  BY WindowsAssumption
<1> QED
  BY <1>1, WholeFile, SeqEqual DEF GoodFile

LEMMA GoodWritten ==
    ASSUME NEW f \in Seq(Chunks), GoodFile(f), NEW n \in Nat \ {0},
           n <= Size, n <= Len(f) + 1
    PROVE  LET g == Written(f, n, Good)
           IN  /\ g \in Seq(Chunks) /\ GoodFile(g) /\ Len(g) >= Len(f) /\ Len(g) >= n
               /\ f = Whole => g = Whole
<1> DEFINE g == Written(f, n, Good)
           k == IF n > Len(f) THEN n ELSE Len(f)
<1>1. Size \in Nat /\ Len(f) \in Nat /\ Good \in Chunks
  BY WindowsAssumption, LenProperties DEF Chunks
<1>2. /\ g \in Seq(Chunks) /\ Len(g) = k
      /\ \A i \in 1..k : g[i] = IF i = n THEN Good ELSE IF i <= Len(f) THEN f[i] ELSE Bad
  BY <1>1, WrittenChunks
<1> HIDE DEF g
<1>3. ASSUME NEW i \in 1..Len(g) PROVE g[i] = Good
  BY <1>1, <1>2 DEF GoodFile
<1>4. GoodFile(g) /\ Len(g) >= Len(f) /\ Len(g) >= n
  BY <1>1, <1>2, <1>3 DEF GoodFile
<1>5. f = Whole => Len(g) = Size
  BY <1>1, <1>2, WholeFile
<1>6. f = Whole => g = Whole
  BY <1>2, <1>4, <1>5, GoodWhole
<1> QED
  BY <1>2, <1>4, <1>6 DEF g

(* What a put leaves of the output files, then.                            *)
LEMMA GoodFilesMove ==
    ASSUME TypeInv, GoodInv, "wrong" \notin faults, NEW w \in Writers, PutStep(w, OpenedFiles)
    PROVE  /\ \A o \in Outputs : output'[o] # NoFile => GoodFile(output'[o])
           /\ \A o \in OpenedFiles \cap Outputs :
                 output[o] \in Seq(Chunks) => Len(output'[o]) >= Len(output[o])
           /\ PutWrite(w) => Len(output'[put[w].output]) >= put[w].at + 1
           /\ PutOpen(w) => output'[put[w].output] \in Seq(Chunks)
           /\ \A o \in Outputs : output[o] = Whole /\ ~RemoveOutput(w, OpenedFiles)
                                      => output'[o] = Whole
<1> DEFINE o == put[w].output
<1>1. /\ output \in [Outputs -> Seq(Chunks) \cup {NoFile}]
      /\ put[w] \in PutRecords /\ put[w] # NoPut /\ o \in Outputs /\ put[w].at \in Nat
      /\ \A p \in Outputs : output[p] # NoFile => GoodFile(output[p])
  BY PutStepMoves DEF TypeInv, Types, Puts, PutRecords, GoodInv
<1>2. \A f \in Seq(Chunks) : Len(f) \in Nat
  BY LenProperties
<1>3. PutOpen(w) => output'[o] \in Seq(Chunks)
  BY OutputFilesMove
<1>4. CASE output' = output /\ ~PutOpen(w) /\ ~PutWrite(w)
  BY <1>1, <1>2, <1>4
<1>5. CASE PutOpen(w)
  <2>1. ~put[w].trunc
    BY <1>1 DEF GoodInv
  <2>2. output' = [output EXCEPT ![o] = IF output[o] = NoFile THEN <<>> ELSE output[o]]
    BY <1>5, <2>1 DEF PutOpen, OpenInPlace
  <2>3. GoodFile(<<>>) /\ <<>> \in Seq(Chunks)
    BY WindowsAssumption, EmptySeq DEF GoodFile
  <2>4. ~PutWrite(w) /\ NoFile # Whole /\ NoFile \notin Seq(Chunks)
    BY <1>5, NoFileAssumption, WholeFile DEF PutOpen, PutWrite, At, Chunks
  <2>5. \A p \in Outputs : output[p] # NoFile => output'[p] = output[p]
    BY <1>1, <2>2
  <2>6. \A p \in Outputs : output'[p] = output[p] \/ output'[p] = <<>>
    BY <1>1, <2>2
  <2> QED
    BY <1>1, <1>2, <1>3, <2>3, <2>4, <2>5, <2>6
<1>6. CASE PutWrite(w)
  <2> DEFINE n == put[w].at + 1
             file == Written(output[o], n, Good)
  <2>1. output[o] \in Seq(Chunks) /\ put[w].pc = "write" /\ put[w].at < put[w].body.size
    BY <1>6, WriteIsOpen DEF PutWrite, At
  <2>2. /\ put[w].body.good /\ put[w].body.size = Size
        /\ put[w].at <= Len(output[o])
    BY <1>1, <2>1 DEF GoodInv
  <2>3. GoodFile(output[o])
    BY <1>1, <2>1, NoFileAssumption DEF Chunks
  <2>4. n \in Nat \ {0} /\ n <= Size /\ n <= Len(output[o]) + 1
    BY <1>1, <1>2, <2>1, <2>2, WindowsAssumption
  <2>5. output' = [output EXCEPT ![o] = file]
    BY <1>6, <2>2 DEF PutWrite
  <2>6. ~PutOpen(w)
    BY <1>6 DEF PutWrite, PutOpen, At
  <2> HIDE DEF n
  <2>7. /\ file \in Seq(Chunks) /\ GoodFile(file) /\ Len(file) >= Len(output[o])
        /\ Len(file) >= n
        /\ output[o] = Whole => file = Whole
    BY <2>1, <2>3, <2>4, GoodWritten
  <2> HIDE DEF file
  <2>8. output'[o] = file /\ \A p \in Outputs \ {o} : output'[p] = output[p]
    BY <1>1, <2>5
  <2>9. \A p \in Outputs : output'[p] # NoFile => GoodFile(output'[p])
    BY <1>1, <2>7, <2>8
  <2>10. \A p \in Outputs : output[p] \in Seq(Chunks) => Len(output'[p]) >= Len(output[p])
    BY <1>2, <2>7, <2>8
  <2>11. \A p \in Outputs : output[p] = Whole => output'[p] = Whole
    BY <2>7, <2>8
  <2> QED
    BY <2>6, <2>7, <2>8, <2>9, <2>10, <2>11 DEF n
<1>7. CASE RemoveOutput(w, OpenedFiles)
  <2>1. ~PutOpen(w) /\ ~PutWrite(w)
    BY <1>7 DEF RemoveOutput, PutOpen, PutWrite, At
  <2>2. output' = IF o \in OpenedFiles THEN output ELSE [output EXCEPT ![o] = NoFile]
    BY <1>7 DEF RemoveOutput
  <2>3. \A p \in Outputs : output'[p] = output[p] \/ (p \notin OpenedFiles /\ output'[p] = NoFile)
    BY <1>1, <2>2
  <2> QED
    BY <1>1, <1>2, <1>7, <2>1, <2>3
<1>8. CASE PutStat(w) \/ PutWritten(w) \/ PutWriteFails(w) \/ ActionOpen(w) \/ ActionWrite(w)
           \/ ActionTruncate(w) \/ ActionFails(w) \/ RemoveAction(w) \/ Exit(w)
  <2>1. output' = output
    BY <1>8 DEF PutStat, PutWritten, PutWriteFails, ActionOpen, ActionWrite, ActionTruncate,
                ActionFails, RemoveAction, Exit, files
  <2> QED
    BY <1>4, <1>5, <1>6, <2>1
<1> QED
  BY <1>5, <1>6, <1>7, <1>8 DEF PutStep

LEMMA PutKeepsGood ==
    ASSUME TypeInv, GoodInv, NEW w \in Writers, PutStep(w, OpenedFiles), UNCHANGED faults
    PROVE  GoodInv'
<1> SUFFICES ASSUME "wrong" \notin faults PROVE GoodInv'
  BY DEF GoodInv
<1> USE DEF TypeInv
<1>1. ASSUME NEW v \in Writers, put'[v] # NoPut
      PROVE  /\ put'[v].body.good /\ put'[v].body.size = Size
             /\ ~put'[v].trunc
             /\ put'[v].pc \in {"stat", "open"} => put'[v].at = 0
             /\ put'[v].pc = "write" => put'[v].at <= Len(output'[put'[v].output])
  <2>1. \A f \in Seq(Chunks) : Len(f) \in Nat
    BY LenProperties
  <2>2. CASE v # w
    <3>1. put'[v] = put[v] /\ put[v] # NoPut /\ put[v] \in Puts
      BY <1>1, <2>2, PutStepMoves DEF Types
    <3>2. /\ put[v].body.good /\ put[v].body.size = Size /\ ~put[v].trunc
          /\ put[v].pc \in {"stat", "open"} => put[v].at = 0
      BY <3>1 DEF GoodInv
    <3>3. ASSUME put[v].pc = "write" PROVE put[v].at <= Len(output'[put[v].output])
      <4> DEFINE o == put[v].output
      <4>1. o \in OpenedFiles \cap Outputs /\ output[o] \in Seq(Chunks)
        BY <3>1, <3>3, WriteIsOpen DEF At
      <4>2. output'[o] \in Seq(Chunks)
        BY <4>1, OutputFilesMove
      <4>3. Len(output'[o]) >= Len(output[o])
        BY <4>1, GoodFilesMove
      <4>4. put[v].at \in Nat /\ put[v].at <= Len(output[o])
        BY <3>1, <3>3 DEF GoodInv, Puts, PutRecords
      <4> QED
        BY <2>1, <4>1, <4>2, <4>3, <4>4
    <3> QED
      BY <3>1, <3>2, <3>3
  <2>3. CASE v = w
    <3> DEFINE o == put[w].output
    <3>1. /\ put[w] \in PutRecords /\ o \in Outputs /\ put[w] # NoPut
          /\ put'[w].body = put[w].body /\ put'[w].output = o
      BY <1>1, <2>3, PutStepMoves DEF Moves, Puts, PutRecords
    <3>2. /\ put[w].body.good /\ put[w].body.size = Size /\ ~put[w].trunc
          /\ put[w].pc \in {"stat", "open"} => put[w].at = 0
      BY <3>1 DEF GoodInv
    <3>3. ~IsLonger(w)
      <4>1. output[o] # NoFile => output[o] \in Seq(Chunks) /\ Len(output[o]) <= Size
        BY <3>1 DEF GoodInv, GoodFile, Types
      <4> QED
        BY <2>1, <3>2, <4>1, WindowsAssumption DEF IsLonger
    <3>4. ~put'[w].trunc
      BY <1>1, <2>3, <3>2, <3>3, PutStepMoves
    <3>5. put'[w].pc # "stat" /\ (put'[w].pc = "open" => put'[w].at = 0)
      BY <1>1, <2>3, <3>2, PutStepMoves DEF PutStat, At
    <3>6. ASSUME put'[w].pc = "write" PROVE put'[w].at <= Len(output'[o])
      <4>1. CASE PutOpen(w) /\ put'[w].at = put[w].at
        BY <2>1, <3>2, <4>1, GoodFilesMove DEF PutOpen, At
      <4>2. CASE PutWrite(w) /\ put'[w].at = put[w].at + 1
        BY <3>1, <4>2, GoodFilesMove
      <4> QED
        BY <1>1, <2>3, <3>6, <4>1, <4>2, PutStepMoves
    <3> QED
      BY <2>3, <3>1, <3>2, <3>4, <3>5, <3>6
  <2> QED
    BY <2>2, <2>3
<1> QED
  BY <1>1, GoodFilesMove DEF GoodInv

LEMMA NextGood == TypeInv /\ GoodInv /\ [Next]_vars => GoodInv'
<1> SUFFICES ASSUME TypeInv, GoodInv, [Next]_vars PROVE GoodInv'
  OBVIOUS
<1>1. ASSUME NEW w \in Writers, HandlePut(w), UNCHANGED faults PROVE GoodInv'
  <2> SUFFICES ASSUME "wrong" \notin faults PROVE GoodInv'
    BY <1>1 DEF GoodInv
  <2>1. PICK offer \in Offers, body \in Bodies : PutStart(w, offer[1], offer[2], body)
    BY <1>1 DEF HandlePut
  <2>2. body.good /\ body.size = Size
    BY DEF Bodies, Body
  <2>3. /\ put'[w].pc = "stat" /\ put'[w].at = 0 /\ put'[w].trunc = FALSE
        /\ put'[w].body = body /\ \A v \in Writers \ {w} : put'[v] = put[v]
    BY <2>1, PutStarts DEF TypeInv
  <2>4. output' = output
    BY <2>1 DEF PutStart, files
  <2> QED
    BY <2>2, <2>3, <2>4 DEF GoodInv
<1>2. CASE UNCHANGED <<diskVars, faults>>
  BY <1>2 DEF diskVars, GoodInv
<1> QED
  BY <1>1, <1>2, PutKeepsGood
     DEF Next, vars, diskVars, HandleGetAction, StatOutput, HandleGetOutput, SendChunk, GetDone

LEMMA AlwaysGood == Spec => []GoodInv
<1>1. Init => GoodInv
  BY DEF Init, DiskInit, GoodInv
<1> QED
  BY <1>1, NextGood, AlwaysTypes, PTL DEF Spec

(* Where no client sends a body that is not its output, a file is always   *)
(* the beginning of its body: writers in place do not spoil each other's   *)
(* work, whoever dies, fails, or removes the file between two writes.      *)
THEOREM BytesAreAlwaysGood == Spec => []OnlyGoodBytes
<1>1. TypeInv /\ GoodInv => OnlyGoodBytes
  BY DEF GoodInv, GoodFile, OnlyGoodBytes
<1> QED
  BY <1>1, AlwaysGood, AlwaysTypes, PTL

-----------------------------------------------------------------------------
(* Whole outputs. *)

(* Where writers only die: nothing is removed, an output is whole from the *)
(* moment its put leaves it, and so is one that a record names, in part or *)
(* in full; a client reads of the file it found whole.                     *)
WholePut(w) == /\ put[w].pc \notin {"remove", "removeAction"}
               /\ put[w].pc \in {"openAction", "record", "truncate"}
                     => output[put[w].output] = Whole
WholeRead(r) == /\ output[get[r].output] = Whole
                /\ get[r].pc \in {"read", "sent"} =>
                      /\ get[r].length = Size
                      /\ \A i \in 1..Len(get[r].body) : get[r].body[i] = Good
                /\ get[r].pc = "sent" => Len(get[r].body) = Size
WholeInv ==
    faults \subseteq {"exit"} =>
        /\ \A w \in Writers : put[w] # NoPut => WholePut(w)
        /\ \A a \in Actions : action[a] # NoFile /\ action[a].names # NoFile
                                 => output[action[a].names] = Whole
        /\ \A r \in Readers : get[r] # NoGet => WholeRead(r)

LEMMA PutKeepsWhole ==
    ASSUME TypeInv, GoodInv, WholeInv, NEW w \in Writers, PutStep(w, OpenedFiles),
           UNCHANGED <<get, faults>>
    PROVE  WholeInv'
<1> SUFFICES ASSUME faults \subseteq {"exit"} PROVE WholeInv'
  BY DEF WholeInv
<1> USE DEF TypeInv
<1>1. "wrong" \notin faults /\ "error" \notin faults
  OBVIOUS
<1>2. ~RemoveOutput(w, OpenedFiles)
  BY DEF RemoveOutput, At, WholeInv, WholePut
<1>3. \A o \in Outputs : output[o] = Whole => output'[o] = Whole
  BY <1>1, <1>2, GoodFilesMove
<1>4. ASSUME NEW v \in Writers, put'[v] # NoPut
      PROVE  /\ put'[v].pc \notin {"remove", "removeAction"}
             /\ put'[v].pc \in {"openAction", "record", "truncate"}
                   => output'[put'[v].output] = Whole
  <2>1. CASE v # w
    <3>1. put'[v] = put[v] /\ put[v] # NoPut /\ put[v].output \in Outputs
      BY <1>4, <2>1, PutStepMoves DEF Types, Puts, PutRecords
    <3> QED
      BY <1>3, <3>1 DEF WholeInv, WholePut
  <2>2. CASE v = w
    <3> DEFINE o == put[w].output
    <3>1. /\ put[w] \in PutRecords /\ o \in Outputs /\ put[w] # NoPut
          /\ put'[w].output = o /\ put[w].body.good /\ put[w].body.size = Size
      BY <1>1, <1>4, <2>2, PutStepMoves DEF Moves, Puts, PutRecords, GoodInv
    <3>2. ~PutWriteFails(w) /\ ~ActionFails(w)
      BY <1>1 DEF PutWriteFails, ActionFails
    <3>3. PutStat(w) /\ IsThereWhole(w) => output[o] = Whole
      BY DEF IsThereWhole
    <3>4. ASSUME PutWritten(w) PROVE output[o] = Whole
      <4>1. At(w, "write") /\ put[w].at = Size
        BY <3>1, <3>4 DEF PutWritten
      <4>2. output[o] \in Seq(Chunks) /\ output[o] # NoFile
        BY <4>1, WriteIsOpen, NoFileAssumption DEF Chunks
      <4>3. Size <= Len(output[o]) /\ GoodFile(output[o])
        BY <1>1, <3>1, <4>1, <4>2 DEF GoodInv, At
      <4>4. Len(output[o]) = Size
        BY <4>2, <4>3, LenProperties, WindowsAssumption DEF GoodFile
      <4> QED
        BY <4>2, <4>3, <4>4, GoodWhole
    <3>5. ActionOpen(w) \/ ActionWrite(w) => output[o] = Whole
      BY <3>1 DEF ActionOpen, ActionWrite, At, WholeInv, WholePut
    <3> QED
      BY <1>3, <1>4, <2>2, <3>1, <3>2, <3>3, <3>4, <3>5, PutStepMoves
  <2> QED
    BY <2>1, <2>2
<1>5. ASSUME NEW a \in Actions, action'[a] # NoFile, action'[a].names # NoFile
      PROVE  output'[action'[a].names] = Whole
  <2>1. CASE action[a] # NoFile /\ action[a].names = action'[a].names
    <3>1. action[a].names \in Outputs /\ output[action[a].names] = Whole
      BY <1>5, <2>1 DEF Types, Records, WholeInv
    <3> QED
      BY <1>3, <2>1, <3>1
  <2>2. CASE ActionWrite(w) /\ action'[a].names = put[w].output
    <3>1. put[w].output \in Outputs /\ output[put[w].output] = Whole
      BY <2>2, PutStepMoves DEF ActionWrite, At, WholeInv, WholePut, Puts, PutRecords
    <3> QED
      BY <1>3, <2>2, <3>1
  <2> QED
    BY <1>5, <2>1, <2>2, NamesMove
<1>6. ASSUME NEW r \in Readers, get[r] # NoGet
      PROVE  output'[get[r].output] = Whole
  <2>1. get[r].output \in Outputs
    BY <1>6 DEF Types, Gets
  <2> QED
    BY <1>3, <1>6, <2>1 DEF WholeInv, WholeRead
<1> QED
  BY <1>4, <1>5, <1>6 DEF WholeInv, WholePut, WholeRead

LEMMA GetKeepsWhole ==
    ASSUME TypeInv, WholeInv, NEW r \in Readers, GetStep(r), UNCHANGED faults
    PROVE  WholeInv'
<1> SUFFICES ASSUME faults \subseteq {"exit"} PROVE WholeInv'
  BY DEF WholeInv
<1>1. UNCHANGED diskVars
  BY DEF GetStep, HandleGetAction, StatOutput, HandleGetOutput, SendChunk, GetDone
<1>2. ASSUME get'[r] # NoGet PROVE WholeRead(r)'
  <2>1. Size \in Nat /\ \A f \in Seq(Chunks) : Len(f) \in Nat
    BY WindowsAssumption, LenProperties
  <2>2. CASE /\ get'[r].pc = "stat" /\ get'[r].action \in Actions
             /\ Parses(get'[r].action) /\ get'[r].output = Named(get'[r].action)
    BY <1>1, <2>2 DEF WholeInv, WholeRead, Parses, Named, diskVars
  <2>3. CASE /\ get[r] # NoGet /\ get'[r].output = get[r].output /\ get'[r].pc = "output"
    BY <1>1, <2>3 DEF WholeInv, WholeRead, diskVars
  <2>8. get[r] # NoGet => Len(output[get[r].output]) # 0
    BY WholeFile, WindowsAssumption DEF WholeInv, WholeRead
  <2>4. CASE /\ get[r] # NoGet /\ get'[r].output = get[r].output /\ get'[r].pc = "read"
             /\ get'[r].length = Len(output[get[r].output]) /\ get'[r].body = <<>>
    BY <1>1, <2>1, <2>4, WholeFile DEF WholeInv, WholeRead, diskVars
  <2> DEFINE chunk == output[get[r].output][Sent(r) + 1]
  <2>5. ASSUME Reads(r, "read")
        PROVE  /\ output[get[r].output] = Whole /\ get[r].length = Size
               /\ get[r].body \in Seq(Chunks) /\ Sent(r) = Len(get[r].body)
               /\ \A i \in 1..Len(get[r].body) : get[r].body[i] = Good
               /\ Sent(r) \in Nat /\ Sent(r) <= Size
               /\ MorePromised(r) <=> Sent(r) < Size
    <3>1. /\ get[r].body \in Seq(Chunks) /\ Len(get[r].body) <= get[r].length
          /\ output[get[r].output] = Whole /\ get[r].length = Size
          /\ \A i \in 1..Len(get[r].body) : get[r].body[i] = Good
      BY <2>5 DEF TypeInv, Types, Gets, Reads, WholeInv, WholeRead
    <3> QED
      BY <2>1, <3>1, WholeFile DEF Sent, MorePromised
  <2>6. CASE /\ Reads(r, "read") /\ MorePromised(r) /\ get'[r].output = get[r].output
             /\ get'[r].pc = "read" /\ get'[r].length = get[r].length
             /\ get'[r].body = Append(get[r].body, chunk)
    <3>1. Sent(r) + 1 \in 1..Size
      BY <2>1, <2>5, <2>6
    <3>2. chunk = Good /\ Good \in Chunks
      BY <2>5, <2>6, <3>1, WholeFile DEF Chunks
    <3> HIDE DEF chunk
    <3>3. /\ Len(get'[r].body) = Sent(r) + 1
          /\ \A i \in 1..Sent(r) : get'[r].body[i] = get[r].body[i]
          /\ get'[r].body[Sent(r) + 1] = Good
      BY <2>5, <2>6, <3>2, AppendProperties
    <3>4. \A i \in 1..Len(get'[r].body) : get'[r].body[i] = Good
      BY <2>5, <2>6, <3>3
    <3> QED
      BY <1>1, <2>5, <2>6, <3>4 DEF WholeRead, diskVars
  <2>7. CASE /\ Reads(r, "read") /\ ~MorePromised(r) /\ get'[r].output = get[r].output
             /\ get'[r].pc = "sent" /\ get'[r].length = get[r].length
             /\ get'[r].body = get[r].body
    <3>1. Len(get[r].body) = Size
      BY <2>1, <2>5, <2>7
    <3> QED
      BY <1>1, <2>5, <2>7, <3>1 DEF WholeRead, diskVars
  <2> QED
    BY <1>2, <2>2, <2>3, <2>4, <2>6, <2>7, <2>8, GetStepMoves
<1>3. ASSUME NEW q \in Readers \ {r}, get'[q] # NoGet PROVE WholeRead(q)'
  <2>1. get'[q] = get[q]
    BY GetStepMoves
  <2> QED
    BY <1>1, <1>3, <2>1 DEF WholeInv, WholeRead, diskVars
<1>4. \A w \in Writers : put'[w] # NoPut => WholePut(w)'
  BY <1>1 DEF WholeInv, WholePut, diskVars
<1> QED
  BY <1>1, <1>2, <1>3, <1>4 DEF WholeInv, diskVars

LEMMA NextWhole == TypeInv /\ GoodInv /\ WholeInv /\ [Next]_vars => WholeInv'
<1> SUFFICES ASSUME TypeInv, GoodInv, WholeInv, [Next]_vars PROVE WholeInv'
  OBVIOUS
<1>1. ASSUME NEW w \in Writers, HandlePut(w), UNCHANGED faults PROVE WholeInv'
  <2> SUFFICES ASSUME faults \subseteq {"exit"} PROVE WholeInv'
    BY <1>1 DEF WholeInv
  <2>1. PICK offer \in Offers, body \in Bodies : PutStart(w, offer[1], offer[2], body)
    BY <1>1 DEF HandlePut
  <2>2. put'[w].pc = "stat" /\ \A v \in Writers \ {w} : put'[v] = put[v]
    BY <2>1, PutStarts DEF TypeInv
  <2>3. UNCHANGED <<output, action, get>>
    BY <1>1, <2>1 DEF HandlePut, PutStart, files
  <2>4. \A v \in Writers : put'[v] # NoPut => WholePut(v)'
    BY <2>2, <2>3 DEF WholeInv, WholePut
  <2> QED
    BY <2>3, <2>4 DEF WholeInv, WholeRead
<1>2. CASE UNCHANGED vars
  BY <1>2 DEF vars, WholeInv, WholePut, WholeRead
<1> QED
  BY <1>1, <1>2, PutKeepsWhole, GetKeepsWhole DEF Next, GetStep

LEMMA AlwaysWhole == Spec => []WholeInv
<1>1. Init => WholeInv
  BY DEF Init, DiskInit, WholeInv
<1> QED
  BY <1>1, NextWhole, AlwaysGood, AlwaysTypes, PTL DEF Spec

(* Where nothing but deaths goes wrong, an output that an entry names is   *)
(* whole, and stays so through every later put of it: none shortens or     *)
(* rewrites it, not even for a moment.                                     *)
THEOREM NamedOutputsAreWhole == Spec => []NamedOutputsWhole
<1>1. WholeInv => NamedOutputsWhole
  BY DEF WholeInv, NamedOutputsWhole, Parses, Named
<1> QED
  BY <1>1, AlwaysWhole, PTL

(* Nor does a client that has the whole of an answer have less or other    *)
(* than the output, though others write the file while it is sent.         *)
THEOREM BodiesAreWhole == Spec => []BodiesWhole
<1>1. TypeInv /\ WholeInv => BodiesWhole
  <2> SUFFICES ASSUME TypeInv, WholeInv, faults \subseteq {"exit"},
                      NEW r \in Readers, Reads(r, "sent")
               PROVE  get[r].body = Whole
    BY DEF BodiesWhole
  <2>1. get[r].body \in Seq(Chunks)
    BY DEF TypeInv, Types, Gets, Reads
  <2>2. Len(get[r].body) = Size /\ GoodFile(get[r].body)
    BY WindowsAssumption DEF WholeInv, WholeRead, Reads, GoodFile
  <2> QED
    BY <2>1, <2>2, GoodWhole
<1> QED
  BY <1>1, AlwaysWhole, AlwaysTypes, PTL

-----------------------------------------------------------------------------
(* Second writes. *)

(* Only after an error is an action file removed.                          *)
RemovesAfterErrors == \A w \in Writers : At(w, "removeAction") => "error" \in faults

LEMMA NextRemoves == TypeInv /\ RemovesAfterErrors /\ [Next]_vars => RemovesAfterErrors'
<1> SUFFICES ASSUME TypeInv, RemovesAfterErrors, [Next]_vars PROVE RemovesAfterErrors'
  OBVIOUS
<1>1. ASSUME NEW w \in Writers, HandlePut(w), UNCHANGED faults PROVE RemovesAfterErrors'
  <2>1. PICK offer \in Offers, body \in Bodies : PutStart(w, offer[1], offer[2], body)
    BY <1>1 DEF HandlePut
  <2>2. put'[w].pc = "stat" /\ \A v \in Writers \ {w} : put'[v] = put[v]
    BY <2>1, PutStarts DEF TypeInv
  <2> QED
    BY <1>1, <2>2 DEF RemovesAfterErrors, At
<1>2. ASSUME NEW w \in Writers, PutStep(w, OpenedFiles), UNCHANGED faults
      PROVE  RemovesAfterErrors'
  <2>1. ASSUME NEW v \in Writers, At(v, "removeAction")' PROVE "error" \in faults
    <3>1. put'[v] # NoPut /\ put'[v].pc = "removeAction"
      BY <2>1 DEF At
    <3>2. CASE v = w
      <4>1. ActionFails(w)
        BY <1>2, <3>1, <3>2, PutStepMoves DEF TypeInv
      <4> QED
        BY <4>1 DEF ActionFails
    <3>3. CASE v # w
      BY <1>2, <3>1, <3>3, PutStepMoves DEF TypeInv, RemovesAfterErrors, At
    <3> QED
      BY <3>2, <3>3
  <2> QED
    BY <1>2, <2>1 DEF RemovesAfterErrors
<1>3. CASE UNCHANGED <<put, faults>>
  BY <1>3 DEF RemovesAfterErrors, At
<1> QED
  BY <1>1, <1>2, <1>3
     DEF Next, vars, diskVars, HandleGetAction, StatOutput, HandleGetOutput, SendChunk, GetDone

(* The record that is written over itself is the same at every moment, and *)
(* so is what is left of it when it is cut where it ends.                  *)
LEMMA SecondWriteKeepsRecord ==
    ASSUME TypeInv, RemovesAfterErrors, NEW w \in Writers, PutStep(w, OpenedFiles),
           NEW a \in Actions, "error" \notin faults, Parses(a),
           put[w].action = a => put[w].output = Named(a)
    PROVE  action'[a] = action[a]
<1>1. /\ action \in [Actions -> Records \cup {NoFile}] /\ action[a] \in Records
      /\ put[w].action \in Actions
  BY PutStepMoves DEF TypeInv, Types, Parses, Puts, PutRecords
<1> DEFINE n == RecordLen[Named(a)]
<1>2. n \in Nat /\ action[a].have = n /\ action[a].len = n
  BY <1>1, WindowsAssumption DEF Parses, Named, Records
<1>3. action[a] = [names |-> Named(a), have |-> n, len |-> n]
  BY <1>1, <1>2 DEF Records, Named
<1> HIDE DEF n
<1>4. CASE ActionOpen(w)
  BY <1>1, <1>4 DEF ActionOpen, OpenedInPlace, Parses
<1>5. CASE ActionWrite(w) /\ put[w].action = a
  <2>1. RecordLen[put[w].output] = n /\ put[w].output = Named(a)
    BY <1>5 DEF n
  <2>2. action' = [action EXCEPT ![a] = [names |-> Named(a), have |-> n,
                       len |-> IF action[a].len > n THEN action[a].len ELSE n]]
    BY <1>5, <2>1 DEF ActionWrite
  <2>3. (IF action[a].len > n THEN action[a].len ELSE n) = n
    BY <1>2
  <2> QED
    BY <1>1, <1>3, <2>2, <2>3
<1>6. CASE ActionTruncate(w) /\ put[w].action = a
  <2> DEFINE cut == [action[a] EXCEPT !.len = n]
             rec == [cut EXCEPT !.have = IF action[a].have > n THEN n ELSE action[a].have]
  <2>1. RecordLen[put[w].output] = n
    BY <1>6 DEF n
  <2>2. action' = [action EXCEPT ![a] = rec]
    BY <1>6, <2>1 DEF ActionTruncate
  <2>3. cut = action[a]
    BY <1>1, <1>2, <1>3
  <2>4. rec = action[a]
    BY <1>1, <1>2, <1>3, <2>3
  <2> HIDE DEF rec
  <2> QED
    BY <1>1, <2>2, <2>4
<1>7. CASE (ActionWrite(w) \/ ActionTruncate(w)) /\ put[w].action # a
  BY <1>1, <1>7 DEF ActionWrite, ActionTruncate
<1>8. ~RemoveAction(w)
  BY DEF RemoveAction, RemovesAfterErrors
<1>9. CASE PutStat(w) \/ PutOpen(w) \/ PutWrite(w) \/ PutWritten(w) \/ PutWriteFails(w)
           \/ ActionFails(w) \/ RemoveOutput(w, OpenedFiles) \/ Exit(w)
  BY <1>9 DEF PutStat, PutOpen, PutWrite, PutWritten, PutWriteFails, ActionFails,
              RemoveOutput, Exit, files
<1> QED
  BY <1>4, <1>5, <1>6, <1>7, <1>8, <1>9 DEF PutStep

(* "A second write of the same content to the same file is idempotent, and *)
(* does not - even temporarily! - undo the effect of the first write": an  *)
(* entry that can be read can be read after every step of any number of    *)
(* puts of its output, opening, writing and truncating included, and after *)
(* the death of any of them.                                               *)
THEOREM SecondWritesAreIdempotent == Spec => SecondWritesKeepEntries
<1> DEFINE Kept(a) == /\ "error" \notin faults /\ Parses(a)
                      /\ \A w \in Writers : put[w] # NoPut /\ put[w].action = a
                                                => put[w].output = Named(a)
                      => Parses(a)'
<1>1. Init => RemovesAfterErrors
  BY DEF Init, DiskInit, RemovesAfterErrors, At
<1>2. ASSUME TypeInv, RemovesAfterErrors, [Next]_vars PROVE [\A a \in Actions : Kept(a)]_vars
  <2> SUFFICES ASSUME NEW a \in Actions, "error" \notin faults, Parses(a),
                      \A w \in Writers : put[w] # NoPut /\ put[w].action = a
                                             => put[w].output = Named(a)
               PROVE  action'[a] = action[a]
    BY DEF Parses
  <2>1. ASSUME NEW w \in Writers, PutStep(w, OpenedFiles) PROVE action'[a] = action[a]
    <3>1. put[w] # NoPut
      BY <1>2, <2>1, PutStepMoves DEF TypeInv
    <3> QED
      BY <1>2, <2>1, <3>1, SecondWriteKeepsRecord
  <2>2. CASE action' = action
    BY <2>2
  <2> QED
    BY <1>2, <2>1, <2>2
       DEF Next, vars, diskVars, files, HandlePut, PutStart, HandleGetAction, StatOutput,
           HandleGetOutput, SendChunk, GetDone
<1> QED
  BY <1>1, <1>2, NextRemoves, AlwaysTypes, PTL DEF Spec, SecondWritesKeepEntries

-----------------------------------------------------------------------------
(* The records that can be read are a read-through cache. *)

recorded   == [a \in Actions |-> Recorded(a)]
readers    == [r \in Readers |-> ReaderOf(r)]
ServedStep == [ServedCache!ReadThroughNext]_<<recorded, readers>>

SeenAs(g) ==
    IF g = NoGet THEN ServedCache!Idle
    ELSE IF g.pc # "sent" THEN ServedCache!Open(g.action, g.output)
    ELSE IF Len(g.body) = g.length THEN ServedCache!Hit(g.action, g.output)
    ELSE ServedCache!Failed(g.action)

LEMMA ReaderSeenAs ==
    ASSUME NEW r PROVE ReaderOf(r) = SeenAs(get[r]) /\ ReaderOf(r)' = SeenAs(get'[r])
BY DEF ReaderOf, SeenAs, Sent, ServedCache!Idle, ServedCache!Open, ServedCache!Hit,
       ServedCache!Failed

LEMMA StatusSeen ==
    \A a, e : /\ ServedCache!Idle.status # "open"
              /\ ServedCache!Open(a, e).status = "open"
              /\ ServedCache!Open(a, e).action = a /\ ServedCache!Open(a, e).entry = e
BY DEF ServedCache!Idle, ServedCache!Open

LEMMA OtherRecordsStay ==
    ASSUME NEW w \in Writers, PutStep(w, OpenedFiles), NEW a \in Actions, a # put[w].action
    PROVE  action'[a] = action[a]
<1>1. CASE ActionOpen(w)
  BY <1>1 DEF ActionOpen, OpenedInPlace
<1>2. CASE ActionWrite(w)
  BY <1>2 DEF ActionWrite
<1>3. CASE ActionTruncate(w)
  BY <1>3 DEF ActionTruncate
<1>4. CASE RemoveAction(w)
  BY <1>4 DEF RemoveAction
<1>5. CASE action' = action
  BY <1>5
<1> QED
  BY <1>1, <1>2, <1>3, <1>4, <1>5
     DEF PutStep, PutStat, PutOpen, PutWrite, PutWritten, PutWriteFails, ActionFails,
         RemoveOutput, Exit, files

(* A step of a put overwrites one entry with what was stored for it, or    *)
(* makes it unreadable.                                                    *)
LEMMA PutIsSeen ==
    ASSUME TypeInv, (TypeInv /\ StoredInv)', NEW w \in Writers, PutStep(w, OpenedFiles),
           UNCHANGED get
    PROVE  ServedStep
<1>1. PICK b \in Actions : b = put[w].action
  BY PutStepMoves DEF TypeInv, Types, Puts, PutRecords
<1>2. readers' = readers
  BY ReaderSeenAs DEF readers
<1>3. \A a \in Actions \ {b} : Recorded(a)' = Recorded(a)
  BY <1>1, OtherRecordsStay DEF Recorded, Parses, Named
<1>4. CASE Parses(b)'
  <2>1. PICK e : e = Named(b)'
    OBVIOUS
  <2>2. <<b, e>> \in Offers /\ e \in Outputs
    <3>1. <<b, e>> \in stored'
      BY <1>4, <2>1 DEF StoredInv, Parses, Named
    <3>2. stored' \subseteq Offers
      BY DEF TypeInv, Types
    <3> QED
      BY <3>1, <3>2, WindowsAssumption
  <2>3. recorded' = [recorded EXCEPT ![b] = e]
    BY <1>3, <1>4, <2>1 DEF recorded, Recorded
  <2>4. ServedCache!Overwrite(b, e)
    BY <1>2, <2>2, <2>3 DEF ServedCache!Overwrite, ServedCache!Stores, recorded, readers
  <2> QED
    BY <2>2, <2>4 DEF ServedStep, ServedCache!ReadThroughNext
<1>5. CASE ~Parses(b)'
  <2>1. recorded' = [a \in Actions |-> IF a \in {b} THEN NoFile ELSE recorded[a]]
    BY <1>3, <1>5 DEF recorded, Recorded
  <2>2. ServedCache!Evict({b})
    BY <1>2, <2>1 DEF ServedCache!Evict, recorded, readers
  <2>3. {b} \in SUBSET Actions
    OBVIOUS
  <2> QED
    BY <2>2, <2>3 DEF ServedStep, ServedCache!ReadThroughNext, ServedCache!Next
<1> QED
  BY <1>4, <1>5

LEMMA GetIsSeen ==
    ASSUME TypeInv, NEW r \in Readers, GetStep(r) PROVE ServedStep
<1>1. UNCHANGED diskVars
  BY DEF GetStep, HandleGetAction, StatOutput, HandleGetOutput, SendChunk, GetDone
<1>2. recorded' = recorded
  BY <1>1 DEF recorded, Recorded, Parses, Named, diskVars
<1>3. /\ readers' = [readers EXCEPT ![r] = SeenAs(get'[r])]
      /\ readers[r] = SeenAs(get[r]) /\ DOMAIN readers = Readers
  <2>1. \A q \in Readers \ {r} : get'[q] = get[q]
    BY GetStepMoves
  <2> QED
    BY <2>1, ReaderSeenAs DEF readers
<1>4. CASE SeenAs(get'[r]) = SeenAs(get[r])
  <2>1. readers' = readers
    BY <1>3, <1>4 DEF readers
  <2> QED
    BY <1>2, <2>1 DEF ServedStep
<1>5. CASE get'[r] = NoGet
  <2>1. ServedCache!Leave(r)
    BY <1>2, <1>3, <1>5 DEF ServedCache!Leave, SeenAs, recorded, readers
  <2> QED
    BY <2>1 DEF ServedStep, ServedCache!ReadThroughNext
<1>6. CASE /\ get'[r] # NoGet /\ get'[r].pc = "stat" /\ get[r] = NoGet
           /\ get'[r].action \in Actions /\ Parses(get'[r].action)
           /\ get'[r].output = Named(get'[r].action)
  <2>1. PICK a \in Actions : a = get'[r].action
    BY <1>6
  <2>2. recorded[a] = Named(a) /\ Named(a) \in Outputs
    BY <1>6, <2>1 DEF recorded, Recorded, TypeInv, Types, Parses, Named, Records
  <2>3. recorded[a] # NoFile /\ SeenAs(get'[r]) = ServedCache!Open(a, recorded[a])
    BY <1>6, <2>1, <2>2, NoFileAssumption DEF SeenAs
  <2>4. readers[r].status # "open"
    BY <1>3, <1>6, StatusSeen DEF SeenAs
  <2>5. ServedCache!Lookup(r, a)
    BY <1>2, <1>3, <2>3, <2>4 DEF ServedCache!Lookup, recorded, readers
  <2> QED
    BY <2>5 DEF ServedStep, ServedCache!ReadThroughNext, ServedCache!Next
<1>7. CASE /\ get[r] # NoGet /\ get'[r] # NoGet /\ get'[r].pc # "sent" /\ get[r].pc # "sent"
           /\ get'[r].action = get[r].action /\ get'[r].output = get[r].output
  BY <1>4, <1>7 DEF SeenAs
<1>8. CASE /\ get[r] # NoGet /\ get'[r] # NoGet /\ get'[r].pc = "sent"
           /\ get[r].pc \in {"stat", "read"}
           /\ get'[r].action = get[r].action /\ get'[r].output = get[r].output
  <2> DEFINE a == get[r].action
             e == get[r].output
  <2>1. readers[r] = ServedCache!Open(a, e)
    BY <1>3, <1>8 DEF SeenAs
  <2>2. SeenAs(get'[r]) \in {ServedCache!Hit(a, e), ServedCache!Failed(a)}
    BY <1>8 DEF SeenAs
  <2>3. readers[r].status = "open" /\ readers[r].action = a /\ readers[r].entry = e
    BY <2>1, StatusSeen
  <2>4. ServedCache!Answer(r)
    BY <1>2, <1>3, <2>2, <2>3 DEF ServedCache!Answer, recorded, readers
  <2> QED
    BY <2>4 DEF ServedStep, ServedCache!ReadThroughNext, ServedCache!Next
<1> QED
  BY <1>5, <1>6, <1>7, <1>8, GetStepMoves DEF Reads

LEMMA NextIsSeen == TypeInv /\ StoredInv /\ [Next]_vars => ServedStep
<1> SUFFICES ASSUME TypeInv, StoredInv, [Next]_vars PROVE ServedStep
  OBVIOUS
<1>1. (TypeInv /\ StoredInv)'
  BY NextTypes, NextStored
<1>2. CASE UNCHANGED <<action, get>>
  <2>1. recorded' = recorded /\ readers' = readers
    BY <1>2, ReaderSeenAs DEF recorded, Recorded, Parses, Named, readers
  <2> QED
    BY <2>1 DEF ServedStep
<1>3. ASSUME NEW w \in Writers, HandlePut(w) PROVE UNCHANGED <<action, get>>
  BY <1>3 DEF HandlePut, PutStart, files
<1> QED
  BY <1>1, <1>2, <1>3, PutIsSeen, GetIsSeen DEF Next, vars, GetStep

(* go-cacher-server implements ReadThroughCache: whatever becomes of the   *)
(* files and the processes, a client is only told of outputs that were put *)
(* for the action it asked for, and that the record said when it was read; *)
(* and no step shows it half of one record and half of another.            *)
THEOREM ServesAReadThroughCache == Spec => ServesReadThroughCache
<1>1. Init => ServedCache!Init
  <2> SUFFICES ASSUME Init PROVE ServedCache!Init
    OBVIOUS
  <2>1. \A a \in Actions : Recorded(a) = NoFile
    BY DEF Init, DiskInit, Recorded, Parses
  <2>2. \A r \in Readers : ReaderOf(r) = ServedCache!Idle
    BY ReaderSeenAs DEF Init, SeenAs
  <2> QED
    BY <2>1, <2>2 DEF ServedCache!Init
<1>2. Init => StoredInv
  BY DEF Init, DiskInit, StoredInv
<1>3. TypeInv /\ StoredInv /\ [Next]_vars
          => [ServedCache!ReadThroughNext]_<<[a \in Actions |-> Recorded(a)],
                                             [r \in Readers |-> ReaderOf(r)]>>
  BY NextIsSeen DEF ServedStep, recorded, readers
<1> QED
  BY <1>1, <1>2, <1>3, NextStored, AlwaysTypes, PTL
     DEF Spec, ServesReadThroughCache, ServedCache!ReadThroughSpec, ServedCache!vars
=============================================================================
