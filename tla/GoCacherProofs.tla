---------------------------- MODULE GoCacherProofs ----------------------------
(***************************************************************************)
(* Theorems about go-cacher: what its directory and its answers keep to,   *)
(* and that they are a read-through cache, for any actions, outputs,       *)
(* offers, number of requests at a time and choice of faults.              *)
(***************************************************************************)
EXTENDS GoCacher, TLAPS

(* The requests by how far they are. *)
Asked    == [pc : {"lookup", "fetch"}, cmd : {"get"}, action : ActionIDs,
             output : {NoOutput}]
Told     == [pc : {"fetchOutput"}, cmd : {"get"}, action : ActionIDs, output : OutputIDs]
Found    == [pc : {"stat"}, cmd : {"get"}, action : ActionIDs, output : OutputIDs]
Saving   == [pc : {"save"}, cmd : {"get", "put"}, action : ActionIDs, output : OutputIDs,
             file : {"output", "action", "ok", "failed"},
             http : {"none", "send", "ok", "failed"}]
SavedAll == [pc : {"stat"}, cmd : {"get", "put"}, action : ActionIDs, output : OutputIDs,
             file : {"ok"}, http : {"none", "send", "ok", "failed"}]
Done     == [pc : {"answered"}, cmd : {"get"}, action : ActionIDs,
             status : {"hit"}, output : OutputIDs]
            \cup [pc : {"answered"}, cmd : {"get"}, action : ActionIDs,
                  status : {"miss", "error"}, output : {NoOutput}]
            \cup [pc : {"answered"}, cmd : {"put"}, action : ActionIDs,
                  status : {"ok"}, output : OutputIDs]
            \cup [pc : {"answered"}, cmd : {"put"}, action : ActionIDs,
                  status : {"error"}, output : {NoOutput}]

Requests == {Idle} \cup Asked \cup Told \cup Found \cup Saving \cup SavedAll \cup Done

StateOK == /\ DiskTypeOK
           /\ flags \in Flags
           /\ req \in [IDs -> Requests]

(* What a request is about to store was offered; once its output is        *)
(* written, or was named by an entry, the output has been there; a put     *)
(* that has written its action file has an entry.                          *)
FromOffers(r)  == r \in Told \cup Saving => <<r.action, r.output>> \in Offers
HasOutput(r)   == \/ r \in Found \cup SavedAll
                  \/ r \in Saving /\ r.file \in {"action", "ok"}
                  \/ r \in Done /\ r.status = "ok"
                  => outputs[r.output] # "absent"
HasEntry(r)    == \/ r \in SavedAll
                  \/ r \in Saving /\ r.file = "ok"
                  \/ r \in Done /\ r.status = "ok"
                  => entries[r.action] # NoOutput
Sound(r)       == FromOffers(r) /\ HasOutput(r) /\ HasEntry(r)

Inv == StateOK /\ EntriesHaveOutputs /\ \A i \in IDs : Sound(req[i])

(* The directory never goes back to how it was before a file was there.    *)
DiskGrows ==
    /\ DiskTypeOK'
    /\ \A o \in OutputIDs : outputs[o] # "absent" => outputs'[o] # "absent"
    /\ \A a \in ActionIDs : entries[a] # NoOutput => entries'[a] # NoOutput

-----------------------------------------------------------------------------
LEMMA RequestKinds ==
    ASSUME NEW r \in Requests
    PROVE  /\ r.pc = "idle" <=> r = Idle
           /\ r.pc = "fetchOutput" <=> r \in Told
           /\ r.pc = "save" <=> r \in Saving
           /\ r.pc \in {"lookup", "fetch"} <=> r \in Asked
           /\ r.pc = "stat" <=> r \in Found \cup SavedAll
           /\ r.pc = "answered" <=> r \in Done
           /\ r \in SavedAll => r \notin Found
BY DEF Requests, Idle, Asked, Told, Found, Saving, SavedAll, Done

LEMMA SoundStays ==
    ASSUME DiskGrows, NEW s \in Requests, Sound(s) PROVE Sound(s)'
<1>1. FromOffers(s)'
  BY DEF Sound, FromOffers
<1>2. HasOutput(s)'
  BY DEF Sound, HasOutput, DiskGrows, Found, SavedAll, Saving, Done
<1>3. HasEntry(s)'
  BY DEF Sound, HasEntry, DiskGrows, SavedAll, Saving, Done
<1> QED
  BY <1>1, <1>2, <1>3 DEF Sound

(* A request of the new kind only has to be looked at by itself.           *)
LEMMA OneRequestMoves ==
    ASSUME Inv, DiskGrows, EntriesHaveOutputs', flags' = flags,
           NEW i \in IDs, NEW r \in Requests, req' = [req EXCEPT ![i] = r], Sound(r)'
    PROVE  Inv'
<1>1. req' \in [IDs -> Requests] /\ req'[i] = r /\ \A j \in IDs \ {i} : req'[j] = req[j]
  BY DEF Inv, StateOK
<1>2. ASSUME NEW j \in IDs \ {i} PROVE Sound(req[j])'
  <2>1. req[j] \in Requests /\ Sound(req[j]) /\ req'[j] = req[j]
    BY <1>1 DEF Inv, StateOK
  <2>2. \A s \in Requests : Sound(s) => Sound(s)'
    BY SoundStays
  <2> QED
    BY <2>1, <2>2
<1>3. StateOK'
  BY <1>1 DEF Inv, StateOK, DiskGrows
<1> QED
  BY <1>1, <1>2, <1>3 DEF Inv

LEMMA DiskStays ==
    Inv /\ UNCHANGED disk => DiskGrows /\ EntriesHaveOutputs'
BY DEF Inv, StateOK, DiskTypeOK, DiskGrows, EntriesHaveOutputs, disk

LEMMA OutputWritten ==
    ASSUME Inv, NEW o \in OutputIDs, NEW state \in {"stored", "broken", "removed"},
           outputs' = [outputs EXCEPT ![o] = state], UNCHANGED entries
    PROVE  DiskGrows /\ EntriesHaveOutputs' /\ outputs'[o] # "absent"
BY OffersAssumption DEF Inv, StateOK, DiskTypeOK, DiskGrows, EntriesHaveOutputs

LEMMA EntryWritten ==
    ASSUME Inv, NEW a \in ActionIDs, NEW o \in OutputIDs, outputs[o] # "absent",
           WriteActionFile(a, o)
    PROVE  DiskGrows /\ EntriesHaveOutputs' /\ entries'[a] # NoOutput
BY OffersAssumption
   DEF Inv, StateOK, DiskTypeOK, DiskGrows, EntriesHaveOutputs, WriteActionFile

-----------------------------------------------------------------------------
(* The directory and the gets are a read-through cache. *)

readers   == [i \in IDs |-> ReaderOf(req[i])]
LocalStep == [LocalCache!ReadThroughNext]_<<entries, readers>>

(* What the abstract cache sees of a request.                              *)
Unseen(r) == \/ r \in {Idle} \cup Asked \cup Told
             \/ r \in Saving /\ (r.cmd = "put" \/ r.file # "ok")
             \/ r \in SavedAll \cup Done /\ r.cmd = "put"
Opened(r) == \/ r \in Found
             \/ r \in Saving /\ r.cmd = "get" /\ r.file = "ok"
             \/ r \in SavedAll /\ r.cmd = "get"

LEMMA ReadersOf ==
    ASSUME NEW r \in Requests
    PROVE  /\ Unseen(r) => ReaderOf(r) = LocalCache!Idle
           /\ Opened(r) => ReaderOf(r) = LocalCache!Open(r.action, r.output)
           /\ r \in Done /\ r.status = "hit"
                  => ReaderOf(r) = LocalCache!Hit(r.action, r.output)
           /\ r \in Done /\ r.cmd = "get" /\ r.status = "miss"
                  => ReaderOf(r) = LocalCache!Miss(r.action)
           /\ r \in Done /\ r.cmd = "get" /\ r.status = "error"
                  => ReaderOf(r) = LocalCache!Failed(r.action)
<1>1. Unseen(r) => ReaderOf(r) = LocalCache!Idle
  BY DEF Unseen, ReaderOf, Opens, LocalCache!Idle,
     Idle, Asked, Told, Saving, SavedAll, Done
<1>2. Opened(r) => ReaderOf(r) = LocalCache!Open(r.action, r.output)
  BY DEF Opened, ReaderOf, Opens, LocalCache!Open, Found, Saving, SavedAll
<1>3. ASSUME r \in Done, r.cmd = "get"
      PROVE  /\ r.status = "hit" => ReaderOf(r) = LocalCache!Hit(r.action, r.output)
             /\ r.status = "miss" => ReaderOf(r) = LocalCache!Miss(r.action)
             /\ r.status = "error" => ReaderOf(r) = LocalCache!Failed(r.action)
  <2>1. r.pc = "answered"
    BY <1>3 DEF Done
  <2> QED
    BY <1>3, <2>1 DEF ReaderOf, Opens, LocalCache!Hit, LocalCache!Miss, LocalCache!Failed
<1>4. r \in Done /\ r.status = "hit" => r.cmd = "get"
  BY DEF Done
<1> QED
  BY <1>1, <1>2, <1>3, <1>4

LEMMA StatusOfReader ==
    \A a, e : /\ LocalCache!Idle.status # "open"
              /\ LocalCache!Miss(a).status # "open" /\ LocalCache!Failed(a).status # "open"
              /\ LocalCache!Hit(a, e).status # "open"
              /\ LocalCache!Open(a, e).status = "open"
              /\ LocalCache!Open(a, e).action = a /\ LocalCache!Open(a, e).entry = e
BY DEF LocalCache!Idle, LocalCache!Miss, LocalCache!Failed, LocalCache!Hit, LocalCache!Open

LEMMA OneReaderMoves ==
    ASSUME Inv, NEW i \in IDs, NEW r, req' = [req EXCEPT ![i] = r]
    PROVE  readers' = [readers EXCEPT ![i] = ReaderOf(r)] /\ readers[i] = ReaderOf(req[i])
<1>1. req' \in [IDs -> Requests \cup {r}] /\ req'[i] = r /\ \A j \in IDs \ {i} : req'[j] = req[j]
  BY DEF Inv, StateOK
<1>2. \A j \in IDs : ReaderOf(req'[j]) = IF j = i THEN ReaderOf(r) ELSE ReaderOf(req[j])
  BY <1>1
<1>3. readers' = [j \in IDs |-> ReaderOf(req'[j])]
  BY DEF readers
<1> QED
  BY <1>2, <1>3 DEF readers

(* The steps of a request that leave the action files.                     *)
LEMMA ReaderSteps ==
    ASSUME Inv, NEW i \in IDs, NEW r, req' = [req EXCEPT ![i] = r], entries' = entries,
           \/ ReaderOf(r) = ReaderOf(req[i])
           \/ ReaderOf(r) = LocalCache!Idle
           \/ /\ ReaderOf(req[i]).status # "open"
              /\ \E a \in ActionIDs :
                    \/ ReaderOf(r) \in {LocalCache!Miss(a), LocalCache!Failed(a)}
                    \/ /\ entries[a] # NoOutput
                       /\ ReaderOf(r) = LocalCache!Open(a, entries[a])
           \/ \E a \in ActionIDs, e \in OutputIDs :
                 /\ ReaderOf(req[i]) = LocalCache!Open(a, e)
                 /\ ReaderOf(r) \in {LocalCache!Hit(a, e), LocalCache!Miss(a), LocalCache!Failed(a)}
    PROVE  LocalStep
<1>1. readers' = [readers EXCEPT ![i] = ReaderOf(r)] /\ readers[i] = ReaderOf(req[i])
  BY OneReaderMoves
<1>2. CASE ReaderOf(r) = ReaderOf(req[i])
  <2>1. DOMAIN readers = IDs
    BY DEF readers
  <2>2. readers' = readers
    BY <1>1, <1>2, <2>1 DEF readers
  <2> QED
    BY <2>2 DEF LocalStep
<1>3. CASE ReaderOf(r) = LocalCache!Idle
  <2>1. LocalCache!Leave(i)
    BY <1>1, <1>3 DEF LocalCache!Leave, readers
  <2> QED
    BY <2>1 DEF LocalStep, LocalCache!ReadThroughNext
<1>4. ASSUME ReaderOf(req[i]).status # "open", NEW a \in ActionIDs,
             \/ ReaderOf(r) \in {LocalCache!Miss(a), LocalCache!Failed(a)}
             \/ entries[a] # NoOutput /\ ReaderOf(r) = LocalCache!Open(a, entries[a])
      PROVE  LocalStep
  <2>1. LocalCache!Lookup(i, a)
    BY <1>1, <1>4 DEF LocalCache!Lookup, readers
  <2> QED
    BY <2>1 DEF LocalStep, LocalCache!ReadThroughNext, LocalCache!Next
<1>5. ASSUME NEW a \in ActionIDs, NEW e \in OutputIDs,
             ReaderOf(req[i]) = LocalCache!Open(a, e),
             ReaderOf(r) \in {LocalCache!Hit(a, e), LocalCache!Miss(a), LocalCache!Failed(a)}
      PROVE  LocalStep
  <2>1. readers[i].status = "open" /\ readers[i].action = a /\ readers[i].entry = e
    BY <1>1, <1>5, StatusOfReader
  <2>2. LocalCache!Answer(i)
    BY <1>1, <1>5, <2>1 DEF LocalCache!Answer, readers
  <2> QED
    BY <2>2 DEF LocalStep, LocalCache!ReadThroughNext, LocalCache!Next
<1> QED
  BY <1>2, <1>3, <1>4, <1>5

(* Each step of a request keeps the invariant and is one of the abstract   *)
(* cache, or none.                                                         *)
Advances == Inv' /\ LocalStep

LEMMA RequestAdvances ==
    ASSUME Inv, DiskGrows, EntriesHaveOutputs', flags' = flags, entries' = entries,
           NEW i \in IDs, NEW r \in Requests, req' = [req EXCEPT ![i] = r], Sound(r)',
           Unseen(r) \/ ReaderOf(r) = ReaderOf(req[i])
    PROVE  Advances
<1>1. Inv'
  BY OneRequestMoves
<1>2. ReaderOf(r) = LocalCache!Idle \/ ReaderOf(r) = ReaderOf(req[i])
  BY ReadersOf
<1>3. LocalStep
  BY <1>2, ReaderSteps
<1> QED
  BY <1>1, <1>3 DEF Advances

-----------------------------------------------------------------------------
(* Every step of a request. *)

LEMMA ReceiveSteps ==
    ASSUME Inv, NEW i \in IDs
    PROVE  /\ \A a \in ActionIDs : ReceiveGet(i, a) => Advances
           /\ \A ao \in Offers : ReceivePut(i, ao[1], ao[2]) => Advances
           /\ Exit(i) => Advances
<1>1. ASSUME NEW a \in ActionIDs, ReceiveGet(i, a) PROVE Advances
  <2>1. PICK r \in Asked : req' = [req EXCEPT ![i] = r]
    BY <1>1 DEF ReceiveGet, Becomes, Asked
  <2>2. r \in Requests /\ Unseen(r) /\ Sound(r)'
    BY DEF Requests, Unseen, Asked, Sound, FromOffers, HasOutput, HasEntry,
           Told, Found, Saving, SavedAll, Done
  <2> QED
    BY <1>1, <2>1, <2>2, DiskStays, RequestAdvances DEF ReceiveGet, disk
<1>2. ASSUME NEW ao \in Offers, ReceivePut(i, ao[1], ao[2]) PROVE Advances
  <2>1. ao[1] \in ActionIDs /\ ao[2] \in OutputIDs /\ <<ao[1], ao[2]>> \in Offers
    BY OffersAssumption
  <2>2. PICK r : /\ req' = [req EXCEPT ![i] = r]
                 /\ r = [pc |-> "save", cmd |-> "put", action |-> ao[1], output |-> ao[2],
                         file |-> "output",
                         http |-> IF flags.server THEN "send" ELSE "none"]
    BY <1>2 DEF ReceivePut, Becomes
  <2>3. r \in Saving
    BY <2>1, <2>2 DEF Saving
  <2>4. r \in Requests /\ Unseen(r) /\ Sound(r)'
    BY <2>1, <2>2, <2>3 DEF Requests, Unseen, Sound, FromOffers, HasOutput, HasEntry,
           Told, Found, Saving, SavedAll, Done
  <2> QED
    BY <1>2, <2>2, <2>4, DiskStays, RequestAdvances DEF ReceivePut, disk
<1>3. ASSUME Exit(i) PROVE Advances
  <2>1. Idle \in Requests /\ Unseen(Idle) /\ Sound(Idle)'
    BY DEF Requests, Unseen, Idle, Sound, FromOffers, HasOutput, HasEntry,
           Told, Found, Saving, SavedAll, Done
  <2> QED
    BY <1>3, <2>1, DiskStays, RequestAdvances DEF Exit, Becomes, disk
<1> QED
  BY <1>1, <1>2, <1>3

(* What an answer leaves of a request. *)
MayAnswer(r, status) ==
    /\ r.pc \in {"lookup", "fetch", "fetchOutput", "save", "stat"}
    /\ \/ r.cmd = "get" /\ status \in {"miss", "error"} /\ (r.pc = "save" => r.file # "ok")
       \/ r.cmd = "get" /\ status = "hit" /\ r.pc = "stat"
       \/ r.cmd = "put" /\ status = "error"
       \/ r.cmd = "put" /\ status = "ok" /\ r.pc = "stat"

LEMMA AnsweredRequest ==
    ASSUME Inv, NEW i \in IDs, NEW status, Answers(i, status), MayAnswer(req[i], status)
    PROVE  \E r \in Done : /\ req' = [req EXCEPT ![i] = r]
                           /\ r.cmd = req[i].cmd /\ r.action = req[i].action
                           /\ r.status = status
                           /\ status \in {"hit", "ok"} => r.output = req[i].output
<1>1. req[i] \in Requests /\ req[i] \notin Done /\ req[i] # Idle
  BY RequestKinds DEF Inv, StateOK, MayAnswer
<1>2. req[i].action \in ActionIDs
  BY <1>1 DEF Requests, Asked, Told, Found, Saving, SavedAll
<1>3. req[i].pc = "stat" => req[i].output \in OutputIDs
  BY <1>1, RequestKinds DEF Found, SavedAll
<1>4. PICK r : /\ req' = [req EXCEPT ![i] = r]
               /\ r = [pc |-> "answered", cmd |-> req[i].cmd, action |-> req[i].action,
                       status |-> status, output |-> IF status \in {"hit", "ok"}
                                                     THEN req[i].output ELSE NoOutput]
  BY DEF Answers, Becomes
<1>5. r \in Done
  <2>1. CASE req[i].cmd = "get" /\ status \in {"miss", "error"}
    BY <1>2, <1>4, <2>1 DEF Done
  <2>2. CASE req[i].cmd = "get" /\ status = "hit" /\ req[i].pc = "stat"
    BY <1>2, <1>3, <1>4, <2>2 DEF Done
  <2>3. CASE req[i].cmd = "put" /\ status = "error"
    BY <1>2, <1>4, <2>3 DEF Done
  <2>4. CASE req[i].cmd = "put" /\ status = "ok" /\ req[i].pc = "stat"
    BY <1>2, <1>3, <1>4, <2>4 DEF Done
  <2> QED
    BY <2>1, <2>2, <2>3, <2>4 DEF MayAnswer
<1> QED
  BY <1>4, <1>5

LEMMA AnswerAdvances ==
    ASSUME Inv, UNCHANGED <<disk, flags>>, NEW i \in IDs, NEW status,
           Answers(i, status), MayAnswer(req[i], status)
    PROVE  Advances
<1>1. PICK r \in Done : /\ req' = [req EXCEPT ![i] = r]
                        /\ r.cmd = req[i].cmd /\ r.action = req[i].action
                        /\ r.status = status
                        /\ status \in {"hit", "ok"} => r.output = req[i].output
  BY AnsweredRequest
<1>2. /\ req[i] \in Requests /\ Sound(req[i]) /\ req[i] \notin Done /\ req[i] # Idle
      /\ req[i].pc = "stat" => req[i] \in Found \cup SavedAll
      /\ req[i].pc = "save" => req[i] \in Saving
      /\ req[i].pc # "stat" => req[i] \notin Found \cup SavedAll
      /\ req[i].pc # "save" => req[i] \notin Saving
  BY RequestKinds DEF Inv, StateOK, MayAnswer
<1>3. Inv'
  <2>1. status = "ok" => req[i] \in SavedAll
    BY <1>2 DEF MayAnswer, Found
  <2>2. r.status = "ok" => outputs[r.output] # "absent" /\ entries[r.action] # NoOutput
    BY <1>1, <1>2, <2>1 DEF Sound, HasOutput, HasEntry
  <2>3. r \in Requests /\ Sound(r)'
    BY <2>2 DEF Requests, Sound, FromOffers, HasOutput, HasEntry, disk,
       Told, Found, Saving, SavedAll, Done
  <2> QED
    BY <1>1, <2>3, DiskStays, OneRequestMoves
<1>4. LocalStep
  <2> entries' = entries /\ r \in Requests
    BY DEF disk, Requests
  <2>1. CASE req[i].cmd = "put"
    <3>1. ReaderOf(r) = LocalCache!Idle
      BY <1>1, <2>1, ReadersOf DEF Unseen
    <3> QED
      BY <1>1, <3>1, ReaderSteps
  <2>2. CASE req[i].cmd = "get" /\ req[i].pc # "stat"
    <3>1. Unseen(req[i])
      BY <1>2, <2>2 DEF Unseen, Requests, MayAnswer
    <3>2. ReaderOf(req[i]).status # "open"
      BY <1>2, <3>1, ReadersOf, StatusOfReader
    <3>3. r.action \in ActionIDs /\ r.cmd = "get" /\ r.status \in {"miss", "error"}
      BY <1>1, <2>2 DEF Done, MayAnswer
    <3>4. ReaderOf(r) \in {LocalCache!Miss(r.action), LocalCache!Failed(r.action)}
      BY <3>3, ReadersOf
    <3> QED
      BY <1>1, <3>2, <3>3, <3>4, ReaderSteps
  <2>3. CASE req[i].cmd = "get" /\ req[i].pc = "stat"
    <3>1. Opened(req[i])
      BY <1>2, <2>3 DEF Opened
    <3>2. /\ req[i].action \in ActionIDs /\ req[i].output \in OutputIDs
          /\ ReaderOf(req[i]) = LocalCache!Open(req[i].action, req[i].output)
      BY <1>2, <2>3, <3>1, ReadersOf DEF Found, SavedAll
    <3>3. r.status \in {"hit", "miss", "error"} /\ r.cmd = "get"
      BY <1>1, <2>3 DEF MayAnswer
    <3>4. ReaderOf(r) \in {LocalCache!Hit(req[i].action, req[i].output),
                          LocalCache!Miss(req[i].action), LocalCache!Failed(req[i].action)}
      BY <1>1, <3>3, ReadersOf
    <3> QED
      BY <1>1, <3>2, <3>4, ReaderSteps
  <2> QED
    BY <2>1, <2>2, <2>3 DEF MayAnswer
<1> QED
  BY <1>3, <1>4 DEF Advances

(* A request that has saved both files, of a get or a put. *)
LEMMA GoesToStat ==
    ASSUME Inv, UNCHANGED <<disk, flags>>, NEW i \in IDs, req[i] \in Saving,
           req[i].file = "ok", Goes(i, "stat")
    PROVE  Advances
<1>1. PICK r : req' = [req EXCEPT ![i] = r] /\ r = [req[i] EXCEPT !.pc = "stat"]
  BY DEF Goes
<1>2. /\ r \in SavedAll /\ r.action = req[i].action /\ r.output = req[i].output
      /\ r.cmd = req[i].cmd
  BY <1>1 DEF Saving, SavedAll
<1>3. outputs[r.output] # "absent" /\ entries[r.action] # NoOutput
  BY <1>2 DEF Inv, Sound, HasOutput, HasEntry
<1>4. r \in Requests /\ req[i] \in Requests /\ Sound(r)'
  BY <1>2, <1>3 DEF Requests, Sound, FromOffers, HasOutput, HasEntry, disk,
     Told, Found, Saving, SavedAll, Done
<1>5. CASE req[i].cmd = "put"
  <2>1. Unseen(r)
    BY <1>2, <1>5 DEF Unseen
  <2> QED
    BY <1>1, <1>4, <2>1, DiskStays, RequestAdvances DEF disk
<1>6. CASE req[i].cmd = "get"
  <2>1. Opened(r) /\ Opened(req[i])
    BY <1>2, <1>6 DEF Opened
  <2>2. ReaderOf(r) = ReaderOf(req[i])
    BY <1>2, <1>4, <2>1, ReadersOf
  <2> QED
    BY <1>1, <1>4, <2>2, DiskStays, RequestAdvances DEF disk
<1> QED
  BY <1>5, <1>6 DEF Saving

LEMMA GetSteps == ASSUME Inv, NEW i \in IDs, GetStep(i) PROVE Advances
<1>1. req[i] \in Requests /\ Sound(req[i])
  BY DEF Inv, StateOK
<1>2. CASE GetLookup(i)
  <2>1. req[i] \in Asked /\ req[i].pc = "lookup" /\ req[i].cmd = "get"
    BY <1>1, <1>2, RequestKinds DEF GetLookup, Asked
  <2>2. UNCHANGED <<disk, flags>> /\ entries' = entries
    BY <1>2 DEF GetLookup, disk
  <2> DEFINE o == entries[req[i].action]
  <2>3. CASE o # NoOutput /\ Becomes(i, [req[i] EXCEPT !.pc = "stat", !.output = o])
    <3>1. o \in OutputIDs /\ outputs[o] # "absent" /\ req[i].action \in ActionIDs
      BY <2>1, <2>3 DEF Inv, StateOK, DiskTypeOK, EntriesHaveOutputs, Asked
    <3>2. PICK r : /\ req' = [req EXCEPT ![i] = r]
                   /\ r = [req[i] EXCEPT !.pc = "stat", !.output = o]
      BY <2>3 DEF Becomes
    <3>3. r \in Found /\ r.output = o /\ r.action = req[i].action
      BY <2>1, <3>1, <3>2 DEF Asked, Found
    <3>4. r \in Requests /\ Sound(r)'
      BY <2>2, <3>1, <3>3 DEF Requests, Sound, FromOffers, HasOutput, HasEntry, disk,
         Told, Found, Saving, SavedAll, Done
    <3>5. Inv'
      BY <2>2, <3>2, <3>4, DiskStays, OneRequestMoves
    <3>6. ReaderOf(r) = LocalCache!Open(req[i].action, entries[req[i].action])
      BY <3>3, <3>4, ReadersOf DEF Opened
    <3>7. ReaderOf(req[i]).status # "open"
      BY <1>1, <2>1, ReadersOf, StatusOfReader DEF Unseen
    <3>8. LocalStep
      BY <2>2, <2>3, <3>1, <3>2, <3>6, <3>7, ReaderSteps
    <3> QED
      BY <3>5, <3>8 DEF Advances
  <2>4. CASE Goes(i, "fetch")
    <3>1. PICK r \in Asked : req' = [req EXCEPT ![i] = r]
      BY <2>1, <2>4 DEF Asked, Goes
    <3>2. r \in Requests /\ Unseen(r) /\ Sound(r)'
      BY DEF Requests, Unseen, Asked, Sound, FromOffers, HasOutput, HasEntry,
         Told, Found, Saving, SavedAll, Done
    <3> QED
      BY <2>2, <3>1, <3>2, DiskStays, RequestAdvances
  <2>5. ASSUME NEW status \in {"miss", "error"}, Answers(i, status) PROVE Advances
    BY <2>1, <2>2, <2>5, AnswerAdvances DEF MayAnswer
  <2> QED
    BY <1>2, <2>3, <2>4, <2>5 DEF GetLookup
<1>3. ASSUME NEW o \in OutputIDs, req[i].pc \in {"fetch", "fetchOutput"},
             <<req[i].action, o>> \in Offers, UNCHANGED <<disk, flags>>, Downloads(i, o)
      PROVE  Advances
  <2>1. req[i].action \in ActionIDs
    BY <1>1, <1>3, RequestKinds DEF Asked, Told
  <2>2. PICK r : /\ req' = [req EXCEPT ![i] = r]
                 /\ r = [pc |-> "save", cmd |-> "get", action |-> req[i].action,
                         output |-> o, file |-> "output", http |-> "none"]
    BY <1>3 DEF Downloads, Becomes
  <2>3. r \in Saving
    BY <2>1, <2>2 DEF Saving
  <2>4. r \in Requests /\ Unseen(r) /\ Sound(r)'
    BY <1>3, <2>2, <2>3 DEF Requests, Unseen, Sound, FromOffers, HasOutput, HasEntry,
       Told, Found, Saving, SavedAll, Done
  <2> QED
    BY <1>3, <2>2, <2>4, DiskStays, RequestAdvances DEF disk
<1>4. ASSUME req[i].pc \in {"fetch", "fetchOutput"}, UNCHANGED <<disk, flags>>,
             Answers(i, "miss") \/ RequestFails(i) \/ BadResponse(i)
      PROVE  Advances
  <2>1. req[i].cmd = "get"
    BY <1>1, <1>4, RequestKinds DEF Asked, Told
  <2>2. Answers(i, "miss") \/ Answers(i, "error")
    BY <1>4 DEF RequestFails, BadResponse
  <2> QED
    BY <1>4, <2>1, <2>2, AnswerAdvances DEF MayAnswer
<1>5. CASE GetFetch(i)
  <2>1. ASSUME NEW o \in Offered(req[i].action),
               Becomes(i, [req[i] EXCEPT !.pc = "fetchOutput", !.output = o])
        PROVE  Advances
    <3>1. o \in OutputIDs /\ <<req[i].action, o>> \in Offers
      BY DEF Offered
    <3>2. req[i] \in Asked
      BY <1>1, <1>5, RequestKinds DEF GetFetch
    <3>3. PICK r : /\ req' = [req EXCEPT ![i] = r]
                   /\ r = [req[i] EXCEPT !.pc = "fetchOutput", !.output = o]
      BY <2>1 DEF Becomes
    <3>4. r \in Told /\ r.action = req[i].action /\ r.output = o
      BY <3>1, <3>2, <3>3 DEF Asked, Told
    <3>5. r \in Requests /\ Unseen(r) /\ Sound(r)'
      BY <3>1, <3>4 DEF Requests, Unseen, Sound, FromOffers, HasOutput, HasEntry,
         Told, Found, Saving, SavedAll, Done
    <3> QED
      BY <1>5, <3>3, <3>5, DiskStays, RequestAdvances DEF GetFetch, disk
  <2> QED
    BY <1>3, <1>4, <1>5, <2>1 DEF GetFetch, Offered
<1>6. CASE GetFetchOutput(i)
  <2>1. req[i].output \in OutputIDs /\ <<req[i].action, req[i].output>> \in Offers
    BY <1>1, <1>6, RequestKinds DEF GetFetchOutput, Told, Sound, FromOffers
  <2> QED
    BY <1>3, <1>4, <1>6, <2>1 DEF GetFetchOutput
<1>7. CASE GetSaved(i)
  <2>1. req[i] \in Saving
    BY <1>1, <1>7, RequestKinds DEF GetSaved
  <2>2. CASE SaveSucceeded(i) /\ Goes(i, "stat")
    BY <1>7, <2>1, <2>2, GoesToStat DEF GetSaved, SaveSucceeded
  <2>3. CASE ~SaveSucceeded(i) /\ Answers(i, "error")
    BY <1>7, <2>3, AnswerAdvances DEF GetSaved, SaveSucceeded, MayAnswer
  <2> QED
    BY <1>7, <2>2, <2>3 DEF GetSaved
<1>8. CASE GetStat(i)
  BY <1>8, AnswerAdvances DEF GetStat, MayAnswer
<1> QED
  BY <1>2, <1>5, <1>6, <1>7, <1>8 DEF GetStep

LEMMA PutSteps == ASSUME Inv, NEW i \in IDs, PutStep(i) PROVE Advances
<1>1. req[i] \in Requests /\ Sound(req[i])
  BY DEF Inv, StateOK
<1>2. CASE PutSend(i)
  <2>1. req[i] \in Saving
    BY <1>1, <1>2, RequestKinds DEF PutSend
  <2>2. PICK http \in {"ok", "failed"} : req' = [req EXCEPT ![i].http = http]
    BY <1>2 DEF PutSend
  <2>3. PICK r : req' = [req EXCEPT ![i] = r] /\ r = [req[i] EXCEPT !.http = http]
    BY <2>2
  <2>4. /\ r \in Saving /\ r.file = req[i].file /\ r.cmd = req[i].cmd
        /\ r.action = req[i].action /\ r.output = req[i].output
    BY <2>1, <2>3 DEF Saving
  <2>5. r \in Requests /\ Sound(r)'
    BY <1>1, <1>2, <2>1, <2>4 DEF PutSend, disk, Requests, Sound, FromOffers, HasOutput,
       HasEntry, Told, Found, Saving, SavedAll, Done
  <2>6. Unseen(r) \/ ReaderOf(r) = ReaderOf(req[i])
    <3>1. CASE r.cmd = "put" \/ r.file # "ok"
      BY <2>4, <3>1 DEF Unseen
    <3>2. CASE r.cmd = "get" /\ r.file = "ok"
      BY <1>1, <2>1, <2>4, <2>5, <3>2, ReadersOf DEF Opened
    <3> QED
      BY <2>4, <3>1, <3>2 DEF Saving
  <2> QED
    BY <1>2, <2>3, <2>5, <2>6, DiskStays, RequestAdvances DEF PutSend, disk
<1>3. CASE PutJoins(i)
  <2>1. req[i] \in Saving
    BY <1>1, <1>3, RequestKinds DEF PutJoins
  <2>2. CASE req[i].file = "ok" /\ Goes(i, "stat")
    BY <1>3, <2>1, <2>2, GoesToStat DEF PutJoins
  <2>3. CASE Answers(i, "error")
    BY <1>3, <2>3, AnswerAdvances DEF PutJoins, MayAnswer
  <2> QED
    BY <1>3, <2>2, <2>3 DEF PutJoins, BothDone
<1>4. CASE PutStat(i)
  BY <1>4, AnswerAdvances DEF PutStat, MayAnswer
<1> QED
  BY <1>2, <1>3, <1>4 DEF PutStep

(* DiskCache.Put: what each of its two files needs. *)
LEMMA SaveSteps == ASSUME Inv, NEW i \in IDs, SaveStep(i) PROVE Advances
<1>1. req[i] \in Requests /\ Sound(req[i])
  BY DEF Inv, StateOK
<1>2. /\ req[i] \in Saving /\ req[i].action \in ActionIDs /\ req[i].output \in OutputIDs
      /\ flags' = flags
  BY <1>1, RequestKinds
     DEF SaveStep, SaveOutput, SaveAction, SaveFails, SaveWrongLength, AtOutput, AtAction,
         FileStep, Saving
<1>3. ASSUME NEW file \in {"action", "ok", "failed"}, FileStep(i, file),
             DiskGrows, EntriesHaveOutputs',
             file \in {"action", "ok"} => outputs'[req[i].output] # "absent",
             file = "ok" => entries'[req[i].action] # NoOutput
      PROVE  \E r \in Saving : /\ req' = [req EXCEPT ![i] = r] /\ r.file = file
                               /\ r.action = req[i].action /\ r.output = req[i].output
                               /\ r.cmd = req[i].cmd
                               /\ r \in Requests /\ Sound(r)'
  <2>1. PICK r : req' = [req EXCEPT ![i] = r] /\ r = [req[i] EXCEPT !.file = file]
    BY <1>3 DEF FileStep
  <2>2. /\ r \in Saving /\ r.file = file /\ r.cmd = req[i].cmd
        /\ r.action = req[i].action /\ r.output = req[i].output
    BY <1>2, <2>1 DEF Saving
  <2>3. r \in Requests /\ Sound(r)'
    BY <1>1, <1>2, <1>3, <2>2 DEF Requests, Sound, FromOffers, HasOutput,
       HasEntry, Told, Found, Saving, SavedAll, Done
  <2> QED
    BY <2>1, <2>2, <2>3
<1>4. ASSUME NEW file \in {"action", "failed"}, FileStep(i, file), entries' = entries,
             DiskGrows, EntriesHaveOutputs',
             file = "action" => outputs'[req[i].output] # "absent"
      PROVE  Advances
  <2>1. PICK r \in Saving : /\ req' = [req EXCEPT ![i] = r] /\ r.file = file
                            /\ r \in Requests /\ Sound(r)'
    BY <1>3, <1>4
  <2>2. Unseen(r)
    BY <2>1 DEF Unseen
  <2> QED
    BY <1>2, <1>4, <2>1, <2>2, RequestAdvances
<1>5. CASE SaveOutput(i)
  BY <1>2, <1>4, <1>5, OutputWritten DEF SaveOutput, WriteOutputFile
<1>6. CASE SaveAction(i)
  <2>1. /\ outputs[req[i].output] # "absent" /\ <<req[i].action, req[i].output>> \in Offers
        /\ req[i].file = "action"
    BY <1>1, <1>2, <1>6 DEF SaveAction, AtAction, Sound, HasOutput, FromOffers
  <2>2. /\ outputs' = outputs
        /\ entries' = [entries EXCEPT ![req[i].action] = req[i].output]
    BY <1>6 DEF SaveAction, WriteActionFile
  <2>3. DiskGrows /\ EntriesHaveOutputs' /\ entries'[req[i].action] # NoOutput
    BY <1>2, <1>6, <2>1, EntryWritten DEF SaveAction
  <2>4. PICK r \in Saving : /\ req' = [req EXCEPT ![i] = r] /\ r.file = "ok"
                            /\ r.action = req[i].action /\ r.output = req[i].output
                            /\ r.cmd = req[i].cmd
                            /\ r \in Requests /\ Sound(r)'
    BY <1>3, <1>6, <2>1, <2>2, <2>3 DEF SaveAction
  <2>5. Inv'
    BY <1>2, <2>3, <2>4, OneRequestMoves
  <2>6. readers' = [readers EXCEPT ![i] = ReaderOf(r)] /\ readers[i] = ReaderOf(req[i])
    BY <2>4, OneReaderMoves
  <2>7. ReaderOf(req[i]) = LocalCache!Idle
    BY <1>1, <1>2, <2>1, ReadersOf DEF Unseen
  <2>8. LocalCache!Stores(req[i].action, req[i].output)
    BY <2>1, <2>2 DEF LocalCache!Stores
  <2>9. CASE req[i].cmd = "put"
    <3>1. ReaderOf(r) = LocalCache!Idle
      BY <2>4, <2>9, ReadersOf DEF Unseen
    <3>2. readers' = readers
      BY <2>6, <2>7, <3>1 DEF readers
    <3>3. LocalCache!Overwrite(req[i].action, req[i].output)
      BY <2>8, <3>2 DEF LocalCache!Overwrite, readers
    <3> QED
      BY <1>2, <2>5, <3>3 DEF Advances, LocalStep, LocalCache!ReadThroughNext
  <2>10. CASE req[i].cmd = "get"
    <3>1. ReaderOf(r) = LocalCache!Open(req[i].action, req[i].output)
      BY <2>4, <2>10, ReadersOf DEF Opened
    <3>2. readers[i].status # "open"
      BY <2>6, <2>7, StatusOfReader
    <3>3. LocalCache!Fill(i, req[i].action, req[i].output)
      BY <2>6, <2>8, <3>1, <3>2 DEF LocalCache!Fill, readers
    <3> QED
      BY <1>2, <2>5, <3>3 DEF Advances, LocalStep, LocalCache!ReadThroughNext
  <2> QED
    BY <1>2, <2>9, <2>10 DEF Saving
<1>7. CASE SaveFails(i)
  BY <1>4, <1>7, DiskStays DEF SaveFails, disk
<1>8. CASE SaveWrongLength(i)
  BY <1>2, <1>4, <1>8, OutputWritten DEF SaveWrongLength, WriteBroken
<1> QED
  BY <1>5, <1>6, <1>7, <1>8 DEF SaveStep

LEMMA NextAdvances == Inv /\ [Next]_vars => Advances
<1> SUFFICES ASSUME Inv, [Next]_vars PROVE Advances
  OBVIOUS
<1>1. ASSUME UNCHANGED <<flags, req>>, entries' = entries, DiskGrows, EntriesHaveOutputs'
      PROVE  Advances
  <2>1. StateOK'
    BY <1>1 DEF Inv, StateOK, DiskGrows
  <2>2. ASSUME NEW i \in IDs PROVE Sound(req[i])'
    <3>1. req[i] \in Requests /\ Sound(req[i]) /\ req'[i] = req[i]
      BY <1>1 DEF Inv, StateOK
    <3>2. \A s \in Requests : Sound(s) => Sound(s)'
      BY <1>1, SoundStays
    <3> QED
      BY <3>1, <3>2
  <2>3. LocalStep
    BY <1>1 DEF LocalStep, readers
  <2> QED
    BY <1>1, <2>1, <2>2, <2>3 DEF Inv, Advances
<1>2. ASSUME NEW o \in OutputIDs, RemoveByHand(o) PROVE Advances
  BY <1>1, <1>2, OutputWritten DEF RemoveByHand, RemoveOutputFile
<1>3. CASE UNCHANGED vars
  BY <1>1, <1>3, DiskStays DEF vars, disk
<1> QED
  BY <1>2, <1>3, ReceiveSteps, GetSteps, PutSteps, SaveSteps DEF Next

LEMMA InitInv == Init => Inv
<1> SUFFICES ASSUME Init PROVE Inv
  OBVIOUS
<1>1. StateOK
  BY DEF Init, DiskInit, StateOK, DiskTypeOK, Requests
<1>2. EntriesHaveOutputs
  BY DEF Init, DiskInit, EntriesHaveOutputs
<1>3. \A i \in IDs : req[i] = Idle
  BY DEF Init
<1>4. Sound(Idle)
  BY DEF Idle, Sound, FromOffers, HasOutput, HasEntry, Told, Found, Saving, SavedAll, Done
<1> QED
  BY <1>1, <1>2, <1>3, <1>4 DEF Inv

LEMMA AlwaysInv == Spec => []Inv
<1>1. Inv /\ [Next]_vars => Inv'
  BY NextAdvances DEF Advances
<1> QED
  BY <1>1, InitInv, PTL DEF Spec

(* The types, of what the model has and no more.                           *)
THEOREM TypesAreKept == Spec => []TypeOK
<1>1. Inv => TypeOK
  <2> SUFFICES ASSUME Inv, NEW i \in IDs PROVE Shape(req[i])
    BY DEF Inv, StateOK, TypeOK
  <2>1. req[i] \in Requests
    BY DEF Inv, StateOK
  <2>2. CASE req[i] \in {Idle} \cup Done
    BY <2>2, OffersAssumption DEF Shape, Idle, Done
  <2>3. CASE req[i] \in Asked \cup Told \cup Found
    BY <2>3, OffersAssumption DEF Shape, Asked, Told, Found
  <2>4. CASE req[i] \in Saving \cup SavedAll
    BY <2>4, OffersAssumption DEF Shape, Saving, SavedAll
  <2> QED
    BY <2>1, <2>2, <2>3, <2>4 DEF Requests
<1> QED
  BY <1>1, AlwaysInv, PTL

(* The order in which DiskCache.Put writes its files is enough: an action  *)
(* file never names an output that was not there before it.                *)
THEOREM NoDanglingEntries == Spec => []EntriesHaveOutputs
<1>1. Inv => EntriesHaveOutputs
  BY DEF Inv
<1> QED
  BY <1>1, AlwaysInv, PTL

(* A put that is answered without an error has written both its files, and *)
(* the channel of HTTPClient.Put hands the goroutine's error on.           *)
THEOREM AnsweredPutsAreStored == Spec => []PutsAreStored
<1>1. Inv => PutsAreStored
  <2> SUFFICES ASSUME Inv, NEW i \in IDs, req[i].pc = "answered", req[i].status = "ok"
               PROVE  outputs[req[i].output] # "absent" /\ entries[req[i].action] # NoOutput
    BY DEF PutsAreStored
  <2>1. req[i] \in Done /\ Sound(req[i])
    BY RequestKinds DEF Inv, StateOK
  <2> QED
    BY <2>1 DEF Sound, HasOutput, HasEntry
<1> QED
  BY <1>1, AlwaysInv, PTL

(* The directory and the gets are a read-through cache: a hit is an output *)
(* that some builder offered for that action and that this cache held for  *)
(* it when it was looked up or brought in, with any number of requests.    *)
THEOREM IsAReadThroughCache == Spec => ImplementsReadThroughCache
<1>1. Init => LocalCache!Init
  <2> SUFFICES ASSUME Init PROVE LocalCache!Init
    OBVIOUS
  <2>1. \A i \in IDs : ReaderOf(req[i]) = LocalCache!Idle
    BY DEF Init, Idle, ReaderOf, LocalCache!Idle
  <2> QED
    BY <2>1 DEF Init, DiskInit, LocalCache!Init
<1>2. Inv /\ [Next]_vars
          => [LocalCache!ReadThroughNext]_<<entries, [i \in IDs |-> ReaderOf(req[i])]>>
  BY NextAdvances DEF Advances, LocalStep, readers
<1> QED
  BY <1>1, <1>2, AlwaysInv, PTL
     DEF Spec, ImplementsReadThroughCache, LocalCache!ReadThroughSpec, LocalCache!vars

-----------------------------------------------------------------------------
(* Progress. *)

LEMMA DistanceOf ==
    ASSUME NEW r \in Requests
    PROVE  /\ r.pc = "lookup" => Distance(r) = 8
           /\ r.pc = "fetch" => Distance(r) = 7
           /\ r.pc = "fetchOutput" => Distance(r) = 6
           /\ r.pc = "save" =>
                 Distance(r) = FileDistance[r.file] + (IF r.http = "send" THEN 2 ELSE 1)
           /\ r.pc = "stat" => Distance(r) = 1
           /\ r.pc \in {"idle", "answered"} => Distance(r) = 0
<1>1. r.pc \in {"lookup", "fetch", "fetchOutput", "save", "stat", "idle", "answered"}
  BY DEF Requests, Idle, Asked, Told, Found, Saving, SavedAll, Done
<1> QED
  BY <1>1 DEF Distance

LEMMA SavingDistance ==
    ASSUME NEW r \in Saving
    PROVE  /\ r.pc = "save" /\ r.file \in {"output", "action", "ok", "failed"}
           /\ FileDistance[r.file] \in 1..3
           /\ (r.file = "output") => FileDistance[r.file] = 3
           /\ (r.file = "action") => FileDistance[r.file] = 2
           /\ (r.file \in {"ok", "failed"}) => FileDistance[r.file] = 1
<1>1. r.pc = "save" /\ r.file \in {"output", "action", "ok", "failed"}
  BY DEF Saving
<1> QED
  BY <1>1 DEF FileDistance

(* A step of one request, and one that is nearer to its answer after it.   *)
Nears(i) == \E r \in Requests : /\ req' = [req EXCEPT ![i] = r]
                                /\ Distance(r) < Distance(req[i])

LEMMA AnswerNears ==
    ASSUME Inv, Inv', NEW i \in IDs, ~Free(i), NEW r, req' = [req EXCEPT ![i] = r],
           r.pc \in {"idle", "answered", "stat"},
           r.pc = "stat" => req[i].pc # "stat"
    PROVE  Nears(i)
<1>1. req[i] \in Requests /\ r \in Requests
  BY DEF Inv, StateOK
<1>2. req[i].pc \in {"lookup", "fetch", "fetchOutput", "save", "stat"}
  BY <1>1 DEF Free, Requests, Idle, Asked, Told, Found, Saving, SavedAll, Done
<1>3. Distance(r) = IF r.pc = "stat" THEN 1 ELSE 0
  BY <1>1, DistanceOf
<1>4. CASE req[i].pc = "save"
  <2>1. req[i] \in Saving
    BY <1>1, <1>4, RequestKinds
  <2> DEFINE f == FileDistance[req[i].file]
  <2>2. f \in 1..3 /\ Distance(req[i]) = f + (IF req[i].http = "send" THEN 2 ELSE 1)
    BY <1>1, <2>1, DistanceOf, SavingDistance
  <2> DEFINE m == Distance(r)
             n == Distance(req[i])
  <2>3. m < n
    <3>1. m \in {0, 1}
      BY <1>3
    <3>2. n \in 2..5
      <4> HIDE DEF f
      <4> QED
        BY <2>2
    <3> HIDE DEF m, n
    <3> QED
      BY <3>1, <3>2
  <2> QED
    BY <1>1, <2>3 DEF Nears
<1>5. CASE req[i].pc = "stat"
  <2>1. Distance(r) = 0 /\ Distance(req[i]) = 1
    BY <1>1, <1>3, <1>5, DistanceOf
  <2>2. Distance(r) < Distance(req[i])
    BY <2>1
  <2> QED
    BY <1>1, <2>2 DEF Nears
<1>6. CASE req[i].pc \in {"lookup", "fetch", "fetchOutput"}
  <2>1. Distance(req[i]) \in 6..8
    BY <1>1, <1>6, DistanceOf
  <2>2. Distance(r) \in {0, 1}
    BY <1>3
  <2>3. Distance(r) < Distance(req[i])
    BY <2>1, <2>2
  <2> QED
    BY <1>1, <2>3 DEF Nears
<1> QED
  BY <1>2, <1>4, <1>5, <1>6

LEMMA StepNears ==
    ASSUME Inv, Inv', NEW i \in IDs, ~Free(i),
           GetStep(i) \/ SaveStep(i) \/ PutStep(i) \/ Exit(i)
    PROVE  Nears(i)
<1>1. req[i] \in Requests /\ req' \in [IDs -> Requests] /\ i \in DOMAIN req
  BY DEF Inv, StateOK
<1>2. ASSUME NEW status, Answers(i, status) PROVE Nears(i)
  <2> DEFINE r == [pc |-> "answered", cmd |-> req[i].cmd, action |-> req[i].action,
                   status |-> status,
                   output |-> IF status \in {"hit", "ok"} THEN req[i].output ELSE NoOutput]
  <2>1. req' = [req EXCEPT ![i] = r]
    BY <1>2 DEF Answers, Becomes
  <2>2. r.pc = "answered"
    OBVIOUS
  <2> HIDE DEF r
  <2> QED
    BY <2>1, <2>2, AnswerNears
<1>3. ASSUME Goes(i, "stat"), req[i].pc # "stat" PROVE Nears(i)
  <2> DEFINE r == [req[i] EXCEPT !.pc = "stat"]
  <2>1. req' = [req EXCEPT ![i] = r]
    BY <1>3 DEF Goes
  <2>2. r.pc = "stat"
    BY <1>1 DEF Requests, Idle, Asked, Told, Found, Saving, SavedAll, Done
  <2> QED
    BY <1>3, <2>1, <2>2, AnswerNears
<1>4. ASSUME NEW o, req[i].pc \in {"fetch", "fetchOutput"}, Downloads(i, o) PROVE Nears(i)
  <2> DEFINE r == [pc |-> "save", cmd |-> "get", action |-> req[i].action,
                   output |-> o, file |-> "output", http |-> "none"]
  <2>1. req' = [req EXCEPT ![i] = r] /\ r \in Requests
    BY <1>1, <1>4 DEF Downloads, Becomes
  <2>2. Distance(r) = 4
    BY <2>1, DistanceOf DEF FileDistance
  <2>3. Distance(req[i]) \in {6, 7}
    BY <1>1, <1>4, DistanceOf
  <2> HIDE DEF r
  <2>4. Distance(r) < Distance(req[i])
    BY <2>2, <2>3
  <2> QED
    BY <2>1, <2>4 DEF Nears
<1>5. CASE GetLookup(i)
  <2>1. CASE Goes(i, "fetch")
    <3> DEFINE r == [req[i] EXCEPT !.pc = "fetch"]
    <3>1. req' = [req EXCEPT ![i] = r] /\ r \in Requests
      BY <1>1, <2>1 DEF Goes
    <3>2. r.pc = "fetch"
      BY <1>1 DEF Requests, Idle, Asked, Told, Found, Saving, SavedAll, Done
    <3> HIDE DEF r
    <3>3. Distance(req[i]) = 8 /\ Distance(r) = 7
      BY <1>1, <1>5, DistanceOf, <3>1, <3>2 DEF GetLookup
    <3>4. Distance(r) < Distance(req[i])
      BY <3>3
    <3> QED
      BY <3>1, <3>4 DEF Nears
  <2>2. CASE Becomes(i, [req[i] EXCEPT !.pc = "stat", !.output = entries[req[i].action]])
    <3> DEFINE o == entries[req[i].action]
               r == [req[i] EXCEPT !.pc = "stat", !.output = o]
    <3>1. r.pc = "stat"
      BY <1>1 DEF Requests, Idle, Asked, Told, Found, Saving, SavedAll, Done
    <3>2. req' = [req EXCEPT ![i] = r]
      BY <2>2 DEF Becomes
    <3> QED
      BY <1>5, <3>1, <3>2, AnswerNears DEF GetLookup
  <2> QED
    BY <1>2, <1>5, <2>1, <2>2 DEF GetLookup
<1>6. CASE GetFetch(i) \/ GetFetchOutput(i)
  <2>1. req[i].pc \in {"fetch", "fetchOutput"}
    BY <1>6 DEF GetFetch, GetFetchOutput
  <2>2. ASSUME NEW o, req[i].pc = "fetch",
               Becomes(i, [req[i] EXCEPT !.pc = "fetchOutput", !.output = o])
        PROVE  Nears(i)
    <3> DEFINE r == [req[i] EXCEPT !.pc = "fetchOutput", !.output = o]
    <3>1. req' = [req EXCEPT ![i] = r] /\ r \in Requests
      BY <1>1, <2>2 DEF Becomes
    <3>2. r.pc = "fetchOutput"
      BY <1>1 DEF Requests, Idle, Asked, Told, Found, Saving, SavedAll, Done
    <3> HIDE DEF r
    <3>3. Distance(req[i]) = 7 /\ Distance(r) = 6
      BY <1>1, <2>2, DistanceOf, <3>1, <3>2
    <3>4. Distance(r) < Distance(req[i])
      BY <3>3
    <3> QED
      BY <3>1, <3>4 DEF Nears
  <2>3. ASSUME RequestFails(i) \/ BadResponse(i) PROVE Nears(i)
    BY <1>2, <2>3 DEF RequestFails, BadResponse
  <2>4. CASE GetFetch(i)
    <3>1. CASE \E o \in Offered(req[i].action) :
                  \/ Downloads(i, o)
                  \/ Becomes(i, [req[i] EXCEPT !.pc = "fetchOutput", !.output = o])
      <4>1. PICK o : \/ Downloads(i, o)
                     \/ Becomes(i, [req[i] EXCEPT !.pc = "fetchOutput", !.output = o])
        BY <3>1
      <4>2. req[i].pc = "fetch"
        BY <2>4 DEF GetFetch
      <4>3. CASE Downloads(i, o)
        BY <1>4, <2>1, <4>3
      <4>4. CASE Becomes(i, [req[i] EXCEPT !.pc = "fetchOutput", !.output = o])
        BY <2>2, <4>2, <4>4
      <4> QED
        BY <4>1, <4>3, <4>4
    <3>2. CASE Answers(i, "miss")
      BY <1>2, <3>2
    <3> QED
      BY <2>3, <2>4, <3>1, <3>2 DEF GetFetch
  <2>5. CASE GetFetchOutput(i)
    BY <1>2, <1>4, <2>1, <2>3, <2>5 DEF GetFetchOutput
  <2> QED
    BY <1>6, <2>4, <2>5
<1>7. CASE GetSaved(i) \/ GetStat(i) \/ PutJoins(i) \/ PutStat(i)
  BY <1>2, <1>3, <1>7 DEF GetSaved, GetStat, PutJoins, PutStat
<1>8. CASE SaveStep(i)
  <2>1. PICK to \in {"action", "ok", "failed"} :
            /\ req[i].pc = "save" /\ FileStep(i, to)
            /\ \/ req[i].file = "output" /\ to \in {"action", "failed"}
               \/ req[i].file = "action" /\ to \in {"ok", "failed"}
    BY <1>8 DEF SaveStep, SaveOutput, SaveAction, SaveFails, SaveWrongLength,
                AtOutput, AtAction
  <2> DEFINE r == [req[i] EXCEPT !.file = to]
             n == IF req[i].http = "send" THEN 2 ELSE 1
  <2>2. req' = [req EXCEPT ![i] = r] /\ r \in Requests /\ req[i] \in Saving
    BY <1>1, <2>1, RequestKinds DEF FileStep
  <2>3. r.pc = "save" /\ r.file = to /\ r.http = req[i].http
    BY <2>2 DEF Saving
  <2>4. Distance(r) = FileDistance[to] + n /\ Distance(req[i]) = FileDistance[req[i].file] + n
    BY <1>1, <2>1, <2>2, <2>3, DistanceOf
  <2>5. /\ FileDistance[req[i].file] = (IF req[i].file = "output" THEN 3 ELSE 2)
        /\ FileDistance[to] = (IF to = "action" THEN 2 ELSE 1)
    BY <2>1 DEF FileDistance
  <2>6. n \in {1, 2}
    OBVIOUS
  <2>7. Distance(r) < Distance(req[i])
    <3> HIDE DEF n
    <3> QED
      BY <2>1, <2>4, <2>5, <2>6
  <2> QED
    BY <2>2, <2>7 DEF Nears
<1>9. CASE PutSend(i)
  <2>1. PICK to \in {"ok", "failed"} :
            /\ req[i].pc = "save" /\ req[i].http = "send"
            /\ req' = [req EXCEPT ![i].http = to]
    BY <1>9 DEF PutSend
  <2> DEFINE r == [req[i] EXCEPT !.http = to]
  <2>2. req' = [req EXCEPT ![i] = r] /\ r \in Requests /\ req[i] \in Saving
    BY <1>1, <2>1, RequestKinds
  <2>3. r.pc = "save" /\ r.file = req[i].file /\ r.http = to
    BY <2>2 DEF Saving
  <2> DEFINE f == FileDistance[req[i].file]
  <2>4. Distance(r) = f + 1 /\ Distance(req[i]) = f + 2 /\ f \in 1..3
    BY <1>1, <2>1, <2>2, <2>3, DistanceOf, SavingDistance
  <2>5. Distance(r) < Distance(req[i])
    <3> HIDE DEF f
    <3> QED
      BY <2>4
  <2> QED
    BY <2>2, <2>5 DEF Nears
<1>10. CASE Exit(i)
  BY <1>10, AnswerNears DEF Exit, Becomes, Idle
<1> QED
  BY <1>5, <1>6, <1>7, <1>8, <1>9, <1>10 DEF GetStep, PutStep

(* No step of a request, nor of another, takes it further from its answer, *)
(* and each of its own takes it nearer: with RequestsGoOn, every request   *)
(* whose steps are taken is answered.                                      *)
THEOREM RequestsComeNearer == Spec => AnswersComeNearer
<1> DEFINE Nearer == \A i \in IDs : ~Free(i) =>
                        req'[i] = req[i] \/ Distance(req'[i]) < Distance(req[i])
<1>1. Inv /\ Inv' /\ [Next]_vars => [Nearer]_vars
  <2> SUFFICES ASSUME Inv, Inv', Next, NEW j \in IDs, ~Free(j)
               PROVE  req'[j] = req[j] \/ Distance(req'[j]) < Distance(req[j])
    OBVIOUS
  <2>1. DOMAIN req = IDs
    BY DEF Inv, StateOK
  <2>2. ASSUME NEW i \in IDs, \/ \E a \in ActionIDs : ReceiveGet(i, a)
                              \/ \E ao \in Offers : ReceivePut(i, ao[1], ao[2])
        PROVE  req'[j] = req[j]
    BY <2>1, <2>2 DEF ReceiveGet, ReceivePut, Becomes
  <2>3. ASSUME NEW i \in IDs, GetStep(i) \/ SaveStep(i) \/ PutStep(i) \/ Exit(i)
        PROVE  req'[j] = req[j] \/ Distance(req'[j]) < Distance(req[j])
    <3>1. CASE i = j
      BY <2>1, <2>3, <3>1, StepNears DEF Nears
    <3>2. CASE i # j
      BY <2>1, <2>3, <3>2
         DEF GetStep, SaveStep, PutStep, Exit, GetLookup, GetFetch, GetFetchOutput, GetSaved,
             GetStat, SaveOutput, SaveAction, SaveFails, SaveWrongLength, FileStep, PutSend,
             PutJoins, PutStat, RequestFails, BadResponse, Downloads, Answers, Goes, Becomes
    <3> QED
      BY <3>1, <3>2
  <2>4. CASE \E o \in OutputIDs : RemoveByHand(o)
    BY <2>4 DEF RemoveByHand
  <2> QED
    BY <2>2, <2>3, <2>4 DEF Next
<1>2. AnswersComeNearer <=> [][Nearer]_vars
  BY DEF AnswersComeNearer
<1> QED
  BY <1>1, <1>2, AlwaysInv, PTL DEF Spec
=============================================================================
