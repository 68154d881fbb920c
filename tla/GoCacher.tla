------------------------------ MODULE GoCacher ------------------------------
(***************************************************************************)
(* go-cacher, the child process of cmd/go: cacheproc.Process hands each    *)
(* request of cmd/go to a goroutine, which asks an HTTPClient over a       *)
(* DiskCache, or the DiskCache alone, and answers when it is done, in any  *)
(* order.  Several go-cachers may share the directory.                     *)
(*                                                                         *)
(* The server is the one of Gocached or cmd/go-cacher-server, and other    *)
(* builders use it: what it has stored may change between any two          *)
(* requests.  Of its answers the model assumes only that a hit is an       *)
(* output that some builder offered for the action.                        *)
(***************************************************************************)
EXTENDS DiskCache, Naturals

CONSTANTS IDs,      \* bound: requests at a time
          Offers,   \* pairs <<action, output>> that builders may put
          Faults    \* which of "io", "net", "length" and "exit" may happen

ASSUME OffersAssumption == Offers \subseteq ActionIDs \X OutputIDs /\ NoOutput \notin OutputIDs
ASSUME FaultsAssumption == Faults \subseteq {"io", "net", "length", "exit"}

VARIABLES flags,    \* whether there is a server, and BestEffortHTTP
          req       \* the requests in flight, and how the others were answered

vars == <<outputs, entries, flags, req>>

Idle == [pc |-> "idle"]

Flags == {f \in [server : BOOLEAN, bestEffort : BOOLEAN] : f.bestEffort => f.server}

Init == /\ DiskInit
        /\ flags \in Flags
        /\ req = [i \in IDs |-> Idle]

Becomes(i, r)      == req' = [req EXCEPT ![i] = r]
Goes(i, to)        == req' = [req EXCEPT ![i].pc = to]
Answers(i, status) ==
    Becomes(i, [pc |-> "answered", cmd |-> req[i].cmd, action |-> req[i].action,
                status |-> status,
                output |-> IF status \in {"hit", "ok"} THEN req[i].output ELSE NoOutput])

-----------------------------------------------------------------------------
(* Process.Run: the decoder's loop starts a goroutine per request. *)

Free(i) == req[i].pc \in {"idle", "answered"}

ReceiveGet(i, a) ==
    /\ Free(i)
    /\ Becomes(i, [pc |-> "lookup", cmd |-> "get", action |-> a, output |-> NoOutput])
    /\ UNCHANGED <<disk, flags>>

ReceivePut(i, a, o) ==
    /\ Free(i)
    /\ Becomes(i, [pc |-> "save", cmd |-> "put", action |-> a, output |-> o,
                   file |-> "output", http |-> IF flags.server THEN "send" ELSE "none"])
    /\ UNCHANGED <<disk, flags>>

(* End of standard input, or death: whatever is under way is dropped. *)
Exit(i) ==
    /\ "exit" \in Faults
    /\ ~Free(i) /\ Becomes(i, Idle)
    /\ UNCHANGED <<disk, flags>>

-----------------------------------------------------------------------------
(* HTTPClient.Get, or DiskCache.Get when there is no server. *)

(* An action file that cannot be read is an error to DiskCache.Get, and    *)
(* one that cannot be parsed a miss; to HTTPClient both are a miss.        *)
GetLookup(i) ==
    /\ req[i].pc = "lookup"
    /\ LET o == entries[req[i].action]
       IN \/ o # NoOutput /\ Becomes(i, [req[i] EXCEPT !.pc = "stat", !.output = o])
          \/ o = NoOutput /\ flags.server /\ Goes(i, "fetch")
          \/ o = NoOutput /\ ~flags.server /\ Answers(i, "miss")
          \/ "io" \in Faults /\ flags.server /\ Goes(i, "fetch")
          \/ /\ "io" \in Faults /\ ~flags.server
             /\ \E status \in {"error", "miss"} : Answers(i, status)
    /\ UNCHANGED <<disk, flags>>

Offered(a) == {o \in OutputIDs : <<a, o>> \in Offers}

Downloads(i, o) == Becomes(i, [pc |-> "save", cmd |-> "get", action |-> req[i].action,
                               output |-> o, file |-> "output", http |-> "none"])

(* No connection, or a bad status.                                         *)
RequestRetried(i) ==  \* mutant
    "net" \in Faults /\ Becomes(i, [req[i] EXCEPT !.pc = "lookup", !.output = NoOutput])
RequestFails(i) == "net" \in Faults /\ Answers(i, IF flags.bestEffort THEN "miss" ELSE "error")

(* A response that is not understood: headers missing, bad JSON.           *)
HeaderUnchecked(i) == "net" \in Faults /\ Downloads(i, NoOutput)  \* mutant
BadResponse(i) == "net" \in Faults /\ Answers(i, "error")

(* The answer is the object, or, of an older server, where to find it.     *)
GetFetch(i) ==
    /\ req[i].pc = "fetch"
    /\ \/ \E o \in Offered(req[i].action) :
             \/ Downloads(i, o)
             \/ Becomes(i, [req[i] EXCEPT !.pc = "fetchOutput", !.output = o])
       \/ Answers(i, "miss")
       \/ RequestFails(i) \/ BadResponse(i)
    /\ UNCHANGED <<disk, flags>>

GetFetchOutput(i) ==
    /\ req[i].pc = "fetchOutput"
    /\ \/ Downloads(i, req[i].output)
       \/ Answers(i, "miss")
       \/ RequestFails(i) \/ BadResponse(i)
    /\ UNCHANGED <<disk, flags>>

-----------------------------------------------------------------------------
(* DiskCache.Put, of the body of a put or of a response.                   *)

AtOutput(i) == req[i].pc = "save" /\ req[i].file = "output"
AtAction(i) == req[i].pc = "save" /\ req[i].file = "action"

FileStep(i, to) == req' = [req EXCEPT ![i].file = to] /\ UNCHANGED flags

SaveActionFirst(i) ==  \* mutant
    /\ AtOutput(i) /\ WriteActionFile(req[i].action, req[i].output) /\ FileStep(i, "action")

SaveOutput(i) ==
    /\ AtOutput(i) /\ WriteOutputFile(req[i].output) /\ FileStep(i, "action")

SaveAction(i) ==
    /\ AtAction(i) /\ WriteActionFile(req[i].action, req[i].output) /\ FileStep(i, "ok")

(* A file cannot be written, or the response ends early. *)
SaveFails(i) ==
    /\ \/ "io" \in Faults /\ (AtOutput(i) \/ AtAction(i))
       \/ "net" \in Faults /\ AtOutput(i) /\ req[i].cmd = "get"
    /\ FileStep(i, "failed")
    /\ UNCHANGED disk

(* A response is longer or shorter, uncompressed, than it says. *)
SaveWrongLength(i) ==
    /\ "length" \in Faults
    /\ AtOutput(i) /\ req[i].cmd = "get"
    /\ WriteBroken(req[i].output)
    /\ FileStep(i, "failed")

ErrorShadowed(i) == TRUE  \* mutant: diskPath, err := ...
SaveSucceeded(i) == req[i].file = "ok"

GetSaved(i) ==
    /\ req[i].pc = "save" /\ req[i].cmd = "get" /\ req[i].file \in {"ok", "failed"}
    /\ IF SaveSucceeded(i) THEN Goes(i, "stat") ELSE Answers(i, "error")
    /\ UNCHANGED <<disk, flags>>

-----------------------------------------------------------------------------
(* HTTPClient.Put: its goroutine saves to disk while it sends the request. *)

PutSend(i) ==
    /\ req[i].pc = "save" /\ req[i].http = "send"
    /\ \/ req' = [req EXCEPT ![i].http = "ok"]
       \/ "net" \in Faults /\ req' = [req EXCEPT ![i].http = "failed"]
    /\ UNCHANGED <<disk, flags>>

(* The request's result first, then the goroutine's.                       *)
OnlyHTTPDone(i) == req[i].http # "send"  \* mutant
ErrorUnsent(i)  == req[i].http # "send" /\ req[i].file = "ok"  \* mutant
BothDone(i)     == req[i].http # "send" /\ req[i].file \in {"ok", "failed"}

PutJoins(i) ==
    /\ req[i].pc = "save" /\ req[i].cmd = "put" /\ BothDone(i)
    /\ IF req[i].file = "failed" \/ (req[i].http = "failed" /\ ~flags.bestEffort)
       THEN Answers(i, "error")
       ELSE Goes(i, "stat")
    /\ UNCHANGED <<disk, flags>>

-----------------------------------------------------------------------------
(* Process.handleGet and handlePut look at the file before they answer;    *)
(* only handlePut knows how long it should be.                             *)

GetStat(i) ==
    /\ req[i].pc = "stat" /\ req[i].cmd = "get"
    /\ \/ outputs[req[i].output] \in {"stored", "broken"} /\ Answers(i, "hit")
       \/ outputs[req[i].output] = "removed" /\ Answers(i, "miss")
       \/ "io" \in Faults /\ Answers(i, "error")
    /\ UNCHANGED <<disk, flags>>

PutStat(i) ==
    /\ req[i].pc = "stat" /\ req[i].cmd = "put"
    /\ \/ outputs[req[i].output] = "stored" /\ Answers(i, "ok")
       \/ outputs[req[i].output] # "stored" /\ Answers(i, "error")
       \/ "io" \in Faults /\ Answers(i, "error")
    /\ UNCHANGED <<disk, flags>>

RemoveByHand(o) == RemoveOutputFile(o) /\ UNCHANGED <<flags, req>>

GetStep(i)  == GetLookup(i) \/ GetFetch(i) \/ GetFetchOutput(i) \/ GetSaved(i) \/ GetStat(i)
SaveStep(i) == SaveOutput(i) \/ SaveAction(i) \/ SaveFails(i) \/ SaveWrongLength(i)
PutStep(i)  == PutSend(i) \/ PutJoins(i) \/ PutStat(i)

Next ==
    \/ \E i \in IDs :
          \/ \E a \in ActionIDs : ReceiveGet(i, a)
          \/ \E ao \in Offers : ReceivePut(i, ao[1], ao[2])
          \/ GetStep(i) \/ SaveStep(i) \/ PutStep(i) \/ Exit(i)
    \/ \E o \in OutputIDs : RemoveByHand(o)

Spec == Init /\ [][Next]_vars

-----------------------------------------------------------------------------
(* Properties. *)

Shape(r) ==
    \/ r = Idle
    \/ /\ r.cmd \in {"get", "put"} /\ r.action \in ActionIDs
       /\ r.output \in OutputIDs \cup {NoOutput}
       /\ \/ r.pc \in {"lookup", "fetch"} /\ r.cmd = "get" /\ r.output = NoOutput
          \/ r.pc = "fetchOutput" /\ r.cmd = "get" /\ r.output # NoOutput
          \/ /\ r.pc = "save" /\ r.output # NoOutput /\ r.file \in {"output", "action", "ok", "failed"}
             /\ r.http \in {"none", "send", "ok", "failed"}
          \/ r.pc = "stat" /\ r.output # NoOutput
          \/ r.pc = "answered" /\ r.status \in {"hit", "miss", "ok", "error"}

TypeOK == /\ DiskTypeOK
          /\ flags \in Flags
          /\ DOMAIN req = IDs /\ \A i \in IDs : Shape(req[i])

(* Whatever runs concurrently, fails or dies, no action file names an      *)
(* output that was not there before it: unless somebody removed the output *)
(* file by hand, it is there.                                              *)
EntriesHaveOutputs ==
    \A a \in ActionIDs : entries[a] # NoOutput => outputs[entries[a]] # "absent"

(* HTTPClient.Put guarantees "it's on disk locally for the caller": a put  *)
(* that is answered without an error has written its output, and the       *)
(* action has an entry, and keeps one.  Only a hand, or a download of the  *)
(* wrong length of the same output, takes the file away.                   *)
PutsAreStored ==
    \A i \in IDs :
        req[i].pc = "answered" /\ req[i].cmd = "put" /\ req[i].status = "ok" =>
            outputs[req[i].output] # "absent" /\ entries[req[i].action] # NoOutput

(* No request waits for good, as a put would for a goroutine that sent it  *)
(* nothing: while a request is under way one of its steps can be taken.    *)
(* (The network answers or fails here; http.DefaultClient itself has no    *)
(* timeout.)                                                               *)
RequestsGoOn ==
    \A i \in IDs : ~Free(i) => ENABLED (GetStep(i) \/ SaveStep(i) \/ PutStep(i))

(* How many steps a request may still take, at most.                       *)
FileDistance == [output |-> 3, action |-> 2, ok |-> 1, failed |-> 1]
Distance(r) == CASE r.pc = "lookup" -> 8
                 [] r.pc = "fetch" -> 7
                 [] r.pc = "fetchOutput" -> 6
                 [] r.pc = "save" -> FileDistance[r.file] + (IF r.http = "send" THEN 2 ELSE 1)
                 [] r.pc = "stat" -> 1
                 [] OTHER -> 0

(* Every step of a request brings it nearer to its answer, whatever fails: *)
(* nothing is tried twice, so a get has its answer after eight steps of    *)
(* its own and a put after five; and no step of another sets it back.      *)
AnswersComeNearer ==
    [][\A i \in IDs : ~Free(i) =>
          req'[i] = req[i] \/ Distance(req'[i]) < Distance(req[i])]_vars

(* BestEffortHTTP makes all HTTP errors non-fatal: with it, and a disk     *)
(* that works, a get is a hit or a miss.                                   *)
BestEffortNeverFails ==
    flags.bestEffort /\ "io" \notin Faults =>
        \A i \in IDs : req[i].pc = "answered" /\ req[i].cmd = "get" => req[i].status # "error"

(* The directory and the gets are a read-through cache: a hit is an output *)
(* that some builder offered for that action and that this cache held for  *)
(* it when it was looked up or brought in.                                 *)
Opens(r) == r.pc = "stat" \/ (r.pc = "save" /\ r.file = "ok")

ReaderOf(r) ==
    IF r.pc = "idle" \/ r.cmd = "put" THEN [status |-> "idle"]
    ELSE IF Opens(r) THEN [status |-> "open", action |-> r.action, entry |-> r.output]
    ELSE IF r.pc # "answered" THEN [status |-> "idle"]
    ELSE IF r.status = "hit" THEN [status |-> "hit", action |-> r.action, entry |-> r.output]
    ELSE [status |-> r.status, action |-> r.action]

LocalCache == INSTANCE ReadThroughCache WITH
    Entries <- OutputIDs, Readers <- IDs, NoEntry <- NoOutput,
    cache <- entries, reader <- [i \in IDs |-> ReaderOf(req[i])]

ImplementsReadThroughCache == LocalCache!ReadThroughSpec
=============================================================================
