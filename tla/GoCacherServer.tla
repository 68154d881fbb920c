---------------------------- MODULE GoCacherServer ----------------------------
(***************************************************************************)
(* go-cacher-server over a DiskCache on Windows.  Clients PUT, and GET an  *)
(* action and then the output it names, as HTTPClient does; http.ServeFile *)
(* sends the length it finds first, and then what it reads.  Other         *)
(* processes may write the directory too.                                  *)
(***************************************************************************)
EXTENDS DiskCacheWindows

CONSTANTS Readers, NoGet

VARIABLE get  \* where each client's pair of GETs is

vars == <<output, action, put, stored, faults, get>>

Init == DiskInit /\ get = [r \in Readers |-> NoGet]

Reads(r, pc) == get[r] # NoGet /\ get[r].pc = pc
GetEnds(r)   == get' = [get EXCEPT ![r] = NoGet]
OpenedFiles  == OpenedOutputs \cup {get[r].output : r \in {q \in Readers : Reads(q, "read")}}

HandlePut(w) ==
    /\ \E offer \in Offers, body \in Bodies : PutStart(w, offer[1], offer[2], body)
    /\ UNCHANGED get

IsTold(r, a) == get' = [get EXCEPT ![r] = [action |-> a, output |-> Named(a), pc |-> "stat",
                                           length |-> 0, body |-> <<>>]]

DecodeAction(r) ==  \* mutant: a json.Decoder, which leaves what follows a record
    /\ get[r] = NoGet
    /\ \E a \in Actions :
          /\ action[a] # NoFile /\ action[a].names # NoFile
          /\ action[a].have = RecordLen[Named(a)]
          /\ IsTold(r, a)
    /\ UNCHANGED diskVars

(* handleGetAction: DiskCache.Get, then the Stat of the file. *)
HandleGetAction(r) ==
    /\ get[r] = NoGet
    /\ \E a \in Actions : Parses(a) /\ IsTold(r, a)
    /\ UNCHANGED diskVars

(* HTTPClient does not ask for an output that it is told is empty.         *)
StatOutput(r) ==
    /\ Reads(r, "stat")
    /\ LET file == output[get[r].output]
       IN \/ file = NoFile /\ GetEnds(r)
          \/ file # NoFile /\ Len(file) = 0 /\ get' = [get EXCEPT ![r].pc = "sent"]
          \/ file # NoFile /\ Len(file) > 0 /\ get' = [get EXCEPT ![r].pc = "output"]
    /\ UNCHANGED diskVars

(* handleGetOutput *)
HandleGetOutput(r) ==
    /\ Reads(r, "output")
    /\ LET file == output[get[r].output]
       IN \/ file = NoFile /\ GetEnds(r)
          \/ /\ file # NoFile
             /\ get' = [get EXCEPT ![r].pc = "read", ![r].length = Len(file)]
    /\ UNCHANGED diskVars

Sent(r)         == Len(get[r].body)
MoreInFile(r)   == Sent(r) < Len(output[get[r].output])  \* mutant: as it grows
MorePromised(r) == Sent(r) < get[r].length /\ Sent(r) < Len(output[get[r].output])

SendChunk(r) ==
    /\ Reads(r, "read")
    /\ \/ /\ MorePromised(r)
          /\ get' = [get EXCEPT ![r].body = Append(@, output[get[r].output][Sent(r) + 1])]
       \/ ~MorePromised(r) /\ get' = [get EXCEPT ![r].pc = "sent"]
    /\ UNCHANGED diskVars

GetDone(r) == Reads(r, "sent") /\ GetEnds(r) /\ UNCHANGED diskVars

Next == /\ \/ \E w \in Writers : HandlePut(w)
           \/ \E w \in Writers : PutStep(w, OpenedFiles) /\ UNCHANGED get
           \/ \E r \in Readers : \/ HandleGetAction(r) \/ StatOutput(r)
                                 \/ HandleGetOutput(r) \/ SendChunk(r) \/ GetDone(r)
        /\ UNCHANGED faults

Spec == Init /\ [][Next]_vars

-----------------------------------------------------------------------------
TypeOK ==
    /\ \A o \in Outputs : output[o] # NoFile =>
          \A i \in 1..Len(output[o]) : output[o][i] \in {Good, Bad}
    /\ \A a \in Actions : action[a] # NoFile => action[a].have <= action[a].len
    /\ \A w \in Writers : put[w] # NoPut => put[w].at \in 0..put[w].body.size
    /\ \A r \in Readers : get[r] # NoGet => Len(get[r].body) <= get[r].length
    /\ stored \subseteq Offers

(* An entry that can be read names an output that was put for its action,  *)
(* written and checked first: whatever dies or fails, and however records  *)
(* of two lengths are written over, and truncated under, each other.       *)
EntriesWereStored == \A a \in Actions : Parses(a) => <<a, Named(a)>> \in stored

(* Writers in place do not spoil each other's work: where no client sends  *)
(* a body that is not its output, a file is always the beginning of its    *)
(* body, through deaths, failures and removals.                            *)
OnlyGoodBytes ==
    "wrong" \notin faults =>
        \A o \in Outputs : output[o] # NoFile =>
            /\ Len(output[o]) <= Size
            /\ \A i \in 1..Len(output[o]) : output[o][i] = Good

(* An output that an entry names is whole and stays so: a later put of it, *)
(* and one that dies half-way, do not shorten it even for a moment.  (An   *)
(* error removes the file that others have finished.)                      *)
NamedOutputsWhole ==
    faults \subseteq {"exit"} =>
        \A a \in Actions : Parses(a) => output[Named(a)] = Whole

(* What a client has as the output after its GET of an action, sent with   *)
(* 200 or taken to be empty, is the output.                                *)
BodiesWhole ==
    faults \subseteq {"exit"} =>
        \A r \in Readers : Reads(r, "sent") => get[r].body = Whole

(* "a second write of the same content to the same file is idempotent, and *)
(* does not - even temporarily! - undo the effect of the first write":     *)
(* nor does a third, while all puts of the action are of one output.       *)
SecondWritesKeepEntries ==
    [][\A a \in Actions :
          /\ "error" \notin faults /\ Parses(a)
          /\ \A w \in Writers : put[w] # NoPut /\ put[w].action = a
                                    => put[w].output = Named(a)
          => Parses(a)']_vars

(* What clients see of the server is a cache: the records that can be read *)
(* are its map.  A client that has a body as long as promised has a hit.   *)
Recorded(a) == IF Parses(a) THEN Named(a) ELSE NoFile
ReaderOf(r) ==
    IF get[r] = NoGet THEN [status |-> "idle"]
    ELSE IF get[r].pc # "sent"
    THEN [status |-> "open", action |-> get[r].action, entry |-> get[r].output]
    ELSE IF Sent(r) = get[r].length
    THEN [status |-> "hit", action |-> get[r].action, entry |-> get[r].output]
    ELSE [status |-> "error", action |-> get[r].action]

ServedCache == INSTANCE ReadThroughCache WITH
    ActionIDs <- Actions, Entries <- Outputs, NoEntry <- NoFile,
    cache <- [a \in Actions |-> Recorded(a)], reader <- [r \in Readers |-> ReaderOf(r)]

(* go-cacher-server implements ReadThroughCache: a client is only told of  *)
(* outputs that were put for the action it asked for, as the record was    *)
(* when it was read, never of one that is half overwritten.                *)
ServesReadThroughCache == ServedCache!ReadThroughSpec
=============================================================================
