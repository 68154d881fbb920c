----------------------------- MODULE ActionCache -----------------------------
(***************************************************************************)
(* What a build cache promises its clients: a map from actions to entries  *)
(* (an output ID and a body).  A reader that gets a hit for an action gets *)
(* an entry some client offered for that very action, and the one the map  *)
(* held when the cache looked it up.  The first entry stored for an action *)
(* stays until it is evicted.  A cache may always forget, so a miss or an  *)
(* error is always allowed, but it may never make an answer up.            *)
(*                                                                         *)
(* Gocached is shown to implement this specification.                      *)
(***************************************************************************)
CONSTANTS ActionIDs, Entries, Readers,
          Offers,     \* pairs <<action, entry>> clients may store
          NoEntry

VARIABLES cache,   \* the entry stored for each action
          reader   \* what each reader asked for and was told

vars == <<cache, reader>>

Idle        == [status |-> "idle"]
Open(a, e)  == [status |-> "open", action |-> a, entry |-> e]
Hit(a, e)   == [status |-> "hit",  action |-> a, entry |-> e]
Miss(a)     == [status |-> "miss", action |-> a]
Failed(a)   == [status |-> "error", action |-> a]

Init == /\ cache \in {m \in [ActionIDs -> Entries \cup {NoEntry}] :
                        \A a \in ActionIDs : m[a] # NoEntry => <<a, m[a]>> \in Offers}
        /\ reader = [r \in Readers |-> Idle]

Insert(a, e) == /\ cache[a] = NoEntry
                /\ <<a, e>> \in Offers
                /\ cache' = [cache EXCEPT ![a] = e]
                /\ UNCHANGED reader

Evict(S) == /\ cache' = [a \in ActionIDs |-> IF a \in S THEN NoEntry ELSE cache[a]]
            /\ UNCHANGED reader

(* The map is read once; the answer may follow later. *)
Lookup(r, a) == /\ reader[r].status # "open"
                /\ \E found \in {Miss(a), Failed(a)} \cup
                        (IF cache[a] = NoEntry THEN {}
                         ELSE {Open(a, cache[a]), Hit(a, cache[a])}) :
                      reader' = [reader EXCEPT ![r] = found]
                /\ UNCHANGED cache

Answer(r) == /\ reader[r].status = "open"
             /\ LET a == reader[r].action
                    e == reader[r].entry
                IN  \E told \in {Hit(a, e), Miss(a), Failed(a)} :
                       reader' = [reader EXCEPT ![r] = told]
             /\ UNCHANGED cache

(* The cache goes away under its readers; what it stored stays. *)
Restart == /\ reader' = [r \in Readers |-> Idle]
           /\ UNCHANGED cache

Next == \/ \E a \in ActionIDs, e \in Entries : Insert(a, e)
        \/ \E S \in SUBSET ActionIDs : Evict(S)
        \/ \E r \in Readers, a \in ActionIDs : Lookup(r, a)
        \/ \E r \in Readers : Answer(r)
        \/ Restart

Spec == Init /\ [][Next]_vars
=============================================================================
