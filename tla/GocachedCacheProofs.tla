------------------------- MODULE GocachedCacheProofs -------------------------
(***************************************************************************)
(* Gocached implements ActionCache: a theorem about what its clients see,  *)
(* for any number of them, through evictions, flushes, failures and        *)
(* crashes.  The invariant of the tables (TablesInv) is what it needs: an  *)
(* action has at most one row, the row has its blob, and a PUT that was    *)
(* given a BlobID finds that blob when it inserts its action.              *)
(***************************************************************************)
EXTENDS GocachedProofs

USE OutputsAssumption, RequestsAssumption, EntriesAssumption

Offered == {<<r.action, [output |-> r.output, content |-> r.content]>> : r \in PutRequests}

-----------------------------------------------------------------------------
(* The map in the tables. *)

(* Mapped, of any two tables. *)
MappedIn(A, B, id) ==
    LET found == {ab \in Joined(A, B) : ab[1].ActionID = id}
    IN  IF found = {} THEN NoEntry
        ELSE LET ab == CHOOSE x \in found : TRUE IN Entry(ab[1], ab[2])

KeysIn(A, B) == /\ \A x, y \in A : x.ActionID = y.ActionID => x = y
                /\ \A x, y \in B : x.BlobID = y.BlobID => x = y
                /\ \A a \in A : \E b \in B : a.BlobID = b.BlobID

LEMMA MappedHere ==
    ASSUME NEW id
    PROVE  Mapped(id) = MappedIn(actions, blobs, id)
           /\ Mapped(id)' = MappedIn(actions', blobs', id)
BY DEF Mapped, MappedIn

LEMMA KeysHere == /\ TablesInv => KeysIn(actions, blobs)
                  /\ TablesInv' => KeysIn(actions', blobs')
BY DEF TablesInv, KeysUnique, NoMissingBlobRows, KeysIn

(* The row of an action, and its blob, give its entry. *)
LEMMA MappedToRow ==
    ASSUME NEW A, NEW B, KeysIn(A, B), NEW a \in A, NEW b \in B, a.BlobID = b.BlobID
    PROVE  MappedIn(A, B, a.ActionID) = Entry(a, b)
<1> DEFINE found == {ab \in Joined(A, B) : ab[1].ActionID = a.ActionID}
<1>1. <<a, b>> \in found
  BY DEF Joined
<1>2. ASSUME NEW ab \in found PROVE ab[1] = a /\ ab[2] = b
  <2>1. ab[1] \in A /\ ab[2] \in B /\ ab[1].BlobID = ab[2].BlobID
        /\ ab[1].ActionID = a.ActionID
    BY <1>2 DEF Joined
  <2>2. ab[1] = a
    BY <2>1 DEF KeysIn
  <2> QED
    BY <2>1, <2>2 DEF KeysIn
<1>3. MappedIn(A, B, a.ActionID)
         = LET ab == CHOOSE x \in found : TRUE IN Entry(ab[1], ab[2])
  BY <1>1 DEF MappedIn
<1> HIDE DEF found
<1>4. (CHOOSE x \in found : TRUE) \in found
  BY <1>1
<1> QED
  BY <1>2, <1>3, <1>4

LEMMA MappedToNothing ==
    ASSUME NEW A, NEW B, NEW id, \A a \in A : a.ActionID # id
    PROVE  MappedIn(A, B, id) = NoEntry
BY DEF MappedIn, Joined

(* Rows that name the same blobs give the same map, whatever else of them  *)
(* changes.                                                                *)
LEMMA SameRowsSameMap ==
    ASSUME NEW A1, NEW B1, NEW A2, NEW B2, KeysIn(A1, B1), KeysIn(A2, B2),
           \A r \in A2 : \E a \in A1 : r.ActionID = a.ActionID,
           \A a \in A1 : \E r \in A2 : /\ r.ActionID = a.ActionID /\ r.BlobID = a.BlobID
                                       /\ r.AltOutputID = a.AltOutputID,
           B1 \subseteq B2, NEW id
    PROVE  MappedIn(A2, B2, id) = MappedIn(A1, B1, id)
<1>1. CASE \A a \in A1 : a.ActionID # id
  <2>1. \A r \in A2 : r.ActionID # id
    BY <1>1
  <2> QED
    BY <1>1, <2>1, MappedToNothing
<1>2. ASSUME NEW a \in A1, a.ActionID = id PROVE MappedIn(A2, B2, id) = MappedIn(A1, B1, id)
  <2>1. PICK b \in B1 : a.BlobID = b.BlobID
    BY DEF KeysIn
  <2>2. PICK r \in A2 : /\ r.ActionID = a.ActionID /\ r.BlobID = a.BlobID
                        /\ r.AltOutputID = a.AltOutputID
    OBVIOUS
  <2>3. b \in B2 /\ Entry(r, b) = Entry(a, b)
    BY <2>2 DEF Entry, OutputOf
  <2>4. MappedIn(A1, B1, id) = Entry(a, b)
    BY <1>2, <2>1, MappedToRow
  <2>5. MappedIn(A2, B2, id) = Entry(r, b)
    BY <1>2, <2>1, <2>2, <2>3, MappedToRow
  <2> QED
    BY <2>3, <2>4, <2>5
<1> QED
  BY <1>1, <1>2

(* What a request gives is what its row gives back: the output ID is kept  *)
(* aside only when it is not the hash.                                     *)
LEMMA RequestGivesEntry ==
    ASSUME NEW r \in PutRequests, NEW id, NEW t, NEW b, b.SHA256 = r.content
    PROVE  Entry([ActionID |-> r.action, BlobID |-> id,
                  AltOutputID |-> AltOutputFor(r.output, r.content), AccessTime |-> t], b)
           = [output |-> r.output, content |-> r.content]
<1> DEFINE row == [ActionID |-> r.action, BlobID |-> id,
                   AltOutputID |-> AltOutputFor(r.output, r.content), AccessTime |-> t]
<1>1. row.AltOutputID = AltOutputFor(r.output, r.content)
  OBVIOUS
<1>2. r.output \in OutputIDs
  OBVIOUS
<1>3. OutputOf(row, b) = r.output
  BY <1>1, <1>2 DEF OutputOf, AltOutputFor
<1> QED
  BY <1>3 DEF Entry

-----------------------------------------------------------------------------
(* The steps. *)

cacheSeen == [id \in ActionIDs |-> Mapped(id)]
seen      == [g \in Getters |-> GetSeen(g)]
CacheStep == [Abstract!Next]_<<cacheSeen, seen>>

LEMMA SeenFollows == get' = get => seen' = seen
BY DEF seen, GetSeen

LEMMA CacheStays ==
    ASSUME \A id \in ActionIDs : Mapped(id)' = Mapped(id), get' = get PROVE CacheStep
BY SeenFollows DEF CacheStep, cacheSeen

LEMMA TablesStay == ASSUME UNCHANGED <<actions, blobs, get>> PROVE CacheStep
<1>1. \A id \in ActionIDs : Mapped(id)' = Mapped(id)
  BY MappedHere
<1> QED
  BY <1>1, CacheStays

LEMMA SameRowsStay ==
    ASSUME TablesInv, TablesInv', get' = get, blobs \subseteq blobs',
           \A r \in actions' : \E a \in actions : r.ActionID = a.ActionID,
           \A a \in actions : \E r \in actions' :
               /\ r.ActionID = a.ActionID /\ r.BlobID = a.BlobID
               /\ r.AltOutputID = a.AltOutputID
    PROVE  CacheStep
<1>1. KeysIn(actions, blobs) /\ KeysIn(actions', blobs')
  BY KeysHere
<1>2. \A id \in ActionIDs : MappedIn(actions', blobs', id) = MappedIn(actions, blobs, id)
  BY <1>1, SameRowsSameMap
<1> QED
  BY <1>2, MappedHere, CacheStays

LEMMA FlushIsUnseen ==
    ASSUME TablesInv, TablesInv', FlushAccessTimes, UNCHANGED <<blobs, get>> PROVE CacheStep
<1>1. /\ actions \in SUBSET ActionRow /\ \A x \in DOMAIN accessDirty : accessDirty[x] \in Nat
      /\ actions' = WithAccessTimes(actions, accessDirty)
  BY DEF TablesInv, TypeOK, FlushAccessTimes
<1>2. \A r \in actions' : \E a \in actions : r.ActionID = a.ActionID
  BY <1>1, FlushKeepsRows
<1>3. ASSUME NEW a \in actions
      PROVE  \E r \in actions' : /\ r.ActionID = a.ActionID /\ r.BlobID = a.BlobID
                                 /\ r.AltOutputID = a.AltOutputID
  <2> DEFINE r == IF a.ActionID \in DOMAIN accessDirty
                  THEN [a EXCEPT !.AccessTime = accessDirty[a.ActionID]] ELSE a
  <2>1. r \in actions'
    BY <1>1 DEF WithAccessTimes
  <2>2. r.ActionID = a.ActionID /\ r.BlobID = a.BlobID /\ r.AltOutputID = a.AltOutputID
    BY <1>1 DEF ActionRow
  <2> QED
    BY <2>1, <2>2
<1> QED
  BY <1>2, <1>3, SameRowsStay

LEMMA InsertIsSeen ==
    ASSUME TablesInv, TablesInv', NEW p \in Putters, PutInsertAction(p) PROVE CacheStep
<1>0. PICK r \in PutRequests : r = put[p].req
  <2>1. put[p] \in PutState /\ put[p].pc = "insert"
    BY DEF TablesInv, TypeOK, PutInsertAction
  <2> QED
    BY <2>1 DEF PutState
<1>1. PICK row : /\ row = [ActionID |-> r.action, BlobID |-> put[p].blobID,
                           AltOutputID |-> AltOutputFor(r.output, r.content),
                           AccessTime |-> now]
                 /\ actions' = InsertOrIgnore(actions, row)
                 /\ blobs' = blobs /\ get' = get /\ put[p].pc = "insert"
  BY <1>0 DEF PutInsertAction
<1> DEFINE e == [output |-> r.output, content |-> r.content]
<1>2. PICK a0 \in ActionIDs : a0 = r.action /\ e \in EntryType
  BY DEF EntryType
<1>3. PICK b \in blobs : b.BlobID = put[p].blobID /\ b.SHA256 = r.content
  BY <1>0, <1>1 DEF TablesInv, BlobKept
<1>4. row.ActionID = a0 /\ row.BlobID = b.BlobID /\ Entry(row, b) = e
  BY <1>1, <1>2, <1>3, RequestGivesEntry
<1>E. <<a0, e>> \in Offered
  BY <1>2 DEF Offered
<1> HIDE DEF e
<1>5. CASE \E a \in actions : a.ActionID = row.ActionID
  <2>1. actions' = actions
    BY <1>1, <1>5 DEF InsertOrIgnore
  <2> QED
    BY <1>1, <2>1, TablesStay
<1>6. CASE \A a \in actions : a.ActionID # row.ActionID
  <2>1. actions' = actions \cup {row}
    BY <1>1, <1>6 DEF InsertOrIgnore
  <2>2. KeysIn(actions, blobs) /\ KeysIn(actions', blobs)
    BY <1>1, KeysHere
  <2>3. cacheSeen[a0] = NoEntry
    BY <1>2, <1>4, <1>6, MappedToNothing, MappedHere DEF cacheSeen
  <2>4. Mapped(a0)' = e
    BY <1>1, <1>3, <1>4, <2>1, <2>2, MappedToRow, MappedHere
  <2>5. ASSUME NEW id \in ActionIDs, id # a0 PROVE Mapped(id)' = Mapped(id)
    <3>1. CASE \A a \in actions : a.ActionID # id
      <4>1. \A a \in actions' : a.ActionID # id
        BY <1>4, <2>1, <2>5, <3>1
      <4> QED
        BY <3>1, <4>1, MappedToNothing, MappedHere
    <3>2. ASSUME NEW a \in actions, a.ActionID = id PROVE Mapped(id)' = Mapped(id)
      <4>1. PICK c \in blobs : a.BlobID = c.BlobID
        BY <2>2 DEF KeysIn
      <4>2. MappedIn(actions, blobs, id) = Entry(a, c)
        BY <2>2, <3>2, <4>1, MappedToRow
      <4>3. MappedIn(actions', blobs, id) = Entry(a, c)
        BY <2>1, <2>2, <3>2, <4>1, MappedToRow
      <4> QED
        BY <1>1, <4>2, <4>3, MappedHere
    <3> QED
      BY <3>1, <3>2
  <2>6. cacheSeen' = [cacheSeen EXCEPT ![a0] = e]
    BY <1>2, <2>4, <2>5 DEF cacheSeen
  <2>7. Abstract!Insert(a0, e)
    BY <1>1, <1>E, <2>3, <2>6, SeenFollows DEF Abstract!Insert, cacheSeen, seen, Offered
  <2> QED
    BY <1>2, <2>7 DEF CacheStep, Abstract!Next
<1> QED
  BY <1>5, <1>6

(* What the cleaner deletes, the cache forgets.                            *)
LEMMA DeleteEvicts ==
    ASSUME TablesInv, TablesInv', DeleteCommit PROVE CacheStep
<1> DEFINE S == {id \in ActionIDs : \E a \in actions : a.ActionID = id /\ a.BlobID \in batch}
<1>1. /\ blobs' = {b \in blobs : b.BlobID \notin batch}
      /\ actions' = {a \in actions : a.BlobID \notin batch} /\ get' = get
  BY DEF DeleteCommit
<1>2. KeysIn(actions, blobs) /\ KeysIn(actions', blobs')
  BY KeysHere
<1>3. ASSUME NEW id \in S PROVE Mapped(id)' = NoEntry
  <2>1. PICK a \in actions : a.ActionID = id /\ a.BlobID \in batch
    OBVIOUS
  <2>2. \A x \in actions' : x.ActionID # id
    BY <1>1, <1>2, <2>1 DEF KeysIn
  <2> QED
    BY <2>2, MappedToNothing, MappedHere
<1>4. ASSUME NEW id \in ActionIDs \ S PROVE Mapped(id)' = Mapped(id)
  <2>1. CASE \A a \in actions : a.ActionID # id
    <3>1. \A a \in actions' : a.ActionID # id
      BY <1>1, <2>1
    <3> QED
      BY <2>1, <3>1, MappedToNothing, MappedHere
  <2>2. ASSUME NEW a \in actions, a.ActionID = id PROVE Mapped(id)' = Mapped(id)
    <3>1. a \in actions'
      BY <1>1, <1>4, <2>2
    <3>2. PICK b \in blobs : a.BlobID = b.BlobID
      BY <1>2 DEF KeysIn
    <3>3. b \in blobs'
      BY <1>1, <3>1, <3>2
    <3>4. MappedIn(actions, blobs, id) = Entry(a, b)
      BY <1>2, <2>2, <3>2, MappedToRow
    <3>5. MappedIn(actions', blobs', id) = Entry(a, b)
      BY <1>2, <2>2, <3>1, <3>2, <3>3, MappedToRow
    <3> QED
      BY <3>4, <3>5, MappedHere
  <2> QED
    BY <2>1, <2>2
<1> HIDE DEF S
<1>5. cacheSeen' = [id \in ActionIDs |-> IF id \in S THEN NoEntry ELSE cacheSeen[id]]
  BY <1>3, <1>4 DEF cacheSeen
<1>6. Abstract!Evict(S)
  BY <1>1, <1>5, SeenFollows DEF Abstract!Evict, cacheSeen, seen
<1>7. S \in SUBSET ActionIDs
  BY DEF S
<1> QED
  BY <1>6, <1>7 DEF CacheStep, Abstract!Next

-----------------------------------------------------------------------------
(* What a client sees. *)

SeenAs(s) == IF s.status \in {"found", "open"}
             THEN [status |-> "open", action |-> s.action, entry |-> s.entry] ELSE s

LEMMA OneGetSeen ==
    ASSUME TypeOK, NEW g \in Getters, NEW s, get' = [get EXCEPT ![g] = s]
    PROVE  seen' = [seen EXCEPT ![g] = SeenAs(s)] /\ seen[g] = SeenAs(get[g])
<1>1. get \in [Getters -> GetState]
  BY DEF TypeOK
<1>2. \A q \in Getters : get'[q] = IF q = g THEN s ELSE get[q]
  BY <1>1
<1> QED
  BY <1>2 DEF seen, GetSeen, SeenAs

LEMMA SeenStatus ==
    ASSUME NEW s
    PROVE  SeenAs(s).status = IF s.status = "found" THEN "open" ELSE s.status
BY DEF SeenAs

LEMMA LookupIsSeen ==
    ASSUME TablesInv, NEW g \in Getters, NEW id \in ActionIDs, GetLookup(g, id) PROVE CacheStep
<1> DEFINE found == {ab \in Joined(actions, blobs) : ab[1].ActionID = id}
<1>1. actions' = actions /\ blobs' = blobs /\ get[g].status \notin {"found", "open"} /\ TypeOK
  BY DEF GetLookup, tables, TablesInv
<1>2. cacheSeen' = cacheSeen
  BY <1>1, MappedHere DEF cacheSeen
<1>3. ASSUME NEW s, get' = [get EXCEPT ![g] = s],
             \/ SeenAs(s) \in {Abstract!Miss(id), Abstract!Failed(id)}
             \/ /\ cacheSeen[id] # NoEntry
                /\ SeenAs(s) = Abstract!Open(id, cacheSeen[id])
      PROVE  CacheStep
  <2>1. seen' = [seen EXCEPT ![g] = SeenAs(s)] /\ seen[g].status # "open"
    BY <1>1, <1>3, OneGetSeen, SeenStatus
  <2>2. Abstract!Lookup(g, id)
    BY <1>2, <1>3, <2>1 DEF Abstract!Lookup, cacheSeen, seen
  <2> QED
    BY <2>2 DEF CacheStep, Abstract!Next
<1>4. SeenAs(Miss(id)) = Abstract!Miss(id) /\ SeenAs(Failed(id)) = Abstract!Failed(id)
  BY DEF SeenAs, Miss, Failed, Abstract!Miss, Abstract!Failed
<1>5. CASE get' = [get EXCEPT ![g] = Miss(id)] \/ get' = [get EXCEPT ![g] = Failed(id)]
  BY <1>3, <1>4, <1>5
<1>6. ASSUME NEW ab \in found,
             get' = [get EXCEPT ![g] =
                       [status |-> "found", action |-> id, entry |-> Entry(ab[1], ab[2]),
                        file |-> FileOpenedFor(ab[2]), time |-> ab[1].AccessTime]]
      PROVE  CacheStep
  <2> DEFINE e == Entry(ab[1], ab[2])
             s == [status |-> "found", action |-> id, entry |-> e,
                   file |-> FileOpenedFor(ab[2]), time |-> ab[1].AccessTime]
  <2>1. /\ ab[1] \in actions /\ ab[2] \in blobs /\ ab[1].BlobID = ab[2].BlobID
        /\ ab[1].ActionID = id
    BY <1>6 DEF Joined
  <2>2. cacheSeen[id] = e
    BY <2>1, KeysHere, MappedToRow, MappedHere DEF cacheSeen
  <2>3. e # NoEntry
    <3>1. ab[1] \in ActionRow /\ ab[2] \in BlobRow
      BY <1>1, <2>1 DEF TypeOK
    <3>2. OutputOf(ab[1], ab[2]) \in OutputIDs /\ ab[2].SHA256 \in Contents
      BY <3>1 DEF OutputOf, ActionRow, BlobRow
    <3>3. e \in [output : OutputIDs, content : Contents]
      BY <3>2 DEF Entry
    <3> QED
      BY <3>3
  <2> HIDE DEF e
  <2>4. SeenAs(s) = Abstract!Open(id, e)
    BY DEF SeenAs, Abstract!Open
  <2>5. get' = [get EXCEPT ![g] = s]
    BY <1>6 DEF e
  <2> HIDE DEF s
  <2> QED
    BY <1>3, <2>2, <2>3, <2>4, <2>5
<1> QED
  BY <1>5, <1>6 DEF GetLookup

(* A GET that goes on to the file is still open to the client.             *)
LEMMA OpenIsSeen ==
    ASSUME TablesInv, NEW g \in Getters, GetBump(g) \/ GetOpen(g) PROVE CacheStep
<1> DEFINE a == get[g].action
           e == get[g].entry
           on == [status |-> "open", action |-> a, entry |-> e, file |-> get[g].file]
<1>1. actions' = actions /\ blobs' = blobs /\ get[g].status \in {"found", "open"} /\ TypeOK
  BY DEF GetBump, GetOpen, tables, TablesInv
<1>2. cacheSeen' = cacheSeen
  BY <1>1, MappedHere DEF cacheSeen
<1>3. PICK s \in {Hit(a, e), Miss(a), Failed(a), on} : get' = [get EXCEPT ![g] = s]
  BY DEF GetBump, GetOpen
<1>4. seen' = [seen EXCEPT ![g] = SeenAs(s)] /\ seen[g] = SeenAs(get[g])
  BY <1>1, <1>3, OneGetSeen
<1>5. seen[g] = Abstract!Open(a, e)
  BY <1>1, <1>4 DEF SeenAs, Abstract!Open
<1>6. CASE s = on
  <2>1. SeenAs(s) = seen[g]
    BY <1>5, <1>6 DEF SeenAs, Abstract!Open
  <2>2. seen' = seen
    BY <1>4, <2>1 DEF seen
  <2> QED
    BY <1>2, <2>2 DEF CacheStep
<1>7. CASE s # on
  <2>1. SeenAs(s) \in {Abstract!Hit(a, e), Abstract!Miss(a), Abstract!Failed(a)}
    BY <1>3, <1>7 DEF SeenAs, Hit, Miss, Failed, Abstract!Hit, Abstract!Miss, Abstract!Failed
  <2>2. seen[g].status = "open" /\ seen[g].action = a /\ seen[g].entry = e
    BY <1>5 DEF Abstract!Open
  <2>3. Abstract!Answer(g)
    BY <1>2, <1>4, <2>1, <2>2 DEF Abstract!Answer, cacheSeen, seen
  <2> QED
    BY <2>3 DEF CacheStep, Abstract!Next
<1> QED
  BY <1>6, <1>7

LEMMA CrashIsSeen == ASSUME Crash PROVE CacheStep
<1>1. actions' = actions /\ blobs' = blobs /\ get' = [g \in Getters |-> NotGetting]
  BY DEF Crash, tables
<1>2. cacheSeen' = cacheSeen
  BY <1>1, MappedHere DEF cacheSeen
<1>3. seen' = [g \in Getters |-> Abstract!Idle]
  BY <1>1 DEF seen, GetSeen, NotGetting, Abstract!Idle
<1>4. Abstract!Restart
  BY <1>2, <1>3 DEF Abstract!Restart, cacheSeen, seen
<1> QED
  BY <1>4 DEF CacheStep, Abstract!Next

-----------------------------------------------------------------------------
(* The refinement. *)

LEMMA NextIsSeen == TablesInv /\ [Next]_vars => CacheStep
<1> SUFFICES ASSUME TablesInv, [Next]_vars PROVE CacheStep
  OBVIOUS
<1> USE DEF tables
<1>0. TablesInv'
  BY NextTables
<1>1. ASSUME NEW p \in Putters, PutUpsertBlob(p) PROVE CacheStep
  <2>1. /\ blobs' = UpsertBlob(blobs, put[p].req.content, lastBlobID + 1)
        /\ actions' = actions /\ get' = get
    BY <1>1 DEF PutUpsertBlob
  <2>2. blobs \subseteq blobs'
    BY <2>1, UpsertHasRow
  <2> QED
    BY <1>0, <2>1, <2>2, SameRowsStay
<1>2. ASSUME NEW p \in Putters, PutInsertAction(p) PROVE CacheStep
  BY <1>0, <1>2, InsertIsSeen
<1>3. ASSUME NEW p \in Putters,
             PutStart(p) \/ PutRename(p) \/ PutBodyFails(p) \/ PutFails(p)
      PROVE  CacheStep
  BY <1>3, TablesStay DEF PutStart, PutRename, PutBodyFails, PutFails
<1>4. ASSUME NEW g \in Getters, NEW id \in ActionIDs, GetLookup(g, id) PROVE CacheStep
  BY <1>4, LookupIsSeen
<1>5. ASSUME NEW g \in Getters, GetBump(g) \/ GetOpen(g) PROVE CacheStep
  BY <1>5, OpenIsSeen
<1>6. CASE TimerFlush
  BY <1>0, <1>6, FlushIsUnseen DEF TimerFlush
<1>7. CASE CleanFlush
  <2>1. CASE FlushAccessTimes
    BY <1>0, <1>7, <2>1, FlushIsUnseen DEF CleanFlush
  <2>2. CASE UNCHANGED actions
    BY <1>7, <2>2, TablesStay DEF CleanFlush
  <2> QED
    BY <1>7, <2>1, <2>2 DEF CleanFlush
<1>8. CASE CleanWake \/ CleanStats \/ CleanAge \/ CleanSize \/ DeleteBegin
           \/ DeleteFails \/ CleanQueryFails \/ Tick \/ RemoveByHand
  BY <1>8, TablesStay DEF CleanWake, CleanStats, CleanAge, CleanSize, DeleteBegin,
                          DeleteFails, CleanQueryFails, Tick, RemoveByHand
<1>9. ASSUME NEW id \in left, DeleteRemove(id) PROVE CacheStep
  BY <1>9, TablesStay DEF DeleteRemove
<1>10. CASE DeleteCommit
  BY <1>0, <1>10, DeleteEvicts
<1>11. CASE Crash
  BY <1>11, CrashIsSeen
<1>12. CASE UNCHANGED vars
  BY <1>12, TablesStay DEF vars
<1> QED
  BY <1>1, <1>2, <1>3, <1>4, <1>5, <1>6, <1>7, <1>8, <1>9, <1>10, <1>11, <1>12
     DEF Next, PutStep, CleanStep

LEMMA InitIsSeen == Init => Abstract!Init
<1> SUFFICES ASSUME Init PROVE Abstract!Init
  OBVIOUS
<1>1. KeysIn(actions, blobs)
  BY InitTables, KeysHere
<1>2. seen = [g \in Getters |-> Abstract!Idle]
  BY DEF Init, seen, GetSeen, NotGetting, Abstract!Idle
<1>3. ASSUME NEW id \in ActionIDs
      PROVE  \/ Mapped(id) = NoEntry
             \/ Mapped(id) \in EntryType /\ <<id, Mapped(id)>> \in Offered
  <2>1. CASE \A a \in actions : a.ActionID # id
    BY <2>1, MappedToNothing, MappedHere
  <2>2. ASSUME NEW a \in actions, a.ActionID = id
        PROVE  Mapped(id) \in EntryType /\ <<id, Mapped(id)>> \in Offered
    <3>1. PICK req \in PutRequests : MigratedFromV3(req)
      BY <2>2 DEF Init
    <3> DEFINE e == [output |-> req.output, content |-> req.content]
    <3>2. PICK b \in blobs : b.BlobID = 1 /\ b.SHA256 = req.content
      BY <3>1 DEF MigratedFromV3
    <3>3. /\ a = [ActionID |-> req.action, BlobID |-> 1,
                  AltOutputID |-> AltOutputFor(req.output, req.content), AccessTime |-> 0]
      BY <3>1 DEF MigratedFromV3
    <3>4. a.ActionID = req.action /\ a.BlobID = b.BlobID /\ Entry(a, b) = e
      BY <3>2, <3>3, RequestGivesEntry
    <3>5. Mapped(id) = e
      BY <1>1, <2>2, <3>4, MappedToRow, MappedHere
    <3>6. e \in EntryType /\ <<req.action, e>> \in Offered
      BY DEF EntryType, Offered
    <3> QED
      BY <2>2, <3>4, <3>5, <3>6
  <2> QED
    BY <2>1, <2>2
<1>4. /\ cacheSeen \in [ActionIDs -> EntryType \cup {NoEntry}]
      /\ \A id \in ActionIDs : cacheSeen[id] # NoEntry => <<id, cacheSeen[id]>> \in Offered
  BY <1>3 DEF cacheSeen
<1> QED
  BY <1>2, <1>4 DEF Abstract!Init, cacheSeen, seen, Offered

(* gocached implements ActionCache.  A hit is the entry some PUT gave for  *)
(* that very action, output ID and body, as the tables held it when the    *)
(* GET looked it up, whatever the cleaner, the flush, other PUTs, failures *)
(* and restarts did since; an entry is never replaced by another, only     *)
(* forgotten.                                                              *)
THEOREM IsAnActionCache == Spec => ImplementsActionCache
<1>1. TablesInv /\ [Next]_vars
          => [Abstract!Next]_<<[id \in ActionIDs |-> Mapped(id)],
                               [g \in Getters |-> GetSeen(g)]>>
  BY NextIsSeen DEF CacheStep, cacheSeen, seen
<1> QED
  BY <1>1, InitIsSeen, TablesConsistent, PTL
     DEF Spec, ImplementsActionCache, Abstract!Spec, Abstract!vars

-----------------------------------------------------------------------------
(* What the abstract cache means for a client. *)

AnswersOffered ==
    /\ \A id \in ActionIDs : cacheSeen[id] # NoEntry => <<id, cacheSeen[id]>> \in Offered
    /\ \A g \in Getters : seen[g].status \in {"open", "hit"}
                             => <<seen[g].action, seen[g].entry>> \in Offered

LEMMA CacheStepKeepsOffered == AnswersOffered /\ CacheStep => AnswersOffered'
<1> SUFFICES ASSUME AnswersOffered, CacheStep PROVE AnswersOffered'
  OBVIOUS
<1> USE DEF AnswersOffered
<1>1. DOMAIN seen = Getters /\ DOMAIN cacheSeen = ActionIDs
  BY DEF seen, cacheSeen
<1>2. CASE UNCHANGED <<cacheSeen, seen>>
  BY <1>2
<1>3. ASSUME NEW a \in ActionIDs, NEW e \in EntryType, Abstract!Insert(a, e)
      PROVE  AnswersOffered'
  <2>1. /\ <<a, e>> \in Offered /\ cacheSeen' = [cacheSeen EXCEPT ![a] = e] /\ seen' = seen
    BY <1>3 DEF Abstract!Insert, cacheSeen, seen, Offered
  <2> QED
    BY <1>1, <2>1
<1>4. ASSUME NEW S \in SUBSET ActionIDs, Abstract!Evict(S) PROVE AnswersOffered'
  <2>1. /\ cacheSeen' = [a \in ActionIDs |-> IF a \in S THEN NoEntry ELSE cacheSeen[a]]
        /\ seen' = seen
    BY <1>4 DEF Abstract!Evict, cacheSeen, seen
  <2> QED
    BY <2>1
<1>5. ASSUME NEW g \in Getters, NEW told, seen' = [seen EXCEPT ![g] = told],
             cacheSeen' = cacheSeen,
             told.status \in {"open", "hit"} => <<told.action, told.entry>> \in Offered
      PROVE  AnswersOffered'
  BY <1>1, <1>5
<1>6. \A a, e : /\ Abstract!Miss(a).status \notin {"open", "hit"}
                /\ Abstract!Failed(a).status \notin {"open", "hit"}
                /\ Abstract!Hit(a, e).action = a /\ Abstract!Hit(a, e).entry = e
                /\ Abstract!Open(a, e).action = a /\ Abstract!Open(a, e).entry = e
  BY DEF Abstract!Miss, Abstract!Failed, Abstract!Hit, Abstract!Open
<1>7. ASSUME NEW g \in Getters, NEW a \in ActionIDs, Abstract!Lookup(g, a)
      PROVE  AnswersOffered'
  <2>1. PICK told : /\ seen' = [seen EXCEPT ![g] = told] /\ cacheSeen' = cacheSeen
                    /\ \/ told \in {Abstract!Miss(a), Abstract!Failed(a)}
                       \/ /\ cacheSeen[a] # NoEntry
                          /\ told \in {Abstract!Open(a, cacheSeen[a]),
                                       Abstract!Hit(a, cacheSeen[a])}
    BY <1>7 DEF Abstract!Lookup, cacheSeen, seen
  <2>2. told.status \in {"open", "hit"} => <<told.action, told.entry>> \in Offered
    BY <1>6, <2>1
  <2> QED
    BY <1>5, <2>1, <2>2
<1>8. ASSUME NEW g \in Getters, Abstract!Answer(g) PROVE AnswersOffered'
  <2>1. PICK told : /\ seen' = [seen EXCEPT ![g] = told] /\ cacheSeen' = cacheSeen
                    /\ seen[g].status = "open"
                    /\ told \in {Abstract!Hit(seen[g].action, seen[g].entry),
                                 Abstract!Miss(seen[g].action),
                                 Abstract!Failed(seen[g].action)}
    BY <1>8 DEF Abstract!Answer, cacheSeen, seen
  <2>2. told.status \in {"open", "hit"} => <<told.action, told.entry>> \in Offered
    BY <1>6, <2>1
  <2> QED
    BY <1>5, <2>1, <2>2
<1>9. CASE Abstract!Restart
  <2>1. seen' = [g \in Getters |-> Abstract!Idle] /\ cacheSeen' = cacheSeen
    BY <1>9 DEF Abstract!Restart, cacheSeen, seen
  <2> QED
    BY <2>1 DEF Abstract!Idle
<1> QED
  BY <1>2, <1>3, <1>4, <1>7, <1>8, <1>9 DEF CacheStep, Abstract!Next

(* A GET that was told of a hit, or is about to open its file, has an      *)
(* output ID and a body that one PUT gave together for its action: never   *)
(* the output of one PUT with the body of another.                         *)
THEOREM HitsWereOffered ==
    Spec => [](\A g \in Getters : get[g].status \in {"open", "hit"}
                                     => <<get[g].action, get[g].entry>> \in Offered)
<1>1. Init => AnswersOffered
  <2> SUFFICES ASSUME Init PROVE AnswersOffered
    OBVIOUS
  <2>1. /\ \A id \in ActionIDs : cacheSeen[id] # NoEntry => <<id, cacheSeen[id]>> \in Offered
        /\ seen = [g \in Getters |-> Abstract!Idle]
    BY InitIsSeen DEF Abstract!Init, cacheSeen, seen, Offered
  <2> QED
    BY <2>1 DEF AnswersOffered, Abstract!Idle
<1>2. AnswersOffered => \A g \in Getters : get[g].status \in {"open", "hit"}
                                              => <<get[g].action, get[g].entry>> \in Offered
  BY DEF AnswersOffered, seen, GetSeen
<1> QED
  BY <1>1, <1>2, NextIsSeen, CacheStepKeepsOffered, TablesConsistent, PTL DEF Spec
=============================================================================
