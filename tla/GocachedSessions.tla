--------------------------- MODULE GocachedSessions ---------------------------
(***************************************************************************)
(* Authorisation in gocached: the key sets of the issuers and the loop     *)
(* that refreshes them (internal/jwt), the exchange of a JWT for a session *)
(* token, the check of the token of each request, and the loop that        *)
(* removes expired sessions.                                               *)
(*                                                                         *)
(* A JWT is its issuer, the key that signed it, and whether its claims     *)
(* meet the issuer's required and global write claims.  What of a JWT the  *)
(* library checks by itself (expiry, audience) is left out: it only ever   *)
(* refuses more.  Time is in units of the session's TTL, an hour.          *)
(***************************************************************************)
EXTENDS Integers, FiniteSets

CONSTANTS Issuers,     \* jwtIssuers
          Unreliable,  \* those of them whose fetch may fail
          Keys,        \* keys an issuer may come to publish
          OtherKeys,   \* those of them not meant for signing, or unsupported
          Rotating,    \* bound: issuers that publish new keys
          Tokens,      \* bound: tokens ever made
          Requests,    \* bound: requests at a time
          TTL,         \* of a session
          MaxTime,     \* bound: the clock
          NoToken

ASSUME SessionsAssumption ==
    /\ Unreliable \subseteq Issuers /\ Rotating \subseteq Issuers /\ OtherKeys \subseteq Keys
    /\ TTL \in Nat /\ MaxTime \in Nat
    /\ NoToken \notin Tokens

JWTs     == [iss : Issuers, key : Keys, required : BOOLEAN, global : BOOLEAN]
Sessions == [expiry : 0..MaxTime, globalNSWrite : BOOLEAN, claims : JWTs]
NoRequest == [token |-> NoToken, method |-> "none"]

VARIABLES published,   \* the key set each issuer serves now
          everPublished,
          signingKeys, \* and the one the validator has of it
          loaded,      \* issuers it has one of
          refresh,     \* issuers the present run of updateJWKS has still to ask
          failed,      \* whether the run of NewServer has had an error
          phase,       \* of the server
          loops,       \* background loops that have not returned
          sessions,    \* by token; DOMAIN grows and shrinks
          issued,      \* tokens ever made: no token is made twice
          request,     \* what each request is at
          now

keyVars     == <<signingKeys, loaded, refresh, failed>>
issuerVars  == <<published, everPublished>>
sessionVars == <<published, everPublished, signingKeys, loaded, refresh, failed, phase,
                 loops, sessions, issued, request, now>>

NoSessions == [t \in {} |-> NoToken]

(* Each issuer has a key of its own to begin with; which one is all the    *)
(* same.                                                                   *)
OneKeyEach == {f \in [Issuers -> Keys \ OtherKeys] :
                  \A i, j \in Issuers : f[i] = f[j] => i = j}
ASSUME KeysAssumption == OneKeyEach # {}
FirstKey == CHOOSE f \in OneKeyEach : TRUE

SessionsInit ==
    /\ published = [i \in Issuers |-> {FirstKey[i]}]
    /\ everPublished = published
    /\ signingKeys = [i \in Issuers |-> {}] /\ loaded = {}
    /\ refresh = {} /\ failed = FALSE
    /\ phase = "down" /\ loops = {}
    /\ sessions = NoSessions /\ issued = {}
    /\ request = [r \in Requests |-> NoRequest]
    /\ now = 0

-----------------------------------------------------------------------------
(* Outside: issuers publish a new key, beside the last one or in place of  *)
(* it; time passes.                                                        *)

Rotate(i) ==
    /\ \E k \in Keys \ UNION {everPublished[j] : j \in Issuers} :
          /\ \E old \in {{}, published[i]} :
                published' = [published EXCEPT ![i] = old \cup {k}]
          /\ everPublished' = [everPublished EXCEPT ![i] = @ \cup {k}]
    /\ UNCHANGED <<keyVars, phase, loops, sessions, issued, request, now>>

Tick ==
    /\ now < MaxTime /\ now' = now + 1
    /\ UNCHANGED <<issuerVars, keyVars, phase, loops, sessions, issued, request>>

-----------------------------------------------------------------------------
(* Validator.updateJWKS: each issuer in turn.  One that fails keeps the    *)
(* keys it had, and the others are asked all the same.  Close cancels the  *)
(* fetch that is under way.  Once the server is up an error is only logged.*)

Loads(i) == /\ signingKeys' = [signingKeys EXCEPT ![i] = published[i] \ OtherKeys]
            /\ loaded' = loaded \cup {i}

FetchJWKS(i) ==
    /\ i \in refresh /\ refresh' = refresh \ {i}
    /\ Loads(i)
    /\ UNCHANGED <<issuerVars, failed, phase, loops, sessions, issued, request, now>>

StopsAsking(i) == refresh' = {}  \* mutant
AsksTheRest(i) == refresh' = refresh \ {i}

FetchFails(i) ==
    /\ i \in refresh /\ (i \in Unreliable \/ phase = "closed")
    /\ AsksTheRest(i)
    /\ failed' = (phase = "loading")
    /\ UNCHANGED <<issuerVars, signingKeys, loaded, phase, loops, sessions, issued, request, now>>

(* runUpdateJWKSLoop, every 12 hours.                                      *)
RefreshWakes ==
    /\ "jwks" \in loops /\ refresh = {}
    /\ refresh' = Issuers
    /\ UNCHANGED <<issuerVars, signingKeys, loaded, failed, phase, loops, sessions, issued, request, now>>

-----------------------------------------------------------------------------
(* NewServer, once the database is open: RunUpdateJWKSLoop fetches all key *)
(* sets, and an error of any of them is one of NewServer.                  *)

LoadKeys ==
    /\ phase = "down" /\ phase' = "loading"
    /\ refresh' = Issuers /\ failed' = FALSE
    /\ UNCHANGED <<issuerVars, signingKeys, loaded, loops, sessions, issued, request, now>>

ToleratesErrors == TRUE  \* mutant
HasAllKeys      == ~failed

Serve ==
    /\ phase = "loading" /\ refresh = {} /\ HasAllKeys
    /\ phase' = "serving"
    /\ loops' = {"jwks", "sessions", "clean"}
    /\ UNCHANGED <<issuerVars, keyVars, sessions, issued, request, now>>

(* NewServer fails, or the process dies: what is in memory is gone.        *)
Stop ==
    /\ phase # "down" /\ phase' = "down"
    /\ signingKeys' = [i \in Issuers |-> {}] /\ loaded' = {}
    /\ refresh' = {} /\ failed' = FALSE
    /\ loops' = {} /\ sessions' = NoSessions
    /\ request' = [r \in Requests |-> NoRequest]
    /\ UNCHANGED <<issuerVars, issued, now>>

(* Server.Close cancels shutdownCtx.  Requests go on.                      *)
Close ==
    /\ phase = "serving" /\ phase' = "closed"
    /\ UNCHANGED <<issuerVars, keyVars, loops, sessions, issued, request, now>>

(* Each loop looks at the context where it waits for its time.             *)
WaitingIfTold == {l \in loops : l # "sessions"}  \* mutant
Waiting == {l \in loops : l = "jwks" => refresh = {}}

LoopReturns(l) ==
    /\ phase = "closed" /\ l \in Waiting
    /\ loops' = loops \ {l}
    /\ UNCHANGED <<issuerVars, keyVars, phase, sessions, issued, request, now>>

-----------------------------------------------------------------------------
(* Handlers *)

Serving == phase \in {"serving", "closed"}

(* issuer.keyFunc: each issuer has only its own keys.                      *)
KnownToAny(jwt)    == \E i \in Issuers : jwt.key \in signingKeys[i]  \* mutant
KnownToIssuer(jwt) == jwt.key \in signingKeys[jwt.iss]

(* handleTokenExchange.  A response that cannot be sent leaves the session. *)
Exchange(jwt, t) ==
    /\ Serving /\ t \in Tokens \ issued
    /\ now + TTL < MaxTime  \* bound: so that it expires in time
    /\ KnownToIssuer(jwt)
    /\ jwt.required         \* evaluateClaims
    /\ issued' = issued \cup {t}
    /\ sessions' = [u \in DOMAIN sessions \cup {t} |->
                       IF u = t THEN [expiry |-> now + TTL, claims |-> jwt,
                                      globalNSWrite |-> jwt.global]
                       ELSE sessions[u]]
    /\ UNCHANGED <<issuerVars, keyVars, phase, loops, request, now>>

Expired(t) == now > sessions[t].expiry

(* ServeHTTP: the token a client has may be of an earlier life of the      *)
(* server, or expired; the request is then refused, and changes nothing.   *)
Admits(method, t) == /\ t \in DOMAIN sessions /\ ~Expired(t)
                     /\ method = "PUT" => sessions[t].globalNSWrite

Admit(r, method, t) ==
    /\ Serving /\ request[r] = NoRequest
    /\ t \in issued /\ Admits(method, t)
    /\ request' = [request EXCEPT ![r] =
                      [token |-> t, method |-> method, session |-> sessions[t]]]
    /\ UNCHANGED <<issuerVars, keyVars, phase, loops, sessions, issued, now>>

(* The handler ends, and processRequestStats adds to the session's         *)
(* statistics, whether or not the session is still in the map.             *)
Answer(r) ==
    /\ request[r] # NoRequest
    /\ request' = [request EXCEPT ![r] = NoRequest]
    /\ UNCHANGED <<issuerVars, keyVars, phase, loops, sessions, issued, now>>

(* runCleanSessionsLoop, every hour, under mu. *)
AlreadyExpired == {t \in DOMAIN sessions : Expired(t)}  \* mutant
NotExpired     == {t \in DOMAIN sessions : ~Expired(t)}

CleanSessions ==
    /\ "sessions" \in loops
    /\ sessions' = [t \in NotExpired |-> sessions[t]]
    /\ UNCHANGED <<issuerVars, keyVars, phase, loops, issued, request, now>>
-----------------------------------------------------------------------------
Refreshes    == RefreshWakes \/ \E i \in Issuers : FetchJWKS(i) \/ FetchFails(i)
OutsideMoves == Tick \/ \E i \in Rotating : Rotate(i)
Admissions   == \E r \in Requests, method \in {"GET", "PUT"}, t \in Tokens :
                    Admit(r, method, t)
Exchanges    == \E jwt \in JWTs, t \in Tokens : Exchange(jwt, t)

(* Time passes, what is asked for is answered or fails, and loops that can *)
(* run do.  Of two ready cases select takes each again and again, hence SF.*)
SessionsFairness ==
    /\ WF_sessionVars(Tick)
    /\ WF_sessionVars(RefreshWakes)
    /\ \A i \in Issuers : WF_sessionVars(FetchJWKS(i) \/ FetchFails(i))
    /\ WF_sessionVars(CleanSessions)
    /\ \A l \in {"jwks", "sessions", "clean"} : SF_sessionVars(LoopReturns(l))

SessionsTypeOK ==
    /\ published \in [Issuers -> SUBSET Keys]
    /\ everPublished \in [Issuers -> SUBSET Keys]
    /\ signingKeys \in [Issuers -> SUBSET Keys] /\ loaded \subseteq Issuers
    /\ refresh \subseteq Issuers /\ failed \in BOOLEAN
    /\ phase \in {"down", "loading", "serving", "closed"}
    /\ loops \subseteq {"jwks", "sessions", "clean"}
    /\ DOMAIN sessions \subseteq issued /\ issued \subseteq Tokens
    /\ \A t \in DOMAIN sessions : sessions[t] \in Sessions
    /\ request \in [Requests -> {NoRequest} \cup
                       [token : Tokens, method : {"GET", "PUT"}, session : Sessions]]
    /\ now \in 0..MaxTime

(* Validate takes the key set of every issuer to be there (its type        *)
(* assertion panics otherwise): NewServer must not succeed with one that   *)
(* was never fetched, whichever fetches fail and however often it is tried.*)
KeysLoaded == Serving => loaded = Issuers

(* What a handler runs for was, when the session began, signed by its own  *)
(* issuer with a key this issuer published for signing, and had the claims *)
(* the method needs, through rotations, failed refreshes and restarts.     *)
RequestsAreAuthorised ==
    \A r \in Requests : request[r] # NoRequest =>
        LET jwt == request[r].session.claims
        IN /\ jwt.key \in everPublished[jwt.iss] \ OtherKeys
           /\ jwt.required
           /\ request[r].method = "PUT" => jwt.global

(* An issuer that answers has its key set picked up, keys withdrawn as     *)
(* well as new ones, although another one fails each time.                 *)
KeysCatchUp ==
    \A i \in Issuers \ Unreliable :
        []<>(signingKeys[i] = published[i] \ OtherKeys \/ "jwks" \notin loops)

(* Sessions do not pile up: each goes, once it has expired.                *)
ExpiredSessionsGo ==
    \A t \in Tokens : t \in DOMAIN sessions ~>
                          t \notin DOMAIN sessions \/ "sessions" \notin loops

(* Close stops the background loops, that of the key sets in the midst of  *)
(* a run too.                                                              *)
LoopsEnd == phase = "closed" ~> loops = {} \/ phase = "down"
=============================================================================
