------------------------------ MODULE KeyCache ------------------------------
(***************************************************************************)
(* CachedJwkProvider and CognitoTokenVerifier (cognito.py): the requests   *)
(* of one process verify their tokens with the issuer's signing keys,      *)
(* which are cached for a time and fetched again under a lock, while the   *)
(* issuer rotates them.  Coroutines interleave only where they await: the  *)
(* lock and the fetch.                                                     *)
(***************************************************************************)
EXTENDS Integers, Sequences, FiniteSets

CONSTANTS
    Requests,      \* the requests that may be under way at a time
    Keys,          \* the keys the issuer may publish
    UnknownKey,    \* a key id it never publishes
    Tokens,        \* the tokens a request may carry
    NoToken,       \* the token of no request
    TTL,           \* ttl_seconds
    Interval,      \* min_refresh_interval_seconds
    Timeout,       \* how long a fetch may last
    MaxTime,       \* bound: the clock
    MaxRotations   \* bound: how often the issuer changes its keys

ASSUME KeyCacheAssumption ==
    /\ UnknownKey \notin Keys
    /\ TTL \in Nat \ {0}
    /\ Interval \in Nat \ {0}
    /\ Timeout \in Nat
    /\ Timeout < Interval /\ Interval <= TTL

\* What verify() finds in the rest of a token: nothing, a signature that is
\* not the key's, an expiry in the past, a scope that is missing.
Qualities == {"good", "forged", "expired", "unscoped"}
Token == [kid : Keys \cup {UnknownKey}, quality : Qualities]

ASSUME TokensAssumption == Tokens \subseteq Token /\ NoToken \notin Token

VARIABLES
    now,           \* time.monotonic()
    keys,          \* self._keys
    expiresAt,     \* self._expires_at
    lastRefreshAt, \* self._last_refresh_at
    queue,         \* the requests that hold or await self._lock, in order
    pc,            \* where each request is
    token,         \* the token of each request: its key id and its quality
    startedAt,     \* "now" of the request's refresh
    answer,        \* the keys the issuer has sent to the request's fetch
    result,        \* what verify() made of the token
    published,     \* the keys of the issuer
    since,         \* when it published or withdrew each key
    rotations      \* how often it did

cacheVars == <<keys, expiresAt, lastRefreshAt>>
issuerVars == <<published, since, rotations>>
vars == <<now, cacheVars, queue, pc, token, startedAt, answer, result, issuerVars>>

Results == {"none", "principal", "invalid", "expired", "insufficient"}

\* Earlier than any refresh by more than the interval, for float("-inf").
LongAgo == -Interval

-----------------------------------------------------------------------------
(* get_key                                                                 *)

Cached(kid) == now < expiresAt /\ kid \in keys

\* Faulty variant: no minimum interval.
MayAlwaysRefresh == TRUE

MayRefresh ==
    \/ now >= expiresAt
    \/ now - lastRefreshAt >= Interval

\* The order of verify()'s checks: the key, the signature and the expiry,
\* and last the scopes.
Verdict(t, found) ==
    IF ~found \/ t.quality = "forged" THEN "invalid"
    ELSE IF t.quality = "expired" THEN "expired"
    ELSE IF t.quality = "unscoped" THEN "insufficient"
    ELSE "principal"

Return(r, t, found) ==
    /\ pc' = [pc EXCEPT ![r] = "done"]
    /\ result' = [result EXCEPT ![r] = Verdict(t, found)]

\* The fetch of the request is over.
EndFetch(r) ==
    /\ startedAt' = [startedAt EXCEPT ![r] = 0]
    /\ answer' = [answer EXCEPT ![r] = {}]

Holds(r) == queue # <<>> /\ Head(queue) = r
Unlock == queue' = Tail(queue)

-----------------------------------------------------------------------------
Init ==
    /\ now = 0
    /\ keys = {}
    /\ expiresAt = 0
    /\ lastRefreshAt = LongAgo
    /\ queue = <<>>
    /\ pc = [r \in Requests |-> "new"]
    /\ token = [r \in Requests |-> NoToken]
    /\ startedAt = [r \in Requests |-> 0]
    /\ answer = [r \in Requests |-> {}]
    /\ result = [r \in Requests |-> "none"]
    /\ published \in SUBSET Keys \ {{}}
    /\ since = [k \in Keys |-> 0]
    /\ rotations = 0

\* A request comes with a token and looks at the cache without the lock.
Hit(r, t) ==
    /\ pc[r] = "new"
    /\ Cached(t.kid)
    /\ token' = [token EXCEPT ![r] = t]
    /\ Return(r, t, TRUE)
    /\ UNCHANGED <<now, cacheVars, queue, startedAt, answer, issuerVars>>

Miss(r, t) ==
    /\ pc[r] = "new"
    /\ ~Cached(t.kid)
    /\ token' = [token EXCEPT ![r] = t]
    /\ pc' = [pc EXCEPT ![r] = "waiting"]
    /\ queue' = Append(queue, r)
    /\ UNCHANGED <<now, cacheVars, startedAt, answer, result, issuerVars>>

\* The second look, under the lock: another request may have refreshed.
LockedHit(r) ==
    /\ pc[r] = "waiting"
    /\ Holds(r)
    /\ Cached(token[r].kid)
    /\ Return(r, token[r], TRUE)
    /\ Unlock
    /\ UNCHANGED <<now, cacheVars, token, startedAt, answer, issuerVars>>

\* Faulty variant: a key id the cache does not know waits for the interval.
ThrottledIfKnown(r) ==
    /\ pc[r] = "waiting"
    /\ Holds(r)
    /\ ~Cached(token[r].kid)
    /\ ~MayRefresh
    /\ token[r].kid \in keys
    /\ Return(r, token[r], TRUE)
    /\ Unlock
    /\ UNCHANGED <<now, cacheVars, token, startedAt, answer, issuerVars>>

\* A key id the cache does not know, too soon after a refresh.
Throttled(r) ==
    /\ pc[r] = "waiting"
    /\ Holds(r)
    /\ ~Cached(token[r].kid)
    /\ ~MayRefresh
    /\ Return(r, token[r], token[r].kid \in keys)
    /\ Unlock
    /\ UNCHANGED <<now, cacheVars, token, startedAt, answer, issuerVars>>

StartRefresh(r) ==
    /\ pc[r] = "waiting"
    /\ Holds(r)
    /\ ~Cached(token[r].kid)
    /\ MayRefresh
    /\ pc' = [pc EXCEPT ![r] = "fetching"]
    /\ startedAt' = [startedAt EXCEPT ![r] = now]
    /\ UNCHANGED <<now, cacheVars, queue, token, answer, result, issuerVars>>

\* The issuer answers the request's fetch with the keys of that moment.
Serve(r) ==
    /\ pc[r] = "fetching"
    /\ answer' = [answer EXCEPT ![r] = published]
    /\ pc' = [pc EXCEPT ![r] = "served"]
    /\ UNCHANGED <<now, cacheVars, queue, token, startedAt, result, issuerVars>>

\* Faulty variant: the lifetime runs from the arrival of the keys.
ExpiryOnArrival(r) == now + TTL

\* The lifetime of the keys that have arrived.
Expiry(r) == startedAt[r] + TTL

\* Faulty variant: the interval runs from the arrival of the keys.
RefreshedOnArrival(r) == now

RefreshedAt(r) == startedAt[r]

Refresh(r) ==
    /\ pc[r] = "served"
    /\ keys' = answer[r]
    /\ expiresAt' = Expiry(r)
    /\ lastRefreshAt' = RefreshedAt(r)
    /\ Return(r, token[r], token[r].kid \in answer[r])
    /\ EndFetch(r)
    /\ Unlock
    /\ UNCHANGED <<now, token, issuerVars>>

\* A timeout, an HTTP error or a payload without keys leaves the cache as it
\* was and raises InvalidTokenError.
RefreshFails(r) ==
    /\ pc[r] \in {"fetching", "served"}
    /\ pc' = [pc EXCEPT ![r] = "failed"]
    /\ result' = [result EXCEPT ![r] = "invalid"]
    /\ EndFetch(r)
    /\ Unlock
    /\ UNCHANGED <<now, cacheVars, token, issuerVars>>

\* The request is over; the next one begins.
Leave(r) ==
    /\ pc[r] \in {"done", "failed"}
    /\ pc' = [pc EXCEPT ![r] = "new"]
    /\ token' = [token EXCEPT ![r] = NoToken]
    /\ result' = [result EXCEPT ![r] = "none"]
    /\ UNCHANGED <<now, cacheVars, queue, startedAt, answer, issuerVars>>

\* The issuer publishes a new key or withdraws one, never its last.
Rotate(k) ==
    /\ rotations < MaxRotations
    /\ published' \in {published \cup {k}, published \ {k}} \ {published, {}}
    /\ since' = [since EXCEPT ![k] = now]
    /\ rotations' = rotations + 1
    /\ UNCHANGED <<now, cacheVars, queue, pc, token, startedAt, answer, result>>

\* A fetch that lasts longer than its timeout is an error.
Tick ==
    /\ now < MaxTime
    /\ \A r \in Requests :
          pc[r] \in {"fetching", "served"} => now - startedAt[r] < Timeout
    /\ now' = now + 1
    /\ UNCHANGED <<cacheVars, queue, pc, token, startedAt, answer, result, issuerVars>>

Arrive(r) == \E t \in Tokens : Hit(r, t) \/ Miss(r, t)

GetKey(r) ==
    \/ LockedHit(r) \/ Throttled(r) \/ StartRefresh(r)
    \/ Serve(r) \/ Refresh(r) \/ RefreshFails(r)

Next ==
    \/ \E r \in Requests : Arrive(r) \/ GetKey(r) \/ Leave(r)
    \/ \E k \in Keys : Rotate(k)
    \/ Tick

\* A coroutine that can go on does, and a fetch ends with its timeout.  When
\* a request arrives is up to its client.
Spec == Init /\ [][Next]_vars
FairSpec == Spec /\ \A r \in Requests : WF_vars(GetKey(r))

-----------------------------------------------------------------------------
(* Properties                                                              *)

TypeOK ==
    /\ now \in 0 .. MaxTime
    /\ keys \subseteq Keys
    /\ expiresAt \in Int
    /\ lastRefreshAt \in LongAgo .. now
    /\ pc \in [Requests -> {"new", "waiting", "fetching", "served", "failed", "done"}]
    /\ token \in [Requests -> Token \cup {NoToken}]
    /\ result \in [Requests -> Results]
    /\ published \in SUBSET Keys \ {{}}
    /\ {r \in Requests : pc[r] \in {"waiting", "fetching", "served"}}
           = {queue[i] : i \in DOMAIN queue}
    /\ \A r \in Requests : pc[r] \in {"fetching", "served"} => Holds(r)

Answered(r) == pc[r] # "done" /\ pc'[r] = "done"

\* A key the issuer has withdrawn stops opening doors: no token is accepted
\* on it TTL after the withdrawal or later, however long fetches take and
\* whether or not the refreshes in between succeed.
WithdrawnKeysExpire ==
    [][\A r \in Requests :
          Answered(r) /\ result'[r] = "principal"
          => \/ token'[r].kid \in published
             \/ now - since[token'[r].kid] < TTL]_vars

\* A rotation is picked up: get_key answers that it does not know a key the
\* issuer publishes only during the first Interval after its publication.
RotationsPickedUp ==
    [][\A r \in Requests :
          Answered(r) /\ result'[r] = "invalid" /\ token'[r].quality # "forged"
          => \/ token'[r].kid \notin published
             \/ since[token'[r].kid] + Interval > now]_vars

\* Requests share their refreshes: two that succeed begin at least Interval
\* apart, however many requests wait for the lock with unknown key ids.
RefreshesSpaced ==
    [][lastRefreshAt' # lastRefreshAt
       => lastRefreshAt' - lastRefreshAt >= Interval]_vars

\* A request that waits for the lock or for a fetch is answered.
RequestsAnswered ==
    \A r \in Requests : pc[r] = "waiting" ~> pc[r] \in {"done", "failed"}

=============================================================================
