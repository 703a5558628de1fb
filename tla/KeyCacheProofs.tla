--------------------------- MODULE KeyCacheProofs ---------------------------
(***************************************************************************)
(* Proofs about the key cache, for any number of requests, keys and        *)
(* rotations: what an answer of get_key says of the issuer's keys.         *)
(***************************************************************************)
EXTENDS KeyCache, TLAPS

Places == {"new", "waiting", "fetching", "served", "failed", "done"}
Fetching(r) == pc[r] \in {"fetching", "served"}

Types ==
    /\ now \in Nat
    /\ keys \subseteq Keys
    /\ expiresAt \in Int
    /\ lastRefreshAt \in Int
    /\ queue \in Seq(Requests)
    /\ pc \in [Requests -> Places]
    /\ token \in [Requests -> Token \cup {NoToken}]
    /\ \A r \in Requests : pc[r] # "new" => token[r] \in Token
    /\ startedAt \in [Requests -> Nat]
    /\ answer \in [Requests -> SUBSET Keys]
    /\ result \in [Requests -> Results]
    /\ published \subseteq Keys
    /\ since \in [Keys -> Nat]
    /\ \A k \in Keys : since[k] <= now

\* The lock: only the request at the head of the queue fetches.
Exclusive == \A r \in Requests : Fetching(r) => Holds(r)

\* The cache expires TTL after the refresh it is the result of began.
Lifetime ==
    /\ lastRefreshAt <= now
    /\ lastRefreshAt + Interval <= expiresAt
    /\ expiresAt <= lastRefreshAt + TTL

\* A refresh under way began when the one before it was Interval old, and not
\* longer ago than its timeout.
UnderWay ==
    \A r \in Requests : Fetching(r) =>
        /\ lastRefreshAt + Interval <= startedAt[r]
        /\ startedAt[r] <= now
        /\ now <= startedAt[r] + Timeout

\* A set of keys fetched by a refresh that began at "start" differs from the
\* issuer's only by what the issuer has changed since.
Accounted(fetched, start) ==
    \A k \in Keys : (k \in fetched <=> k \in published) \/ start <= since[k]

IInv ==
    /\ Types
    /\ Exclusive
    /\ Lifetime
    /\ UnderWay
    /\ Accounted(keys, lastRefreshAt)
    /\ \A r \in Requests : pc[r] = "served" => Accounted(answer[r], startedAt[r])

-----------------------------------------------------------------------------
(* The invariant holds                                                     *)

\* The times are natural numbers, in the order the provider is configured with.
LEMMA ConstantsTyped ==
    /\ TTL \in Nat /\ Interval \in Nat /\ Timeout \in Nat
    /\ Timeout < Interval /\ Interval <= TTL
BY KeyCacheAssumption

\* An empty cache satisfies the invariant.
LEMMA InvInit == Init => IInv
<1> SUFFICES ASSUME Init PROVE IInv
  OBVIOUS
<1> USE ConstantsTyped DEF Init, LongAgo
<1>1. Types
  BY DEF Types, Places, Results
<1>2. Exclusive /\ UnderWay /\ \A r \in Requests : pc[r] # "served"
  BY DEF Exclusive, UnderWay, Fetching
<1>3. Lifetime
  BY DEF Lifetime
<1>4. Accounted(keys, lastRefreshAt)
  BY DEF Accounted
<1> QED
  BY <1>1, <1>2, <1>3, <1>4 DEF IInv

\* While one request holds the lock no other one fetches.
LEMMA OthersDoNotFetch ==
    ASSUME Exclusive, NEW r \in Requests, Holds(r),
           NEW q \in Requests, q # r
    PROVE  ~Fetching(q)
BY DEF Exclusive, Holds

\* A request that arrives is answered from the cache or queues for the lock.
LEMMA ArriveKeepsInv ==
    ASSUME IInv, NEW r \in Requests, NEW t \in Tokens, Hit(r, t) \/ Miss(r, t)
    PROVE  IInv'
<1> USE DEF IInv
<1>1. t \in Token
  BY TokensAssumption
<1>2. pc[r] = "new" /\ ~Fetching(r)
  BY DEF Hit, Miss, Fetching
<1>3. /\ UNCHANGED <<now, cacheVars, startedAt, answer, issuerVars>>
      /\ token' = [token EXCEPT ![r] = t]
  BY DEF Hit, Miss
<1>4. pc' \in [Requests -> Places] /\ pc'[r] \in {"done", "waiting"}
      /\ \A q \in Requests : q # r => pc'[q] = pc[q]
  BY DEF Hit, Miss, Return, Types, Places
<1>5. result' \in [Requests -> Results]
  BY DEF Hit, Miss, Return, Verdict, Types, Results
<1>6. queue' \in Seq(Requests)
  <2>1. CASE Hit(r, t)
    BY <2>1 DEF Hit, Types
  <2>2. CASE Miss(r, t)
    BY <2>2 DEF Miss, Types
  <2> QED
    BY <2>1, <2>2
<1>7. \A q \in Requests : Holds(q) => Holds(q)'
  <2>1. CASE Hit(r, t)
    BY <2>1 DEF Hit, Holds
  <2>2. CASE Miss(r, t)
    <3>1. queue \in Seq(Requests) /\ queue' = Append(queue, r)
      BY <2>2 DEF Miss, Types
    <3>2. queue # <<>> => queue' # <<>> /\ Head(queue') = Head(queue)
      BY <3>1
    <3> QED
      BY <3>2 DEF Holds
  <2> QED
    BY <2>1, <2>2
<1>8. \A q \in Requests : Fetching(q)' => Fetching(q) /\ q # r
  BY <1>4 DEF Fetching
<1>9. Types'
  BY <1>1, <1>3, <1>4, <1>5, <1>6 DEF Types, cacheVars, issuerVars
<1>10. Exclusive' /\ UnderWay' /\ Lifetime'
  BY <1>3, <1>7, <1>8 DEF Exclusive, UnderWay, Lifetime, cacheVars, issuerVars
<1>11. /\ Accounted(keys, lastRefreshAt)'
       /\ \A q \in Requests : pc'[q] = "served" => Accounted(answer[q], startedAt[q])'
  BY <1>3, <1>4 DEF Accounted, cacheVars, issuerVars
<1> QED
  BY <1>9, <1>10, <1>11

\* The holder of the lock that answers its request leaves nobody fetching.
LEMMA UnlockEndsFetch ==
    ASSUME IInv, NEW r \in Requests, Holds(r), Unlock,
           NEW p \in {"done", "failed"}, pc' = [pc EXCEPT ![r] = p]
    PROVE  /\ queue' \in Seq(Requests)
           /\ pc' \in [Requests -> Places]
           /\ \A q \in Requests : ~Fetching(q)' /\ pc'[q] # "served"
           /\ \A q \in Requests : pc'[q] # "new" => q = r \/ pc[q] # "new"
<1>1. queue \in Seq(Requests) /\ queue # <<>>
  BY DEF IInv, Types, Holds
<1>2. queue' \in Seq(Requests)
  BY <1>1 DEF Unlock
<1>3. pc' \in [Requests -> Places]
  BY DEF IInv, Types, Places
<1>4. \A q \in Requests : q # r => ~Fetching(q)
  BY OthersDoNotFetch DEF IInv
<1>5. \A q \in Requests : pc'[q] = IF q = r THEN p ELSE pc[q]
  BY DEF IInv, Types
<1> QED
  BY <1>2, <1>3, <1>4, <1>5 DEF Fetching

\* An answer from the cache changes nothing but the request and the queue.
LEMMA LockedAnswerKeepsInv ==
    ASSUME IInv, NEW r \in Requests, LockedHit(r) \/ Throttled(r)
    PROVE  IInv'
<1>1. /\ pc[r] = "waiting" /\ Holds(r) /\ Unlock
      /\ pc' = [pc EXCEPT ![r] = "done"]
      /\ UNCHANGED <<now, cacheVars, token, startedAt, answer, issuerVars>>
  BY DEF LockedHit, Throttled, Return
<1>2. /\ queue' \in Seq(Requests)
      /\ pc' \in [Requests -> Places]
      /\ \A q \in Requests : ~Fetching(q)' /\ pc'[q] # "served"
      /\ \A q \in Requests : pc'[q] # "new" => q = r \/ pc[q] # "new"
  BY <1>1, UnlockEndsFetch
<1>3. result' \in [Requests -> Results]
  BY DEF LockedHit, Throttled, Return, Verdict, IInv, Types, Results
<1>4. Types'
  BY <1>1, <1>2, <1>3 DEF IInv, Types, cacheVars, issuerVars
<1>5. Exclusive' /\ UnderWay'
  BY <1>2 DEF Exclusive, UnderWay
<1>6. Lifetime' /\ Accounted(keys, lastRefreshAt)'
  BY <1>1 DEF IInv, Lifetime, Accounted, cacheVars, issuerVars
<1> QED
  BY <1>2, <1>4, <1>5, <1>6 DEF IInv

\* The request that starts a refresh holds the lock, an Interval after the last one.
LEMMA StartRefreshKeepsInv ==
    ASSUME IInv, NEW r \in Requests, StartRefresh(r)
    PROVE  IInv'
<1> USE DEF IInv
<1>1. /\ pc[r] = "waiting" /\ Holds(r) /\ MayRefresh
      /\ pc' = [pc EXCEPT ![r] = "fetching"]
      /\ startedAt' = [startedAt EXCEPT ![r] = now]
      /\ UNCHANGED <<now, cacheVars, queue, token, answer, result, issuerVars>>
  BY DEF StartRefresh
<1>2. \A q \in Requests : q # r => pc'[q] = pc[q] /\ startedAt'[q] = startedAt[q]
  BY <1>1 DEF Types
<1>3. pc'[r] = "fetching" /\ startedAt'[r] = now
  BY <1>1 DEF Types
<1>4. Types'
  BY <1>1 DEF Types, Places, cacheVars, issuerVars
<1>5. Exclusive'
  BY <1>1, <1>2 DEF Exclusive, Fetching, Holds
<1>6. lastRefreshAt + Interval <= now
  BY <1>1, ConstantsTyped DEF MayRefresh, Lifetime, Types
<1>7. UnderWay'
  <2> SUFFICES ASSUME NEW q \in Requests, Fetching(q)'
               PROVE  /\ lastRefreshAt + Interval <= startedAt'[q]
                      /\ startedAt'[q] <= now
                      /\ now <= startedAt'[q] + Timeout
    BY <1>1 DEF UnderWay, cacheVars
  <2>1. CASE q = r
    BY <1>3, <1>6, <2>1, ConstantsTyped DEF Types
  <2>2. CASE q # r
    BY <1>1, <1>2, <2>2 DEF Fetching, UnderWay
  <2> QED
    BY <2>1, <2>2
<1>8. Lifetime' /\ Accounted(keys, lastRefreshAt)'
  BY <1>1 DEF Lifetime, Accounted, cacheVars, issuerVars
<1>9. \A q \in Requests : pc'[q] = "served" => Accounted(answer[q], startedAt[q])'
  BY <1>1, <1>2, <1>3 DEF Accounted, issuerVars
<1> QED
  BY <1>4, <1>5, <1>7, <1>8, <1>9

\* The answer of the issuer has the keys of its moment.
LEMMA ServeKeepsInv ==
    ASSUME IInv, NEW r \in Requests, Serve(r)
    PROVE  IInv'
<1> USE DEF IInv
<1>1. /\ pc[r] = "fetching"
      /\ pc' = [pc EXCEPT ![r] = "served"]
      /\ answer' = [answer EXCEPT ![r] = published]
      /\ UNCHANGED <<now, cacheVars, queue, token, startedAt, result, issuerVars>>
  BY DEF Serve
<1>2. \A q \in Requests : q # r => pc'[q] = pc[q] /\ answer'[q] = answer[q]
  BY <1>1 DEF Types
<1>3. pc'[r] = "served" /\ answer'[r] = published
  BY <1>1 DEF Types
<1>4. Types'
  BY <1>1 DEF Types, Places, cacheVars, issuerVars
<1>5. \A q \in Requests : Fetching(q)' <=> Fetching(q)
  BY <1>1, <1>2, <1>3 DEF Fetching
<1>6. Exclusive' /\ UnderWay' /\ Lifetime'
  BY <1>1, <1>5 DEF Exclusive, UnderWay, Lifetime, Holds, cacheVars, issuerVars
<1>7. Accounted(keys, lastRefreshAt)'
  BY <1>1 DEF Accounted, cacheVars, issuerVars
<1>8. \A q \in Requests : pc'[q] = "served" => Accounted(answer[q], startedAt[q])'
  BY <1>1, <1>2, <1>3 DEF Accounted, issuerVars
<1> QED
  BY <1>4, <1>6, <1>7, <1>8

\* A refresh stores keys that are accounted for since it began.
LEMMA RefreshKeepsInv ==
    ASSUME IInv, NEW r \in Requests, Refresh(r)
    PROVE  IInv'
<1>1. /\ pc[r] = "served" /\ Unlock
      /\ keys' = answer[r] /\ lastRefreshAt' = startedAt[r]
      /\ expiresAt' = startedAt[r] + TTL
      /\ pc' = [pc EXCEPT ![r] = "done"]
      /\ startedAt' = [startedAt EXCEPT ![r] = 0]
      /\ answer' = [answer EXCEPT ![r] = {}]
      /\ UNCHANGED <<now, token, issuerVars>>
  BY DEF Refresh, Return, EndFetch, Expiry, RefreshedAt
<1>2. Holds(r) /\ Fetching(r)
  BY <1>1 DEF IInv, Exclusive, Fetching
<1>3. /\ queue' \in Seq(Requests)
      /\ pc' \in [Requests -> Places]
      /\ \A q \in Requests : ~Fetching(q)' /\ pc'[q] # "served"
      /\ \A q \in Requests : pc'[q] # "new" => q = r \/ pc[q] # "new"
  BY <1>1, <1>2, UnlockEndsFetch
<1>4. result' \in [Requests -> Results]
  BY DEF Refresh, Return, Verdict, IInv, Types, Results
<1>5. answer[r] \subseteq Keys /\ startedAt[r] \in Nat /\ startedAt[r] + TTL \in Int
  BY ConstantsTyped DEF IInv, Types
<1>6. Types'
  <2>1. startedAt' \in [Requests -> Nat] /\ answer' \in [Requests -> SUBSET Keys]
    BY <1>1 DEF IInv, Types
  <2> QED
    BY <1>1, <1>3, <1>4, <1>5, <2>1 DEF IInv, Types, issuerVars
<1>7. Exclusive' /\ UnderWay'
  BY <1>3 DEF Exclusive, UnderWay
<1>8. Lifetime'
  BY <1>1, <1>2, <1>5, ConstantsTyped DEF IInv, UnderWay, Lifetime
<1>9. Accounted(keys, lastRefreshAt)'
  BY <1>1 DEF IInv, Accounted, issuerVars
<1> QED
  BY <1>3, <1>6, <1>7, <1>8, <1>9 DEF IInv

\* A failed refresh leaves the cache as it was.
LEMMA RefreshFailsKeepsInv ==
    ASSUME IInv, NEW r \in Requests, RefreshFails(r)
    PROVE  IInv'
<1>1. /\ pc[r] \in {"fetching", "served"} /\ Unlock
      /\ pc' = [pc EXCEPT ![r] = "failed"]
      /\ result' = [result EXCEPT ![r] = "invalid"]
      /\ startedAt' = [startedAt EXCEPT ![r] = 0]
      /\ answer' = [answer EXCEPT ![r] = {}]
      /\ UNCHANGED <<now, cacheVars, token, issuerVars>>
  BY DEF RefreshFails, EndFetch
<1>2. Holds(r)
  BY <1>1 DEF IInv, Exclusive, Fetching
<1>3. /\ queue' \in Seq(Requests)
      /\ pc' \in [Requests -> Places]
      /\ \A q \in Requests : ~Fetching(q)' /\ pc'[q] # "served"
      /\ \A q \in Requests : pc'[q] # "new" => q = r \/ pc[q] # "new"
  BY <1>1, <1>2, UnlockEndsFetch
<1>4. Types'
  <2>1. /\ startedAt' \in [Requests -> Nat] /\ answer' \in [Requests -> SUBSET Keys]
        /\ result' \in [Requests -> Results]
    BY <1>1 DEF IInv, Types, Results
  <2> QED
    BY <1>1, <1>3, <2>1 DEF IInv, Types, cacheVars, issuerVars
<1>5. Exclusive' /\ UnderWay'
  BY <1>3 DEF Exclusive, UnderWay
<1>6. Lifetime' /\ Accounted(keys, lastRefreshAt)'
  BY <1>1 DEF IInv, Lifetime, Accounted, cacheVars, issuerVars
<1> QED
  BY <1>3, <1>4, <1>5, <1>6 DEF IInv

\* A request that ends leaves the cache and the lock alone.
LEMMA LeaveKeepsInv ==
    ASSUME IInv, NEW r \in Requests, Leave(r)
    PROVE  IInv'
<1> USE DEF IInv
<1>1. /\ pc[r] \in {"done", "failed"}
      /\ pc' = [pc EXCEPT ![r] = "new"]
      /\ token' = [token EXCEPT ![r] = NoToken]
      /\ result' = [result EXCEPT ![r] = "none"]
      /\ UNCHANGED <<now, cacheVars, queue, startedAt, answer, issuerVars>>
  BY DEF Leave
<1>2. \A q \in Requests : pc'[q] = IF q = r THEN "new" ELSE pc[q]
  BY <1>1 DEF Types
<1>3. Types'
  BY <1>1 DEF Types, Places, Results, cacheVars, issuerVars
<1>4. \A q \in Requests : Fetching(q)' => Fetching(q)
  BY <1>2 DEF Fetching
<1>5. Exclusive' /\ UnderWay' /\ Lifetime'
  BY <1>1, <1>4 DEF Exclusive, UnderWay, Lifetime, Holds, cacheVars, issuerVars
<1>6. /\ Accounted(keys, lastRefreshAt)'
      /\ \A q \in Requests : pc'[q] = "served" => Accounted(answer[q], startedAt[q])'
  BY <1>1, <1>2 DEF Accounted, cacheVars, issuerVars
<1> QED
  BY <1>3, <1>5, <1>6

\* A rotation is later than every refresh that has begun.
LEMMA RotateKeepsInv ==
    ASSUME IInv, NEW k \in Keys, Rotate(k)
    PROVE  IInv'
<1> USE DEF IInv
<1>1. /\ published' \in {published \cup {k}, published \ {k}}
      /\ since' = [since EXCEPT ![k] = now]
      /\ UNCHANGED <<now, cacheVars, queue, pc, token, startedAt, answer, result>>
  BY DEF Rotate
<1>2. Types'
  BY <1>1 DEF Types, cacheVars
<1>3. Exclusive' /\ UnderWay' /\ Lifetime'
  BY <1>1 DEF Exclusive, UnderWay, Lifetime, Fetching, Holds, cacheVars
<1>4. ASSUME NEW fetched, NEW start \in Int, start <= now, Accounted(fetched, start)
      PROVE  \A j \in Keys : (j \in fetched <=> j \in published') \/ start <= since'[j]
  <2> SUFFICES ASSUME NEW j \in Keys
               PROVE  (j \in fetched <=> j \in published') \/ start <= since'[j]
    OBVIOUS
  <2>1. CASE j = k
    BY <1>1, <1>4, <2>1 DEF Types
  <2>2. CASE j # k
    <3>1. since'[j] = since[j] /\ (j \in published' <=> j \in published)
      BY <1>1, <2>2 DEF Types
    <3> QED
      BY <1>4, <3>1 DEF Accounted
  <2> QED
    BY <2>1, <2>2
<1>5. Accounted(keys, lastRefreshAt)'
  BY <1>1, <1>4 DEF Accounted, Lifetime, Types, cacheVars
<1>6. ASSUME NEW q \in Requests, pc'[q] = "served"
      PROVE  Accounted(answer[q], startedAt[q])'
  <2>1. /\ pc[q] = "served" /\ answer'[q] = answer[q] /\ startedAt'[q] = startedAt[q]
        /\ startedAt[q] \in Int
    BY <1>1, <1>6 DEF Types
  <2>2. startedAt[q] <= now /\ Accounted(answer[q], startedAt[q])
    BY <2>1 DEF UnderWay, Fetching
  <2> QED
    BY <1>4, <2>1, <2>2 DEF Accounted
<1> QED
  BY <1>2, <1>3, <1>5, <1>6

\* Time passes within the timeout of the fetch under way.
LEMMA TickKeepsInv ==
    ASSUME IInv, Tick
    PROVE  IInv'
<1> USE DEF IInv
<1>1. /\ \A r \in Requests :
            pc[r] \in {"fetching", "served"} => now - startedAt[r] < Timeout
      /\ now' = now + 1
      /\ UNCHANGED <<cacheVars, queue, pc, token, startedAt, answer, result, issuerVars>>
  BY DEF Tick
<1>2. now \in Nat /\ Timeout \in Nat
  BY ConstantsTyped DEF Types
<1>3. Types'
  BY <1>1, <1>2 DEF Types, cacheVars, issuerVars
<1>4. Exclusive' /\ Lifetime'
  BY <1>1, <1>2 DEF Exclusive, Lifetime, Fetching, Holds, Types, cacheVars
<1>5. UnderWay'
  <2> SUFFICES ASSUME NEW r \in Requests, Fetching(r)
               PROVE  /\ lastRefreshAt + Interval <= startedAt[r]
                      /\ startedAt[r] <= now + 1
                      /\ now + 1 <= startedAt[r] + Timeout
    BY <1>1 DEF UnderWay, Fetching, cacheVars
  <2>1. startedAt[r] \in Nat /\ now - startedAt[r] < Timeout
    BY <1>1 DEF Fetching, Types
  <2> QED
    BY <1>2, <2>1 DEF UnderWay
<1>6. /\ Accounted(keys, lastRefreshAt)'
      /\ \A q \in Requests : pc'[q] = "served" => Accounted(answer[q], startedAt[q])'
  BY <1>1 DEF Accounted, cacheVars, issuerVars
<1> QED
  BY <1>3, <1>4, <1>5, <1>6

\* A step that changes nothing keeps the invariant.
LEMMA StutterKeepsInv == ASSUME IInv, UNCHANGED vars PROVE IInv'
BY DEF IInv, Types, Exclusive, Lifetime, UnderWay, Accounted, Fetching, Holds,
       vars, cacheVars, issuerVars

\* The invariant is inductive.
LEMMA InvNext == IInv /\ [Next]_vars => IInv'
<1> SUFFICES ASSUME IInv, [Next]_vars PROVE IInv'
  OBVIOUS
<1>1. ASSUME NEW r \in Requests, Arrive(r) \/ GetKey(r) \/ Leave(r) PROVE IInv'
  <2>1. CASE Arrive(r)
    BY <2>1, ArriveKeepsInv DEF Arrive
  <2>2. CASE GetKey(r)
    BY <2>2, LockedAnswerKeepsInv, StartRefreshKeepsInv, ServeKeepsInv,
       RefreshKeepsInv, RefreshFailsKeepsInv DEF GetKey
  <2>3. CASE Leave(r)
    BY <2>3, LeaveKeepsInv
  <2> QED
    BY <1>1, <2>1, <2>2, <2>3
<1> QED
  BY <1>1, RotateKeepsInv, TickKeepsInv, StutterKeepsInv DEF Next

\* The cache differs from the issuer's keys only by what the issuer changed
\* since the refresh it comes from began, and one request fetches at a time.
THEOREM KeyCacheInvariant == Spec => []IInv
<1>1. Init => IInv
  BY InvInit
<1>2. IInv /\ [Next]_vars => IInv'
  BY InvNext
<1> QED
  BY <1>1, <1>2, PTL DEF Spec

-----------------------------------------------------------------------------
(* What the answers say                                                    *)

\* Two successful refreshes begin at least Interval apart.
THEOREM RefreshesAreSpaced == Spec => RefreshesSpaced
<1>1. ASSUME IInv, [Next]_vars
      PROVE  [lastRefreshAt' # lastRefreshAt
              => lastRefreshAt' - lastRefreshAt >= Interval]_vars
  <2> SUFFICES ASSUME lastRefreshAt' # lastRefreshAt
               PROVE  lastRefreshAt' - lastRefreshAt >= Interval
    OBVIOUS
  <2>1. PICK r \in Requests : Refresh(r)
    BY <1>1 DEF Next, Arrive, GetKey, Hit, Miss, LockedHit, Throttled, StartRefresh,
             Serve, RefreshFails, Leave, Rotate, Tick, cacheVars, vars
  <2>2. lastRefreshAt' = startedAt[r] /\ Fetching(r)
    BY <2>1 DEF Refresh, RefreshedAt, Fetching
  <2>3. /\ lastRefreshAt + Interval <= startedAt[r]
        /\ lastRefreshAt \in Int /\ startedAt[r] \in Int
    BY <1>1, <2>2 DEF IInv, UnderWay, Types
  <2> QED
    BY <2>2, <2>3, ConstantsTyped
<1>2. Spec => []IInv
  BY KeyCacheInvariant
<1> QED
  BY <1>1, <1>2, PTL DEF Spec, RefreshesSpaced

\* The answer that this step gives request r says whether its key is in a set
\* that a refresh begun at "start" fetched: no longer ago than TTL when it is
\* there, and than Interval when it is not.
AnswerFrom(r, fetched, start) ==
    /\ Accounted(fetched, start)
    /\ result'[r] = Verdict(token'[r], token'[r].kid \in fetched)
    /\ token'[r] \in Token
    /\ token'[r].kid \in fetched => now < start + TTL
    /\ token'[r].kid \notin fetched => now < start + Interval

\* An answer comes from the cache or from the refresh of its request; either
\* way it says whether a set of keys that a recent refresh fetched has the key.
LEMMA AnswersAreRecent ==
    ASSUME IInv, [Next]_vars, NEW r \in Requests, Answered(r)
    PROVE  \E start \in Int, fetched \in SUBSET Keys : AnswerFrom(r, fetched, start)
<1> USE DEF IInv
<1>1. /\ now \in Nat /\ keys \subseteq Keys /\ lastRefreshAt \in Int /\ expiresAt \in Int
      /\ result \in [Requests -> Results] /\ token \in [Requests -> Token \cup {NoToken}]
      /\ pc \in [Requests -> Places]
  BY DEF Types
<1>2. expiresAt <= lastRefreshAt + TTL
  BY DEF Lifetime
<1>3. CASE \E t \in Tokens : Hit(r, t)
  <2>1. PICK t \in Tokens : Hit(r, t)
    BY <1>3
  <2>2. t \in Token /\ token'[r] = t /\ result'[r] = Verdict(t, TRUE) /\ Cached(t.kid)
    BY <1>1, <2>1, TokensAssumption DEF Hit, Return
  <2>3. AnswerFrom(r, keys, lastRefreshAt)
    BY <1>1, <1>2, <2>2, ConstantsTyped DEF AnswerFrom, Cached, Verdict
  <2> QED
    BY <1>1, <2>3
<1>4. CASE LockedHit(r)
  <2>1. /\ token'[r] \in Token /\ token' = token
        /\ result'[r] = Verdict(token[r], TRUE) /\ Cached(token[r].kid)
    BY <1>1, <1>4 DEF LockedHit, Return, Types
  <2>2. AnswerFrom(r, keys, lastRefreshAt)
    BY <1>1, <1>2, <2>1, ConstantsTyped DEF AnswerFrom, Cached, Verdict
  <2> QED
    BY <1>1, <2>2
<1>5. CASE Throttled(r)
  <2>1. /\ token'[r] \in Token /\ token' = token
        /\ result'[r] = Verdict(token[r], token[r].kid \in keys)
        /\ now < lastRefreshAt + Interval
    BY <1>1, <1>5, ConstantsTyped DEF Throttled, Return, Types, MayRefresh
  <2>2. AnswerFrom(r, keys, lastRefreshAt)
    BY <1>1, <2>1, ConstantsTyped DEF AnswerFrom
  <2> QED
    BY <1>1, <2>2
<1>6. CASE Refresh(r)
  <2>1. /\ pc[r] = "served" /\ token' = token /\ token'[r] \in Token
        /\ result'[r] = Verdict(token[r], token[r].kid \in answer[r])
    BY <1>1, <1>6 DEF Refresh, Return, Types
  <2>2. /\ answer[r] \in SUBSET Keys /\ startedAt[r] \in Int
        /\ Accounted(answer[r], startedAt[r])
    BY <2>1 DEF Types
  <2>3. now <= startedAt[r] + Timeout
    BY <2>1 DEF UnderWay, Fetching
  <2>4. AnswerFrom(r, answer[r], startedAt[r])
    BY <1>1, <2>1, <2>2, <2>3, ConstantsTyped DEF AnswerFrom
  <2> QED
    BY <2>2, <2>4
<1> QED
  <2>1. pc[r] # "done" /\ pc'[r] = "done"
    BY DEF Answered
  <2>2. PICK q \in Requests : Arrive(q) \/ GetKey(q)
    BY <1>1, <2>1 DEF Next, Leave, Rotate, Tick, vars
  <2>3. CASE \E t \in Tokens : Hit(q, t)
    <3>1. q = r
      BY <1>1, <2>1, <2>3 DEF Hit, Return
    <3> QED
      BY <1>3, <2>3, <3>1
  <2>4. ASSUME NEW t \in Tokens, Miss(q, t) PROVE FALSE
    BY <1>1, <2>1, <2>4 DEF Miss
  <2>5. StartRefresh(q) \/ Serve(q) \/ RefreshFails(q) => FALSE
    BY <1>1, <2>1 DEF StartRefresh, Serve, RefreshFails
  <2>6. LockedHit(q) \/ Throttled(q) \/ Refresh(q) => q = r
    BY <1>1, <2>1 DEF LockedHit, Throttled, Refresh, Return
  <2> QED
    BY <1>4, <1>5, <1>6, <2>2, <2>3, <2>4, <2>5, <2>6 DEF Arrive, GetKey

\* No token is accepted on a key TTL after the issuer withdrew it.
THEOREM WithdrawnKeysAreRefused == Spec => WithdrawnKeysExpire
<1>1. ASSUME IInv, [Next]_vars,
             NEW r \in Requests, Answered(r), result'[r] = "principal"
      PROVE  token'[r].kid \in published \/ now - since[token'[r].kid] < TTL
  <2>1. PICK start \in Int, fetched \in SUBSET Keys : AnswerFrom(r, fetched, start)
    BY <1>1, AnswersAreRecent
  <2>2. token'[r].kid \in fetched
    BY <1>1, <2>1 DEF AnswerFrom, Verdict
  <2>3. token'[r].kid \in published \/ start <= since[token'[r].kid]
    BY <2>1, <2>2 DEF AnswerFrom, Accounted
  <2>4. now \in Int /\ since[token'[r].kid] \in Int
    BY <1>1, <2>2 DEF IInv, Types
  <2> QED
    BY <2>1, <2>2, <2>3, <2>4, ConstantsTyped DEF AnswerFrom
<1>2. IInv /\ [Next]_vars
      => [\A r \in Requests :
              Answered(r) /\ result'[r] = "principal"
              => \/ token'[r].kid \in published
                 \/ now - since[token'[r].kid] < TTL]_vars
  BY <1>1
<1>3. Spec => []IInv
  BY KeyCacheInvariant
<1> QED
  BY <1>2, <1>3, PTL DEF Spec, WithdrawnKeysExpire

\* A key the issuer published Interval ago is known to every answer.
THEOREM RotationsArePickedUp == Spec => RotationsPickedUp
<1>1. ASSUME IInv, [Next]_vars, NEW r \in Requests, Answered(r),
             result'[r] = "invalid", token'[r].quality # "forged"
      PROVE  token'[r].kid \notin published \/ since[token'[r].kid] + Interval > now
  <2>1. PICK start \in Int, fetched \in SUBSET Keys : AnswerFrom(r, fetched, start)
    BY <1>1, AnswersAreRecent
  <2>2. token'[r].kid \notin fetched
    BY <1>1, <2>1 DEF AnswerFrom, Verdict
  <2> SUFFICES ASSUME token'[r].kid \in published
               PROVE  since[token'[r].kid] + Interval > now
    OBVIOUS
  <2>3. token'[r].kid \in Keys
    BY <1>1, <2>1 DEF AnswerFrom, Token, IInv, Types
  <2>4. start <= since[token'[r].kid]
    BY <2>1, <2>2, <2>3 DEF AnswerFrom, Accounted
  <2>5. now \in Int /\ since[token'[r].kid] \in Int
    BY <1>1, <2>3 DEF IInv, Types
  <2> QED
    BY <2>1, <2>2, <2>4, <2>5, ConstantsTyped DEF AnswerFrom
<1>2. IInv /\ [Next]_vars
      => [\A r \in Requests :
              Answered(r) /\ result'[r] = "invalid" /\ token'[r].quality # "forged"
              => \/ token'[r].kid \notin published
                 \/ since[token'[r].kid] + Interval > now]_vars
  BY <1>1
<1>3. Spec => []IInv
  BY KeyCacheInvariant
<1> QED
  BY <1>2, <1>3, PTL DEF Spec, RotationsPickedUp

=============================================================================
