--------------------------- MODULE SessionsProofs ---------------------------
(***************************************************************************)
(* Theorems about the chat sessions of module Sessions: deletions, reads   *)
(* and listings of requests that interleave call by call and page by page. *)
(* The first part is about the order of an index; then each action is      *)
(* summarised by what it does to the requests, and each conjunct of the    *)
(* inductive invariant is one lemma over these summaries.                  *)
(***************************************************************************)
EXTENDS Sessions, TLAPS, FiniteSetTheorems, WellFoundedInduction

-----------------------------------------------------------------------------
(* The order of an index                                                   *)

\* A set of numbers has a least one.
LEMMA LeastNumber ==
  ASSUME NEW T \in SUBSET Nat, T # {}
  PROVE  \E n \in T : \A m \in T : n <= m
<1> DEFINE R == OpToRel(<,Nat)
<1>1. \A x, y \in Nat : x < y => <<x, y>> \in R
  BY DEF OpToRel
<1>2. IsWellFoundedOn(R, Nat)
  BY NatLessThanWellFounded
<1> HIDE DEF R
<1>3. PICK x \in T : \A y \in T : ~ (<<y, x>> \in R)
  BY <1>2, WFMin
<1>4. ASSUME NEW y \in T PROVE x <= y
  <2>1. x \in Nat /\ y \in Nat
    OBVIOUS
  <2>2. ~(<<y, x>> \in R)
    BY <1>3
  <2>3. ~(y < x)
    BY <1>1, <2>1, <2>2
  <2> QED
    BY <2>1, <2>3
<1> QED
  BY <1>4

Sorted(S) ==
    \E seq \in [1..Cardinality(S) -> S] : ToSet(seq) = S /\ IsDescending(seq)

LEMMA EmptySorted == Sorted({})
<1> DEFINE none == [i \in 1..0 |-> i]
<1>1. Cardinality({}) = 0
  BY FS_EmptySet
<1>2. \A i : i \notin 1..0
  OBVIOUS
<1>3. none \in [1..0 -> {}]
  BY <1>2
<1>4. ToSet(none) = {} /\ IsDescending(none)
  BY <1>2 DEF ToSet, IsDescending
<1> QED
  BY <1>1, <1>3, <1>4 DEF Sorted

\* The least element comes last.
LEMMA LeastComesLast ==
  ASSUME NEW S \in SUBSET Nat, NEW n \in Nat, IsFiniteSet(S), Cardinality(S) = n + 1,
         NEW least \in S, \A s \in S : least <= s,
         Cardinality(S \ {least}) = n, Sorted(S \ {least})
  PROVE  Sorted(S)
<1> DEFINE T == S \ {least}
<1>1. PICK f \in [1..n -> T] : ToSet(f) = T /\ IsDescending(f)
  BY DEF Sorted
<1> DEFINE g == [i \in 1..(n + 1) |-> IF i = n + 1 THEN least ELSE f[i]]
<1>2. \A i \in 1..(n + 1) : i # n + 1 => i \in 1..n
  OBVIOUS
<1>3. \A i \in 1..n : i \in 1..(n + 1) /\ i # n + 1
  OBVIOUS
<1>4. n + 1 \in 1..(n + 1)
  OBVIOUS
<1>5. g[n + 1] = least
  BY <1>4
<1>6. \A i \in 1..n : g[i] = f[i] /\ f[i] \in T
  BY <1>1, <1>3
<1>7. g \in [1..(n + 1) -> S]
  BY <1>2, <1>5, <1>6
<1>8. DOMAIN g = 1..(n + 1) /\ DOMAIN f = 1..n
  BY <1>1
<1> HIDE DEF g
<1>9. ToSet(g) = S
  <2>1. ASSUME NEW s \in S PROVE s \in ToSet(g)
    <3>1. CASE s = least
      BY <1>4, <1>5, <1>8, <3>1 DEF ToSet
    <3>2. CASE s # least
      <4>1. PICK i \in 1..n : s = f[i]
        BY <1>1, <1>8, <3>2 DEF ToSet
      <4> QED
        BY <1>3, <1>6, <1>8, <4>1 DEF ToSet
    <3> QED
      BY <3>1, <3>2
  <2>2. ToSet(g) \subseteq S
    BY <1>7, <1>8 DEF ToSet
  <2> QED
    BY <2>1, <2>2
<1>10. IsDescending(g)
  <2> SUFFICES ASSUME NEW i \in 1..(n + 1), NEW j \in 1..(n + 1), i < j PROVE g[i] > g[j]
    BY <1>8 DEF IsDescending
  <2>1. i \in 1..n
    OBVIOUS
  <2>2. CASE j = n + 1
    <3>1. f[i] \in S /\ f[i] # least
      BY <1>6, <2>1
    <3>2. least <= f[i] /\ least \in Nat /\ f[i] \in Nat
      BY <3>1
    <3> QED
      BY <1>5, <1>6, <2>1, <2>2, <3>1, <3>2
  <2>3. CASE j # n + 1
    <3>1. j \in 1..n
      BY <2>3
    <3> QED
      BY <1>1, <1>6, <1>8, <2>1, <3>1 DEF IsDescending
  <2> QED
    BY <2>2, <2>3
<1> QED
  BY <1>7, <1>9, <1>10 DEF Sorted

\* Every finite set of numbers can be put in descending order.
LEMMA SortedExists ==
  ASSUME NEW E \in SUBSET Nat, IsFiniteSet(E)
  PROVE  Sorted(E)
<1> DEFINE Unsorted == {n \in Nat : \E S \in SUBSET E : Cardinality(S) = n /\ ~Sorted(S)}
<1> SUFFICES ASSUME ~Sorted(E) PROVE FALSE
  OBVIOUS
<1>1. \A S \in SUBSET E : IsFiniteSet(S) /\ Cardinality(S) \in Nat /\ S \in SUBSET Nat
  BY FS_Subset, FS_CardinalityType
<1>2. Cardinality(E) \in Unsorted
  BY <1>1
<1>3. PICK n \in Unsorted : \A m \in Unsorted : n <= m
  <2>1. Unsorted \in SUBSET Nat /\ Unsorted # {}
    BY <1>2
  <2> QED
    BY <2>1, LeastNumber
<1>4. PICK S \in SUBSET E : Cardinality(S) = n /\ ~Sorted(S)
  OBVIOUS
<1>5. S # {}
  BY <1>4, EmptySorted
<1>6. PICK least \in S : \A s \in S : least <= s
  <2>1. S \in SUBSET Nat
    BY <1>1
  <2> QED
    BY <1>5, <2>1, LeastNumber
<1>7. Cardinality(S \ {least}) = n - 1
  BY <1>1, <1>4, FS_RemoveElement
<1>8. S \ {least} \in SUBSET E /\ n \in Nat
  OBVIOUS
<1>9. n - 1 \in Nat
  BY <1>1, <1>7, <1>8
<1>10. n - 1 \notin Unsorted
  <2>1. ~(n <= n - 1)
    BY <1>8
  <2> QED
    BY <1>3, <2>1
<1>11. Sorted(S \ {least})
  BY <1>7, <1>8, <1>9, <1>10
<1>12. Cardinality(S) = (n - 1) + 1
  BY <1>4, <1>8
<1>13. S \in SUBSET Nat /\ IsFiniteSet(S)
  BY <1>1
<1> HIDE DEF Unsorted
<1> QED
  BY <1>4, <1>6, <1>7, <1>9, <1>11, <1>12, <1>13, LeastComesLast

\* The entries of an index, from the newest to the oldest.
LEMMA DescendingSorts ==
  ASSUME NEW E \in SUBSET Nat, IsFiniteSet(E)
  PROVE  /\ Cardinality(E) \in Nat
         /\ Descending(E) \in [1..Cardinality(E) -> E]
         /\ Descending(E) \in Seq(E) /\ Len(Descending(E)) = Cardinality(E)
         /\ ToSet(Descending(E)) = E
         /\ IsDescending(Descending(E))
<1>1. Cardinality(E) \in Nat
  BY FS_CardinalityType
<1>2. \E seq \in [1..Cardinality(E) -> E] : ToSet(seq) = E /\ IsDescending(seq)
  BY SortedExists DEF Sorted
<1>3. /\ Descending(E) \in [1..Cardinality(E) -> E]
      /\ ToSet(Descending(E)) = E /\ IsDescending(Descending(E))
  BY <1>2 DEF Descending
<1> QED
  BY <1>1, <1>3

\* The cursor of a first page is beyond every session.
LEMMA NewestIsBeyond ==
  ASSUME NEW s \in Sessions
  PROVE  Newest \in Nat /\ s < Newest
<1>1. Sessions \in SUBSET Nat /\ IsFiniteSet(Sessions)
  BY SessionsAssumption
<1> DEFINE all == Descending(Sessions)
<1>2. /\ Cardinality(Sessions) \in Nat
      /\ all \in [1..Cardinality(Sessions) -> Sessions]
      /\ ToSet(all) = Sessions /\ IsDescending(all)
  BY <1>1, DescendingSorts
<1> HIDE DEF all
<1>3. \A t \in Sessions : \E i \in 1..Cardinality(Sessions) : t = all[i]
  BY <1>2 DEF ToSet
<1>4. 1 \in 1..Cardinality(Sessions)
  BY <1>2, <1>3
<1>5. all[1] \in Sessions
  BY <1>2, <1>4
<1>6. ASSUME NEW t \in Sessions PROVE all[1] >= t
  <2>1. PICK i \in 1..Cardinality(Sessions) : t = all[i]
    BY <1>3
  <2>2. all[1] \in Nat /\ t \in Nat
    BY <1>1, <1>5
  <2>3. i = 1 \/ 1 < i
    OBVIOUS
  <2> QED
    BY <1>2, <1>4, <2>1, <2>2, <2>3 DEF IsDescending
<1>7. Max(Sessions) \in Sessions /\ \A t \in Sessions : Max(Sessions) >= t
  BY <1>5, <1>6 DEF Max
<1>8. Max(Sessions) \in Nat /\ s \in Nat /\ Max(Sessions) >= s
  BY <1>1, <1>7
<1>9. Newest = Max(Sessions) + 1
  BY DEF Newest
<1> HIDE DEF Newest
<1> QED
  BY <1>8, <1>9

\* The page QueryPage reads, when those are the entries left.
PageOf(entries) ==
    SubSeq(Descending(entries), 1, Min({PageSize, Len(Descending(entries))}))

\* A page has the newest of the entries left: all of them, or a full page of those
\* from its last one on.
LEMMA PageIsNewest ==
  ASSUME NEW E \in SUBSET Sessions
  PROVE  /\ PageOf(E) \in Seq(E) /\ Len(PageOf(E)) \in Nat
         /\ IsDescending(PageOf(E))
         /\ HasMore(PageOf(E)) =>
              /\ Len(PageOf(E)) > 0
              /\ \A s \in ToSet(PageOf(E)) : s >= PageOf(E)[Len(PageOf(E))]
              /\ \A s \in E : s >= PageOf(E)[Len(PageOf(E))] => s \in ToSet(PageOf(E))
         /\ ~HasMore(PageOf(E)) => ToSet(PageOf(E)) = E
<1> DEFINE n == Cardinality(E)
           rest == Descending(E)
           page == PageOf(E)
           k == Min({PageSize, n})
<1>1. E \in SUBSET Nat /\ IsFiniteSet(E)
  BY SessionsAssumption, FS_Subset
<1>2. /\ n \in Nat
      /\ rest \in [1..n -> E] /\ rest \in Seq(E) /\ Len(rest) = n
      /\ ToSet(rest) = E /\ IsDescending(rest)
  BY <1>1, DescendingSorts
<1>3. PageSize \in Nat /\ PageSize > 0
  BY SessionsAssumption
<1>4. k \in {PageSize, n} /\ k <= PageSize /\ k <= n
  <2>1. \E x \in {PageSize, n} : \A y \in {PageSize, n} : x <= y
    BY <1>2, <1>3
  <2>2. k \in {PageSize, n} /\ \A y \in {PageSize, n} : k <= y
    BY <2>1 DEF Min
  <2> QED
    BY <2>2
<1>5. k \in Nat
  BY <1>2, <1>3, <1>4
<1>6. page = SubSeq(rest, 1, k)
  BY <1>2 DEF PageOf
<1> HIDE DEF n, rest, page, k
<1>7. page = [i \in 1..k |-> rest[i]]
  BY <1>2, <1>4, <1>5, <1>6
<1>8. page \in Seq(E) /\ Len(page) = k /\ DOMAIN page = 1..k
  <2>1. \A i \in 1..k : i \in 1..n
    BY <1>2, <1>4, <1>5
  <2>2. page \in [1..k -> E]
    BY <1>2, <1>7, <2>1
  <2> QED
    BY <1>5, <2>2
<1>9. \A i \in 1..k : i \in 1..n /\ page[i] = rest[i] /\ rest[i] \in Nat
  <2> SUFFICES ASSUME NEW i \in 1..k PROVE i \in 1..n /\ page[i] = rest[i] /\ rest[i] \in Nat
    OBVIOUS
  <2>1. i \in 1..n
    BY <1>2, <1>4, <1>5
  <2>2. page[i] = rest[i]
    BY <1>7
  <2>3. rest[i] \in E
    BY <1>2, <2>1
  <2> QED
    BY <1>1, <2>1, <2>2, <2>3
<1>10. DOMAIN rest = 1..n
  BY <1>2
<1>11. IsDescending(page)
  BY <1>2, <1>8, <1>9, <1>10 DEF IsDescending
<1>12. ToSet(rest) = {rest[i] : i \in 1..n} /\ ToSet(page) = {page[i] : i \in 1..k}
  BY <1>8, <1>10 DEF ToSet
<1>13. ASSUME HasMore(page)
       PROVE  /\ k > 0
              /\ \A s \in ToSet(page) : s >= page[k]
              /\ \A s \in E : s >= page[k] => s \in ToSet(page)
  <2>1. k = PageSize
    BY <1>8, <1>13 DEF HasMore
  <2>2. k \in 1..k
    BY <1>3, <1>5, <2>1
  <2>3. ASSUME NEW i \in 1..k PROVE page[i] >= page[k]
    <3>1. i = k \/ i < k
      BY <1>5
    <3> QED
      BY <1>8, <1>9, <1>11, <2>2, <3>1 DEF IsDescending
  <2>4. ASSUME NEW s \in E, s >= page[k] PROVE s \in ToSet(page)
    <3>1. PICK i \in 1..n : s = rest[i]
      BY <1>2, <1>12
    <3>2. k < i => rest[k] > rest[i]
      BY <1>2, <1>9, <1>10, <2>2 DEF IsDescending
    <3>3. rest[i] \in Nat /\ rest[k] \in Nat /\ page[k] = rest[k]
      BY <1>1, <1>2, <1>9, <2>2
    <3>4. ~(k < i)
      BY <2>4, <3>1, <3>2, <3>3
    <3>5. i \in 1..k
      BY <1>2, <1>5, <3>4
    <3> QED
      BY <1>9, <1>12, <3>1, <3>5
  <2> QED
    BY <1>3, <1>12, <2>1, <2>3, <2>4
<1>14. ASSUME ~HasMore(page) PROVE ToSet(page) = E
  <2>1. k = n
    BY <1>4, <1>8, <1>14 DEF HasMore
  <2>2. \A i \in 1..k : page[i] = rest[i]
    BY <1>9
  <2>3. {page[i] : i \in 1..k} = {rest[i] : i \in 1..n}
    BY <2>1, <2>2
  <2> QED
    BY <1>2, <1>12, <2>3
<1> QED
  BY <1>5, <1>8, <1>11, <1>13, <1>14 DEF page

-----------------------------------------------------------------------------
(* What a step does to the requests                                        *)

Untouched(r) == \A q \in Requests \ {r} : req'[q] = req[q]
\* The request is the same, and so is what it has listed.
KeepsIdentity(q) ==
    req'[q].op = req[q].op /\ req'[q].user = req[q].user /\ req'[q].id = req[q].id
KeepsListing(q) ==
    req'[q].cursor = req[q].cursor /\ req'[q].listed = req[q].listed
KeepsRequest(q) ==
    KeepsIdentity(q) /\ KeepsListing(q) /\ req'[q].steady = req[q].steady
Ends(q, a) == req'[q].pc = "done" /\ req'[q].answer = a
Stays(q) == req'[q].pc = req[q].pc /\ req'[q].answer = req[q].answer

RequestsTyped == req \in [Requests -> Request]

LEMMA AnswerEffect ==
  ASSUME RequestsTyped, NEW r \in Requests, NEW a \in Answers, Answer(r, a)
  PROVE  RequestsTyped' /\ Untouched(r) /\ KeepsRequest(r) /\ Ends(r, a)
<1>1. 0 \in 0..(MaxSends - 1) /\ "done" \in Steps
  BY SessionsAssumption DEF Steps
<1>2. req[r] \in Request
  BY DEF RequestsTyped
<1>3. [req[r] EXCEPT !.pc = "done", !.answer = a, !.sends = 0] \in Request
  BY <1>1, <1>2 DEF Request
<1>4. req' = [req EXCEPT ![r] = [req[r] EXCEPT !.pc = "done", !.answer = a, !.sends = 0]]
  BY DEF Answer, RequestsTyped
<1>5. req'[r] = [req[r] EXCEPT !.pc = "done", !.answer = a, !.sends = 0]
  BY <1>4 DEF RequestsTyped
<1>6. RequestsTyped' /\ Untouched(r)
  BY <1>3, <1>4 DEF RequestsTyped, Untouched
<1> QED
  BY <1>2, <1>5, <1>6
  DEF Request, KeepsRequest, KeepsIdentity, KeepsListing, Ends

LEMMA ResendEffect ==
  ASSUME RequestsTyped, NEW r \in Requests, Resend(r)
  PROVE  /\ RequestsTyped' /\ Untouched(r) /\ KeepsRequest(r)
         /\ Ends(r, "error") \/ Stays(r)
<1>1. CASE req[r].sends + 1 < MaxSends
  <2>1. req[r] \in Request
    BY DEF RequestsTyped
  <2>2. req[r].sends + 1 \in 0..(MaxSends - 1)
    BY <1>1, <2>1, SessionsAssumption DEF Request
  <2>3. [req[r] EXCEPT !.sends = req[r].sends + 1] \in Request
    BY <2>1, <2>2 DEF Request
  <2>4. req' = [req EXCEPT ![r] = [req[r] EXCEPT !.sends = req[r].sends + 1]]
    BY <1>1 DEF Resend, RequestsTyped
  <2>5. req'[r] = [req[r] EXCEPT !.sends = req[r].sends + 1]
    BY <2>4 DEF RequestsTyped
  <2>6. RequestsTyped' /\ Untouched(r)
    BY <2>3, <2>4 DEF RequestsTyped, Untouched
  <2> QED
    BY <2>1, <2>5, <2>6
    DEF Request, KeepsRequest, KeepsIdentity, KeepsListing, Stays
<1>2. CASE ~(req[r].sends + 1 < MaxSends)
  <2>1. Answer(r, "error") /\ "error" \in Answers
    BY <1>2 DEF Resend, Answers
  <2> QED
    BY <2>1, AnswerEffect
<1> QED
  BY <1>1, <1>2

\* PutSession: the caller sees a success, an error, or has its call sent again.
LEMMA PutEffect ==
  ASSUME RequestsTyped, NEW r \in Requests, PutSession(r)
  PROVE  /\ RequestsTyped' /\ Untouched(r) /\ KeepsRequest(r)
         /\ Ends(r, "created") \/ Ends(r, "error") \/ Stays(r)
<1>1. "created" \in Answers
  BY DEF Answers
<1>2. Answer(r, "created") \/ Resend(r)
  BY DEF PutSession
<1> QED
  BY <1>1, <1>2, AnswerEffect, ResendEffect

\* ReadSession: a request answers, or a deletion goes on.
LEMMA ReadEffect ==
  ASSUME RequestsTyped, NEW r \in Requests, ReadSession(r)
  PROVE  /\ RequestsTyped' /\ Untouched(r) /\ KeepsRequest(r)
         /\ \/ /\ Ends(r, "not_found")
               /\ \/ table[req[r].id] = Absent
                  \/ ~Permitted(req[r].op, req[r].user, table[req[r].id])
            \/ Ends(r, "found")
            \/ req[r].op # "get" /\ req'[r].pc = "delete" /\ req'[r].answer = req[r].answer
<1> DEFINE refused == \/ table[req[r].id] = Absent
                      \/ ~Permitted(req[r].op, req[r].user, table[req[r].id])
<1>1. {"not_found", "found"} \subseteq Answers /\ "delete" \in Steps
  BY DEF Answers, Steps
<1>2. CASE refused
  <2>1. Answer(r, "not_found")
    BY <1>2 DEF ReadSession, Read
  <2> QED
    BY <1>1, <1>2, <2>1, AnswerEffect
<1>3. CASE ~refused /\ req[r].op = "get"
  <2>1. Answer(r, "found")
    BY <1>3 DEF ReadSession, Read
  <2> QED
    BY <1>1, <2>1, AnswerEffect
<1>4. CASE ~refused /\ req[r].op # "get"
  <2>1. req' = [req EXCEPT ![r].pc = "delete"]
    BY <1>4 DEF ReadSession, Read
  <2>2. req[r] \in Request
    BY DEF RequestsTyped
  <2>3. [req[r] EXCEPT !.pc = "delete"] \in Request
    BY <1>1, <2>2 DEF Request
  <2>4. req' = [req EXCEPT ![r] = [req[r] EXCEPT !.pc = "delete"]]
    BY <2>1 DEF RequestsTyped
  <2>5. req'[r] = [req[r] EXCEPT !.pc = "delete"]
    BY <2>4 DEF RequestsTyped
  <2>6. RequestsTyped' /\ Untouched(r)
    BY <2>3, <2>4 DEF RequestsTyped, Untouched
  <2> QED
    BY <1>4, <2>2, <2>5, <2>6
    DEF Request, KeepsRequest, KeepsIdentity, KeepsListing
<1> QED
  BY <1>2, <1>3, <1>4

\* DeleteSession: a deletion is answered for only when there was an item.
LEMMA DeleteEffect ==
  ASSUME RequestsTyped, NEW r \in Requests, DeleteSession(r)
  PROVE  /\ RequestsTyped' /\ Untouched(r) /\ KeepsRequest(r)
         /\ \/ Ends(r, "deleted") /\ table[req[r].id] # Absent
            \/ Ends(r, "not_found") \/ Ends(r, "error") \/ Stays(r)
<1>1. {"deleted", "not_found"} \subseteq Answers
  BY DEF Answers
<1>2. CASE Resend(r)
  BY <1>2, ResendEffect
<1>3. CASE Answer(r, "deleted") /\ table[req[r].id] # Absent
  BY <1>1, <1>3, AnswerEffect
<1>4. CASE Answer(r, "not_found")
  BY <1>1, <1>4, AnswerEffect
<1> QED
  BY <1>2, <1>3, <1>4 DEF DeleteSession, Deleted

\* CallFails: the request ends with an error, or its call is sent again.
LEMMA FailEffect ==
  ASSUME RequestsTyped, NEW r \in Requests, CallFails(r)
  PROVE  /\ RequestsTyped' /\ Untouched(r) /\ KeepsRequest(r)
         /\ Ends(r, "error") \/ Stays(r)
         /\ req[r].pc # "idle"
<1>1. "error" \in Answers
  BY DEF Answers
<1> QED
  BY <1>1, AnswerEffect, ResendEffect DEF CallFails

\* QueryPage: the page is appended; a full one moves the cursor, another one ends the
\* listing.
LEMMA QueryEffect ==
  ASSUME RequestsTyped, NEW r \in Requests, QueryPage(r)
  PROVE  /\ RequestsTyped' /\ Untouched(r) /\ KeepsIdentity(r)
         /\ req'[r].steady = req[r].steady
         /\ req'[r].listed = req[r].listed \o PageOf(FromKey(r))
         /\ IF HasMore(PageOf(FromKey(r)))
            THEN /\ Stays(r)
                 /\ req'[r].cursor = PageOf(FromKey(r))[Len(PageOf(FromKey(r)))]
            ELSE Ends(r, "listed")
<1> DEFINE page == PageOf(FromKey(r))
           listed == req[r].listed \o page
           last == Last(<<req[r].cursor>> \o page)
           more == [req[r] EXCEPT !.listed = listed, !.cursor = last]
           end == [req[r] EXCEPT !.listed = listed, !.cursor = Newest,
                                 !.pc = "done", !.answer = "listed"]
<1>1. req[r] \in Request
  BY DEF RequestsTyped
<1>2. FromKey(r) \in SUBSET Sessions
  BY DEF FromKey, EntriesOf
<1>3. page \in Seq(Sessions) /\ Len(page) \in Nat
  <2>1. page \in Seq(FromKey(r)) /\ Len(page) \in Nat
    BY <1>2, PageIsNewest
  <2> HIDE DEF page
  <2> QED
    BY <1>2, <2>1
<1>4. listed \in Seq(Sessions)
  <2>1. req[r].listed \in Seq(Sessions)
    BY <1>1 DEF Request
  <2> HIDE DEF page
  <2> QED
    BY <1>3, <2>1
<1>5. req' = [req EXCEPT ![r] = IF HasMore(page) THEN more ELSE end]
  BY DEF QueryPage, PageOf
<1>6. HasMore(page) => Len(page) > 0
  BY <1>2, PageIsNewest
<1>7. HasMore(page) => last = page[Len(page)] /\ last \in Sessions
  <2> SUFFICES ASSUME HasMore(page) PROVE last = page[Len(page)] /\ last \in Sessions
    OBVIOUS
  <2>1. req[r].cursor \in Sessions \cup {Newest}
    BY <1>1 DEF Request
  <2>2. Len(page) > 0
    BY <1>6
  <2> DEFINE c == req[r].cursor
             both == <<c>> \o page
  <2> HIDE DEF page, c
  <2>3. page \in Seq(Sessions \cup {c}) /\ <<c>> \in Seq(Sessions \cup {c})
    BY <1>3
  <2>4. both \in Seq(Sessions \cup {c}) /\ Len(both) = 1 + Len(page)
    BY <2>3
  <2>5. both[Len(both)] = page[Len(page)]
    BY <1>3, <2>2, <2>3, <2>4
  <2>6. page[Len(page)] \in Sessions
    BY <1>3, <2>2
  <2> QED
    BY <2>4, <2>5, <2>6 DEF Last, c
<1> HIDE DEF page, listed, last
<1>8. "done" \in Steps /\ "listed" \in Answers
  BY DEF Steps, Answers
<1>9. CASE HasMore(page)
  <2>1. more \in Request
    BY <1>1, <1>4, <1>7, <1>9 DEF Request
  <2>2. req' = [req EXCEPT ![r] = more]
    BY <1>5, <1>9
  <2>3. req'[r] = more /\ Untouched(r)
    BY <2>2 DEF RequestsTyped, Untouched
  <2>4. RequestsTyped'
    BY <2>1, <2>2 DEF RequestsTyped
  <2>5. /\ KeepsIdentity(r) /\ Stays(r) /\ req'[r].steady = req[r].steady
        /\ req'[r].listed = listed /\ req'[r].cursor = last
    BY <1>1, <2>3 DEF Request, KeepsIdentity, Stays
  <2> QED
    BY <1>7, <1>9, <2>3, <2>4, <2>5 DEF page, listed
<1>10. CASE ~HasMore(page)
  <2>1. end \in Request
    BY <1>1, <1>4, <1>8 DEF Request
  <2>2. req' = [req EXCEPT ![r] = end]
    BY <1>5, <1>10
  <2>3. req'[r] = end /\ Untouched(r)
    BY <2>2 DEF RequestsTyped, Untouched
  <2>4. RequestsTyped'
    BY <2>1, <2>2 DEF RequestsTyped
  <2>5. /\ KeepsIdentity(r) /\ Ends(r, "listed") /\ req'[r].steady = req[r].steady
        /\ req'[r].listed = listed
    BY <1>1, <2>3 DEF Request, KeepsIdentity, Ends
  <2> QED
    BY <1>10, <2>3, <2>4, <2>5 DEF page, listed
<1> QED
  BY <1>9, <1>10

\* Create, Open and List begin a request that had not come yet.
Begins(r, op, u, id) ==
    /\ Untouched(r)
    /\ req[r].pc = "idle"
    /\ req'[r].op = op /\ req'[r].user = u /\ req'[r].id = id
    /\ req'[r].listed = <<>> /\ req'[r].answer = "none" /\ req'[r].cursor = Newest

LEMMA IdleRequest == Idle \in Request
<1>1. <<>> \in Seq(Sessions) /\ {} \in SUBSET Sessions
  OBVIOUS
<1>2. 0 \in 0..(MaxSends - 1)
  BY SessionsAssumption
<1>3. {"idle"} \subseteq Steps /\ {"none"} \subseteq Ops /\ {"none"} \subseteq Answers
  BY DEF Steps, Ops, Answers
<1> QED
  BY <1>1, <1>2, <1>3 DEF Idle, Request

LEMMA ArrivesIdle ==
  ASSUME RequestsTyped, NEW r \in Requests, Arrives(r)
  PROVE  req[r].pc = "idle"
BY SessionsAssumption DEF Arrives

LEMMA CreateEffect ==
  ASSUME RequestsTyped, NEW r \in Requests, NEW u \in Users, NEW s \in Sessions,
         Create(r, u, s)
  PROVE  RequestsTyped' /\ Begins(r, "create", u, s) /\ req'[r].pc = "put"
<1> DEFINE new == [Idle EXCEPT !.pc = "put", !.op = "create", !.user = u, !.id = s]
<1>1. "put" \in Steps /\ "create" \in Ops
  BY DEF Steps, Ops
<1>2. new \in Request
  BY <1>1, IdleRequest DEF Request
<1>3. req' = [req EXCEPT ![r] = new]
  BY DEF Create
<1>4. /\ new.pc = "put" /\ new.op = "create" /\ new.user = u /\ new.id = s
      /\ new.listed = <<>> /\ new.answer = "none" /\ new.cursor = Newest
  BY DEF Idle
<1> HIDE DEF new
<1>5. req'[r] = new /\ Untouched(r) /\ RequestsTyped'
  BY <1>2, <1>3 DEF RequestsTyped, Untouched
<1> QED
  BY <1>4, <1>5, ArrivesIdle DEF Create, Begins

LEMMA OpenEffect ==
  ASSUME RequestsTyped, NEW r \in Requests, NEW op \in {"get", "delete"},
         NEW u \in Users, NEW s \in Sessions, Open(r, op, u, s)
  PROVE  RequestsTyped' /\ Begins(r, op, u, s) /\ req'[r].pc = "get"
<1> DEFINE new == [Idle EXCEPT !.pc = "get", !.op = op, !.user = u, !.id = s]
<1>1. "get" \in Steps /\ op \in Ops
  BY DEF Steps, Ops
<1>2. new \in Request
  BY <1>1, IdleRequest DEF Request
<1>3. req' = [req EXCEPT ![r] = new]
  BY DEF Open
<1>4. /\ new.pc = "get" /\ new.op = op /\ new.user = u /\ new.id = s
      /\ new.listed = <<>> /\ new.answer = "none" /\ new.cursor = Newest
  BY DEF Idle
<1> HIDE DEF new
<1>5. req'[r] = new /\ Untouched(r) /\ RequestsTyped'
  BY <1>2, <1>3 DEF RequestsTyped, Untouched
<1> QED
  BY <1>4, <1>5, ArrivesIdle DEF Open, Begins

LEMMA ListEffect ==
  ASSUME RequestsTyped, NEW r \in Requests, NEW u \in Users, List(r, u)
  PROVE  /\ RequestsTyped' /\ Begins(r, "list", u, 0) /\ req'[r].pc = "query"
         /\ req'[r].steady = EntriesOf(u)
<1> DEFINE new == [Idle EXCEPT !.pc = "query", !.op = "list", !.user = u,
                               !.steady = EntriesOf(u)]
<1>1. "query" \in Steps /\ "list" \in Ops /\ EntriesOf(u) \in SUBSET Sessions
  BY DEF Steps, Ops, EntriesOf
<1>2. new \in Request
  BY <1>1, IdleRequest DEF Request
<1>3. req' = [req EXCEPT ![r] = new]
  BY DEF List
<1>4. /\ new.pc = "query" /\ new.op = "list" /\ new.user = u /\ new.id = 0
      /\ new.listed = <<>> /\ new.answer = "none" /\ new.cursor = Newest
      /\ new.steady = EntriesOf(u)
  BY DEF Idle
<1> HIDE DEF new
<1>5. req'[r] = new /\ Untouched(r) /\ RequestsTyped'
  BY <1>2, <1>3 DEF RequestsTyped, Untouched
<1> QED
  BY <1>4, <1>5, ArrivesIdle DEF List, Begins

\* Propagate: a listing no longer counts on the session that changed.
LEMMA PropagateEffect ==
  ASSUME RequestsTyped, NEW s \in Sessions, Propagate(s)
  PROVE  /\ RequestsTyped'
         /\ \A q \in Requests :
              /\ KeepsIdentity(q) /\ KeepsListing(q) /\ Stays(q)
              /\ req'[q].steady = req[q].steady \ {s}
              /\ req[q] = Idle => req'[q] = Idle
<1>1. req' = [q \in Requests |-> [req[q] EXCEPT !.steady = req[q].steady \ {s}]]
  BY DEF Propagate
<1>2. ASSUME NEW q \in Requests
      PROVE  /\ req'[q] = [req[q] EXCEPT !.steady = req[q].steady \ {s}]
             /\ req'[q] \in Request
             /\ KeepsIdentity(q) /\ KeepsListing(q) /\ Stays(q)
             /\ req'[q].steady = req[q].steady \ {s}
             /\ req[q] = Idle => req'[q] = Idle
  <2>1. req[q] \in Request
    BY DEF RequestsTyped
  <2>2. req'[q] = [req[q] EXCEPT !.steady = req[q].steady \ {s}]
    BY <1>1
  <2>3. req'[q] \in Request
    BY <2>1, <2>2 DEF Request
  <2>4. /\ KeepsIdentity(q) /\ KeepsListing(q) /\ Stays(q)
        /\ req'[q].steady = req[q].steady \ {s}
    BY <2>1, <2>2 DEF Request, KeepsIdentity, KeepsListing, Stays
  <2>5. req[q] = Idle => req'[q] = Idle
    <3>1. Idle.steady \ {s} = {}
      BY DEF Idle
    <3>2. [Idle EXCEPT !.steady = {}] = Idle
      BY DEF Idle
    <3> QED
      BY <2>2, <3>1, <3>2
  <2> QED
    BY <2>2, <2>3, <2>4, <2>5
<1>3. RequestsTyped'
  BY <1>1, <1>2 DEF RequestsTyped
<1> QED
  BY <1>2, <1>3

-----------------------------------------------------------------------------
(* The inductive invariant: each conjunct over every step                  *)

\* The steps of a request that has come, and those of the index, leave every request
\* what it was asked for.
Working == (\E r \in Requests : Continue(r) \/ CallFails(r))
             \/ (\E s \in Sessions : Propagate(s))

LEMMA WorkingKeeps ==
  ASSUME RequestsTyped, Working \/ UNCHANGED vars
  PROVE  /\ RequestsTyped' /\ issued' = issued
         /\ \A q \in Requests : KeepsIdentity(q)
<1>1. CASE UNCHANGED vars
  BY <1>1 DEF vars, RequestsTyped, KeepsIdentity
<1>2. ASSUME NEW s \in Sessions, Propagate(s)
      PROVE  RequestsTyped' /\ issued' = issued /\ \A q \in Requests : KeepsIdentity(q)
  BY <1>2, PropagateEffect DEF Propagate
<1>3. ASSUME NEW r \in Requests, Continue(r) \/ CallFails(r)
      PROVE  RequestsTyped' /\ issued' = issued /\ \A q \in Requests : KeepsIdentity(q)
  <2>1. RequestsTyped' /\ Untouched(r) /\ KeepsIdentity(r)
    BY <1>3, PutEffect, ReadEffect, DeleteEffect, QueryEffect, FailEffect
    DEF Continue, KeepsRequest
  <2>2. issued' = issued
    BY <1>3 DEF Continue, PutSession, ReadSession, DeleteSession, QueryPage, CallFails
  <2>3. \A q \in Requests : KeepsIdentity(q)
    BY <2>1 DEF Untouched, KeepsIdentity
  <2> QED
    BY <2>1, <2>2, <2>3
<1> QED
  BY <1>1, <1>2, <1>3 DEF Working

\* What a step that begins a request leaves alone, and what a step may be.
LEMMA StepKinds ==
  ASSUME Next
  PROVE  \/ \E r \in Requests, u \in Users, s \in Sessions : Create(r, u, s)
         \/ \E r \in Requests, op \in {"get", "delete"}, u \in Users, s \in Sessions :
               Open(r, op, u, s)
         \/ \E r \in Requests, u \in Users : List(r, u)
         \/ Working
BY DEF Next, Working

StoresTyped ==
    /\ table \in [Sessions -> Item] /\ index \in [Sessions -> Item]
    /\ puts \in [Sessions -> Nat] /\ removed \subseteq Sessions

LEMMA TypeStep ==
  ASSUME IInv, [Next]_vars
  PROVE  TypeOK'
<1> USE DEF TypeOK, StoresTyped
<1>1. RequestsTyped /\ TypeOK /\ RequestsFormed
  BY DEF IInv, RequestsTyped
<1>2. CASE UNCHANGED vars
  BY <1>1, <1>2 DEF vars, history
<1>3. ASSUME NEW r \in Requests, NEW u \in Users, NEW s \in Sessions, Create(r, u, s)
      PROVE  TypeOK'
  BY <1>1, <1>3, CreateEffect DEF Create, history, RequestsTyped
<1>4. ASSUME NEW r \in Requests, NEW op \in {"get", "delete"}, NEW u \in Users,
             NEW s \in Sessions, Open(r, op, u, s)
      PROVE  TypeOK'
  BY <1>1, <1>4, OpenEffect DEF Open, history, RequestsTyped
<1>5. ASSUME NEW r \in Requests, NEW u \in Users, List(r, u)
      PROVE  TypeOK'
  BY <1>1, <1>5, ListEffect DEF List, history, RequestsTyped
<1>6. CASE Working
  <2>1. RequestsTyped' /\ issued' = issued
    BY <1>1, <1>6, WorkingKeeps
  <2>2. StoresTyped'
    <3>1. ASSUME NEW s \in Sessions, Propagate(s) PROVE StoresTyped'
      BY <1>1, <3>1 DEF Propagate, history
    <3>2. ASSUME NEW r \in Requests, PutSession(r)
          PROVE  StoresTyped'
      <4>1. req[r].op = "create" /\ req[r].user \in Users
        BY <1>1, <3>2 DEF PutSession, RequestsFormed, RequestFormed
      <4>2. req[r].user \in Item
        BY <4>1 DEF Item
      <4>3. table' \in [Sessions -> Item]
        BY <1>1, <3>2, <4>2 DEF PutSession
      <4>4. puts' = [puts EXCEPT ![req[r].id] = puts[req[r].id] + 1]
        BY <3>2 DEF PutSession
      <4>5. req[r].id \in Sessions
        BY <1>1, <4>1 DEF RequestsFormed, RequestFormed
      <4>6. puts \in [Sessions -> Nat]
        BY <1>1
      <4>7. puts[req[r].id] \in Nat
        BY <4>5, <4>6
      <4>8. puts[req[r].id] + 1 \in Nat
        BY <4>7
      <4>9. puts' \in [Sessions -> Nat]
        BY <4>4, <4>6, <4>8
      <4> QED
        BY <1>1, <3>2, <4>3, <4>9 DEF PutSession
    <3>3. ASSUME NEW r \in Requests, DeleteSession(r)
          PROVE  StoresTyped'
      <4>1. req[r].id \in Sessions
        BY <1>1, <3>3 DEF DeleteSession, RequestsFormed, RequestFormed
      <4>2. Absent \in Item
        BY DEF Item
      <4> QED
        BY <1>1, <3>3, <4>1, <4>2 DEF DeleteSession
    <3>4. ASSUME NEW r \in Requests, ReadSession(r) \/ QueryPage(r) \/ CallFails(r)
          PROVE  StoresTyped'
      BY <1>1, <3>4 DEF ReadSession, QueryPage, CallFails, history
    <3> QED
      BY <1>6, <3>1, <3>2, <3>3, <3>4 DEF Working, Continue
  <2> QED
    BY <1>1, <2>1, <2>2 DEF RequestsTyped
<1> QED
  BY <1>2, <1>3, <1>4, <1>5, <1>6, StepKinds

\* Nothing that was issued, put or removed is forgotten.
LEMMA HistoryGrows ==
  ASSUME IInv, [Next]_vars
  PROVE  /\ issued \subseteq issued' /\ removed \subseteq removed'
         /\ \A s \in Sessions : puts[s] > 0 => puts'[s] > 0
<1>1. puts \in [Sessions -> Nat]
  BY DEF IInv, TypeOK
<1>2. ASSUME NEW r \in Requests, PutSession(r)
      PROVE  /\ issued \subseteq issued' /\ removed \subseteq removed'
             /\ \A s \in Sessions : puts[s] > 0 => puts'[s] > 0
  BY <1>1, <1>2 DEF PutSession
<1>3. ASSUME NEW r \in Requests, DeleteSession(r)
      PROVE  issued' = issued /\ removed \subseteq removed' /\ puts' = puts
  BY <1>3 DEF DeleteSession
<1>4. ASSUME NEW r \in Requests, ReadSession(r) \/ QueryPage(r) \/ CallFails(r)
      PROVE  issued' = issued /\ removed' = removed /\ puts' = puts
  BY <1>4 DEF ReadSession, QueryPage, CallFails, history
<1>5. ASSUME NEW s \in Sessions, Propagate(s)
      PROVE  issued' = issued /\ removed' = removed /\ puts' = puts
  BY <1>5 DEF Propagate, history
<1>6. ASSUME NEW r \in Requests, NEW op, NEW u, NEW s,
             Create(r, u, s) \/ Open(r, op, u, s) \/ List(r, u)
      PROVE  issued \subseteq issued' /\ removed' = removed /\ puts' = puts
  BY <1>6 DEF Create, Open, List, history
<1>7. CASE UNCHANGED vars
  BY <1>7 DEF vars, history
<1>8. CASE Working
  BY <1>2, <1>3, <1>4, <1>5, <1>8 DEF Working, Continue
<1> QED
  BY <1>6, <1>7, <1>8, StepKinds

LEMMA PutFacts ==
  ASSUME IInv, NEW r \in Requests, PutSession(r)
  PROVE  /\ req[r].op = "create" /\ req[r].pc = "put"
         /\ req[r].id \in issued /\ req[r].id \in Sessions /\ req[r].user \in Users
         /\ table' = [table EXCEPT ![req[r].id] = req[r].user]
         /\ puts' = [puts EXCEPT ![req[r].id] = puts[req[r].id] + 1]
         /\ table'[req[r].id] = req[r].user /\ req[r].user # Absent
         /\ puts[req[r].id] \in Nat /\ puts'[req[r].id] = puts[req[r].id] + 1
         /\ \A s \in Sessions \ {req[r].id} : table'[s] = table[s] /\ puts'[s] = puts[s]
         /\ index' = index /\ issued' = issued /\ removed' = removed
<1>1. /\ TypeOK /\ RequestFormed(req[r])
  BY DEF IInv, RequestsFormed
<1>2. req[r].op = "create" /\ req[r].pc = "put"
  BY <1>1 DEF PutSession, RequestFormed
<1>3. req[r].id \in issued /\ req[r].id \in Sessions /\ req[r].user \in Users
  BY <1>1, <1>2 DEF RequestFormed, TypeOK
<1>4. /\ table' = [table EXCEPT ![req[r].id] = req[r].user]
      /\ puts' = [puts EXCEPT ![req[r].id] = puts[req[r].id] + 1]
      /\ index' = index /\ issued' = issued /\ removed' = removed
  BY DEF PutSession
<1>5. table \in [Sessions -> Item] /\ puts \in [Sessions -> Nat]
  BY <1>1 DEF TypeOK
<1>6. req[r].user # Absent
  BY <1>3, SessionsAssumption DEF Absent
<1> QED
  BY <1>2, <1>3, <1>4, <1>5, <1>6

LEMMA DeleteFacts ==
  ASSUME IInv, NEW r \in Requests, DeleteSession(r)
  PROVE  /\ req[r].op = "delete" /\ req[r].pc = "delete" /\ req[r].id \in Sessions
         /\ table'[req[r].id] = Absent /\ req[r].id \in removed'
         /\ removed' = removed \cup {req[r].id}
         /\ \A s \in Sessions \ {req[r].id} : table'[s] = table[s]
         /\ index' = index /\ issued' = issued /\ puts' = puts
<1>1. /\ TypeOK /\ RequestFormed(req[r])
  BY DEF IInv, RequestsFormed
<1>2. req[r].op = "delete" /\ req[r].pc = "delete"
  BY <1>1 DEF DeleteSession, RequestFormed
<1>3. req[r].id \in Sessions
  BY <1>1, <1>2 DEF RequestFormed
<1>4. table \in [Sessions -> Item]
  BY <1>1 DEF TypeOK
<1> QED
  BY <1>2, <1>3, <1>4 DEF DeleteSession

\* Every other step but Propagate leaves the records alone.
LEMMA OtherFacts ==
  ASSUME NEW r \in Requests, ReadSession(r) \/ QueryPage(r) \/ CallFails(r)
  PROVE  UNCHANGED <<table, index, issued, puts, removed>>
BY DEF ReadSession, QueryPage, CallFails, history

LEMMA RecordsStep ==
  ASSUME IInv, [Next]_vars
  PROVE  RecordsPut'
<1>1. RecordsPut /\ TypeOK
  BY DEF IInv
<1>2. ASSUME UNCHANGED <<table, index, puts, removed>>, issued \subseteq issued'
      PROVE  RecordsPut'
  BY <1>1, <1>2 DEF RecordsPut
<1>3. ASSUME NEW r \in Requests, PutSession(r) PROVE RecordsPut'
  <2> SUFFICES ASSUME NEW s \in Sessions
               PROVE  /\ table'[s] # Absent \/ index'[s] # Absent => puts'[s] > 0
                      /\ puts'[s] > 0 =>
                           s \in issued' /\ (table'[s] # Absent \/ s \in removed')
    BY DEF RecordsPut, Absent
  <2>1. CASE s = req[r].id
    BY <1>3, <2>1, PutFacts
  <2>2. CASE s # req[r].id
    BY <1>1, <1>3, <2>2, PutFacts DEF RecordsPut
  <2> QED
    BY <2>1, <2>2
<1>4. ASSUME NEW r \in Requests, DeleteSession(r) PROVE RecordsPut'
  <2> SUFFICES ASSUME NEW s \in Sessions
               PROVE  /\ table'[s] # Absent \/ index'[s] # Absent => puts'[s] > 0
                      /\ puts'[s] > 0 =>
                           s \in issued' /\ (table'[s] # Absent \/ s \in removed')
    BY DEF RecordsPut, Absent
  <2>1. CASE s = req[r].id
    BY <1>1, <1>4, <2>1, DeleteFacts DEF RecordsPut
  <2>2. CASE s # req[r].id
    BY <1>1, <1>4, <2>2, DeleteFacts DEF RecordsPut
  <2> QED
    BY <2>1, <2>2
<1>5. ASSUME NEW t \in Sessions, Propagate(t) PROVE RecordsPut'
  <2>1. \A s \in Sessions : index'[s] = index[s] \/ index'[s] = table[s]
    BY <1>1, <1>5 DEF Propagate, TypeOK
  <2> QED
    BY <1>1, <1>5, <2>1 DEF RecordsPut, Propagate, history, Absent
<1>6. ASSUME NEW r \in Requests, ReadSession(r) \/ QueryPage(r) \/ CallFails(r)
      PROVE  RecordsPut'
  BY <1>2, <1>6, OtherFacts
<1>7. ASSUME NEW r \in Requests, NEW op, NEW u, NEW s,
             Create(r, u, s) \/ Open(r, op, u, s) \/ List(r, u)
      PROVE  RecordsPut'
  BY <1>2, <1>7 DEF Create, Open, List, history
<1>8. CASE UNCHANGED vars
  BY <1>2, <1>8 DEF vars, history
<1>9. CASE Working
  BY <1>3, <1>4, <1>5, <1>6, <1>9 DEF Working, Continue
<1> QED
  BY <1>7, <1>8, <1>9, StepKinds

\* A request that this step leaves alone, or sends its call again for, stays as formed
\* as it was.
LEMMA FormedWhenStays ==
  ASSUME IInv, [Next]_vars, NEW q \in Requests,
         KeepsIdentity(q), KeepsListing(q), Stays(q), req[q].pc = "idle" => req'[q] = Idle
  PROVE  RequestFormed(req[q])'
<1>1. RequestFormed(req[q]) /\ issued \subseteq Sessions
  BY DEF IInv, RequestsFormed, TypeOK
<1>2. \A s \in ToSet(req[q].listed) : s \in Sessions
  <2>1. req[q].listed \in Seq(Sessions)
    BY DEF IInv, TypeOK, Request
  <2> QED
    BY <2>1 DEF ToSet
<1> QED
  BY <1>1, <1>2, HistoryGrows DEF RequestFormed, KeepsIdentity, KeepsListing, Stays

LEMMA FormedWhenEnds ==
  ASSUME IInv, [Next]_vars, NEW q \in Requests, KeepsIdentity(q), KeepsListing(q),
         NEW a, a # "listed", Ends(q, a),
         a = "created" => req[q].op = "create" /\ puts'[req[q].id] > 0
  PROVE  RequestFormed(req[q])'
<1>1. RequestFormed(req[q]) /\ issued \subseteq Sessions
  BY DEF IInv, RequestsFormed, TypeOK
<1>2. \A s \in ToSet(req[q].listed) : s \in Sessions
  <2>1. req[q].listed \in Seq(Sessions)
    BY DEF IInv, TypeOK, Request
  <2> QED
    BY <2>1 DEF ToSet
<1> QED
  BY <1>1, <1>2, HistoryGrows DEF RequestFormed, KeepsIdentity, KeepsListing, Ends

\* The sessions of a longer listing are those listed and those of the page.
LEMMA ListedElements ==
  ASSUME NEW S, NEW p \in Seq(S), NEW q \in Seq(S)
  PROVE  /\ p \o q \in Seq(S) /\ ToSet(p \o q) = ToSet(p) \cup ToSet(q)
         /\ ToSet(p) \subseteq S /\ ToSet(q) \subseteq S
<1>1. p \o q \in Seq(S) /\ Len(p \o q) = Len(p) + Len(q)
  OBVIOUS
<1>2. DOMAIN p = 1..Len(p) /\ DOMAIN q = 1..Len(q) /\ DOMAIN (p \o q) = 1..(Len(p) + Len(q))
  BY <1>1
<1>3. Len(p) \in Nat /\ Len(q) \in Nat
  OBVIOUS
<1>4. ASSUME NEW i \in 1..Len(p) PROVE i \in 1..(Len(p) + Len(q)) /\ (p \o q)[i] = p[i]
  BY <1>3
<1>5. ASSUME NEW i \in 1..Len(q)
      PROVE  Len(p) + i \in 1..(Len(p) + Len(q)) /\ (p \o q)[Len(p) + i] = q[i]
  BY <1>3
<1>6. ASSUME NEW i \in 1..(Len(p) + Len(q)), ~(i \in 1..Len(p))
      PROVE  i - Len(p) \in 1..Len(q) /\ (p \o q)[i] = q[i - Len(p)]
  BY <1>3, <1>6
<1>7. ToSet(p) \cup ToSet(q) \subseteq ToSet(p \o q)
  BY <1>2, <1>4, <1>5 DEF ToSet
<1>8. ToSet(p \o q) \subseteq ToSet(p) \cup ToSet(q)
  BY <1>2, <1>4, <1>6 DEF ToSet
<1>9. ToSet(p) \subseteq S /\ ToSet(q) \subseteq S
  BY <1>2 DEF ToSet
<1> QED
  BY <1>1, <1>7, <1>8, <1>9

\* The page is of the sessions of the index, below the cursor.
LEMMA PageTyped ==
  ASSUME NEW r \in Requests
  PROVE  /\ FromKey(r) \in SUBSET Sessions
         /\ PageOf(FromKey(r)) \in Seq(Sessions)
         /\ ToSet(PageOf(FromKey(r))) \subseteq FromKey(r)
<1>1. FromKey(r) \in SUBSET Sessions
  BY DEF FromKey, EntriesOf
<1> DEFINE page == PageOf(FromKey(r))
<1>2. page \in Seq(FromKey(r))
  BY <1>1, PageIsNewest
<1> HIDE DEF page
<1>3. page \in Seq(Sessions) /\ ToSet(page) \subseteq FromKey(r)
  BY <1>1, <1>2 DEF ToSet
<1> QED
  BY <1>1, <1>3 DEF page

LEMMA FormedStep ==
  ASSUME IInv, [Next]_vars
  PROVE  RequestsFormed'
<1>1. RequestsFormed /\ RequestsTyped /\ RecordsPut /\ TypeOK
  BY DEF IInv, TypeOK, RequestsTyped
<1>2. ASSUME NEW q \in Requests, req'[q] = req[q] PROVE RequestFormed(req[q])'
  <2>1. req[q].pc = "idle" => req'[q] = Idle
    BY <1>1, <1>2 DEF RequestsFormed, RequestFormed
  <2> QED
    BY <1>2, <2>1, FormedWhenStays DEF KeepsIdentity, KeepsListing, Stays
<1>3. ASSUME NEW r \in Requests, Untouched(r), RequestFormed(req[r])'
      PROVE  RequestsFormed'
  BY <1>2, <1>3 DEF RequestsFormed, Untouched
<1>4. ASSUME NEW r \in Requests, NEW u \in Users, NEW s \in Sessions, Create(r, u, s)
      PROVE  RequestsFormed'
  <2>1. Begins(r, "create", u, s) /\ req'[r].pc = "put" /\ s \in issued'
    BY <1>1, <1>4, CreateEffect DEF Create
  <2>2. RequestFormed(req[r])'
    BY <2>1 DEF Begins, RequestFormed, ToSet
  <2> QED
    BY <1>3, <2>1, <2>2 DEF Begins
<1>5. ASSUME NEW r \in Requests, NEW op \in {"get", "delete"}, NEW u \in Users,
             NEW s \in Sessions, Open(r, op, u, s)
      PROVE  RequestsFormed'
  <2>1. Begins(r, op, u, s) /\ req'[r].pc = "get"
    BY <1>1, <1>5, OpenEffect
  <2>2. puts[s] > 0
    <3>1. CASE \E q \in Requests : req[q].answer = "created" /\ req[q].id = s
      BY <1>1, <3>1 DEF RequestsFormed, RequestFormed
    <3>2. CASE \E q \in Requests : req[q].answer = "listed" /\ s \in ToSet(req[q].listed)
      BY <1>1, <3>2 DEF RequestsFormed, RequestFormed
    <3> QED
      BY <1>5, <3>1, <3>2 DEF Open, Known
  <2>3. puts'[s] > 0
    BY <2>2, HistoryGrows
  <2>4. RequestFormed(req[r])'
    BY <2>1, <2>3 DEF Begins, RequestFormed, ToSet
  <2> QED
    BY <1>3, <2>1, <2>4 DEF Begins
<1>6. ASSUME NEW r \in Requests, NEW u \in Users, List(r, u)
      PROVE  RequestsFormed'
  <2>1. Begins(r, "list", u, 0) /\ req'[r].pc = "query"
    BY <1>1, <1>6, ListEffect
  <2>2. RequestFormed(req[r])'
    BY <2>1 DEF Begins, RequestFormed, ToSet
  <2> QED
    BY <1>3, <2>1, <2>2 DEF Begins
<1>7. ASSUME NEW r \in Requests, Untouched(r), KeepsRequest(r),
             Ends(r, "deleted") \/ Ends(r, "not_found") \/ Ends(r, "found")
               \/ Ends(r, "error") \/ (Stays(r) /\ req[r].pc # "idle")
      PROVE  RequestsFormed'
  <2>1. KeepsIdentity(r) /\ KeepsListing(r)
    BY <1>7 DEF KeepsRequest
  <2>2. RequestFormed(req[r])'
    BY <1>7, <2>1, FormedWhenEnds, FormedWhenStays
  <2> QED
    BY <1>3, <1>7, <2>2
<1>8. ASSUME NEW r \in Requests, PutSession(r) PROVE RequestsFormed'
  <2>1. /\ Untouched(r) /\ KeepsRequest(r)
        /\ Ends(r, "created") \/ Ends(r, "error") \/ Stays(r)
    BY <1>1, <1>8, PutEffect
  <2>2. CASE Ends(r, "created")
    <3>1. req[r].op = "create" /\ puts'[req[r].id] > 0
      BY <1>8, PutFacts
    <3>2. RequestFormed(req[r])'
      BY <2>1, <2>2, <3>1, FormedWhenEnds DEF KeepsRequest
    <3> QED
      BY <1>3, <2>1, <3>2
  <2>3. req[r].pc # "idle"
    BY <1>8, PutFacts
  <2> QED
    BY <1>7, <2>1, <2>2, <2>3
<1>9. ASSUME NEW r \in Requests, ReadSession(r) PROVE RequestsFormed'
  <2>1. /\ Untouched(r) /\ KeepsRequest(r)
        /\ \/ Ends(r, "not_found") \/ Ends(r, "found")
           \/ req[r].op # "get" /\ req'[r].pc = "delete" /\ req'[r].answer = req[r].answer
    BY <1>1, <1>9, ReadEffect
  <2>2. CASE req[r].op # "get" /\ req'[r].pc = "delete" /\ req'[r].answer = req[r].answer
    <3>1. RequestFormed(req[r]) /\ req[r].pc = "get"
      BY <1>1, <1>9 DEF RequestsFormed, ReadSession
    <3>2. req[r].op = "delete" /\ req[r].answer = "none" /\ req[r].id \in Sessions
      BY <2>2, <3>1 DEF RequestFormed
    <3>3. puts'[req[r].id] > 0
      BY <3>1, <3>2, HistoryGrows DEF RequestFormed
    <3>4. \A s \in ToSet(req[r].listed) : puts'[s] > 0
      <4>1. req[r].listed \in Seq(Sessions)
        BY <1>1 DEF TypeOK, Request
      <4>2. ToSet(req[r].listed) \subseteq Sessions
        BY <4>1 DEF ToSet
      <4> QED
        BY <3>1, <4>2, HistoryGrows DEF RequestFormed
    <3>5. RequestFormed(req[r])'
      BY <2>1, <2>2, <3>1, <3>2, <3>3, <3>4
      DEF RequestFormed, KeepsRequest, KeepsIdentity, KeepsListing
    <3> QED
      BY <1>3, <2>1, <3>5
  <2> QED
    BY <1>7, <2>1, <2>2
<1>10. ASSUME NEW r \in Requests, DeleteSession(r) PROVE RequestsFormed'
  <2>1. req[r].pc # "idle"
    BY <1>10, DeleteFacts
  <2>2. /\ Untouched(r) /\ KeepsRequest(r)
        /\ Ends(r, "deleted") \/ Ends(r, "not_found") \/ Ends(r, "error") \/ Stays(r)
    BY <1>1, <1>10, DeleteEffect
  <2> QED
    BY <1>7, <2>1, <2>2
<1>11. ASSUME NEW r \in Requests, CallFails(r) PROVE RequestsFormed'
  BY <1>1, <1>7, <1>11, FailEffect
<1>12. ASSUME NEW r \in Requests, QueryPage(r) PROVE RequestsFormed'
  <2> DEFINE page == PageOf(FromKey(r))
  <2>1. /\ Untouched(r) /\ KeepsIdentity(r)
        /\ req'[r].listed = req[r].listed \o page
        /\ Stays(r) \/ Ends(r, "listed")
    BY <1>1, <1>12, QueryEffect
  <2>2. RequestFormed(req[r]) /\ req[r].pc = "query"
    BY <1>1, <1>12 DEF RequestsFormed, QueryPage
  <2>3. page \in Seq(Sessions) /\ ToSet(page) \subseteq FromKey(r)
    BY PageTyped
  <2> HIDE DEF page
  <2>4. req[r].listed \in Seq(Sessions)
    BY <1>1 DEF TypeOK, Request
  <2>5. ToSet(req[r].listed) \subseteq Sessions
    BY <2>4 DEF ToSet
  <2>6. req[r].user \in Users
    BY <2>2 DEF RequestFormed
  <2>7. \A s \in FromKey(r) : s \in Sessions /\ puts[s] > 0
    BY <1>1, <2>6, SessionsAssumption DEF FromKey, EntriesOf, RecordsPut, Absent
  <2>8. ToSet(req'[r].listed) = ToSet(req[r].listed) \cup ToSet(page)
    BY <2>1, <2>3, <2>4, ListedElements
  <2>9. \A s \in ToSet(req'[r].listed) : puts'[s] > 0
    BY <2>2, <2>3, <2>5, <2>7, <2>8, HistoryGrows DEF RequestFormed
  <2>10. RequestFormed(req[r])'
    BY <2>1, <2>2, <2>9 DEF RequestFormed, KeepsIdentity, Stays, Ends
  <2> QED
    BY <1>3, <2>1, <2>10
<1>13. ASSUME NEW s \in Sessions, Propagate(s) PROVE RequestsFormed'
  <2>1. \A q \in Requests : /\ KeepsIdentity(q) /\ KeepsListing(q) /\ Stays(q)
                            /\ req[q] = Idle => req'[q] = Idle
    BY <1>1, <1>13, PropagateEffect
  <2>2. \A q \in Requests : req[q].pc = "idle" => req'[q] = Idle
    BY <1>1, <2>1 DEF RequestsFormed, RequestFormed
  <2> QED
    BY <2>1, <2>2, FormedWhenStays DEF RequestsFormed
<1>14. CASE UNCHANGED vars
  BY <1>2, <1>14 DEF vars, RequestsFormed
<1>15. CASE Working
  BY <1>8, <1>9, <1>10, <1>11, <1>12, <1>13, <1>15 DEF Working, Continue
<1> QED
  BY <1>4, <1>5, <1>6, <1>14, <1>15, StepKinds

\* A request is what it was before the step, or begins with it; one that creates a
\* session has a fresh id.
LEMMA IdentityStep ==
  ASSUME IInv, [Next]_vars, NEW q \in Requests
  PROVE  \/ KeepsIdentity(q)
         \/ /\ req[q].answer = "none" /\ req'[q].answer = "none"
            /\ req'[q].op = "create" => req'[q].id \in Sessions \ issued
            /\ \A p \in Requests \ {q} : KeepsIdentity(p)
            /\ UNCHANGED <<table, removed>>
<1>1. RequestsTyped /\ RequestsFormed
  BY DEF IInv, TypeOK, RequestsTyped
<1>2. ASSUME NEW r \in Requests, NEW op, NEW u, NEW id, Begins(r, op, u, id),
             op = "create" => id \in Sessions \ issued, UNCHANGED <<table, removed>>
      PROVE  \/ KeepsIdentity(q)
             \/ /\ req[q].answer = "none" /\ req'[q].answer = "none"
                /\ req'[q].op = "create" => req'[q].id \in Sessions \ issued
                /\ \A p \in Requests \ {q} : KeepsIdentity(p)
                /\ UNCHANGED <<table, removed>>
  <2>1. CASE q = r
    <3>1. req[q].answer = "none"
      BY <1>1, <1>2, <2>1 DEF Begins, RequestsFormed, RequestFormed
    <3>2. \A p \in Requests \ {q} : KeepsIdentity(p)
      BY <1>2, <2>1 DEF Begins, Untouched, KeepsIdentity
    <3> QED
      BY <1>2, <2>1, <3>1, <3>2 DEF Begins
  <2>2. CASE q # r
    BY <1>2, <2>2 DEF Begins, Untouched, KeepsIdentity
  <2> QED
    BY <2>1, <2>2
<1>3. ASSUME NEW r \in Requests, NEW u \in Users, NEW s \in Sessions, Create(r, u, s)
      PROVE  /\ Begins(r, "create", u, s) /\ s \in Sessions \ issued
             /\ UNCHANGED <<table, removed>>
  BY <1>1, <1>3, CreateEffect DEF Create, history
<1>4. ASSUME NEW r \in Requests, NEW op \in {"get", "delete"}, NEW u \in Users,
             NEW s \in Sessions, Open(r, op, u, s)
      PROVE  Begins(r, op, u, s) /\ op # "create" /\ UNCHANGED <<table, removed>>
  BY <1>1, <1>4, OpenEffect DEF Open, history
<1>5. ASSUME NEW r \in Requests, NEW u \in Users, List(r, u)
      PROVE  Begins(r, "list", u, 0) /\ UNCHANGED <<table, removed>>
  BY <1>1, <1>5, ListEffect DEF List, history
<1>6. CASE Working \/ UNCHANGED vars
  BY <1>1, <1>6, WorkingKeeps
<1> QED
  BY <1>2, <1>3, <1>4, <1>5, <1>6, StepKinds

LEMMA CreatedOnceStep ==
  ASSUME IInv, [Next]_vars
  PROVE  CreatedOnce'
<1>1. CreatedOnce /\ RequestsFormed
  BY DEF IInv
<1> SUFFICES ASSUME NEW c \in Requests, NEW d \in Requests, c # d,
                    req'[c].op = "create", req'[d].op = "create",
                    req'[c].id = req'[d].id
             PROVE  FALSE
  BY DEF CreatedOnce
<1>2. CASE KeepsIdentity(c) /\ KeepsIdentity(d)
  BY <1>1, <1>2 DEF CreatedOnce, KeepsIdentity
<1>3. ASSUME NEW a \in {c, d}, ~KeepsIdentity(a) PROVE FALSE
  <2>1. PICK b \in {c, d} : b # a
    OBVIOUS
  <2>2. req'[a].id \notin issued /\ KeepsIdentity(b)
    BY <1>3, <2>1, IdentityStep
  <2>3. req[b].op = "create" /\ req[b].id = req'[a].id
    BY <2>1, <2>2 DEF KeepsIdentity
  <2>4. req[b].id \in issued
    BY <1>1, <2>3 DEF RequestsFormed, RequestFormed
  <2> QED
    BY <2>2, <2>3, <2>4
<1> QED
  BY <1>2, <1>3

\* An id no request has been given is not in the table.
LEMMA FreshIsAbsent ==
  ASSUME IInv, NEW s \in Sessions, s \notin issued
  PROVE  table[s] = Absent /\ puts[s] = 0
<1>1. puts[s] \in Nat
  BY DEF IInv, TypeOK
<1> QED
  BY <1>1 DEF IInv, RecordsPut

LEMMA OwnedStep ==
  ASSUME IInv, [Next]_vars
  PROVE  OwnedByCreator'
<1>1. OwnedByCreator /\ CreatedOnce /\ RequestsFormed /\ RequestsTyped /\ issued \subseteq Sessions
  BY DEF IInv, TypeOK, RequestsTyped
<1> SUFFICES ASSUME NEW c \in Requests,
                    req'[c].op = "create", table'[req'[c].id] # Absent
             PROVE  table'[req'[c].id] = req'[c].user
  BY DEF OwnedByCreator, Absent
<1>2. CASE ~KeepsIdentity(c)
  BY <1>2, IdentityStep, FreshIsAbsent
<1>3. CASE KeepsIdentity(c)
  <2>1. req[c].op = "create" /\ req'[c].id = req[c].id /\ req'[c].user = req[c].user
    BY <1>3 DEF KeepsIdentity
  <2>2. req[c].id \in Sessions
    BY <1>1, <2>1 DEF RequestsFormed, RequestFormed
  <2>3. CASE table'[req[c].id] = table[req[c].id]
    BY <1>1, <2>1, <2>3 DEF OwnedByCreator
  <2>4. ASSUME NEW r \in Requests, PutSession(r)
        PROVE  table'[req[c].id] = table[req[c].id] \/ table'[req[c].id] = req[c].user
    <3>1. CASE req[r].id = req[c].id
      <4>1. r = c
        BY <1>1, <2>1, <2>4, <3>1, PutFacts DEF CreatedOnce
      <4> QED
        BY <2>4, <4>1, PutFacts
    <3>2. CASE req[r].id # req[c].id
      BY <2>2, <2>4, <3>2, PutFacts
    <3> QED
      BY <3>1, <3>2
  <2>5. ASSUME NEW r \in Requests, DeleteSession(r)
        PROVE  table'[req[c].id] = table[req[c].id] \/ table'[req[c].id] = Absent
    BY <2>2, <2>5, DeleteFacts
  <2>6. ASSUME NEW s \in Sessions, Propagate(s) PROVE table' = table
    BY <2>6 DEF Propagate
  <2>7. ASSUME NEW r \in Requests, NEW op, NEW u, NEW s,
               Create(r, u, s) \/ Open(r, op, u, s) \/ List(r, u)
        PROVE  table' = table
    BY <2>7 DEF Create, Open, List
  <2>8. CASE UNCHANGED vars
    BY <2>3, <2>8 DEF vars
  <2>9. CASE Working
    BY <2>1, <2>3, <2>4, <2>5, <2>6, <2>9, OtherFacts DEF Working, Continue
  <2> QED
    BY <2>3, <2>7, <2>8, <2>9, StepKinds
<1> QED
  BY <1>2, <1>3

\* The request counts among the deletions of the session.
Counts(q, s) == req[q].op = "delete" /\ req[q].id = s /\ req[q].answer = "deleted"

LEMMA DeletedBySame ==
  ASSUME NEW s \in Sessions, \A q \in Requests : Counts(q, s)' <=> Counts(q, s)
  PROVE  DeletedBy(s)' = DeletedBy(s)
BY DEF DeletedBy, Requested, Counts

LEMMA CountsSame ==
  ASSUME NEW q \in Requests, NEW s \in Sessions, KeepsIdentity(q),
         req'[q].answer = "deleted" <=> req[q].answer = "deleted"
  PROVE  Counts(q, s)' <=> Counts(q, s)
BY DEF Counts, KeepsIdentity

LEMMA DeletionsStep ==
  ASSUME IInv, [Next]_vars
  PROVE  DeletionsCovered'
<1>1. DeletionsCovered /\ RequestsFormed /\ RequestsTyped /\ TypeOK
  BY DEF IInv, TypeOK, RequestsTyped
<1>2. puts \in [Sessions -> Nat]
  BY <1>1 DEF TypeOK
\* No deletion is answered for.
<1>3. ASSUME NEW s \in Sessions, \A q \in Requests : Counts(q, s)' <=> Counts(q, s),
             \/ table'[s] = table[s] /\ puts'[s] = puts[s]
             \/ table'[s] = Absent /\ puts'[s] = puts[s]
             \/ puts'[s] = puts[s] + 1
      PROVE  /\ IsFiniteSet(DeletedBy(s)')
             /\ Cardinality(DeletedBy(s)') + (IF table'[s] = Absent THEN 0 ELSE 1)
                  <= puts'[s]
  <2>1. DeletedBy(s)' = DeletedBy(s)
    BY <1>3, DeletedBySame
  <2>2. /\ IsFiniteSet(DeletedBy(s))
        /\ Cardinality(DeletedBy(s)) + (IF table[s] = Absent THEN 0 ELSE 1) <= puts[s]
    BY <1>1 DEF DeletionsCovered
  <2>3. Cardinality(DeletedBy(s)) \in Nat /\ puts[s] \in Nat
    BY <1>2, <2>2, FS_CardinalityType
  <2> QED
    BY <1>3, <2>1, <2>2, <2>3
<1>4. ASSUME UNCHANGED <<table, puts>>,
             \A s \in Sessions, q \in Requests : Counts(q, s)' <=> Counts(q, s)
      PROVE  DeletionsCovered'
  BY <1>3, <1>4 DEF DeletionsCovered, Absent
<1>5. ASSUME NEW r \in Requests, Untouched(r), KeepsIdentity(r),
             req'[r].answer = "deleted" <=> req[r].answer = "deleted"
      PROVE  \A s \in Sessions, q \in Requests : Counts(q, s)' <=> Counts(q, s)
  BY <1>5, CountsSame DEF Untouched, KeepsIdentity
\* A request under way has no answer.
<1>6. ASSUME NEW r \in Requests, req[r].pc # "done" PROVE req[r].answer = "none"
  BY <1>1, <1>6 DEF RequestsFormed, RequestFormed
<1>7. ASSUME NEW r \in Requests, PutSession(r) PROVE DeletionsCovered'
  <2>1. req[r].answer = "none"
    BY <1>6, <1>7, PutFacts
  <2>2. \A s \in Sessions, q \in Requests : Counts(q, s)' <=> Counts(q, s)
    BY <1>1, <1>5, <1>7, <2>1, PutEffect DEF KeepsRequest, Ends, Stays
  <2>3. \A s \in Sessions : \/ table'[s] = table[s] /\ puts'[s] = puts[s]
                            \/ puts'[s] = puts[s] + 1
    BY <1>7, PutFacts
  <2> QED
    BY <1>3, <2>2, <2>3 DEF DeletionsCovered, Absent
<1>8. ASSUME NEW r \in Requests, DeleteSession(r) PROVE DeletionsCovered'
  <2>1. req[r].answer = "none" /\ req[r].op = "delete" /\ req[r].id \in Sessions
    BY <1>6, <1>8, DeleteFacts
  <2>2. \A s \in Sessions : /\ table'[s] = table[s] \/ table'[s] = Absent
                            /\ puts'[s] = puts[s]
    BY <1>8, DeleteFacts
  <2>3. /\ Untouched(r) /\ KeepsRequest(r)
        /\ \/ Ends(r, "deleted") /\ table[req[r].id] # Absent
           \/ Ends(r, "not_found") \/ Ends(r, "error") \/ Stays(r)
    BY <1>1, <1>8, DeleteEffect
  <2>4. CASE ~Ends(r, "deleted")
    <3>1. \A s \in Sessions, q \in Requests : Counts(q, s)' <=> Counts(q, s)
      BY <1>5, <2>1, <2>3, <2>4 DEF KeepsRequest, Ends, Stays
    <3> QED
      BY <1>3, <2>2, <3>1 DEF DeletionsCovered, Absent
  <2>5. CASE Ends(r, "deleted")
    <3> SUFFICES ASSUME NEW s \in Sessions
                 PROVE  /\ IsFiniteSet(DeletedBy(s)')
                        /\ Cardinality(DeletedBy(s)') + (IF table'[s] = Absent THEN 0 ELSE 1)
                             <= puts'[s]
      BY DEF DeletionsCovered, Absent
    <3>1. CASE s # req[r].id
      <4>1. \A q \in Requests : Counts(q, s)' <=> Counts(q, s)
        BY <2>3, <3>1 DEF Counts, Untouched, KeepsRequest, KeepsIdentity
      <4> QED
        BY <1>3, <2>2, <4>1
    <3>2. CASE s = req[r].id
      <4>1. table[s] # Absent
        BY <2>1, <2>3, <2>5, <3>2 DEF Ends, Stays
      <4>2. DeletedBy(s)' = DeletedBy(s) \cup {r} /\ r \notin DeletedBy(s)
        BY <2>1, <2>3, <2>5, <3>2
        DEF DeletedBy, Requested, Untouched, KeepsRequest, KeepsIdentity, Ends
      <4>3. /\ IsFiniteSet(DeletedBy(s))
            /\ Cardinality(DeletedBy(s)) + 1 <= puts[s]
        BY <1>1, <4>1 DEF DeletionsCovered
      <4>4. /\ IsFiniteSet(DeletedBy(s)')
            /\ Cardinality(DeletedBy(s)') = Cardinality(DeletedBy(s)) + 1
        BY <4>2, <4>3, FS_AddElement
      <4>5. table'[s] = Absent /\ puts'[s] = puts[s]
        BY <1>8, <2>2, <3>2, DeleteFacts
      <4>6. Cardinality(DeletedBy(s)) \in Nat /\ puts[s] \in Nat
        BY <1>2, <4>3, FS_CardinalityType
      <4> QED
        BY <4>3, <4>4, <4>5, <4>6
    <3> QED
      BY <3>1, <3>2
  <2> QED
    BY <2>4, <2>5
<1>9. ASSUME NEW r \in Requests, ReadSession(r) \/ QueryPage(r) \/ CallFails(r)
      PROVE  DeletionsCovered'
  <2>1. /\ Untouched(r) /\ KeepsIdentity(r)
        /\ Ends(r, "listed") \/ Ends(r, "not_found") \/ Ends(r, "found") \/ Ends(r, "error")
             \/ req'[r].answer = req[r].answer
    BY <1>1, <1>9, ReadEffect, QueryEffect, FailEffect DEF KeepsRequest, Stays
  <2>2. req[r].answer = "none"
    BY <1>6, <1>9 DEF ReadSession, QueryPage, CallFails
  <2>3. \A s \in Sessions, q \in Requests : Counts(q, s)' <=> Counts(q, s)
    BY <1>5, <2>1, <2>2 DEF Ends
  <2> QED
    BY <1>4, <1>9, <2>3, OtherFacts
<1>10. ASSUME NEW t \in Sessions, Propagate(t) PROVE DeletionsCovered'
  <2>1. \A s \in Sessions, q \in Requests : Counts(q, s)' <=> Counts(q, s)
    BY <1>1, <1>10, PropagateEffect, CountsSame DEF Stays
  <2> QED
    BY <1>4, <1>10, <2>1 DEF Propagate, history
<1>11. ASSUME UNCHANGED <<table, puts>>,
              \A q \in Requests : \/ req'[q] = req[q]
                                  \/ req[q].answer = "none" /\ req'[q].answer = "none"
       PROVE  DeletionsCovered'
  BY <1>4, <1>11 DEF Counts
<1>12. ASSUME NEW r \in Requests, NEW op, NEW u, NEW id, Begins(r, op, u, id),
              UNCHANGED <<table, puts>>
       PROVE  DeletionsCovered'
  BY <1>6, <1>11, <1>12 DEF Begins, Untouched
<1>13. CASE \/ \E r \in Requests, u \in Users, s \in Sessions : Create(r, u, s)
            \/ \E r \in Requests, op \in {"get", "delete"}, u \in Users, s \in Sessions :
                  Open(r, op, u, s)
            \/ \E r \in Requests, u \in Users : List(r, u)
  <2>1. UNCHANGED <<table, puts>>
    BY <1>13 DEF Create, Open, List, history
  <2>2. \E r \in Requests : \E op, u, id : Begins(r, op, u, id)
    BY <1>1, <1>13, CreateEffect, OpenEffect, ListEffect
  <2> QED
    BY <1>12, <2>1, <2>2
<1>14. CASE UNCHANGED vars
  BY <1>11, <1>14 DEF vars, history
<1>15. CASE Working
  BY <1>7, <1>8, <1>9, <1>10, <1>15 DEF Working, Continue
<1> QED
  BY <1>13, <1>14, <1>15, StepKinds

\* Who is entitled to a session that has been issued was entitled to it before.
LEMMA EntitledStays ==
  ASSUME IInv, [Next]_vars, NEW s \in issued, NEW u, Entitled(u, s)'
  PROVE  Entitled(u, s)
<1>1. CASE u \in Administrators
  BY <1>1 DEF Entitled
<1>2. CASE u \notin Administrators
  <2>1. PICK c \in Requests : req'[c].op = "create" /\ req'[c].id = s /\ req'[c].user = u
    BY <1>2 DEF Entitled, Requested
  <2>2. KeepsIdentity(c)
    BY <2>1, IdentityStep
  <2> QED
    BY <2>1, <2>2 DEF Entitled, Requested, KeepsIdentity
<1> QED
  BY <1>1, <1>2

NotFound(q) ==
    /\ req[q].op \in {"get", "delete"} /\ req[q].id \in Sessions
    /\ req[q].answer = "not_found" /\ Entitled(req[q].user, req[q].id)

LEMMA NotFoundAlternative == NotFoundMeansDeleted <=>
    \A q \in Requests : NotFound(q) => req[q].id \in removed
BY DEF NotFoundMeansDeleted, NotFound, Requested

LEMMA NotFoundStep ==
  ASSUME IInv, [Next]_vars
  PROVE  NotFoundMeansDeleted'
<1>1. /\ \A q \in Requests : NotFound(q) => req[q].id \in removed
      /\ RequestsFormed /\ RequestsTyped /\ RecordsPut /\ OwnedByCreator
  BY NotFoundAlternative DEF IInv, TypeOK, RequestsTyped
<1> SUFFICES ASSUME NEW q \in Requests, NotFound(q)' PROVE req'[q].id \in removed'
  BY DEF NotFoundMeansDeleted, NotFound, Requested
<1>2. KeepsIdentity(q)
  BY IdentityStep DEF NotFound
<1>3. req[q].op \in {"get", "delete"} /\ req[q].id \in Sessions /\ req'[q].id = req[q].id
  BY <1>2 DEF KeepsIdentity, NotFound
<1>4. req[q].id \in issued /\ puts[req[q].id] > 0
  BY <1>1, <1>3 DEF RequestsFormed, RequestFormed, RecordsPut
<1>5. Entitled(req[q].user, req[q].id)
  <2>1. PICK u : u = req[q].user
    OBVIOUS
  <2>2. PICK s \in issued : s = req[q].id
    BY <1>4
  <2>3. Entitled(u, s)'
    BY <1>2, <2>1, <2>2 DEF NotFound, Entitled, Requested, KeepsIdentity
  <2>4. Entitled(u, s)
    BY <2>3, EntitledStays
  <2> QED
    BY <2>1, <2>2, <2>4
<1>6. CASE req[q].answer = "not_found"
  BY <1>1, <1>3, <1>5, <1>6, HistoryGrows DEF NotFound
\* The answer is given in this step.
<1>7. ASSUME req[q].answer # "not_found"
      PROVE  req[q].id \in removed'
  <2>1. req'[q].answer = "not_found"
    BY DEF NotFound
  <2>2. ASSUME NEW r \in Requests, Untouched(r) PROVE r = q
    BY <1>7, <2>1, <2>2 DEF Untouched
  <2>3. ASSUME NEW r \in Requests, PutSession(r) PROVE FALSE
    <3>1. Untouched(r) /\ r = q
      BY <1>1, <2>2, <2>3, PutEffect
    <3> QED
      BY <1>3, <2>3, <3>1, PutFacts
  <2>4. ASSUME NEW r \in Requests, DeleteSession(r) PROVE req[q].id \in removed'
    <3>1. r = q
      BY <1>1, <2>2, <2>4, DeleteEffect
    <3> QED
      BY <2>4, <3>1, DeleteFacts
  <2>5. ASSUME NEW r \in Requests, ReadSession(r) PROVE req[q].id \in removed'
    <3>1. r = q
      BY <1>1, <2>2, <2>5, ReadEffect
    <3>2. \/ table[req[q].id] = Absent
          \/ ~Permitted(req[q].op, req[q].user, table[req[q].id])
      BY <1>1, <1>7, <2>1, <2>5, <3>1, ReadEffect DEF Ends
    <3>3. CASE table[req[q].id] = Absent
      BY <1>1, <1>3, <1>4, <3>3, HistoryGrows DEF RecordsPut
    <3>4. CASE table[req[q].id] # Absent /\ ~Permitted(req[q].op, req[q].user, table[req[q].id])
      <4>1. req[q].user \notin Administrators /\ table[req[q].id] # req[q].user
        BY <1>3, <3>4, SessionsAssumption DEF Permitted, CanRead, CanDelete
      <4>2. PICK c \in Requests : /\ req[c].op = "create" /\ req[c].id = req[q].id
                                  /\ req[c].user = req[q].user
        BY <1>5, <4>1 DEF Entitled, Requested
      <4>3. table[req[q].id] = req[q].user
        BY <1>1, <3>4, <4>2 DEF OwnedByCreator
      <4> QED
        BY <4>1, <4>3
    <3> QED
      BY <3>2, <3>3, <3>4
  <2>6. ASSUME NEW r \in Requests, QueryPage(r) \/ CallFails(r) PROVE FALSE
    <3>1. r = q
      BY <1>1, <2>2, <2>6, QueryEffect, FailEffect
    <3> QED
      BY <1>1, <1>7, <2>1, <2>6, <3>1, QueryEffect, FailEffect DEF Stays, Ends
  <2>7. ASSUME NEW s \in Sessions, Propagate(s) PROVE FALSE
    BY <1>1, <1>7, <2>1, <2>7, PropagateEffect DEF Stays
  <2>8. CASE UNCHANGED vars
    BY <1>7, <2>1, <2>8 DEF vars
  <2>9. ASSUME NEW r \in Requests, NEW op, NEW u, NEW id, Begins(r, op, u, id)
        PROVE  FALSE
    <3>1. r = q
      BY <2>2, <2>9 DEF Begins
    <3> QED
      BY <2>1, <2>9, <3>1 DEF Begins
  <2>10. CASE \/ \E r \in Requests, u \in Users, s \in Sessions : Create(r, u, s)
              \/ \E r \in Requests, op \in {"get", "delete"}, u \in Users, s \in Sessions :
                    Open(r, op, u, s)
              \/ \E r \in Requests, u \in Users : List(r, u)
    <3>1. \E r \in Requests : \E op, u, id : Begins(r, op, u, id)
      BY <1>1, <2>10, CreateEffect, OpenEffect, ListEffect
    <3> QED
      BY <2>9, <3>1
  <2>11. CASE Working
    BY <2>3, <2>4, <2>5, <2>6, <2>7, <2>11 DEF Working, Continue
  <2> QED
    BY <2>8, <2>10, <2>11, StepKinds
<1> QED
  BY <1>3, <1>6, <1>7

\* A listing that does not move keeps what it has, unless the index changes under it.
LEMMA SoundWhenKept ==
  ASSUME NEW q \in Requests, ListingSound(req[q]), KeepsRequest(q), index' = index,
         req'[q].pc = "query" => req[q].pc = "query",
         req'[q].answer = "listed" => req[q].answer = "listed"
  PROVE  ListingSound(req[q])'
BY DEF ListingSound, KeepsRequest, KeepsIdentity, KeepsListing, EntriesOf

LEMMA SoundWhenBegun ==
  ASSUME NEW r \in Requests, NEW op, NEW u, NEW id, Begins(r, op, u, id),
         req'[r].pc = "query" => req'[r].steady = EntriesOf(u), req'[r].steady \subseteq Sessions,
         index' = index
  PROVE  ListingSound(req[r])'
<1>1. req'[r].listed = <<>> /\ req'[r].cursor = Newest /\ req'[r].user = u
      /\ req'[r].answer = "none"
  BY DEF Begins
<1>2. ToSet(<<>>) = {} /\ IsDescending(<<>>)
  BY DEF ToSet, IsDescending
<1>3. \A s \in Sessions : ~(s >= Newest)
  BY NewestIsBeyond, SessionsAssumption
<1> QED
  BY <1>1, <1>2, <1>3 DEF ListingSound, EntriesOf

\* A descending sequence goes on with a descending one below it.
LEMMA DescendingJoins ==
  ASSUME NEW p \in Seq(Sessions), NEW q \in Seq(Sessions),
         IsDescending(p), IsDescending(q), \A s \in ToSet(p), t \in ToSet(q) : s > t
  PROVE  IsDescending(p \o q)
<1>1. /\ p \o q \in Seq(Sessions) /\ Len(p) \in Nat /\ Len(q) \in Nat
      /\ DOMAIN p = 1..Len(p) /\ DOMAIN q = 1..Len(q)
      /\ DOMAIN (p \o q) = 1..(Len(p) + Len(q))
  OBVIOUS
<1>2. ASSUME NEW i \in 1..(Len(p) + Len(q))
      PROVE  \/ i \in 1..Len(p) /\ (p \o q)[i] = p[i]
             \/ i - Len(p) \in 1..Len(q) /\ (p \o q)[i] = q[i - Len(p)] /\ ~(i \in 1..Len(p))
  BY <1>1
<1> SUFFICES ASSUME NEW i \in 1..(Len(p) + Len(q)), NEW j \in 1..(Len(p) + Len(q)), i < j
             PROVE  (p \o q)[i] > (p \o q)[j]
  BY <1>1 DEF IsDescending
<1>3. CASE j \in 1..Len(p)
  <2>1. i \in 1..Len(p)
    BY <1>1, <1>3
  <2> QED
    BY <1>1, <1>2, <1>3, <2>1 DEF IsDescending
<1>4. CASE i \in 1..Len(p) /\ ~(j \in 1..Len(p))
  <2>1. j - Len(p) \in 1..Len(q) /\ (p \o q)[j] = q[j - Len(p)] /\ (p \o q)[i] = p[i]
    BY <1>1, <1>2, <1>4
  <2>2. p[i] \in ToSet(p) /\ q[j - Len(p)] \in ToSet(q)
    BY <1>1, <1>4, <2>1 DEF ToSet
  <2> QED
    BY <2>1, <2>2
<1>5. CASE ~(i \in 1..Len(p))
  <2>1. ~(j \in 1..Len(p))
    BY <1>1, <1>5
  <2>2. /\ i - Len(p) \in 1..Len(q) /\ (p \o q)[i] = q[i - Len(p)]
        /\ j - Len(p) \in 1..Len(q) /\ (p \o q)[j] = q[j - Len(p)]
    BY <1>2, <1>5, <2>1
  <2>3. i - Len(p) < j - Len(p)
    BY <1>1
  <2> QED
    BY <1>1, <2>2, <2>3 DEF IsDescending
<1> QED
  BY <1>3, <1>4, <1>5

\* The next page continues the listing below its cursor.
LEMMA SoundWhenQueried ==
  ASSUME IInv, NEW r \in Requests, QueryPage(r)
  PROVE  ListingSound(req[r])'
<1> DEFINE page == PageOf(FromKey(r))
           old == req[r].listed
           c == req[r].cursor
<1>1. /\ req[r].pc = "query" /\ ListingSound(req[r]) /\ RequestsTyped /\ req[r] \in Request
      /\ RequestFormed(req[r]) /\ index' = index
  BY OtherFacts DEF IInv, TypeOK, RequestsTyped, ListingsSound, QueryPage, RequestsFormed
<1>2. /\ KeepsIdentity(r) /\ req'[r].steady = req[r].steady /\ req'[r].listed = old \o page
      /\ IF HasMore(page) THEN Stays(r) /\ req'[r].cursor = page[Len(page)]
                          ELSE Ends(r, "listed")
  BY <1>1, QueryEffect
<1>3. /\ FromKey(r) \in SUBSET Sessions
      /\ page \in Seq(Sessions) /\ ToSet(page) \subseteq FromKey(r)
  BY PageTyped
<1>4. /\ IsDescending(page)
      /\ HasMore(page) =>
           /\ Len(page) > 0
           /\ \A s \in ToSet(page) : s >= page[Len(page)]
           /\ \A s \in FromKey(r) : s >= page[Len(page)] => s \in ToSet(page)
      /\ ~HasMore(page) => ToSet(page) = FromKey(r)
  BY <1>3, PageIsNewest
<1> HIDE DEF page
<1>5. old \in Seq(Sessions) /\ c \in Sessions \cup {Newest} /\ req[r].steady \subseteq Sessions
  BY <1>1 DEF Request
<1>6. /\ IsDescending(old) /\ \A s \in ToSet(old) : s >= c
      /\ req[r].steady \subseteq EntriesOf(req[r].user)
      /\ \A s \in req[r].steady : s >= c => s \in ToSet(old)
  BY <1>1 DEF ListingSound
<1>7. FromKey(r) = {s \in EntriesOf(req[r].user) : s < c}
  BY DEF FromKey
<1>8. req[r].answer = "none"
  BY <1>1 DEF RequestFormed
<1>9. \A s \in Sessions : s \in Nat /\ c \in Nat
  BY <1>5, NewestIsBeyond, SessionsAssumption
<1>10. /\ old \o page \in Seq(Sessions)
       /\ ToSet(old \o page) = ToSet(old) \cup ToSet(page)
       /\ ToSet(old) \subseteq Sessions /\ ToSet(page) \subseteq Sessions
  BY <1>3, <1>5, ListedElements
<1> HIDE DEF old, c
<1>11. \A s \in ToSet(page) : s < c /\ s \in Sessions
  BY <1>3, <1>7
<1>12. IsDescending(old \o page)
  <2>1. \A s \in ToSet(old), t \in ToSet(page) : s > t
    BY <1>6, <1>9, <1>10, <1>11
  <2> QED
    BY <1>3, <1>4, <1>5, <1>6, <2>1, DescendingJoins
<1>13. EntriesOf(req[r].user)' = EntriesOf(req[r].user) /\ EntriesOf(req[r].user) \subseteq Sessions
  BY <1>1, <1>2 DEF EntriesOf, KeepsIdentity
<1>14. CASE HasMore(page)
  <2> DEFINE d == page[Len(page)]
  <2>1. Stays(r) /\ req'[r].cursor = d
    BY <1>2, <1>14
  <2>2. d \in ToSet(page)
    <3>1. Len(page) \in DOMAIN page
      BY <1>3, <1>4, <1>14
    <3> QED
      BY <3>1 DEF ToSet
  <2>3. d < c /\ d \in Sessions
    BY <1>11, <2>2
  <2>4. /\ \A s \in ToSet(page) : s >= d
        /\ \A s \in FromKey(r) : s >= d => s \in ToSet(page)
    BY <1>4, <1>14
  <2> HIDE DEF d
  <2>5. ASSUME NEW s \in ToSet(old \o page) PROVE s >= d
    <3>1. CASE s \in ToSet(page)
      BY <2>4, <3>1
    <3>2. CASE s \in ToSet(old)
      BY <1>6, <1>9, <1>10, <2>3, <3>2
    <3> QED
      BY <1>10, <3>1, <3>2
  <2>6. ASSUME NEW s \in req[r].steady, s >= d PROVE s \in ToSet(old \o page)
    <3>1. s \in Sessions /\ s \in Nat /\ c \in Nat
      BY <1>5, <1>9
    <3>2. CASE s >= c
      BY <1>6, <1>10, <3>2
    <3>3. CASE s < c
      <4>1. s \in FromKey(r)
        BY <1>6, <1>7, <3>3
      <4> QED
        BY <1>10, <2>4, <2>6, <4>1
    <3> QED
      BY <3>1, <3>2, <3>3
  <2> QED
    BY <1>2, <1>6, <1>8, <1>12, <1>13, <2>1, <2>5, <2>6
    DEF ListingSound, Stays
<1>15. CASE ~HasMore(page)
  <2>1. ASSUME NEW s \in req[r].steady PROVE s \in ToSet(old \o page)
    <3>1. s \in Sessions /\ s \in Nat /\ c \in Nat
      BY <1>5, <1>9
    <3>2. CASE s >= c
      BY <1>6, <1>10, <3>2
    <3>3. CASE s < c
      BY <1>4, <1>6, <1>7, <1>10, <1>15, <3>3
    <3> QED
      BY <3>1, <3>2, <3>3
  <2> QED
    BY <1>2, <1>12, <1>15, <2>1 DEF ListingSound, Ends
<1> QED
  BY <1>14, <1>15

LEMMA ListingsStep ==
  ASSUME IInv, [Next]_vars
  PROVE  ListingsSound'
<1>1. ListingsSound /\ RequestsFormed /\ RequestsTyped /\ TypeOK
  BY DEF IInv, TypeOK, RequestsTyped
<1>2. ASSUME NEW q \in Requests, req'[q] = req[q], index' = index
      PROVE  ListingSound(req[q])'
  BY <1>1, <1>2, SoundWhenKept
  DEF ListingsSound, KeepsRequest, KeepsIdentity, KeepsListing
<1>3. ASSUME NEW r \in Requests, Untouched(r), index' = index, ListingSound(req[r])'
      PROVE  ListingsSound'
  BY <1>2, <1>3 DEF ListingsSound, Untouched
<1>4. ASSUME NEW r \in Requests, Untouched(r), index' = index, KeepsRequest(r),
             \/ req'[r].pc = "delete" /\ req'[r].answer = req[r].answer
             \/ Stays(r)
             \/ \E a : a # "listed" /\ Ends(r, a)
      PROVE  ListingsSound'
  <2>1. /\ req'[r].pc = "query" => req[r].pc = "query"
        /\ req'[r].answer = "listed" => req[r].answer = "listed"
    BY <1>4 DEF Stays, Ends
  <2>2. ListingSound(req[r])
    BY <1>1 DEF ListingsSound
  <2>3. ListingSound(req[r])'
    BY <1>4, <2>1, <2>2, SoundWhenKept
  <2> QED
    BY <1>3, <1>4, <2>3
<1>5. ASSUME NEW r \in Requests, PutSession(r) PROVE ListingsSound'
  BY <1>1, <1>4, <1>5, PutEffect DEF PutSession
<1>6. ASSUME NEW r \in Requests, ReadSession(r) PROVE ListingsSound'
  <2>1. index' = index
    BY <1>6, OtherFacts
  <2> QED
    BY <1>1, <1>4, <1>6, <2>1, ReadEffect
<1>7. ASSUME NEW r \in Requests, DeleteSession(r) PROVE ListingsSound'
  BY <1>1, <1>4, <1>7, DeleteEffect DEF DeleteSession
<1>8. ASSUME NEW r \in Requests, CallFails(r) PROVE ListingsSound'
  <2>1. index' = index
    BY <1>8, OtherFacts
  <2> QED
    BY <1>1, <1>4, <1>8, <2>1, FailEffect
<1>9. ASSUME NEW r \in Requests, QueryPage(r) PROVE ListingsSound'
  <2>1. index' = index /\ Untouched(r)
    BY <1>1, <1>9, OtherFacts, QueryEffect
  <2> QED
    BY <1>3, <1>9, <2>1, SoundWhenQueried
\* A listing keeps the steady entries the index keeps.
<1>10. ASSUME NEW t \in Sessions, Propagate(t) PROVE ListingsSound'
  <2> SUFFICES ASSUME NEW q \in Requests PROVE ListingSound(req[q])'
    BY DEF ListingsSound
  <2>1. /\ KeepsIdentity(q) /\ KeepsListing(q) /\ Stays(q)
        /\ req'[q].steady = req[q].steady \ {t}
    BY <1>1, <1>10, PropagateEffect
  <2>2. \A s \in Sessions \ {t} : index'[s] = index[s]
    BY <1>1, <1>10 DEF Propagate, TypeOK
  <2>3. \A u : EntriesOf(u) \ {t} \subseteq EntriesOf(u)'
    BY <2>2 DEF EntriesOf
  <2>4. ListingSound(req[q])
    BY <1>1 DEF ListingsSound
  <2>5. req[q].pc = "query" => req'[q].steady \subseteq EntriesOf(req[q].user)'
    <3>1. PICK u : u = req[q].user
      OBVIOUS
    <3>2. req[q].pc = "query" => req'[q].steady \subseteq EntriesOf(u)'
      BY <2>1, <2>3, <2>4, <3>1 DEF ListingSound
    <3> QED
      BY <2>1, <3>1, <3>2 DEF KeepsIdentity, EntriesOf
  <2> QED
    BY <2>1, <2>4, <2>5 DEF ListingSound, KeepsIdentity, KeepsListing, Stays
<1>11. ASSUME NEW r \in Requests, NEW op, NEW u, NEW id, Begins(r, op, u, id),
              req'[r].pc = "query" => req'[r].steady = EntriesOf(u), index' = index,
              RequestsTyped'
       PROVE  ListingsSound'
  <2>1. req'[r].steady \subseteq Sessions
    BY <1>11 DEF RequestsTyped, Request
  <2> QED
    BY <1>3, <1>11, <2>1, SoundWhenBegun DEF Begins
<1>12. ASSUME NEW r \in Requests, NEW u \in Users, NEW s \in Sessions, Create(r, u, s)
       PROVE  ListingsSound'
  BY <1>1, <1>11, <1>12, CreateEffect DEF Create
<1>13. ASSUME NEW r \in Requests, NEW op \in {"get", "delete"}, NEW u \in Users,
              NEW s \in Sessions, Open(r, op, u, s)
       PROVE  ListingsSound'
  BY <1>1, <1>11, <1>13, OpenEffect DEF Open
<1>14. ASSUME NEW r \in Requests, NEW u \in Users, List(r, u)
       PROVE  ListingsSound'
  BY <1>1, <1>11, <1>14, ListEffect DEF List
<1>15. CASE UNCHANGED vars
  BY <1>2, <1>15 DEF vars, ListingsSound
<1>16. CASE Working
  BY <1>5, <1>6, <1>7, <1>8, <1>9, <1>10, <1>16 DEF Working, Continue
<1> QED
  BY <1>12, <1>13, <1>14, <1>15, <1>16, StepKinds

LEMMA InvariantStep ==
  ASSUME IInv, [Next]_vars
  PROVE  IInv'
BY TypeStep, RecordsStep, FormedStep, CreatedOnceStep, OwnedStep, DeletionsStep,
   NotFoundStep, ListingsStep DEF IInv

LEMMA InvariantInit == Init => IInv
<1> SUFFICES ASSUME Init PROVE IInv
  OBVIOUS
<1>1. \A r \in Requests : req[r] = Idle
  BY DEF Init
<1>2. \A r \in Requests : /\ req[r].pc = "idle" /\ req[r].op = "none" /\ req[r].answer = "none"
                          /\ req[r].listed = <<>> /\ req[r].steady = {}
  BY <1>1 DEF Idle
<1>3. ToSet(<<>>) = {} /\ IsDescending(<<>>)
  BY DEF ToSet, IsDescending
<1>4. TypeOK
  <2>1. req \in [Requests -> Request]
    BY IdleRequest DEF Init
  <2>2. table \in [Sessions -> Item] /\ puts \in [Sessions -> Nat]
    BY DEF Init, Item
  <2> QED
    BY <2>1, <2>2 DEF Init, TypeOK
<1>5. RecordsPut
  BY DEF Init, RecordsPut
<1>6. RequestsFormed
  BY <1>1, <1>2, <1>3 DEF RequestsFormed, RequestFormed
<1>7. CreatedOnce /\ OwnedByCreator /\ NotFoundMeansDeleted
  BY <1>2 DEF CreatedOnce, OwnedByCreator, NotFoundMeansDeleted, Requested
<1>8. ListingsSound
  BY <1>2, <1>3 DEF ListingsSound, ListingSound
<1>9. DeletionsCovered
  <2>1. \A s \in Sessions : DeletedBy(s) = {}
    BY <1>2 DEF DeletedBy, Requested
  <2>2. \A s \in Sessions : puts[s] = IF table[s] = Absent THEN 0 ELSE 1
    BY DEF Init
  <2> QED
    BY <2>1, <2>2, FS_EmptySet DEF DeletionsCovered
<1> QED
  BY <1>4, <1>5, <1>6, <1>7, <1>8, <1>9 DEF IInv

-----------------------------------------------------------------------------
(* The theorems                                                            *)

\* The sessions and their requests keep their inductive invariant, whatever calls fail
\* or are sent again and however far the index is behind.
THEOREM SessionsInvariant == Spec => []IInv
<1>1. IInv /\ [Next]_vars => IInv'
  BY InvariantStep
<1> QED
  BY <1>1, InvariantInit, PTL DEF Spec

\* ChatSessionService keeps its sessions, its answers and its listings well formed.
THEOREM SessionsTypeCorrect == Spec => []TypeOK
<1>1. IInv => TypeOK
  BY DEF IInv
<1> QED
  BY <1>1, SessionsInvariant, PTL

\* delete() answers for no deletion that did not take an item away: no more requests
\* answer that they deleted a session than it has been put.
THEOREM DeletionsAreCounted == Spec => []DeletedOncePerPut
<1>1. IInv => DeletedOncePerPut
  <2> SUFFICES ASSUME IInv, NEW s \in Sessions
               PROVE  Cardinality({r \in Requested("delete", s) : req[r].answer = "deleted"})
                        <= puts[s]
    BY DEF DeletedOncePerPut
  <2>1. /\ IsFiniteSet(DeletedBy(s))
        /\ Cardinality(DeletedBy(s)) + (IF table[s] = Absent THEN 0 ELSE 1) <= puts[s]
    BY DEF IInv, DeletionsCovered
  <2>2. Cardinality(DeletedBy(s)) \in Nat /\ puts[s] \in Nat
    BY <2>1, FS_CardinalityType DEF IInv, TypeOK
  <2>3. Cardinality(DeletedBy(s)) <= puts[s]
    BY <2>1, <2>2
  <2> QED
    BY <2>3 DEF DeletedBy
<1> QED
  BY <1>1, SessionsInvariant, PTL

\* Whoever may see a session that exists is never told that it was not found: the reads
\* of get() and delete() go to the table, not to the index.
THEOREM NotFoundOnlyAfterDelete == Spec => []NotFoundMeansDeleted
<1>1. IInv => NotFoundMeansDeleted
  BY DEF IInv
<1> QED
  BY <1>1, SessionsInvariant, PTL

\* list_for_user() misses no session that stays in the index while it reads its pages,
\* and lists none twice.
THEOREM ListingsAreComplete == Spec => []ListingComplete
<1>1. IInv => ListingComplete
  <2> SUFFICES ASSUME IInv, NEW r \in Requests, req[r].answer = "listed"
               PROVE  req[r].steady \subseteq ToSet(req[r].listed) /\ IsInjective(req[r].listed)
    BY DEF ListingComplete
  <2>1. ListingSound(req[r]) /\ req[r].listed \in Seq(Sessions)
    BY DEF IInv, ListingsSound, TypeOK, Request
  <2>2. req[r].steady \subseteq ToSet(req[r].listed)
    BY <2>1 DEF ListingSound
  <2> DEFINE seq == req[r].listed
  <2>3. IsDescending(seq) /\ seq \in Seq(Sessions)
    BY <2>1 DEF ListingSound
  <2> HIDE DEF seq
  <2>4. ASSUME NEW i \in DOMAIN seq, NEW j \in DOMAIN seq, seq[i] = seq[j] PROVE i = j
    <3>1. i \in Nat /\ j \in Nat /\ seq[i] \in Nat /\ seq[j] \in Nat
      <4>1. i \in 1..Len(seq) /\ j \in 1..Len(seq)
        BY <2>3
      <4>2. seq[i] \in Sessions /\ seq[j] \in Sessions
        BY <2>3, <4>1
      <4>3. Sessions \subseteq Nat
        BY SessionsAssumption
      <4>4. i \in Nat /\ j \in Nat
        BY <4>1
      <4> QED
        BY <4>2, <4>3, <4>4
    <3>2. i < j => seq[i] > seq[j]
      BY <2>3 DEF IsDescending
    <3>3. j < i => seq[j] > seq[i]
      BY <2>3 DEF IsDescending
    <3> QED
      BY <2>4, <3>1, <3>2, <3>3
  <2>5. IsInjective(seq)
    BY <2>4 DEF IsInjective
  <2> QED
    BY <2>2, <2>5 DEF seq
<1> QED
  BY <1>1, SessionsInvariant, PTL

=============================================================================
