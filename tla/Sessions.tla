------------------------------ MODULE Sessions ------------------------------
(***************************************************************************)
(* Chat sessions: the requests of the API (app.py), ChatSessionService     *)
(* (sessions.py) and DynamoChatSessionRepository (dynamodb.py) over a      *)
(* table whose index of users follows it later.  A request is one or more  *)
(* calls of the table; other requests run between them, the SDK sends a    *)
(* call again when its answer is lost, and a listing reads page by page.   *)
(***************************************************************************)
EXTENDS Integers, Sequences, SequencesExt, FiniteSets, FiniteSetsExt

CONSTANTS
    Requests,      \* the requests, numbered as they come; each is one operation
    Sessions,      \* session ids, numbered as the index orders them
    Users,         \* the users of one tenant
    Readers,       \* the users who may read every session (_READ_PRIVILEGED_ROLES)
    Administrators,\* the users who may also delete it (_DELETE_PRIVILEGED_ROLES)
    NoUser,        \* the user of no request
    PageSize,      \* the items of a full page of a query
    MaxSends,      \* how often the SDK sends one call
    MaxOpen        \* bound: the requests under way at a time

ASSUME SessionsAssumption ==
    /\ Requests \subseteq Nat
    /\ Sessions \subseteq Nat /\ 0 \notin Sessions /\ IsFiniteSet(Sessions)
    /\ Administrators \subseteq Readers /\ Readers \subseteq Users
    /\ NoUser \notin Users
    /\ {PageSize, MaxSends, MaxOpen} \subseteq Nat \ {0}

VARIABLES
    table,   \* the sessions: a consistent read's view
    index,   \* the index tenantUserKey, lastActivity
    issued,  \* the ids new_id() has returned
    puts,    \* history: how often each session has been put
    removed, \* history: the sessions that have been deleted
    req      \* what each request has done

history == <<puts, removed>>
vars == <<table, index, issued, history, req>>

\* An item is the user of its session: lastActivity never changes, and the ids
\* are numbered in the order of its values, which any order of creations gives.
Absent == NoUser
Item == Users \cup {Absent}

\* The cursor of a first page.
Newest == Max(Sessions) + 1

Steps == {"idle", "put", "get", "delete", "query", "done"}
Ops == {"none", "create", "get", "delete", "list"}
Answers == {"none", "created", "found", "deleted", "listed", "not_found", "error"}

Request == [pc: Steps, op: Ops, user: Users \cup {NoUser}, id: Sessions \cup {0},
            sends: 0..(MaxSends - 1), cursor: Sessions \cup {Newest},
            listed: Seq(Sessions), steady: SUBSET Sessions, answer: Answers]

Idle == [pc |-> "idle", op |-> "none", user |-> NoUser, id |-> 0,
         sends |-> 0, cursor |-> Newest, listed |-> <<>>, steady |-> {},
         answer |-> "none"]

-----------------------------------------------------------------------------
(* Calls                                                                   *)

Answer(r, a) ==
    req' = [req EXCEPT ![r].pc = "done", ![r].answer = a, ![r].sends = 0]

\* No answer comes: the SDK sends the call again, or raises.
Resend(r) ==
    IF req[r].sends + 1 < MaxSends
    THEN req' = [req EXCEPT ![r].sends = @ + 1]
    ELSE Answer(r, "error")

\* A write fails without effect, or a read for good; a read that is sent again
\* is a read that comes later.
CallFails(r) ==
    /\ \/ req[r].pc \in {"put", "delete"} /\ Resend(r)
       \/ req[r].pc \in {"get", "query"} /\ Answer(r, "error")
    /\ UNCHANGED <<table, index, issued, history>>

\* get_item: Faulty variant: a read that may be behind the writes.
ReadBehind(s) == index[s]
\* get_item with ConsistentRead.
Read(s) == table[s]

\* Faulty variant: the answer does not depend on what delete_item removed.
DeletedAnyway(item) == TRUE
\* The item delete_item returns is the session's.
Deleted(item) == item # Absent

\* The index follows the table.
Propagate(s) ==
    /\ index[s] # table[s]
    /\ index' = [index EXCEPT ![s] = table[s]]
    /\ req' = [r \in Requests |-> [req[r] EXCEPT !.steady = @ \ {s}]]
    /\ UNCHANGED <<table, issued, history>>

-----------------------------------------------------------------------------
(* Permissions                                                             *)

CanRead(u, item) == item = u \/ u \in Readers
CanDelete(u, item) == item = u \/ u \in Administrators
Permitted(op, u, item) == IF op = "delete" THEN CanDelete(u, item) ELSE CanRead(u, item)

-----------------------------------------------------------------------------
(* Requests                                                                *)

\* A session exists before the first request of the model, or not.
Init ==
    /\ table \in [Sessions -> (Users \ Readers) \cup {Absent}]
    /\ index = table
    /\ issued = {s \in Sessions : table[s] # Absent}
    /\ puts = [s \in Sessions |-> IF table[s] = Absent THEN 0 ELSE 1]
    /\ removed = {}
    /\ req = [r \in Requests |-> Idle]

\* The next request comes.
Arrives(r) ==
    /\ \A q \in Requests : req[q].pc = "idle" <=> q >= r
    /\ Cardinality({q \in Requests : req[q].pc \notin {"idle", "done"}}) < MaxOpen

\* create_session: new_id() is fresh.
Create(r, u, s) ==
    /\ Arrives(r)
    /\ s \notin issued
    /\ issued' = issued \cup {s}
    /\ req' = [req EXCEPT ![r] = [Idle EXCEPT !.pc = "put", !.op = "create",
                                              !.user = u, !.id = s]]
    /\ UNCHANGED <<table, index, history>>

\* The put takes effect, whether or not its answer arrives.
PutSession(r) ==
    /\ req[r].pc = "put"
    /\ table' = [table EXCEPT ![req[r].id] = req[r].user]
    /\ puts' = [puts EXCEPT ![req[r].id] = @ + 1]
    /\ Answer(r, "created") \/ Resend(r)
    /\ UNCHANGED <<index, issued, removed>>

\* A client knows the id of a session from an answer.
Known(s) ==
    \/ puts[s] > 0 /\ \A r \in Requests : ~(req[r].op = "create" /\ req[r].id = s)
    \/ \E r \in Requests :
        \/ req[r].answer = "created" /\ req[r].id = s
        \/ req[r].answer = "listed" /\ s \in ToSet(req[r].listed)

\* get_session and delete_session start with the same read.
Open(r, op, u, s) ==
    /\ Arrives(r)
    /\ Known(s)
    /\ req' = [req EXCEPT ![r] = [Idle EXCEPT !.pc = "get", !.op = op, !.user = u, !.id = s]]
    /\ UNCHANGED <<table, index, issued, history>>

ReadSession(r) ==
    /\ req[r].pc = "get"
    /\ LET item == Read(req[r].id) IN
       IF item = Absent \/ ~Permitted(req[r].op, req[r].user, item)
       THEN Answer(r, "not_found")
       ELSE IF req[r].op = "get"
       THEN Answer(r, "found")
       ELSE req' = [req EXCEPT ![r].pc = "delete"]
    /\ UNCHANGED <<table, index, issued, history>>

\* The delete takes effect, whether or not its answer arrives; sent again it
\* finds nothing.
DeleteSession(r) ==
    /\ req[r].pc = "delete"
    /\ table' = [table EXCEPT ![req[r].id] = Absent]
    /\ removed' = removed \cup {req[r].id}
    /\ \/ Answer(r, IF Deleted(table[req[r].id]) THEN "deleted" ELSE "not_found")
       \/ Resend(r)
    /\ UNCHANGED <<index, issued, puts>>

EntriesOf(u) == {s \in Sessions : index[s] = u}

List(r, u) ==
    /\ Arrives(r)
    /\ req' = [req EXCEPT ![r] = [Idle EXCEPT !.pc = "query", !.op = "list", !.user = u,
                                              !.steady = EntriesOf(u)]]
    /\ UNCHANGED <<table, index, issued, history>>

\* scan_forward=False: the newest entry first.
IsDescending(seq) == \A i, j \in DOMAIN seq : i < j => seq[i] > seq[j]
Descending(entries) ==
    CHOOSE seq \in [1..Cardinality(entries) -> entries] :
        ToSet(seq) = entries /\ IsDescending(seq)

\* Faulty variant: a page skips as many entries as were listed.
FromOffset(r) ==
    LET all == Descending(EntriesOf(req[r].user)) IN
    {all[i] : i \in {j \in DOMAIN all : j > Len(req[r].listed)}}
\* ExclusiveStartKey: a page starts after the entry of the last key.
FromKey(r) == {s \in EntriesOf(req[r].user) : s < req[r].cursor}

\* Faulty variant: a page without LastEvaluatedKey does not end the loop.
AlwaysMore(page) == TRUE
\* A full page has a LastEvaluatedKey, and the listing goes on after it.
HasMore(page) == Len(page) = PageSize

\* One page of query_items.
QueryPage(r) ==
    /\ req[r].pc = "query"
    /\ LET rest == Descending(FromKey(r))
           page == SubSeq(rest, 1, Min({PageSize, Len(rest)}))
           listed == req[r].listed \o page
       IN req' = [req EXCEPT ![r] =
              IF HasMore(page)
              THEN [@ EXCEPT !.listed = listed,
                             !.cursor = Last(<<req[r].cursor>> \o page)]
              ELSE [@ EXCEPT !.listed = listed, !.cursor = Newest,
                         !.pc = "done", !.answer = "listed"]]
    /\ UNCHANGED <<table, index, issued, history>>

-----------------------------------------------------------------------------
\* A call of a request that is under way is carried out.
Continue(r) ==
    \/ PutSession(r)
    \/ ReadSession(r)
    \/ DeleteSession(r)
    \/ QueryPage(r)

Next ==
    \/ \E r \in Requests :
        \/ \E u \in Users, s \in Sessions : Create(r, u, s)
        \/ \E op \in {"get", "delete"}, u \in Users, s \in Sessions : Open(r, op, u, s)
        \/ \E u \in Users : List(r, u)
        \/ Continue(r)
        \/ CallFails(r)
    \/ \E s \in Sessions : Propagate(s)

\* A call is carried out in the end; nothing forces a call to fail.
Spec == Init /\ [][Next]_vars /\ \A r \in Requests : WF_vars(Continue(r))

-----------------------------------------------------------------------------
\* Type invariant.
TypeOK ==
    /\ table \in [Sessions -> Item]
    /\ index \in [Sessions -> Item]
    /\ issued \subseteq Sessions
    /\ puts \in [Sessions -> Nat] /\ removed \subseteq Sessions
    /\ req \in [Requests -> Request]

Requested(op, s) == {r \in Requests : req[r].op = op /\ req[r].id = s}

\* However many requests delete a session and however often their calls are
\* sent, no more of them answer that they deleted it than it has been put
\* (delete() looks at the item delete_item returns; a put the SDK sends again
\* may bring a deleted session back).
DeletedOncePerPut ==
    \A s \in Sessions :
        Cardinality({r \in Requested("delete", s) : req[r].answer = "deleted"}) <= puts[s]

Entitled(u, s) ==
    u \in Administrators \/ \E c \in Requested("create", s) : req[c].user = u

\* The creator of a session, or an administrator, is told that it was not found
\* only when a delete has reached the table: a client that knows a session
\* finds it at once, whatever the index says and however often its own calls
\* are sent.
NotFoundMeansDeleted ==
    \A s \in Sessions : \A r \in Requested("get", s) \cup Requested("delete", s) :
        req[r].answer = "not_found" /\ Entitled(req[r].user, s) => s \in removed

\* A listing has every session of the user that was in the index from its
\* first page to its last, and none twice, although sessions are created and deleted between the pages.
ListingComplete ==
    \A r \in Requests : req[r].answer = "listed" =>
        /\ req[r].steady \subseteq ToSet(req[r].listed)
        /\ IsInjective(req[r].listed)

\* Every request is answered: the SDK gives a write up, and a listing ends
\* although its index changes between the pages, because each page has only
\* entries older than those listed.
RequestsAnswered ==
    \A r \in Requests : req[r].pc # "idle" ~> req[r].pc = "done"

-----------------------------------------------------------------------------
(* The inductive invariant                                                 *)

\* What the table or the index has was put, and what was put is in the table
\* until it is deleted.
RecordsPut ==
    \A s \in Sessions :
        /\ table[s] # Absent \/ index[s] # Absent => puts[s] > 0
        /\ puts[s] > 0 => s \in issued /\ (table[s] # Absent \/ s \in removed)

\* What a request has recorded, by its next call and by its answer.
RequestFormed(q) ==
    /\ q.pc = "idle" => q = Idle
    /\ q.op # "none" => q.user \in Users
    /\ q.pc = "put" => q.op = "create"
    /\ q.pc = "get" => q.op \in {"get", "delete"}
    /\ q.pc = "delete" => q.op = "delete"
    /\ q.pc = "query" => q.op = "list"
    /\ q.pc # "done" => q.answer = "none"
    /\ q.answer = "created" => q.op = "create" /\ puts[q.id] > 0
    /\ q.answer = "listed" => q.op = "list"
    /\ q.op = "create" => q.id \in issued
    /\ q.op \in {"get", "delete"} => q.id \in Sessions /\ puts[q.id] > 0
    /\ \A s \in ToSet(q.listed) : puts[s] > 0
RequestsFormed == \A r \in Requests : RequestFormed(req[r])

\* An id is created by one request, whose user the item has.
CreatedOnce ==
    \A c, d \in Requests :
        req[c].op = "create" /\ req[d].op = "create" /\ req[c].id = req[d].id => c = d
OwnedByCreator ==
    \A c \in Requests :
        req[c].op = "create" /\ table[req[c].id] # Absent => table[req[c].id] = req[c].user

\* A session in the table is a put that no delete has answered for.
DeletedBy(s) == {r \in Requested("delete", s) : req[r].answer = "deleted"}
DeletionsCovered ==
    \A s \in Sessions :
        /\ IsFiniteSet(DeletedBy(s))
        /\ Cardinality(DeletedBy(s)) + (IF table[s] = Absent THEN 0 ELSE 1) <= puts[s]

\* A listing under way has gone down to its cursor, and has what was steady on
\* the way.
ListingSound(q) ==
    /\ IsDescending(q.listed)
    /\ q.pc = "query" =>
        /\ \A s \in ToSet(q.listed) : s >= q.cursor
        /\ q.steady \subseteq EntriesOf(q.user)
        /\ \A s \in q.steady : s >= q.cursor => s \in ToSet(q.listed)
    /\ q.answer = "listed" => q.steady \subseteq ToSet(q.listed)
ListingsSound == \A r \in Requests : ListingSound(req[r])

IInv ==
    /\ TypeOK
    /\ RecordsPut /\ RequestsFormed
    /\ CreatedOnce /\ OwnedByCreator
    /\ DeletionsCovered /\ NotFoundMeansDeleted /\ ListingsSound
=============================================================================
