--------------------------- MODULE GenerationStore ---------------------------
(***************************************************************************)
(* The data of one index generation: chunk objects with their manifest in  *)
(* S3, vectors in S3 Vectors with theirs.  An ingestion writes it and, if  *)
(* a call raises, deletes it again; a removal deletes it later: by its id  *)
(* (delete_generation, when it is superseded) or with all generations that *)
(* the document's manifests name (delete_document).                        *)
(*                                                                         *)
(* Every Process works on two sides.  at[p].chunk and at[p].vector name    *)
(* the call each side is about to make; deletions of the two sides run     *)
(* side by side.                                                           *)
(***************************************************************************)
EXTENDS Naturals, Sequences, FiniteSets

CONSTANTS Writer, Remover,   \* processes: the ingestion, and what removes the generation
          ByDocument,        \* the removals by delete_document
          Chunk,             \* the chunks; a chunk's object and its vector have the same key
          Batches,           \* the vector batches of upsert(), in their order
          MaxConcurrency,    \* concurrent puts of put_batch()
          DeleteBatch,       \* keys per delete call
          Absent,            \* what a manifest that does not exist holds
          Faults,            \* the faults of the environment that may happen
          MaxFaults          \* bound on the number of faults in a behaviour

AllFaults == {"error",    \* a call raises and did nothing
              "lost",     \* a call takes effect and raises
              "partial",  \* a delete call removes part of its keys and reports errors
              "put",      \* the put of a chunk raises
              "crash"}    \* the writing process dies

Process == Writer \cup Remover

ASSUME GenerationStoreAssumption ==
    /\ Writer \cap Remover = {} /\ ByDocument \subseteq Remover
    \* ingest() rejects a document without chunks before it writes
    /\ Batches \in Seq(SUBSET Chunk) \ {<<>>}
    /\ UNION {Batches[i] : i \in DOMAIN Batches} = Chunk
    /\ IsFiniteSet(Chunk) /\ \A keys \in SUBSET Chunk : keys # Absent
    /\ MaxConcurrency \in Nat \ {0} /\ DeleteBatch \in Nat \ {0}
    /\ Faults \subseteq AllFaults /\ MaxFaults \in Nat

VARIABLES objects,     \* chunk objects in S3
          chunkKeys,   \* the chunk manifest: Absent, or the keys it lists
          vectors,     \* vectors in the index
          vectorKeys,  \* the vector manifest: Absent, or the keys it lists
          at,          \* the next call of each side of each process
          read,        \* the keys each side of a process has read from its manifest
          batch,       \* the number of the vector batch the writer is at
          waiting, flying, \* puts of put_batch() that wait for the semaphore, and that run
          late,        \* history: objects put after their put_batch() had raised
          budget

stores == <<objects, chunkKeys, vectors, vectorKeys>>
vars == <<stores, at, read, batch, waiting, flying, late, budget>>

-----------------------------------------------------------------------------
(* Types *)

KeySet == SUBSET Chunk
Manifest == {Absent} \cup KeySet

WriteCall == {"manifest", "put", "load", "record", "upsert"}
DeleteCall == {"find", "delete", "drop"}
Side == {"idle", "written", "deleted", "failed", "crashed"} \cup WriteCall \cup DeleteCall

TypeOK ==
    /\ objects \subseteq Chunk /\ vectors \subseteq Chunk
    /\ chunkKeys \in Manifest /\ vectorKeys \in Manifest
    /\ at \in [Process -> [chunk: Side, vector: Side]]
    /\ read \in [Process -> [chunk: KeySet, vector: KeySet]]
    /\ batch \in [Writer -> 1..Len(Batches) + 1]
    /\ waiting \in [Writer -> KeySet] /\ flying \in [Writer -> KeySet]
    /\ late \subseteq Chunk
    /\ budget \in 0..MaxFaults

-----------------------------------------------------------------------------
(* Helpers *)

Keys(manifest) == IF manifest = Absent THEN {} ELSE manifest
Spend(fault) == fault \in Faults /\ budget > 0 /\ budget' = budget - 1
Now(p, side, call) == at' = [at EXCEPT ![p][side] = call]

\* a call that succeeds, or whose reply is lost after it took effect
Done(p, side, call) == Now(p, side, call) /\ UNCHANGED budget

Active(side) == side \in WriteCall \cup DeleteCall
Background == \E w \in Writer : waiting[w] \cup flying[w] # {}
Quiet == ~Background /\ \A p \in Process : ~Active(at[p].chunk) /\ ~Active(at[p].vector)

-----------------------------------------------------------------------------
(* Faulty variants of definitions below *)

\* the manifest of the new keys replaces the one that was read
RecordNewOnly(w) == Batches[batch[w]]
\* errors that delete_objects reports are ignored
AfterPartialIgnored(p) == "drop"
\* put_batch() returns when the last put has been started
AllStarted(w) == waiting[w] = {}
\* only the first batch of keys is deleted
AfterFirst(p, side, rest) == "drop"
\* a missing manifest means there is nothing to delete
NothingListed == {}

-----------------------------------------------------------------------------
(* Writing *)

\* put_batch: the manifest lists every key before the first object is put
WriteChunkManifest(w) ==
    /\ at[w].chunk = "manifest"
    /\ chunkKeys' = Chunk
    /\ waiting' = [waiting EXCEPT ![w] = Chunk]
    /\ Done(w, "chunk", "put")
    /\ UNCHANGED <<objects, vectors, vectorKeys, read, batch, flying, late>>

StartPut(w) ==
    /\ Cardinality(flying[w]) < MaxConcurrency
    /\ \E c \in waiting[w] :
        /\ waiting' = [waiting EXCEPT ![w] = @ \ {c}]
        /\ flying' = [flying EXCEPT ![w] = @ \cup {c}]
    /\ UNCHANGED <<stores, at, read, batch, late, budget>>

\* a put that ends, also after another put has made gather() raise
LandPut(w) ==
    /\ \E c \in flying[w] :
        /\ flying' = [flying EXCEPT ![w] = @ \ {c}]
        /\ objects' = objects \cup {c}
        /\ late' = IF at[w].chunk = "put" THEN late ELSE late \cup {c}
    /\ UNCHANGED <<chunkKeys, vectors, vectorKeys, at, read, batch, waiting, budget>>

\* gather() returns when every put has
AllLanded(w) == waiting[w] \cup flying[w] = {}

FinishPuts(w) ==
    /\ at[w].chunk = "put" /\ AllLanded(w)
    /\ at' = [at EXCEPT ![w] = [chunk |-> "written", vector |-> "load"]]
    /\ UNCHANGED <<stores, read, batch, waiting, flying, late, budget>>

LoadVectorManifest(w) ==
    /\ at[w].vector = "load"
    /\ read' = [read EXCEPT ![w].vector = Keys(vectorKeys)]
    /\ Done(w, "vector", "record")
    /\ UNCHANGED <<stores, batch, waiting, flying, late>>

\* the keys read before, merged with those of the batch
Recorded(w) == read[w].vector \cup Batches[batch[w]]

RecordVectorKeys(w) ==
    /\ at[w].vector = "record"
    /\ vectorKeys' = Recorded(w)
    /\ Done(w, "vector", "upsert")
    /\ UNCHANGED <<objects, chunkKeys, vectors, read, batch, waiting, flying, late>>

AfterUpsert(w) == IF batch[w] = Len(Batches) THEN "written" ELSE "load"

PutVectors(w) ==
    /\ at[w].vector = "upsert"
    /\ vectors' = vectors \cup Batches[batch[w]]
    /\ batch' = [batch EXCEPT ![w] = @ + 1]
    /\ Done(w, "vector", AfterUpsert(w))
    /\ UNCHANGED <<objects, chunkKeys, vectorKeys, read, waiting, flying, late>>

\* A call of the writer raises: ingest() deletes both sides.  The puts that wait or run
\* are not cancelled by gather().
WriterFails(w) ==
    /\ at[w].chunk \in {"manifest", "put"} \/ at[w].vector \in WriteCall
    /\ \/ /\ Spend("error") /\ at[w].chunk # "put" /\ UNCHANGED <<stores, flying>>
       \/ /\ Spend("lost") /\ UNCHANGED flying
          /\ \/ at[w].chunk = "manifest" /\ chunkKeys' = Chunk
                /\ UNCHANGED <<objects, vectors, vectorKeys>>
             \/ at[w].vector = "record" /\ vectorKeys' = Recorded(w)
                /\ UNCHANGED <<objects, chunkKeys, vectors>>
             \/ at[w].vector = "upsert" /\ vectors' = vectors \cup Batches[batch[w]]
                /\ UNCHANGED <<objects, chunkKeys, vectorKeys>>
       \/ /\ Spend("put") /\ at[w].chunk = "put" /\ UNCHANGED stores
          /\ \E c \in flying[w] : flying' = [flying EXCEPT ![w] = @ \ {c}]
    /\ at' = [at EXCEPT ![w] = [chunk |-> "find", vector |-> "find"]]
    /\ UNCHANGED <<read, batch, waiting, late>>

Crash(w) ==
    /\ Active(at[w].chunk) \/ Active(at[w].vector)
    /\ Spend("crash")
    /\ at' = [at EXCEPT ![w] = [chunk |-> "crashed", vector |-> "crashed"]]
    /\ waiting' = [waiting EXCEPT ![w] = {}] /\ flying' = [flying EXCEPT ![w] = {}]
    /\ UNCHANGED <<stores, read, batch, late>>

-----------------------------------------------------------------------------
(* Deleting *)

\* What delete_generation of the chunk store deletes: what the manifest lists, or
\* without one what is listed under the generation's prefix.
Listed == objects
ChunksToDelete == IF chunkKeys = Absent THEN Listed ELSE chunkKeys

\* delete_document leaves out a generation that no manifest names.
Unnamed(p, side) ==
    p \in ByDocument /\ (IF side = "chunk" THEN chunkKeys ELSE vectorKeys) = Absent

SkipUnnamed(p, side) ==
    /\ at[p][side] = "find" /\ Unnamed(p, side)
    /\ Done(p, side, "deleted")
    /\ UNCHANGED <<stores, read, batch, waiting, flying, late>>

Find(p, side) ==
    /\ at[p][side] = "find" /\ ~Unnamed(p, side)
    /\ read' = [read EXCEPT ![p][side] =
                  IF side = "chunk" THEN ChunksToDelete ELSE Keys(vectorKeys)]
    /\ Done(p, side, "delete")
    /\ UNCHANGED <<stores, batch, waiting, flying, late>>

\* where a deletion goes on when a call has deleted a batch of keys
AfterDelete(p, side, rest) == IF rest = {} THEN "drop" ELSE "delete"
\* and when the call has reported errors for some of them
AfterPartial(p) == "failed"

Remove(side, keys) ==
    IF side = "chunk" THEN objects' = objects \ keys /\ UNCHANGED vectors
    ELSE vectors' = vectors \ keys /\ UNCHANGED objects

DeleteKeys(p, side) ==
    /\ at[p][side] = "delete"
    /\ \E keys \in SUBSET read[p][side] :
        /\ Cardinality(keys) = DeleteBatch \/ keys = read[p][side]
        /\ Cardinality(keys) <= DeleteBatch
        /\ \/ /\ Remove(side, keys)
              /\ read' = [read EXCEPT ![p][side] = @ \ keys]
              /\ Done(p, side, AfterDelete(p, side, read[p][side] \ keys))
           \/ /\ \E some \in SUBSET keys : some # keys /\ Remove(side, some)
              /\ Spend("partial") /\ Now(p, side, AfterPartial(p))
              /\ UNCHANGED read
    /\ UNCHANGED <<chunkKeys, vectorKeys, batch, waiting, flying, late>>

DropManifest(p, side) ==
    /\ at[p][side] = "drop"
    /\ IF side = "chunk" THEN chunkKeys' = Absent /\ UNCHANGED vectorKeys
       ELSE vectorKeys' = Absent /\ UNCHANGED chunkKeys
    /\ Done(p, side, "deleted")
    /\ UNCHANGED <<objects, vectors, read, batch, waiting, flying, late>>

\* Another call of a deletion raises; the other side goes on.
DeletionFails(p, side) ==
    /\ at[p][side] \in DeleteCall /\ Spend("error")
    /\ Now(p, side, "failed")
    /\ UNCHANGED <<stores, read, batch, waiting, flying, late>>

\* A removal starts when no writer is at work, nor any put it left in the background;
\* who called it calls it again when a side of it failed.
StartRemoval(p) ==
    /\ ~Background
    /\ \A w \in Writer : at[w].chunk \notin {"idle"} \cup WriteCall \cup DeleteCall
                         /\ at[w].vector \notin WriteCall \cup DeleteCall
    /\ ~Active(at[p].chunk) /\ ~Active(at[p].vector)
    /\ at[p].chunk \in {"idle", "failed"} \/ at[p].vector = "failed"
    /\ at' = [at EXCEPT ![p] = [chunk |-> "find", vector |-> "find"]]
    /\ UNCHANGED <<stores, read, batch, waiting, flying, late, budget>>

-----------------------------------------------------------------------------
Init ==
    /\ objects = {} /\ chunkKeys = Absent
    /\ vectors = {} /\ vectorKeys = Absent
    /\ at = [p \in Process |-> [chunk |-> IF p \in Writer THEN "manifest" ELSE "idle",
                                vector |-> "idle"]]
    /\ read = [p \in Process |-> [chunk |-> {}, vector |-> {}]]
    /\ batch = [w \in Writer |-> 1]
    /\ waiting = [w \in Writer |-> {}] /\ flying = [w \in Writer |-> {}]
    /\ late = {}
    /\ budget = MaxFaults

Write(w) ==
    \/ WriteChunkManifest(w) \/ StartPut(w) \/ LandPut(w) \/ FinishPuts(w)
    \/ LoadVectorManifest(w) \/ RecordVectorKeys(w) \/ PutVectors(w)

Delete(p, side) == SkipUnnamed(p, side) \/ Find(p, side) \/ DeleteKeys(p, side) \/ DropManifest(p, side)

Next ==
    \/ \E w \in Writer : Write(w) \/ WriterFails(w) \/ Crash(w)
    \/ \E p \in Process, side \in {"chunk", "vector"} : Delete(p, side) \/ DeletionFails(p, side)
    \/ \E p \in Remover : StartRemoval(p)

Spec == Init /\ [][Next]_vars

\* Calls return, and who called a removal repeats it until both sides are deleted.
Fairness ==
    /\ \A w \in Writer : WF_vars(Write(w))
    /\ \A p \in Process, side \in {"chunk", "vector"} : WF_vars(Delete(p, side))
    /\ \A p \in Remover : WF_vars(StartRemoval(p))
FairSpec == Spec /\ Fairness

-----------------------------------------------------------------------------
(* Properties *)

\* A vector in the index is always listed in the manifest, so that a cleanup finds it,
\* whatever call raised, with or without effect.
VectorsTracked == vectors \subseteq Keys(vectorKeys)

\* The same of the chunk objects, but for those put after their put_batch() had raised.
ChunksTracked == objects \ late \subseteq Keys(chunkKeys)

\* A generation that was written without an error is whole until a removal starts.
WrittenIsWhole ==
    (/\ \E w \in Writer : at[w].chunk = "written" /\ at[w].vector = "written"
     /\ \A p \in Remover : at[p].chunk = "idle")
    => objects = Chunk /\ vectors = Chunk

Deleted(p) == at[p].chunk = "deleted" /\ at[p].vector = "deleted"

\* The objects a deletion may miss: those put after a failed write had dropped the
\* manifest.  A removal by the generation's id finds them by listing.
Missed(p) == IF p \in Remover \ ByDocument THEN {} ELSE late

\* Once a deletion of both sides has ended well, nothing else of the generation is left.
DeletionEmpties ==
    Quiet => \A p \in Process : Deleted(p) => vectors = {} /\ objects \subseteq Missed(p)

\* The same without the exception: a cleaned up candidate leaves nothing behind.
\* The code does not keep this; MCGenerationStore_background.cfg shows how.
CleanupLeavesNothing ==
    Quiet /\ (\E p \in Process : Deleted(p)) => objects = {} /\ vectors = {}

\* A removal that is repeated after errors ends with nothing it can find in either store,
\* wherever it was interrupted: the manifests it works from go last.
RemovalCompletes ==
    \A p \in Remover : (at[p].chunk = "find") ~> (objects \subseteq Missed(p) /\ vectors = {})

-----------------------------------------------------------------------------
(* The inductive invariant of a generation with one writer                 *)

\* No removal has started while the writer, or a put it left behind, is at work.
RemovalsWait ==
    /\ \A p \in Remover : at[p].chunk = "idle" <=> at[p].vector = "idle"
    /\ (\E w \in Writer : Active(at[w].chunk) \/ Active(at[w].vector) \/ waiting[w] \cup flying[w] # {})
         => \A p \in Remover : at[p].chunk = "idle"

RemoversIdle == \A p \in Remover : at[p].chunk = "idle"

\* The manifest of the chunks lists every chunk, or there is none; it is there
\* while the chunks are put, and what is neither waiting nor under way has been.
ChunksWritten ==
    /\ chunkKeys \in {Absent, Chunk}
    /\ \A w \in Writer :
        /\ at[w].chunk = "put" => /\ chunkKeys = Chunk
                                  /\ Chunk \ (waiting[w] \cup flying[w]) \subseteq objects
        /\ at[w].chunk = "written" /\ RemoversIdle => objects = Chunk

\* The vectors follow the chunks, batch by batch, and their manifest comes first.
VectorsWritten ==
    \A w \in Writer :
        /\ at[w].chunk \in {"manifest", "put"} => batch[w] = 1
        /\ at[w].vector \in {"load", "record", "upsert"} =>
             /\ at[w].chunk = "written" /\ batch[w] <= Len(Batches)
             /\ \A i \in 1..batch[w] - 1 : Batches[i] \subseteq vectors
        /\ at[w].vector = "record" => vectors \subseteq read[w].vector
        /\ at[w].vector = "upsert" => Batches[batch[w]] \subseteq Keys(vectorKeys)
        /\ at[w].vector = "written" /\ RemoversIdle => vectors = Chunk

\* What a deletion has still to delete is among the keys it has read, but for the
\* objects it may miss.
ChunksDeleted ==
    \A p \in Process :
        /\ at[p].chunk = "delete" => objects \ Missed(p) \subseteq read[p].chunk
        /\ at[p].chunk \in {"drop", "deleted"} => objects \subseteq Missed(p)
VectorsDeleted ==
    \A p \in Process :
        /\ at[p].vector = "delete" => vectors \subseteq read[p].vector
        /\ at[p].vector \in {"drop", "deleted"} => vectors = {}

IInv ==
    /\ TypeOK
    /\ RemovalsWait
    /\ ChunksWritten /\ VectorsWritten
    /\ ChunksTracked /\ VectorsTracked
    /\ ChunksDeleted /\ VectorsDeleted

=============================================================================
