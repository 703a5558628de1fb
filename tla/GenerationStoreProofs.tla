------------------------ MODULE GenerationStoreProofs ------------------------
(***************************************************************************)
(* Proofs about the data of a generation, for any chunks, batches and       *)
(* removals: what is stored is listed in a manifest, a generation written   *)
(* without an error is whole, and a deletion that ended well left nothing.  *)
(***************************************************************************)
EXTENDS GenerationStore, TLAPS

USE GenerationStoreAssumption DEF Process

\* The id of a generation has the fencing token of the one execution that writes it.
SoleWriter == \A v, w \in Writer : v = w

-----------------------------------------------------------------------------
(* Types                                                                   *)

Sides == [chunk: Side, vector: Side]
Reads == [chunk: KeySet, vector: KeySet]

StoresOK == /\ objects \subseteq Chunk /\ vectors \subseteq Chunk
            /\ chunkKeys \in Manifest /\ vectorKeys \in Manifest
            /\ late \subseteq Chunk
SidesOK == at \in [Process -> Sides] /\ read \in [Process -> Reads]
WritersOK == /\ batch \in [Writer -> 1..Len(Batches) + 1]
             /\ waiting \in [Writer -> KeySet] /\ flying \in [Writer -> KeySet]
BudgetOK == budget \in 0..MaxFaults

\* The type invariant in its parts.
LEMMA Typed == TypeOK <=> StoresOK /\ SidesOK /\ WritersOK /\ BudgetOK
BY DEF TypeOK, StoresOK, SidesOK, WritersOK, BudgetOK, Sides, Reads

LEMMA BatchesTyped ==
  /\ Len(Batches) \in Nat \ {0}
  /\ \A i \in 1..Len(Batches) : Batches[i] \subseteq Chunk
  /\ Chunk = UNION {Batches[i] : i \in 1..Len(Batches)}
<1>1. Batches \in Seq(SUBSET Chunk) /\ Batches # <<>>
  OBVIOUS
<1>2. DOMAIN Batches = 1..Len(Batches) /\ Len(Batches) \in Nat
  BY <1>1
<1>3. Len(Batches) # 0
  BY <1>1
<1>4. \A i \in 1..Len(Batches) : Batches[i] \subseteq Chunk
  BY <1>1
<1> QED
  BY <1>2, <1>3, <1>4

LEMMA SpendTyped ==
  ASSUME BudgetOK, NEW fault, Spend(fault) PROVE BudgetOK'
BY DEF BudgetOK, Spend

\* What it means for the other processes to stay.
Kept(p) == \A q \in Process : q # p => at'[q] = at[q] /\ read'[q] = read[q]

\* A call of one side.
LEMMA SideMoved ==
  ASSUME SidesOK, NEW p \in Process, NEW call \in Side
  PROVE  /\ Now(p, "chunk", call) =>
              /\ at' \in [Process -> Sides]
              /\ at'[p].chunk = call /\ at'[p].vector = at[p].vector
              /\ \A q \in Process : q # p => at'[q] = at[q]
         /\ Now(p, "vector", call) =>
              /\ at' \in [Process -> Sides]
              /\ at'[p].vector = call /\ at'[p].chunk = at[p].chunk
              /\ \A q \in Process : q # p => at'[q] = at[q]
<1>1. ASSUME Now(p, "chunk", call)
      PROVE  /\ at' \in [Process -> Sides]
             /\ at'[p].chunk = call /\ at'[p].vector = at[p].vector
             /\ \A q \in Process : q # p => at'[q] = at[q]
  BY <1>1 DEF Now, SidesOK, Sides
<1>2. ASSUME Now(p, "vector", call)
      PROVE  /\ at' \in [Process -> Sides]
             /\ at'[p].vector = call /\ at'[p].chunk = at[p].chunk
             /\ \A q \in Process : q # p => at'[q] = at[q]
  BY <1>2 DEF Now, SidesOK, Sides
<1> QED
  BY <1>1, <1>2

\* Both sides at once.
LEMMA BothMoved ==
  ASSUME SidesOK, NEW p \in Process, NEW c \in Side, NEW v \in Side,
         at' = [at EXCEPT ![p] = [chunk |-> c, vector |-> v]]
  PROVE  /\ at' \in [Process -> Sides]
         /\ at'[p].chunk = c /\ at'[p].vector = v
         /\ \A q \in Process : q # p => at'[q] = at[q]
BY DEF SidesOK, Sides

\* The keys one side reads or has deleted.
LEMMA ReadMoved ==
  ASSUME SidesOK, NEW p \in Process, NEW keys \in KeySet
  PROVE  /\ read' = [read EXCEPT ![p]["chunk"] = keys] =>
              /\ read' \in [Process -> Reads]
              /\ read'[p].chunk = keys /\ read'[p].vector = read[p].vector
              /\ \A q \in Process : q # p => read'[q] = read[q]
         /\ read' = [read EXCEPT ![p]["vector"] = keys] =>
              /\ read' \in [Process -> Reads]
              /\ read'[p].vector = keys /\ read'[p].chunk = read[p].chunk
              /\ \A q \in Process : q # p => read'[q] = read[q]
<1>1. ASSUME read' = [read EXCEPT ![p]["chunk"] = keys]
      PROVE  /\ read' \in [Process -> Reads]
             /\ read'[p].chunk = keys /\ read'[p].vector = read[p].vector
             /\ \A q \in Process : q # p => read'[q] = read[q]
  BY <1>1 DEF SidesOK, Reads
<1>2. ASSUME read' = [read EXCEPT ![p]["vector"] = keys]
      PROVE  /\ read' \in [Process -> Reads]
             /\ read'[p].vector = keys /\ read'[p].chunk = read[p].chunk
             /\ \A q \in Process : q # p => read'[q] = read[q]
  BY <1>2 DEF SidesOK, Reads
<1> QED
  BY <1>1, <1>2

-----------------------------------------------------------------------------
(* What one step does to the sides of its process                          *)

ChunkSide(p) ==
    \/ at'[p].chunk = at[p].chunk /\ read'[p].chunk = read[p].chunk
    \/ p \in Writer /\ WriteChunkManifest(p) /\ at'[p].chunk = "put"
    \/ p \in Writer /\ FinishPuts(p) /\ at'[p].chunk = "written" /\ at'[p].vector = "load"
    \/ at'[p].chunk = "find" /\ at'[p].vector = "find"
       /\ ((p \in Writer /\ WriterFails(p)) \/ (p \in Remover /\ StartRemoval(p)))
    \/ p \in Writer /\ Crash(p) /\ at'[p].chunk = "crashed" /\ at'[p].vector = "crashed"
    \/ at[p].chunk \in DeleteCall /\ at'[p].chunk = "failed"
    \/ at[p].chunk = "find" /\ at'[p].chunk = "deleted" /\ chunkKeys = Absent
       /\ p \in ByDocument /\ UNCHANGED stores
    \/ at[p].chunk = "find" /\ at'[p].chunk = "delete" /\ read'[p].chunk = ChunksToDelete
       /\ UNCHANGED stores
    \/ /\ at[p].chunk = "delete"
       /\ \E keys \in SUBSET read[p].chunk :
            /\ objects' = objects \ keys /\ read'[p].chunk = read[p].chunk \ keys
            /\ at'[p].chunk = AfterDelete(p, "chunk", read[p].chunk \ keys)
    \/ at[p].chunk = "drop" /\ DropManifest(p, "chunk") /\ at'[p].chunk = "deleted"

VectorSide(p) ==
    \/ at'[p].vector = at[p].vector /\ read'[p].vector = read[p].vector
    \/ p \in Writer /\ FinishPuts(p) /\ at'[p].chunk = "written" /\ at'[p].vector = "load"
    \/ p \in Writer /\ LoadVectorManifest(p) /\ at'[p].vector = "record"
       /\ read'[p].vector = Keys(vectorKeys)
    \/ p \in Writer /\ RecordVectorKeys(p) /\ at'[p].vector = "upsert"
    \/ p \in Writer /\ PutVectors(p) /\ at'[p].vector = AfterUpsert(p)
    \/ at'[p].chunk = "find" /\ at'[p].vector = "find"
       /\ ((p \in Writer /\ WriterFails(p)) \/ (p \in Remover /\ StartRemoval(p)))
    \/ p \in Writer /\ Crash(p) /\ at'[p].chunk = "crashed" /\ at'[p].vector = "crashed"
    \/ at[p].vector \in DeleteCall /\ at'[p].vector = "failed"
    \/ at[p].vector = "find" /\ at'[p].vector = "deleted" /\ vectorKeys = Absent /\ UNCHANGED stores
    \/ at[p].vector = "find" /\ at'[p].vector = "delete" /\ read'[p].vector = Keys(vectorKeys)
       /\ UNCHANGED stores
    \/ /\ at[p].vector = "delete"
       /\ \E keys \in SUBSET read[p].vector :
            /\ vectors' = vectors \ keys /\ read'[p].vector = read[p].vector \ keys
            /\ at'[p].vector = AfterDelete(p, "vector", read[p].vector \ keys)
    \/ at[p].vector = "drop" /\ DropManifest(p, "vector") /\ at'[p].vector = "deleted"

Effect(p) == TypeOK' /\ Kept(p) /\ ChunkSide(p) /\ VectorSide(p)

LEMMA Primed == TypeOK' <=> StoresOK' /\ SidesOK' /\ WritersOK' /\ BudgetOK'
BY DEF TypeOK, StoresOK, SidesOK, WritersOK, BudgetOK, Sides, Reads

LEMMA ChunkWrite ==
  ASSUME TypeOK, NEW w \in Writer,
         WriteChunkManifest(w) \/ StartPut(w) \/ LandPut(w) \/ FinishPuts(w)
  PROVE  Effect(w)
<1> StoresOK /\ SidesOK /\ WritersOK /\ BudgetOK
  BY Typed
<1>1. CASE WriteChunkManifest(w)
  <2>1. SidesOK' /\ Kept(w) /\ at'[w].chunk = "put" /\ at'[w].vector = at[w].vector
    BY <1>1, SideMoved DEF WriteChunkManifest, Done, SidesOK, Kept, Side, WriteCall
  <2>2. StoresOK' /\ WritersOK' /\ BudgetOK'
    BY <1>1 DEF WriteChunkManifest, Done, StoresOK, WritersOK, BudgetOK, Manifest, KeySet
  <2> QED
    BY <1>1, <2>1, <2>2, Primed DEF Effect, ChunkSide, VectorSide, WriteChunkManifest
<1>2. CASE StartPut(w)
  <2>1. WritersOK'
    BY <1>2 DEF StartPut, WritersOK, KeySet
  <2>2. StoresOK' /\ SidesOK' /\ BudgetOK' /\ at' = at /\ read' = read
    BY <1>2 DEF StartPut, stores, StoresOK, SidesOK, BudgetOK
  <2> QED
    BY <2>1, <2>2, Primed DEF Effect, Kept, ChunkSide, VectorSide
<1>3. CASE LandPut(w)
  <2>1. WritersOK' /\ StoresOK'
    BY <1>3 DEF LandPut, WritersOK, KeySet, StoresOK
  <2>2. SidesOK' /\ BudgetOK' /\ at' = at /\ read' = read
    BY <1>3 DEF LandPut, SidesOK, BudgetOK
  <2> QED
    BY <2>1, <2>2, Primed DEF Effect, Kept, ChunkSide, VectorSide
<1>4. CASE FinishPuts(w)
  <2>1. "written" \in Side /\ "load" \in Side
    BY DEF Side, WriteCall
  <2>2. /\ at' \in [Process -> Sides] /\ at'[w].chunk = "written" /\ at'[w].vector = "load"
        /\ \A q \in Process : q # w => at'[q] = at[q]
    BY <1>4, <2>1, BothMoved DEF FinishPuts
  <2>3. StoresOK' /\ WritersOK' /\ BudgetOK' /\ read' = read
    BY <1>4 DEF FinishPuts, stores, StoresOK, WritersOK, BudgetOK
  <2> QED
    BY <1>4, <2>2, <2>3, Primed DEF Effect, Kept, ChunkSide, VectorSide, SidesOK
<1> QED
  BY <1>1, <1>2, <1>3, <1>4

LEMMA VectorWrite ==
  ASSUME TypeOK, NEW w \in Writer, at[w].vector = "upsert" => batch[w] <= Len(Batches),
         at[w].vector = "record" => batch[w] <= Len(Batches),
         LoadVectorManifest(w) \/ RecordVectorKeys(w) \/ PutVectors(w)
  PROVE  Effect(w)
<1> StoresOK /\ SidesOK /\ WritersOK /\ BudgetOK
  BY Typed
<1> batch[w] \in 1..Len(Batches) + 1 /\ Len(Batches) \in Nat \ {0}
  BY BatchesTyped DEF WritersOK
<1>0. read[w].vector \subseteq Chunk
  BY DEF SidesOK, Reads, KeySet
<1>1. CASE LoadVectorManifest(w)
  <2>1. Keys(vectorKeys) \in KeySet
    BY DEF Keys, StoresOK, Manifest, KeySet
  <2>2. /\ at' \in [Process -> Sides]
        /\ at'[w].vector = "record" /\ at'[w].chunk = at[w].chunk
        /\ \A q \in Process : q # w => at'[q] = at[q]
    BY <1>1, SideMoved DEF LoadVectorManifest, Done, Side, WriteCall
  <2>3. /\ read' \in [Process -> Reads]
        /\ read'[w].vector = Keys(vectorKeys) /\ read'[w].chunk = read[w].chunk
        /\ \A q \in Process : q # w => read'[q] = read[q]
    BY <1>1, <2>1, ReadMoved DEF LoadVectorManifest
  <2>4. StoresOK' /\ WritersOK' /\ BudgetOK'
    BY <1>1 DEF LoadVectorManifest, Done, stores, StoresOK, WritersOK, BudgetOK
  <2> QED
    BY <1>1, <2>2, <2>3, <2>4, Primed DEF Effect, Kept, ChunkSide, VectorSide, SidesOK
<1>2. CASE RecordVectorKeys(w)
  <2>1. /\ at' \in [Process -> Sides]
        /\ at'[w].vector = "upsert" /\ at'[w].chunk = at[w].chunk
        /\ \A q \in Process : q # w => at'[q] = at[q]
    BY <1>2, SideMoved DEF RecordVectorKeys, Done, Side, WriteCall
  <2>2. Batches[batch[w]] \subseteq Chunk
    BY <1>2, BatchesTyped DEF RecordVectorKeys
  <2>3. StoresOK' /\ WritersOK' /\ BudgetOK' /\ read' = read
    BY <1>0, <1>2, <2>2 DEF RecordVectorKeys, Recorded, Done, StoresOK, WritersOK, BudgetOK,
       Manifest, KeySet
  <2> QED
    BY <1>2, <2>1, <2>3, Primed DEF Effect, Kept, ChunkSide, VectorSide, SidesOK
<1>3. CASE PutVectors(w)
  <2>0. AfterUpsert(w) \in Side
    BY DEF AfterUpsert, Side, WriteCall
  <2>1. /\ at' \in [Process -> Sides]
        /\ at'[w].vector = AfterUpsert(w) /\ at'[w].chunk = at[w].chunk
        /\ \A q \in Process : q # w => at'[q] = at[q]
    BY <1>3, <2>0, SideMoved DEF PutVectors, Done
  <2>2. Batches[batch[w]] \subseteq Chunk
    BY <1>3, BatchesTyped DEF PutVectors
  <2>3. StoresOK' /\ BudgetOK' /\ read' = read
    BY <1>3, <2>2 DEF PutVectors, Done, StoresOK, BudgetOK
  <2>4. WritersOK'
    <3>1. batch[w] + 1 \in 1..Len(Batches) + 1
      BY <1>3 DEF PutVectors
    <3> QED
      BY <1>3, <3>1 DEF PutVectors, WritersOK
  <2> QED
    BY <1>3, <2>1, <2>3, <2>4, Primed DEF Effect, Kept, ChunkSide, VectorSide, SidesOK
<1> QED
  BY <1>1, <1>2, <1>3

LEMMA WriterStops ==
  ASSUME TypeOK, NEW w \in Writer,
         at[w].vector \in {"record", "upsert"} => batch[w] <= Len(Batches),
         WriterFails(w) \/ Crash(w)
  PROVE  Effect(w)
<1> StoresOK /\ SidesOK /\ WritersOK /\ BudgetOK
  BY Typed
<1>0. "find" \in Side /\ "crashed" \in Side
  BY DEF Side, DeleteCall
<1>1. CASE WriterFails(w)
  <2>1. /\ at' \in [Process -> Sides] /\ at'[w].chunk = "find" /\ at'[w].vector = "find"
        /\ \A q \in Process : q # w => at'[q] = at[q]
    BY <1>0, <1>1, BothMoved DEF WriterFails
  <2>2. read' = read /\ batch' = batch /\ waiting' = waiting /\ late' = late
    BY <1>1 DEF WriterFails
  <2>3. BudgetOK'
    BY <1>1, SpendTyped DEF WriterFails
  <2>4. WritersOK'
    BY <1>1, <2>2 DEF WriterFails, WritersOK, KeySet
  <2>5. StoresOK'
    <3>1. at[w].vector \in {"record", "upsert"} => Batches[batch[w]] \subseteq Chunk
      BY BatchesTyped DEF WritersOK
    <3>2. read[w].vector \subseteq Chunk
      BY DEF SidesOK, Reads, KeySet
    <3> QED
      BY <1>1, <2>2, <3>1, <3>2 DEF WriterFails, stores, StoresOK, Recorded, Manifest, KeySet
  <2> QED
    BY <1>1, <2>1, <2>2, <2>3, <2>4, <2>5, Primed DEF Effect, Kept, ChunkSide, VectorSide, SidesOK
<1>2. CASE Crash(w)
  <2>1. /\ at' \in [Process -> Sides] /\ at'[w].chunk = "crashed" /\ at'[w].vector = "crashed"
        /\ \A q \in Process : q # w => at'[q] = at[q]
    BY <1>0, <1>2, BothMoved DEF Crash
  <2>2. StoresOK' /\ read' = read /\ WritersOK'
    BY <1>2 DEF Crash, stores, StoresOK, WritersOK, KeySet
  <2>3. BudgetOK'
    BY <1>2, SpendTyped DEF Crash
  <2> QED
    BY <1>2, <2>1, <2>2, <2>3, Primed DEF Effect, Kept, ChunkSide, VectorSide, SidesOK
<1> QED
  BY <1>1, <1>2

\* The deletion of the chunks, and that of the vectors.
LEMMA ChunkDelete ==
  ASSUME TypeOK, NEW p \in Process, Delete(p, "chunk") \/ DeletionFails(p, "chunk")
  PROVE  Effect(p)
<1> StoresOK /\ SidesOK /\ WritersOK /\ BudgetOK
  BY Typed
<1>0. "delete" \in Side /\ "deleted" \in Side /\ "drop" \in Side /\ "failed" \in Side
  BY DEF Side, DeleteCall
<1> read[p].chunk \subseteq Chunk
  BY DEF SidesOK, Reads, KeySet
<1>1. CASE SkipUnnamed(p, "chunk")
  <2>1. /\ at' \in [Process -> Sides] /\ at'[p].chunk = "deleted" /\ at'[p].vector = at[p].vector
        /\ \A q \in Process : q # p => at'[q] = at[q]
    BY <1>0, <1>1, SideMoved DEF SkipUnnamed, Done
  <2>2. StoresOK' /\ WritersOK' /\ BudgetOK' /\ read' = read
    BY <1>1 DEF SkipUnnamed, Done, stores, StoresOK, WritersOK, BudgetOK
  <2> QED
    BY <1>1, <2>1, <2>2, Primed DEF Effect, Kept, ChunkSide, VectorSide, SidesOK, SkipUnnamed, Unnamed
<1>2. CASE Find(p, "chunk")
  <2>1. ChunksToDelete \in KeySet
    BY DEF ChunksToDelete, Listed, StoresOK, Manifest, KeySet
  <2>2. /\ at' \in [Process -> Sides] /\ at'[p].chunk = "delete" /\ at'[p].vector = at[p].vector
        /\ \A q \in Process : q # p => at'[q] = at[q]
    BY <1>0, <1>2, SideMoved DEF Find, Done
  <2>3. /\ read' \in [Process -> Reads]
        /\ read'[p].chunk = ChunksToDelete /\ read'[p].vector = read[p].vector
        /\ \A q \in Process : q # p => read'[q] = read[q]
    BY <1>2, <2>1, ReadMoved DEF Find
  <2>4. StoresOK' /\ WritersOK' /\ BudgetOK'
    BY <1>2 DEF Find, Done, stores, StoresOK, WritersOK, BudgetOK
  <2> QED
    BY <1>2, <2>2, <2>3, <2>4, Primed DEF Effect, Kept, ChunkSide, VectorSide, SidesOK, Find
<1>3. CASE DeleteKeys(p, "chunk")
  <2>1. PICK keys \in SUBSET read[p].chunk :
          \/ /\ Remove("chunk", keys)
             /\ read' = [read EXCEPT ![p]["chunk"] = read[p].chunk \ keys]
             /\ Done(p, "chunk", AfterDelete(p, "chunk", read[p].chunk \ keys))
          \/ /\ \E some \in SUBSET keys : Remove("chunk", some)
             /\ Spend("partial") /\ Now(p, "chunk", AfterPartial(p)) /\ UNCHANGED read
    BY <1>3 DEF DeleteKeys, SidesOK, Reads
  <2>2. StoresOK' /\ WritersOK'
    BY <1>3, <2>1 DEF DeleteKeys, Remove, StoresOK, WritersOK
  <2>3. at[p].chunk = "delete" /\ at[p].chunk \in DeleteCall
    BY <1>3 DEF DeleteKeys, DeleteCall
  <2> DEFINE rest == read[p].chunk \ keys
  <2>4. rest \in KeySet /\ AfterDelete(p, "chunk", rest) \in Side
    BY <1>0 DEF AfterDelete, KeySet
  <2>5. CASE /\ Remove("chunk", keys) /\ read' = [read EXCEPT ![p]["chunk"] = rest]
             /\ Done(p, "chunk", AfterDelete(p, "chunk", rest))
    <3>0. objects' = objects \ keys /\ BudgetOK'
      BY <2>5 DEF Remove, Done, BudgetOK
    <3> HIDE DEF rest
    <3>1. /\ at' \in [Process -> Sides]
          /\ at'[p].chunk = AfterDelete(p, "chunk", rest) /\ at'[p].vector = at[p].vector
          /\ \A q \in Process : q # p => at'[q] = at[q]
      BY <2>4, <2>5, SideMoved DEF Done
    <3>2. /\ read' \in [Process -> Reads]
          /\ read'[p].chunk = rest /\ read'[p].vector = read[p].vector
          /\ \A q \in Process : q # p => read'[q] = read[q]
      BY <2>4, <2>5, ReadMoved
    <3>3. ChunkSide(p)
      BY <2>3, <3>0, <3>1, <3>2 DEF ChunkSide, rest
    <3>4. VectorSide(p) /\ Kept(p) /\ SidesOK'
      BY <3>1, <3>2 DEF VectorSide, Kept, SidesOK
    <3> QED
      BY <2>2, <3>0, <3>3, <3>4, Primed DEF Effect
  <2>6. CASE Spend("partial") /\ Now(p, "chunk", AfterPartial(p)) /\ UNCHANGED read
    <3>1. /\ at' \in [Process -> Sides] /\ at'[p].chunk = "failed" /\ at'[p].vector = at[p].vector
          /\ \A q \in Process : q # p => at'[q] = at[q]
      BY <1>0, <2>6, SideMoved DEF AfterPartial
    <3>2. BudgetOK'
      BY <2>6, SpendTyped
    <3> QED
      BY <2>2, <2>3, <2>6, <3>1, <3>2, Primed DEF Effect, Kept, ChunkSide, VectorSide, SidesOK
  <2> QED
    BY <2>1, <2>5, <2>6
<1>4. CASE DropManifest(p, "chunk")
  <2>1. /\ at' \in [Process -> Sides] /\ at'[p].chunk = "deleted" /\ at'[p].vector = at[p].vector
        /\ \A q \in Process : q # p => at'[q] = at[q]
    BY <1>0, <1>4, SideMoved DEF DropManifest, Done
  <2>2. StoresOK' /\ WritersOK' /\ BudgetOK' /\ read' = read
    BY <1>4 DEF DropManifest, Done, StoresOK, WritersOK, BudgetOK, Manifest
  <2> QED
    BY <1>4, <2>1, <2>2, Primed DEF Effect, Kept, ChunkSide, VectorSide, SidesOK, DropManifest
<1>5. CASE DeletionFails(p, "chunk")
  <2>1. /\ at' \in [Process -> Sides] /\ at'[p].chunk = "failed" /\ at'[p].vector = at[p].vector
        /\ \A q \in Process : q # p => at'[q] = at[q]
    BY <1>0, <1>5, SideMoved DEF DeletionFails
  <2>2. StoresOK' /\ WritersOK' /\ read' = read /\ at[p].chunk \in DeleteCall
    BY <1>5 DEF DeletionFails, stores, StoresOK, WritersOK, DeleteCall
  <2>3. BudgetOK'
    BY <1>5, SpendTyped DEF DeletionFails
  <2> QED
    BY <2>1, <2>2, <2>3, Primed DEF Effect, Kept, ChunkSide, VectorSide, SidesOK
<1> QED
  BY <1>1, <1>2, <1>3, <1>4, <1>5 DEF Delete

LEMMA VectorDelete ==
  ASSUME TypeOK, NEW p \in Process, Delete(p, "vector") \/ DeletionFails(p, "vector")
  PROVE  Effect(p)
<1> StoresOK /\ SidesOK /\ WritersOK /\ BudgetOK
  BY Typed
<1>0. "delete" \in Side /\ "deleted" \in Side /\ "drop" \in Side /\ "failed" \in Side
  BY DEF Side, DeleteCall
<1> read[p].vector \subseteq Chunk
  BY DEF SidesOK, Reads, KeySet
<1>1. CASE SkipUnnamed(p, "vector")
  <2>1. /\ at' \in [Process -> Sides] /\ at'[p].vector = "deleted" /\ at'[p].chunk = at[p].chunk
        /\ \A q \in Process : q # p => at'[q] = at[q]
    BY <1>0, <1>1, SideMoved DEF SkipUnnamed, Done
  <2>2. StoresOK' /\ WritersOK' /\ BudgetOK' /\ read' = read
    BY <1>1 DEF SkipUnnamed, Done, stores, StoresOK, WritersOK, BudgetOK
  <2> QED
    BY <1>1, <2>1, <2>2, Primed DEF Effect, Kept, ChunkSide, VectorSide, SidesOK, SkipUnnamed, Unnamed
<1>2. CASE Find(p, "vector")
  <2>1. Keys(vectorKeys) \in KeySet
    BY DEF Keys, StoresOK, Manifest, KeySet
  <2>2. /\ at' \in [Process -> Sides] /\ at'[p].vector = "delete" /\ at'[p].chunk = at[p].chunk
        /\ \A q \in Process : q # p => at'[q] = at[q]
    BY <1>0, <1>2, SideMoved DEF Find, Done
  <2>3. /\ read' \in [Process -> Reads]
        /\ read'[p].vector = Keys(vectorKeys) /\ read'[p].chunk = read[p].chunk
        /\ \A q \in Process : q # p => read'[q] = read[q]
    BY <1>2, <2>1, ReadMoved DEF Find
  <2>4. StoresOK' /\ WritersOK' /\ BudgetOK'
    BY <1>2 DEF Find, Done, stores, StoresOK, WritersOK, BudgetOK
  <2> QED
    BY <1>2, <2>2, <2>3, <2>4, Primed DEF Effect, Kept, ChunkSide, VectorSide, SidesOK, Find
<1>3. CASE DeleteKeys(p, "vector")
  <2>1. PICK keys \in SUBSET read[p].vector :
          \/ /\ Remove("vector", keys)
             /\ read' = [read EXCEPT ![p]["vector"] = read[p].vector \ keys]
             /\ Done(p, "vector", AfterDelete(p, "vector", read[p].vector \ keys))
          \/ /\ \E some \in SUBSET keys : Remove("vector", some)
             /\ Spend("partial") /\ Now(p, "vector", AfterPartial(p)) /\ UNCHANGED read
    BY <1>3 DEF DeleteKeys, SidesOK, Reads
  <2>2. StoresOK' /\ WritersOK'
    BY <1>3, <2>1 DEF DeleteKeys, Remove, StoresOK, WritersOK
  <2>3. at[p].vector = "delete" /\ at[p].vector \in DeleteCall
    BY <1>3 DEF DeleteKeys, DeleteCall
  <2> DEFINE rest == read[p].vector \ keys
  <2>4. rest \in KeySet /\ AfterDelete(p, "vector", rest) \in Side
    BY <1>0 DEF AfterDelete, KeySet
  <2>5. CASE /\ Remove("vector", keys) /\ read' = [read EXCEPT ![p]["vector"] = rest]
             /\ Done(p, "vector", AfterDelete(p, "vector", rest))
    <3>0. vectors' = vectors \ keys /\ BudgetOK'
      BY <2>5 DEF Remove, Done, BudgetOK
    <3> HIDE DEF rest
    <3>1. /\ at' \in [Process -> Sides]
          /\ at'[p].vector = AfterDelete(p, "vector", rest) /\ at'[p].chunk = at[p].chunk
          /\ \A q \in Process : q # p => at'[q] = at[q]
      BY <2>4, <2>5, SideMoved DEF Done
    <3>2. /\ read' \in [Process -> Reads]
          /\ read'[p].vector = rest /\ read'[p].chunk = read[p].chunk
          /\ \A q \in Process : q # p => read'[q] = read[q]
      BY <2>4, <2>5, ReadMoved
    <3>3. VectorSide(p)
      BY <2>3, <3>0, <3>1, <3>2 DEF VectorSide, rest
    <3>4. ChunkSide(p) /\ Kept(p) /\ SidesOK'
      BY <3>1, <3>2 DEF ChunkSide, Kept, SidesOK
    <3> QED
      BY <2>2, <3>0, <3>3, <3>4, Primed DEF Effect
  <2>6. CASE Spend("partial") /\ Now(p, "vector", AfterPartial(p)) /\ UNCHANGED read
    <3>1. /\ at' \in [Process -> Sides] /\ at'[p].vector = "failed" /\ at'[p].chunk = at[p].chunk
          /\ \A q \in Process : q # p => at'[q] = at[q]
      BY <1>0, <2>6, SideMoved DEF AfterPartial
    <3>2. BudgetOK'
      BY <2>6, SpendTyped
    <3> QED
      BY <2>2, <2>3, <2>6, <3>1, <3>2, Primed DEF Effect, Kept, ChunkSide, VectorSide, SidesOK
  <2> QED
    BY <2>1, <2>5, <2>6
<1>4. CASE DropManifest(p, "vector")
  <2>1. /\ at' \in [Process -> Sides] /\ at'[p].vector = "deleted" /\ at'[p].chunk = at[p].chunk
        /\ \A q \in Process : q # p => at'[q] = at[q]
    BY <1>0, <1>4, SideMoved DEF DropManifest, Done
  <2>2. StoresOK' /\ WritersOK' /\ BudgetOK' /\ read' = read
    BY <1>4 DEF DropManifest, Done, StoresOK, WritersOK, BudgetOK, Manifest
  <2> QED
    BY <1>4, <2>1, <2>2, Primed DEF Effect, Kept, ChunkSide, VectorSide, SidesOK, DropManifest
<1>5. CASE DeletionFails(p, "vector")
  <2>1. /\ at' \in [Process -> Sides] /\ at'[p].vector = "failed" /\ at'[p].chunk = at[p].chunk
        /\ \A q \in Process : q # p => at'[q] = at[q]
    BY <1>0, <1>5, SideMoved DEF DeletionFails
  <2>2. StoresOK' /\ WritersOK' /\ read' = read /\ at[p].vector \in DeleteCall
    BY <1>5 DEF DeletionFails, stores, StoresOK, WritersOK, DeleteCall
  <2>3. BudgetOK'
    BY <1>5, SpendTyped DEF DeletionFails
  <2> QED
    BY <2>1, <2>2, <2>3, Primed DEF Effect, Kept, ChunkSide, VectorSide, SidesOK
<1> QED
  BY <1>1, <1>2, <1>3, <1>4, <1>5 DEF Delete


LEMMA RemovalStarts ==
  ASSUME TypeOK, NEW p \in Remover, StartRemoval(p)
  PROVE  Effect(p)
<1> StoresOK /\ SidesOK /\ WritersOK /\ BudgetOK
  BY Typed
<1>1. "find" \in Side
  BY DEF Side, DeleteCall
<1>2. /\ at' \in [Process -> Sides] /\ at'[p].chunk = "find" /\ at'[p].vector = "find"
      /\ \A q \in Process : q # p => at'[q] = at[q]
  BY <1>1, BothMoved DEF StartRemoval
<1>3. StoresOK' /\ WritersOK' /\ BudgetOK' /\ read' = read
  BY DEF StartRemoval, stores, StoresOK, WritersOK, BudgetOK
<1> QED
  BY <1>2, <1>3, Primed DEF Effect, Kept, ChunkSide, VectorSide, SidesOK

-----------------------------------------------------------------------------
(* How a step changes the two sides of a process, the stores, and the puts *)

\* Every process has only its own calls.
LEMMA ProcessStep ==
  ASSUME TypeOK, VectorsWritten, [Next]_vars, NEW p \in Process
  PROVE  ChunkSide(p) /\ VectorSide(p)
<1>1. CASE UNCHANGED vars
  BY <1>1 DEF vars, ChunkSide, VectorSide
<1>2. ASSUME NEW w \in Writer PROVE at[w].vector \in {"record", "upsert"} => batch[w] <= Len(Batches)
  BY DEF VectorsWritten
<1>3. ASSUME NEW q \in Process, Effect(q) PROVE ChunkSide(p) /\ VectorSide(p)
  BY <1>3 DEF Effect, Kept, ChunkSide, VectorSide
<1>4. ASSUME NEW w \in Writer, Write(w) \/ WriterFails(w) \/ Crash(w)
      PROVE  ChunkSide(p) /\ VectorSide(p)
  BY <1>2, <1>3, <1>4, ChunkWrite, VectorWrite, WriterStops DEF Write
<1>5. ASSUME NEW q \in Process, NEW side \in {"chunk", "vector"}, Delete(q, side) \/ DeletionFails(q, side)
      PROVE  ChunkSide(p) /\ VectorSide(p)
  BY <1>3, <1>5, ChunkDelete, VectorDelete
<1>6. ASSUME NEW q \in Remover, StartRemoval(q) PROVE ChunkSide(p) /\ VectorSide(p)
  BY <1>3, <1>6, RemovalStarts
<1> QED
  BY <1>1, <1>4, <1>5, <1>6 DEF Next

LEMMA TypeStep ==
  ASSUME TypeOK, VectorsWritten, [Next]_vars PROVE TypeOK'
<1>1. CASE UNCHANGED vars
  BY <1>1 DEF vars, stores, TypeOK
<1>2. ASSUME NEW w \in Writer PROVE at[w].vector \in {"record", "upsert"} => batch[w] <= Len(Batches)
  BY DEF VectorsWritten
<1>3. ASSUME NEW w \in Writer, Write(w) \/ WriterFails(w) \/ Crash(w) PROVE TypeOK'
  BY <1>2, <1>3, ChunkWrite, VectorWrite, WriterStops DEF Write, Effect
<1>4. ASSUME NEW q \in Process, NEW side \in {"chunk", "vector"}, Delete(q, side) \/ DeletionFails(q, side)
      PROVE  TypeOK'
  BY <1>4, ChunkDelete, VectorDelete DEF Effect
<1>5. ASSUME NEW q \in Remover, StartRemoval(q) PROVE TypeOK'
  BY <1>5, RemovalStarts DEF Effect
<1> QED
  BY <1>1, <1>3, <1>4, <1>5 DEF Next

\* The ways a step changes the stores.
Lands(w) == /\ w \in Writer /\ at' = at /\ UNCHANGED <<chunkKeys, vectors, vectorKeys>>
            /\ \E c \in flying[w] : /\ objects' = objects \cup {c}
                                    /\ late' = IF at[w].chunk = "put" THEN late ELSE late \cup {c}
Lists(w) == /\ w \in Writer /\ at[w].chunk = "manifest"
            /\ chunkKeys' = Chunk /\ UNCHANGED <<objects, vectors, vectorKeys, late>>
Records(w) == /\ w \in Writer /\ at[w].vector = "record"
              /\ vectorKeys' = Recorded(w) /\ UNCHANGED <<objects, chunkKeys, vectors, late>>
Upserts(w) == /\ w \in Writer /\ at[w].vector = "upsert"
              /\ vectors' = vectors \cup Batches[batch[w]]
              /\ UNCHANGED <<objects, chunkKeys, vectorKeys, late>>
DeletesObjects(p) == /\ at[p].chunk = "delete" /\ objects' \subseteq objects
                     /\ UNCHANGED <<chunkKeys, vectors, vectorKeys, late>>
DeletesVectors(p) == /\ at[p].vector = "delete" /\ vectors' \subseteq vectors
                     /\ UNCHANGED <<objects, chunkKeys, vectorKeys, late>>
DropsChunks(p) == /\ at[p].chunk = "drop" /\ chunkKeys' = Absent
                  /\ UNCHANGED <<objects, vectors, vectorKeys, late>>
DropsVectors(p) == /\ at[p].vector = "drop" /\ vectorKeys' = Absent
                   /\ UNCHANGED <<objects, chunkKeys, vectors, late>>

LEMMA StoresStep ==
  ASSUME [Next]_vars
  PROVE  \/ UNCHANGED <<stores, late>>
         \/ \E p \in Process : \/ Lands(p) \/ Lists(p) \/ Records(p) \/ Upserts(p)
                               \/ DeletesObjects(p) \/ DeletesVectors(p)
                               \/ DropsChunks(p) \/ DropsVectors(p)
<1>1. CASE UNCHANGED vars
  BY <1>1 DEF vars
<1>2. ASSUME NEW w \in Writer, Write(w)
      PROVE  \/ UNCHANGED <<stores, late>> \/ Lands(w) \/ Lists(w) \/ Records(w) \/ Upserts(w)
  BY <1>2 DEF Write, WriteChunkManifest, StartPut, LandPut, FinishPuts, LoadVectorManifest,
     RecordVectorKeys, PutVectors, Lands, Lists, Records, Upserts, stores
<1>3. ASSUME NEW w \in Writer, WriterFails(w)
      PROVE  \/ UNCHANGED <<stores, late>> \/ Lists(w) \/ Records(w) \/ Upserts(w)
  BY <1>3 DEF WriterFails, Lists, Records, Upserts, stores
<1>4. ASSUME NEW w \in Writer, Crash(w) PROVE UNCHANGED <<stores, late>>
  BY <1>4 DEF Crash
<1>5. ASSUME NEW p \in Process, Delete(p, "chunk")
      PROVE  UNCHANGED <<stores, late>> \/ DeletesObjects(p) \/ DropsChunks(p)
  BY <1>5 DEF Delete, SkipUnnamed, Find, DeleteKeys, Remove, DropManifest, DeletesObjects,
     DropsChunks, stores
<1>6. ASSUME NEW p \in Process, Delete(p, "vector")
      PROVE  UNCHANGED <<stores, late>> \/ DeletesVectors(p) \/ DropsVectors(p)
  BY <1>6 DEF Delete, SkipUnnamed, Find, DeleteKeys, Remove, DropManifest, DeletesVectors,
     DropsVectors, stores
<1>7. ASSUME NEW p \in Process, NEW side \in {"chunk", "vector"}, DeletionFails(p, side)
      PROVE  UNCHANGED <<stores, late>>
  BY <1>7 DEF DeletionFails
<1>8. ASSUME NEW p \in Remover, StartRemoval(p) PROVE UNCHANGED <<stores, late>>
  BY <1>8 DEF StartRemoval
<1> QED
  BY <1>1, <1>2, <1>3, <1>4, <1>5, <1>6, <1>7, <1>8 DEF Next

\* The puts of a writer: they start with its manifest, and while it waits for them
\* they end with their object.
LEMMA PutsStep ==
  ASSUME TypeOK, [Next]_vars, NEW w \in Writer
  PROVE  /\ \/ WriteChunkManifest(w) /\ waiting'[w] = Chunk
            \/ /\ waiting'[w] \cup flying'[w] \subseteq waiting[w] \cup flying[w]
               /\ \/ (waiting[w] \cup flying[w]) \ (waiting'[w] \cup flying'[w]) \subseteq objects'
                  \/ at'[w].chunk # "put"
         /\ batch'[w] = batch[w] \/ (PutVectors(w) /\ batch'[w] = batch[w] + 1)
<1> StoresOK /\ SidesOK /\ WritersOK
  BY Typed
<1> waiting \in [Writer -> KeySet] /\ flying \in [Writer -> KeySet] /\ at \in [Process -> Sides]
    /\ batch \in [Writer -> 1..Len(Batches) + 1]
  BY DEF WritersOK, SidesOK
<1> DEFINE Quietly(v) == waiting'[v] = waiting[v] /\ flying'[v] = flying[v] /\ batch'[v] = batch[v]
<1>1. CASE UNCHANGED vars
  BY <1>1 DEF vars
<1>2. ASSUME NEW v \in Writer, v # w, Write(v) \/ WriterFails(v) \/ Crash(v) PROVE Quietly(w)
  BY <1>2 DEF Write, WriteChunkManifest, StartPut, LandPut, FinishPuts, LoadVectorManifest,
     RecordVectorKeys, PutVectors, WriterFails, Crash
<1>3. CASE WriteChunkManifest(w) \/ FinishPuts(w) \/ LoadVectorManifest(w) \/ RecordVectorKeys(w)
           \/ PutVectors(w)
  BY <1>3 DEF WriteChunkManifest, FinishPuts, LoadVectorManifest, RecordVectorKeys, PutVectors
<1>4. CASE StartPut(w)
  BY <1>4 DEF StartPut
<1>5. CASE LandPut(w)
  BY <1>5 DEF LandPut
<1>6. CASE WriterFails(w) \/ Crash(w)
  <2>1. at'[w].chunk # "put"
    BY <1>6 DEF WriterFails, Crash
  <2> QED
    BY <1>6, <2>1 DEF WriterFails, Crash
<1>7. ASSUME NEW p \in Process, NEW side \in {"chunk", "vector"}, Delete(p, side) \/ DeletionFails(p, side)
      PROVE  Quietly(w)
  BY <1>7 DEF Delete, SkipUnnamed, Find, DeleteKeys, DropManifest, DeletionFails
<1>8. ASSUME NEW p \in Remover, StartRemoval(p) PROVE Quietly(w)
  BY <1>8 DEF StartRemoval
<1>9. CASE Quietly(w)
  BY <1>9
<1> QED
  BY <1>1, <1>2, <1>3, <1>4, <1>5, <1>6, <1>7, <1>8, <1>9 DEF Next, Write

-----------------------------------------------------------------------------
(* The inductive invariant                                                 *)

AtWork(w) == Active(at[w].chunk) \/ Active(at[w].vector) \/ waiting[w] \cup flying[w] # {}

\* While the writer is at work no other process is.
LEMMA Alone ==
  ASSUME SoleWriter, RemovalsWait, NEW w \in Writer, AtWork(w), NEW p \in Process, p # w
  PROVE  p \in Remover /\ at[p].chunk = "idle" /\ at[p].vector = "idle"
BY DEF SoleWriter, RemovalsWait, AtWork

\* A writer that stopped does not start again.
LEMMA AtWorkBefore ==
  ASSUME TypeOK, VectorsWritten, [Next]_vars, NEW w \in Writer, AtWork(w)' PROVE AtWork(w)
<1> w \in Process /\ w \notin Remover /\ w \notin ByDocument
  OBVIOUS
<1>1. ASSUME Active(at'[w].chunk) PROVE AtWork(w)
  <2>1. CASE WriteChunkManifest(w) \/ FinishPuts(w) \/ WriterFails(w) \/ Crash(w)
    BY <2>1 DEF WriteChunkManifest, FinishPuts, WriterFails, Crash, AtWork, Active, WriteCall
  <2> QED
    BY <1>1, <2>1, ProcessStep DEF ChunkSide, AtWork, Active, WriteCall, DeleteCall
<1>2. ASSUME Active(at'[w].vector) PROVE AtWork(w)
  <2>1. CASE FinishPuts(w) \/ LoadVectorManifest(w) \/ RecordVectorKeys(w) \/ PutVectors(w)
             \/ WriterFails(w) \/ Crash(w)
    BY <2>1 DEF FinishPuts, LoadVectorManifest, RecordVectorKeys, PutVectors, WriterFails, Crash,
       AtWork, Active, WriteCall
  <2> QED
    BY <1>2, <2>1, ProcessStep DEF VectorSide, AtWork, Active, WriteCall, DeleteCall
<1>3. ASSUME waiting'[w] \cup flying'[w] # {} PROVE AtWork(w)
  BY <1>3, PutsStep DEF WriteChunkManifest, AtWork, Active, WriteCall
<1> QED
  BY <1>1, <1>2, <1>3 DEF AtWork

\* A removal that started is never idle again; it starts when no writer is at work.
LEMMA RemoverStep ==
  ASSUME TypeOK, VectorsWritten, RemovalsWait, [Next]_vars, NEW p \in Remover
  PROVE  /\ at'[p].chunk = "idle" <=> at'[p].vector = "idle"
         /\ at'[p].chunk = "idle" => at[p].chunk = "idle"
         /\ at[p].chunk = "idle" /\ at'[p].chunk # "idle" =>
              \A w \in Writer : ~AtWork(w)
<1> p \in Process /\ p \notin Writer
  OBVIOUS
<1>0. at[p].chunk = "idle" <=> at[p].vector = "idle"
  BY DEF RemovalsWait
<1>1. CASE StartRemoval(p)
  <2>1. at'[p].chunk = "find" /\ at'[p].vector = "find"
    BY <1>1, Typed DEF StartRemoval, SidesOK
  <2>2. ASSUME NEW w \in Writer PROVE ~AtWork(w)
    BY <1>1 DEF StartRemoval, Background, AtWork, Active
  <2> QED
    BY <2>1, <2>2
<1>2. CASE ~StartRemoval(p) /\ at[p].chunk = "idle"
  BY <1>0, <1>2, ProcessStep DEF ChunkSide, VectorSide, DeleteCall
<1>3. CASE ~StartRemoval(p) /\ at[p].chunk # "idle"
  <2>1. at'[p].chunk # "idle"
    BY <1>3, ProcessStep DEF ChunkSide, AfterDelete
  <2>2. at'[p].vector # "idle"
    BY <1>0, <1>3, ProcessStep DEF VectorSide, AfterDelete
  <2> QED
    BY <1>3, <2>1, <2>2
<1> QED
  BY <1>1, <1>2, <1>3

LEMMA RemovalsWaitStep ==
  ASSUME TypeOK, VectorsWritten, RemovalsWait, [Next]_vars PROVE RemovalsWait'
<1>1. \A p \in Remover : at'[p].chunk = "idle" <=> at'[p].vector = "idle"
  BY RemoverStep
<1>2. ASSUME NEW w \in Writer, AtWork(w)', NEW p \in Remover PROVE at'[p].chunk = "idle"
  <2>1. AtWork(w)
    BY <1>2, AtWorkBefore
  <2>2. at[p].chunk = "idle"
    BY <2>1 DEF RemovalsWait, AtWork
  <2> QED
    BY <2>1, <2>2, RemoverStep
<1> QED
  BY <1>1, <1>2 DEF RemovalsWait, AtWork

LEMMA RemoversIdleBefore ==
  ASSUME TypeOK, VectorsWritten, RemovalsWait, [Next]_vars, RemoversIdle' PROVE RemoversIdle
BY RemoverStep DEF RemoversIdle

\* The chunk side of the writer is its own as long as no removal has started.
LEMMA ObjectsKept ==
  ASSUME SoleWriter, TypeOK, VectorsWritten, RemovalsWait, [Next]_vars, NEW w \in Writer,
         at[w].chunk = "put" \/ (at[w].chunk = "written" /\ RemoversIdle)
  PROVE  /\ objects \subseteq objects'
         /\ chunkKeys' = chunkKeys \/ chunkKeys' = Chunk
<1>1. ASSUME NEW p \in Process, p # w PROVE at[p].chunk = "idle"
  BY <1>1, Alone DEF AtWork, Active, WriteCall, RemoversIdle, SoleWriter
<1>2. ASSUME NEW p \in Process, DeletesObjects(p) \/ DropsChunks(p) PROVE FALSE
  BY <1>1, <1>2 DEF DeletesObjects, DropsChunks
<1> QED
  BY <1>2, StoresStep DEF stores, Lands, Lists, Records, Upserts, DeletesVectors, DropsVectors

LEMMA ChunksWrittenStep ==
  ASSUME SoleWriter, IInv, [Next]_vars PROVE ChunksWritten'
<1> TypeOK /\ VectorsWritten /\ RemovalsWait /\ ChunksWritten /\ StoresOK /\ TypeOK'
  BY Typed, TypeStep DEF IInv
<1>1. chunkKeys' \in {Absent, Chunk}
  BY StoresStep DEF stores, Lands, Lists, Records, Upserts, DeletesObjects, DeletesVectors,
     DropsChunks, DropsVectors, ChunksWritten
<1>2. ASSUME NEW w \in Writer, at'[w].chunk = "put"
      PROVE  chunkKeys' = Chunk /\ Chunk \ (waiting'[w] \cup flying'[w]) \subseteq objects'
  <2>1. CASE WriteChunkManifest(w) /\ waiting'[w] = Chunk
    BY <2>1 DEF WriteChunkManifest
  <2>2. CASE ~WriteChunkManifest(w)
    <3>1. at[w].chunk = "put"
      BY <1>2, <2>2, ProcessStep DEF ChunkSide, AfterDelete
    <3>2. /\ chunkKeys = Chunk /\ Chunk \ (waiting[w] \cup flying[w]) \subseteq objects
          /\ objects \subseteq objects' /\ (chunkKeys' = chunkKeys \/ chunkKeys' = Chunk)
      BY <3>1, ObjectsKept DEF ChunksWritten
    <3> QED
      BY <1>2, <2>2, <3>2, PutsStep
  <2>3. CASE WriteChunkManifest(w) /\ waiting'[w] # Chunk
    BY <2>3 DEF WriteChunkManifest, TypeOK
  <2> QED
    BY <2>1, <2>2, <2>3
<1>3. ASSUME NEW w \in Writer, at'[w].chunk = "written", RemoversIdle' PROVE objects' = Chunk
  <2>0. objects' \subseteq Chunk
    BY DEF TypeOK
  <2>1. CASE FinishPuts(w)
    <3>1. at[w].chunk = "put" /\ waiting[w] \cup flying[w] = {} /\ objects' = objects
      BY <2>1 DEF FinishPuts, AllLanded, stores
    <3> QED
      BY <2>0, <3>1 DEF ChunksWritten
  <2>2. CASE ~FinishPuts(w)
    <3>1. at[w].chunk = "written" /\ RemoversIdle
      BY <1>3, <2>2, ProcessStep, RemoversIdleBefore DEF ChunkSide, AfterDelete
    <3> QED
      BY <2>0, <3>1, ObjectsKept DEF ChunksWritten
  <2> QED
    BY <2>1, <2>2
<1> QED
  BY <1>1, <1>2, <1>3 DEF ChunksWritten

\* And so is the vector side.
LEMMA VectorsKept ==
  ASSUME SoleWriter, TypeOK, VectorsWritten, RemovalsWait, [Next]_vars, NEW w \in Writer,
         at[w].vector \in {"load", "record", "upsert"} \/ (at[w].vector = "written" /\ RemoversIdle)
  PROVE  /\ vectors \subseteq vectors'
         /\ vectors' = vectors \/ at[w].vector = "upsert"
         /\ vectorKeys' = vectorKeys \/ at[w].vector = "record"
<1>1. ASSUME NEW p \in Process, p # w PROVE at[p].vector = "idle"
  BY <1>1, Alone DEF AtWork, Active, WriteCall, RemoversIdle, SoleWriter, RemovalsWait
<1>2. ASSUME NEW p \in Process, DeletesVectors(p) \/ DropsVectors(p) PROVE FALSE
  BY <1>1, <1>2 DEF DeletesVectors, DropsVectors
<1>3. ASSUME NEW p \in Process, Upserts(p) \/ Records(p) PROVE p = w
  BY <1>1, <1>3 DEF Upserts, Records
<1> QED
  BY <1>2, <1>3, StoresStep DEF stores, Lands, Lists, Records, Upserts, DeletesObjects, DropsChunks

LEMMA VectorsWrittenStep ==
  ASSUME SoleWriter, IInv, [Next]_vars PROVE VectorsWritten'
<1> TypeOK /\ VectorsWritten /\ RemovalsWait /\ ChunksWritten /\ VectorsTracked /\ StoresOK /\ TypeOK'
    /\ WritersOK
  BY Typed, TypeStep DEF IInv
<1> SUFFICES ASSUME NEW w \in Writer
             PROVE  /\ at'[w].chunk \in {"manifest", "put"} => batch'[w] = 1
                    /\ at'[w].vector \in {"load", "record", "upsert"} =>
                         /\ at'[w].chunk = "written" /\ batch'[w] <= Len(Batches)
                         /\ \A i \in 1..batch'[w] - 1 : Batches[i] \subseteq vectors'
                    /\ at'[w].vector = "record" => vectors' \subseteq read'[w].vector
                    /\ at'[w].vector = "upsert" => Batches[batch'[w]] \subseteq Keys(vectorKeys')
                    /\ at'[w].vector = "written" /\ RemoversIdle' => vectors' = Chunk
  BY DEF VectorsWritten, Keys
<1> w \in Process /\ w \notin Remover /\ w \notin ByDocument
  OBVIOUS
<1> batch[w] \in 1..Len(Batches) + 1 /\ Len(Batches) \in Nat \ {0}
  BY BatchesTyped DEF WritersOK
<1>1. ASSUME at'[w].chunk \in {"manifest", "put"} PROVE batch'[w] = 1
  <2>1. at[w].chunk \in {"manifest", "put"}
    BY <1>1, ProcessStep DEF ChunkSide, WriteChunkManifest, AfterDelete
  <2>2. ~PutVectors(w)
    BY <2>1 DEF PutVectors, VectorsWritten
  <2> QED
    BY <2>1, <2>2, PutsStep DEF VectorsWritten
<1>2. CASE FinishPuts(w)
  <2>1. at'[w].chunk = "written" /\ at'[w].vector = "load" /\ batch'[w] = 1
    BY <1>2, Typed DEF FinishPuts, SidesOK, VectorsWritten
  <2> QED
    BY <2>1
<1>3. CASE LoadVectorManifest(w)
  <2>1. /\ at'[w].vector = "record" /\ at'[w].chunk = at[w].chunk /\ batch'[w] = batch[w]
        /\ read'[w].vector = Keys(vectorKeys) /\ vectors' = vectors
    BY <1>3, Typed DEF LoadVectorManifest, Done, Now, SidesOK, Sides, Reads, stores
  <2>2. at[w].vector = "load"
    BY <1>3 DEF LoadVectorManifest
  <2> QED
    BY <1>1, <2>1, <2>2 DEF VectorsWritten, VectorsTracked
<1>4. CASE RecordVectorKeys(w)
  <2>1. /\ at'[w].vector = "upsert" /\ at'[w].chunk = at[w].chunk /\ batch'[w] = batch[w]
        /\ vectorKeys' = Recorded(w) /\ vectors' = vectors /\ at[w].vector = "record"
    BY <1>4, Typed DEF RecordVectorKeys, Done, Now, SidesOK, Sides
  <2>2. vectorKeys' # Absent
    <3>1. Recorded(w) \subseteq Chunk
      BY <2>1, BatchesTyped, Typed DEF Recorded, SidesOK, Reads, KeySet, VectorsWritten
    <3> QED
      BY <2>1, <3>1
  <2>3. Batches[batch'[w]] \subseteq Keys(vectorKeys')
    BY <2>1, <2>2 DEF Keys, Recorded
  <2> QED
    BY <1>1, <2>1, <2>3 DEF VectorsWritten
<1>5. CASE PutVectors(w)
  <2>1. /\ at'[w].vector = AfterUpsert(w) /\ at'[w].chunk = at[w].chunk
        /\ batch'[w] = batch[w] + 1 /\ vectors' = vectors \cup Batches[batch[w]]
        /\ at[w].vector = "upsert"
    BY <1>5, Typed DEF PutVectors, Done, Now, SidesOK, Sides, WritersOK
  <2>2. /\ at[w].chunk = "written" /\ batch[w] <= Len(Batches)
        /\ \A i \in 1..batch[w] - 1 : Batches[i] \subseteq vectors
    BY <2>1 DEF VectorsWritten
  <2>3. \A i \in 1..batch'[w] - 1 : Batches[i] \subseteq vectors'
    <3>1. \A i \in 1..batch'[w] - 1 : i \in 1..batch[w] - 1 \/ i = batch[w]
      BY <2>1
    <3> QED
      BY <2>1, <2>2, <3>1
  <2>4. CASE batch[w] = Len(Batches)
    <3>1. \A i \in 1..Len(Batches) : Batches[i] \subseteq vectors'
      BY <2>1, <2>3, <2>4
    <3>2. Chunk \subseteq vectors'
      BY <3>1, BatchesTyped
    <3>3. vectors' \subseteq Chunk
      BY DEF TypeOK
    <3> QED
      BY <1>1, <2>1, <2>4, <3>2, <3>3 DEF AfterUpsert
  <2>5. CASE batch[w] # Len(Batches)
    BY <1>1, <2>1, <2>2, <2>3, <2>5 DEF AfterUpsert
  <2> QED
    BY <2>4, <2>5
<1>6. CASE /\ ~FinishPuts(w) /\ ~LoadVectorManifest(w) /\ ~RecordVectorKeys(w) /\ ~PutVectors(w)
           /\ at'[w].vector \in {"load", "record", "upsert", "written"}
  <2>1. at'[w].vector = at[w].vector /\ read'[w].vector = read[w].vector
    BY <1>6, ProcessStep DEF VectorSide, AfterDelete
  <2>2. batch'[w] = batch[w]
    BY <1>6, PutsStep
  <2>3. ASSUME at[w].vector \in {"load", "record", "upsert"} PROVE at'[w].chunk = at[w].chunk
    <3>1. at[w].chunk = "written"
      BY <2>3 DEF VectorsWritten
    <3> QED
      BY <1>6, <2>1, <3>1, ProcessStep DEF ChunkSide, WriteChunkManifest, DeleteCall
  <2>4. ASSUME at'[w].vector = "written", RemoversIdle' PROVE vectors' = Chunk
    <3>1. vectors = Chunk /\ vectors' \subseteq Chunk /\ RemoversIdle
      BY <2>1, <2>4, RemoversIdleBefore DEF VectorsWritten, TypeOK
    <3> QED
      BY <2>1, <2>4, <3>1, VectorsKept
  <2>5. ASSUME at'[w].vector = "record" PROVE vectors' \subseteq read'[w].vector
    BY <2>1, <2>5, VectorsKept DEF VectorsWritten
  <2>6. ASSUME at'[w].vector = "upsert" PROVE Batches[batch'[w]] \subseteq Keys(vectorKeys')
    <3>1. vectorKeys' = vectorKeys /\ Batches[batch[w]] \subseteq Keys(vectorKeys)
      BY <2>1, <2>6, VectorsKept DEF VectorsWritten
    <3> QED
      BY <2>2, <3>1
  <2>7. ASSUME at'[w].vector \in {"load", "record", "upsert"}
        PROVE  /\ at'[w].chunk = "written" /\ batch'[w] <= Len(Batches)
               /\ \A i \in 1..batch'[w] - 1 : Batches[i] \subseteq vectors'
    BY <2>1, <2>2, <2>3, <2>7, VectorsKept DEF VectorsWritten
  <2> QED
    BY <1>1, <2>4, <2>5, <2>6, <2>7
<1> QED
  BY <1>1, <1>2, <1>3, <1>4, <1>5, <1>6

LEMMA TrackedStep ==
  ASSUME SoleWriter, IInv, [Next]_vars PROVE ChunksTracked' /\ VectorsTracked'
<1> TypeOK /\ TypeOK' /\ ChunksTracked /\ VectorsTracked
  BY TypeStep DEF IInv
<1>0. /\ \A keys \in SUBSET Chunk : Keys(keys) = keys
      /\ objects' \subseteq Chunk /\ Keys(Absent) = {}
  BY DEF Keys, TypeOK
<1>1. CASE UNCHANGED <<stores, late>>
  BY <1>1 DEF stores, ChunksTracked, VectorsTracked
<1>2. ASSUME NEW p \in Process, Lands(p) PROVE ChunksTracked' /\ VectorsTracked'
  <2>1. CASE at[p].chunk = "put"
    BY <1>0, <1>2, <2>1 DEF Lands, ChunksTracked, VectorsTracked, IInv, ChunksWritten
  <2>2. CASE at[p].chunk # "put"
    BY <1>2, <2>2 DEF Lands, ChunksTracked, VectorsTracked
  <2> QED
    BY <2>1, <2>2
<1>3. ASSUME NEW p \in Process, Lists(p) PROVE ChunksTracked' /\ VectorsTracked'
  BY <1>0, <1>3 DEF Lists, ChunksTracked, VectorsTracked
<1>4. ASSUME NEW p \in Process, Records(p) PROVE ChunksTracked' /\ VectorsTracked'
  <2>1. /\ vectors \subseteq read[p].vector /\ read[p].vector \subseteq Chunk
        /\ batch[p] \in 1..Len(Batches)
    BY <1>4, Typed, BatchesTyped DEF Records, IInv, VectorsWritten, SidesOK, Reads, KeySet, WritersOK
  <2>2. Keys(Recorded(p)) = Recorded(p)
    BY <1>0, <2>1, BatchesTyped DEF Recorded
  <2> QED
    BY <1>4, <2>1, <2>2 DEF Records, Recorded, ChunksTracked, VectorsTracked
<1>5. ASSUME NEW p \in Process, Upserts(p) PROVE ChunksTracked' /\ VectorsTracked'
  BY <1>5 DEF Upserts, ChunksTracked, VectorsTracked, IInv, VectorsWritten
<1>6. ASSUME NEW p \in Process, DeletesObjects(p) \/ DeletesVectors(p)
      PROVE  ChunksTracked' /\ VectorsTracked'
  BY <1>6 DEF DeletesObjects, DeletesVectors, ChunksTracked, VectorsTracked
<1>7. ASSUME NEW p \in Process, DropsChunks(p) PROVE ChunksTracked' /\ VectorsTracked'
  <2>1. objects \subseteq Missed(p) /\ Missed(p) \subseteq late
    BY <1>7 DEF DropsChunks, IInv, ChunksDeleted, Missed
  <2> QED
    BY <1>7, <2>1 DEF DropsChunks, ChunksTracked, VectorsTracked
<1>8. ASSUME NEW p \in Process, DropsVectors(p) PROVE ChunksTracked' /\ VectorsTracked'
  BY <1>8 DEF DropsVectors, ChunksTracked, VectorsTracked, IInv, VectorsDeleted
<1> QED
  BY <1>1, <1>2, <1>3, <1>4, <1>5, <1>6, <1>7, <1>8, StoresStep

\* What a deletion may miss only grows, and while it runs nothing else is added.
LEMMA DeletionKept ==
  ASSUME SoleWriter, IInv, [Next]_vars, NEW p \in Process
  PROVE  /\ at[p].chunk \in {"delete", "drop", "deleted"} =>
              objects' \ Missed(p)' \subseteq objects \ Missed(p)
         /\ at[p].vector \in {"delete", "drop", "deleted"} => vectors' \subseteq vectors
<1>1. Missed(p) \subseteq Missed(p)'
  BY StoresStep DEF stores, Missed, Lands, Lists, Records, Upserts, DeletesObjects,
     DeletesVectors, DropsChunks, DropsVectors
<1>2. ASSUME NEW w \in Process, Lands(w), at[p].chunk \in {"delete", "drop", "deleted"}
      PROVE  objects' \ Missed(p)' \subseteq objects \ Missed(p)
  <2>1. w \in Writer /\ AtWork(w)
    BY <1>2 DEF Lands, AtWork
  <2>2. p = w
    BY <1>2, <2>1, Alone DEF IInv
  <2>3. p \notin Remover
    BY <2>1, <2>2
  <2> QED
    BY <1>2, <2>2, <2>3 DEF Lands, Missed
<1>3. ASSUME at[p].chunk \in {"delete", "drop", "deleted"}
      PROVE  objects' \ Missed(p)' \subseteq objects \ Missed(p)
  BY <1>1, <1>2, <1>3, StoresStep DEF stores, Lists, Records, Upserts, DeletesObjects,
     DeletesVectors, DropsChunks, DropsVectors
<1>4. ASSUME at[p].vector \in {"delete", "drop", "deleted"} PROVE vectors' \subseteq vectors
  <2>1. ASSUME NEW w \in Process, Upserts(w) PROVE FALSE
    <3>1. w \in Writer /\ AtWork(w) /\ w # p
      BY <1>4, <2>1 DEF Upserts, AtWork, Active, WriteCall
    <3> QED
      BY <1>4, <3>1, Alone DEF IInv
  <2> QED
    BY <2>1, StoresStep DEF stores, Lands, Lists, Records, DeletesObjects,
       DeletesVectors, DropsChunks, DropsVectors
<1> QED
  BY <1>3, <1>4

LEMMA DeletedStep ==
  ASSUME SoleWriter, IInv, [Next]_vars PROVE ChunksDeleted' /\ VectorsDeleted'
<1> TypeOK /\ VectorsWritten /\ ChunksDeleted /\ VectorsDeleted /\ ChunksTracked /\ VectorsTracked
  BY DEF IInv
<1> SUFFICES ASSUME NEW p \in Process
             PROVE  /\ at'[p].chunk = "delete" => objects' \ Missed(p)' \subseteq read'[p].chunk
                    /\ at'[p].chunk \in {"drop", "deleted"} => objects' \ Missed(p)' \subseteq {}
                    /\ at'[p].vector = "delete" => vectors' \subseteq read'[p].vector
                    /\ at'[p].vector \in {"drop", "deleted"} => vectors' \subseteq {}
  BY DEF ChunksDeleted, VectorsDeleted
<1>0. /\ at[p].chunk = "delete" => objects \ Missed(p) \subseteq read[p].chunk
      /\ at[p].chunk \in {"drop", "deleted"} => objects \ Missed(p) \subseteq {}
      /\ at[p].vector = "delete" => vectors \subseteq read[p].vector
      /\ at[p].vector \in {"drop", "deleted"} => vectors \subseteq {}
  BY DEF ChunksDeleted, VectorsDeleted
<1>1. ASSUME at'[p].chunk \in {"delete", "drop", "deleted"}
      PROVE  /\ at'[p].chunk = "delete" => objects' \ Missed(p)' \subseteq read'[p].chunk
             /\ at'[p].chunk \in {"drop", "deleted"} => objects' \ Missed(p)' \subseteq {}
  <2>1. CASE at'[p].chunk = at[p].chunk /\ read'[p].chunk = read[p].chunk
    BY <1>0, <1>1, <2>1, DeletionKept
  <2>2. CASE /\ at[p].chunk = "find" /\ at'[p].chunk = "deleted" /\ chunkKeys = Absent
             /\ p \in ByDocument /\ UNCHANGED stores
    <3>1. objects' \subseteq late /\ Missed(p) = late
      BY <2>2 DEF ChunksTracked, Keys, stores, Missed
    <3>2. Missed(p) \subseteq Missed(p)'
      BY <2>2, StoresStep DEF stores, Missed, Lands, Lists, Records, Upserts, DeletesObjects,
         DeletesVectors, DropsChunks, DropsVectors
    <3> QED
      BY <2>2, <3>1, <3>2
  <2>3. CASE /\ at[p].chunk = "find" /\ at'[p].chunk = "delete" /\ read'[p].chunk = ChunksToDelete
             /\ UNCHANGED stores
    <3>1. objects' \subseteq ChunksToDelete
      BY <2>3 DEF ChunksToDelete, Listed, stores, IInv, ChunksWritten, TypeOK
    <3> QED
      BY <2>3, <3>1
  <2>4. CASE /\ at[p].chunk = "delete"
             /\ \E keys \in SUBSET read[p].chunk :
                  /\ objects' = objects \ keys /\ read'[p].chunk = read[p].chunk \ keys
                  /\ at'[p].chunk = AfterDelete(p, "chunk", read[p].chunk \ keys)
    <3>1. objects' \ Missed(p)' \subseteq objects \ Missed(p)
      BY <2>4, DeletionKept
    <3>2. objects' \ Missed(p)' \subseteq read'[p].chunk
      BY <1>0, <2>4, <3>1
    <3>3. at'[p].chunk # "delete" => read'[p].chunk = {}
      BY <2>4 DEF AfterDelete
    <3> QED
      BY <1>1, <3>2, <3>3
  <2>5. CASE at[p].chunk = "drop" /\ at'[p].chunk = "deleted"
    BY <1>0, <2>5, DeletionKept
  <2> QED
    BY <1>1, <2>1, <2>2, <2>3, <2>4, <2>5, ProcessStep DEF ChunkSide
<1>2. ASSUME at'[p].vector \in {"delete", "drop", "deleted"}
      PROVE  /\ at'[p].vector = "delete" => vectors' \subseteq read'[p].vector
             /\ at'[p].vector \in {"drop", "deleted"} => vectors' \subseteq {}
  <2>1. CASE at'[p].vector = at[p].vector /\ read'[p].vector = read[p].vector
    BY <1>0, <1>2, <2>1, DeletionKept
  <2>2. CASE at'[p].vector = "deleted" /\ vectorKeys = Absent /\ UNCHANGED stores
    BY <2>2 DEF VectorsTracked, Keys, stores
  <2>3. CASE at'[p].vector = "delete" /\ read'[p].vector = Keys(vectorKeys) /\ UNCHANGED stores
    BY <2>3 DEF VectorsTracked, stores
  <2>4. CASE /\ at[p].vector = "delete"
             /\ \E keys \in SUBSET read[p].vector :
                  /\ vectors' = vectors \ keys /\ read'[p].vector = read[p].vector \ keys
                  /\ at'[p].vector = AfterDelete(p, "vector", read[p].vector \ keys)
    <3>1. vectors' \subseteq read'[p].vector
      BY <1>0, <2>4
    <3>2. at'[p].vector # "delete" => read'[p].vector = {}
      BY <2>4 DEF AfterDelete
    <3> QED
      BY <1>2, <3>1, <3>2
  <2>5. CASE at[p].vector = "drop" /\ at'[p].vector = "deleted"
    BY <1>0, <2>5, DeletionKept
  <2>6. CASE PutVectors(p) /\ at'[p].vector = AfterUpsert(p)
    BY <1>2, <2>6 DEF AfterUpsert
  <2> QED
    BY <1>2, <2>1, <2>2, <2>3, <2>4, <2>5, <2>6, ProcessStep DEF VectorSide
<1> QED
  BY <1>1, <1>2

LEMMA InvariantInit == Init => IInv
<1> SUFFICES ASSUME Init PROVE IInv
  OBVIOUS
<1> USE DEF Init
<1>1. TypeOK
  <2>1. 1 \in 1..Len(Batches) + 1 /\ MaxFaults \in 0..MaxFaults
    BY BatchesTyped
  <2>2. "manifest" \in Side /\ "idle" \in Side /\ {} \in KeySet
    BY DEF Side, WriteCall, KeySet
  <2>3. SidesOK
    BY <2>2 DEF SidesOK, Sides, Reads
  <2> QED
    BY <2>1, <2>2, <2>3, Typed DEF StoresOK, WritersOK, BudgetOK, Manifest
<1>2. \A p \in Process : /\ at[p].vector = "idle"
                         /\ at[p].chunk = IF p \in Writer THEN "manifest" ELSE "idle"
  OBVIOUS
<1>3. RemovalsWait
  BY <1>2 DEF RemovalsWait
<1>4. ChunksWritten /\ VectorsWritten
  BY <1>2 DEF ChunksWritten, VectorsWritten
<1>5. ChunksTracked /\ VectorsTracked /\ ChunksDeleted /\ VectorsDeleted
  BY <1>2 DEF ChunksTracked, VectorsTracked, ChunksDeleted, VectorsDeleted
<1> QED
  BY <1>1, <1>3, <1>4, <1>5 DEF IInv

LEMMA InvariantStep ==
  ASSUME SoleWriter PROVE IInv /\ [Next]_vars => IInv'
<1> SUFFICES ASSUME IInv, [Next]_vars PROVE IInv'
  OBVIOUS
<1>1. TypeOK /\ VectorsWritten /\ RemovalsWait
  BY DEF IInv
<1> QED
  BY <1>1, TypeStep, RemovalsWaitStep, ChunksWrittenStep, VectorsWrittenStep, TrackedStep,
     DeletedStep DEF IInv

\* The stores, the manifests and the processes keep their inductive invariant, whatever
\* call fails and however many removals run.
THEOREM GenerationInvariant ==
  ASSUME SoleWriter
  PROVE  Spec => []IInv
<1>1. Init => IInv
  BY InvariantInit
<1>2. IInv /\ [Next]_vars => IInv'
  BY InvariantStep
<1> QED
  BY <1>1, <1>2, PTL DEF Spec

\* Everything the stores and the processes hold is well formed.
THEOREM GenerationTypeCorrect ==
  ASSUME SoleWriter
  PROVE  Spec => []TypeOK
<1>1. IInv => TypeOK
  BY DEF IInv
<1> QED
  BY <1>1, GenerationInvariant, PTL

\* A vector in the index is listed in the manifest, whatever call raised.
THEOREM VectorsAreTracked ==
  ASSUME SoleWriter
  PROVE  Spec => []VectorsTracked
<1>1. IInv => VectorsTracked
  BY DEF IInv
<1> QED
  BY <1>1, GenerationInvariant, PTL

\* A chunk object is listed in the manifest, but for those put after their put_batch()
\* had raised.
THEOREM ChunksAreTracked ==
  ASSUME SoleWriter
  PROVE  Spec => []ChunksTracked
<1>1. IInv => ChunksTracked
  BY DEF IInv
<1> QED
  BY <1>1, GenerationInvariant, PTL

\* A generation that was written without an error is whole until a removal starts.
THEOREM WhatIsWrittenIsWhole ==
  ASSUME SoleWriter
  PROVE  Spec => []WrittenIsWhole
<1>1. IInv => WrittenIsWhole
  BY DEF IInv, WrittenIsWhole, ChunksWritten, VectorsWritten, RemoversIdle
<1> QED
  BY <1>1, GenerationInvariant, PTL

\* A deletion of both sides that ended well left no vector, and no object but those that
\* a put it did not wait for stored after it.
THEOREM DeletionLeavesNothing ==
  ASSUME SoleWriter
  PROVE  Spec => []DeletionEmpties
<1>1. IInv => DeletionEmpties
  BY DEF IInv, DeletionEmpties, Deleted, ChunksDeleted, VectorsDeleted
<1> QED
  BY <1>1, GenerationInvariant, PTL

=============================================================================
