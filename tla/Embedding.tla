----------------------------- MODULE Embedding -----------------------------
(***************************************************************************)
(* What an ingestion does with the content it has extracted: the chunks of *)
(* module Chunking are embedded batch by batch (_embed_chunks), each batch *)
(* by BedrockTitanEmbeddingProvider.embed, which calls the model once per  *)
(* text, a bounded number of calls at a time, and gathers their answers.   *)
(***************************************************************************)
EXTENDS Chunking, FiniteSets

CONSTANTS
    BatchSize,        \* command.embedding_batch_size
    MaxConcurrency,   \* max_concurrency of the provider
    MaxText,          \* max_text_characters of the provider
    MaxFailures       \* bound: failed calls in a behaviour

ASSUME EmbeddingAssumption ==
    /\ BatchSize \in Nat \ {0}
    /\ MaxConcurrency \in Nat \ {0}
    /\ MaxText \in Nat \ {0}
    /\ MaxFailures \in Nat

VARIABLES
    stage,     \* where the ingestion is: see Stages
    calls,     \* the model calls of the batch, by the chunk's position
    answers,   \* the text each answered call returned the vector of
    records    \* the vector records: a chunk and the text of its vector

embeddingVars == <<stage, calls, answers, records>>
vars == <<chunkVars, embeddingVars>>

\* "failed" and "rejected" are the two errors of embed(): a call failed, or
\* a text is refused before any call is made.
Stages == {"chunking", "embedding", "calling", "embedded", "invalid", "rejected", "failed"}
CallStates == {"waiting", "running", "answered", "failed"}

Content(chunk) == SubSeq(texts[chunk.section], chunk.start + 1, chunk.end)
None == [i \in {} |-> <<>>]

\* The positions of document_chunks[offset : offset + embedding_batch_size],
\* where the offset is the number of records made so far.
Batch == Len(records) + 1 .. Lesser(Len(records) + BatchSize, Len(chunks))
WithState(state) == {i \in DOMAIN calls : calls[i] = state}

\* Faulty variant: the answers are collected last one first.
GatheredBackwards == [k \in 1 .. Cardinality(DOMAIN calls) |->
                         [chunk |-> chunks[Len(records) + k],
                          vector |-> answers[Len(records) + Cardinality(DOMAIN calls) + 1 - k]]]

\* gather() returns the answers in the order of the texts.
Gathered == [k \in 1 .. Cardinality(DOMAIN calls) |->
                [chunk |-> chunks[Len(records) + k],
                 vector |-> answers[Len(records) + k]]]

-----------------------------------------------------------------------------
EmbeddingInit ==
    /\ Init
    /\ stage = "chunking"
    /\ calls = None
    /\ answers = None
    /\ records = <<>>

CutChunk ==
    /\ stage = "chunking"
    /\ Next
    /\ UNCHANGED embeddingVars

\* An extraction that yields no chunk is invalid.
EndChunking ==
    /\ stage = "chunking"
    /\ Finished
    /\ stage' = IF chunks = <<>> THEN "invalid" ELSE "embedding"
    /\ UNCHANGED <<chunkVars, calls, answers, records>>

Accepted(text) == text # <<>> /\ Len(text) <= MaxText

\* embed() looks at every text of the batch before it calls the model.
SendBatch ==
    /\ stage = "embedding"
    /\ Batch # {}
    /\ \A i \in Batch : Accepted(Content(chunks[i]))
    /\ stage' = "calling"
    /\ calls' = [i \in Batch |-> "waiting"]
    /\ answers' = None
    /\ UNCHANGED <<chunkVars, records>>

RejectText ==
    /\ stage = "embedding"
    /\ \E i \in Batch : ~Accepted(Content(chunks[i]))
    /\ stage' = "rejected"
    /\ UNCHANGED <<chunkVars, calls, answers, records>>

\* A task of gather() that has the semaphore invokes the model.
StartCall(i) ==
    /\ calls[i] = "waiting"
    /\ Cardinality(WithState("running")) < MaxConcurrency
    /\ calls' = [calls EXCEPT ![i] = "running"]
    /\ UNCHANGED <<chunkVars, stage, answers, records>>

AnswerCall(i) ==
    /\ calls[i] = "running"
    /\ calls' = [calls EXCEPT ![i] = "answered"]
    /\ answers' = [j \in DOMAIN answers \cup {i} |->
                     IF j = i THEN Content(chunks[i]) ELSE answers[j]]
    /\ UNCHANGED <<chunkVars, stage, records>>

\* Faulty variant: the error is returned among the results.
FailCallQuietly(i) ==
    /\ calls[i] = "running"
    /\ Cardinality(WithState("failed")) < MaxFailures
    /\ calls' = [calls EXCEPT ![i] = "failed"]
    /\ UNCHANGED <<chunkVars, stage, answers, records>>

\* The first error leaves gather(); the other tasks run on by themselves.
FailCall(i) ==
    /\ calls[i] = "running"
    /\ Cardinality(WithState("failed")) < MaxFailures
    /\ calls' = [calls EXCEPT ![i] = "failed"]
    /\ stage' = "failed"
    /\ UNCHANGED <<chunkVars, answers, records>>

\* The batch is answered and its records are made.
CollectBatch ==
    /\ stage = "calling"
    /\ WithState("answered") = DOMAIN calls
    /\ records' = records \o Gathered
    /\ stage' = "embedding"
    /\ calls' = None
    /\ answers' = None
    /\ UNCHANGED chunkVars

EndEmbedding ==
    /\ stage = "embedding"
    /\ Batch = {}
    /\ stage' = "embedded"
    /\ UNCHANGED <<chunkVars, calls, answers, records>>

EmbeddingNext ==
    \/ CutChunk
    \/ EndChunking
    \/ SendBatch
    \/ RejectText
    \/ \E i \in DOMAIN calls : StartCall(i) \/ AnswerCall(i) \/ FailCall(i)
    \/ CollectBatch
    \/ EndEmbedding

\* The steps of the service are those of one coroutine, and botocore's
\* timeouts end every call, with an answer or with an error.
EmbeddingSpec ==
    /\ EmbeddingInit
    /\ [][EmbeddingNext]_vars
    /\ WF_vars(EmbeddingNext)

-----------------------------------------------------------------------------
(* Properties                                                              *)

TypeOK ==
    /\ ChunkTypeOK
    /\ stage \in Stages
    /\ DOMAIN calls \subseteq 1 .. Len(chunks)
    /\ \A i \in DOMAIN calls : calls[i] \in CallStates
    /\ DOMAIN answers = WithState("answered")
    /\ Len(records) <= Len(chunks)

\* In whatever order the calls of a batch end, a record holds the vector of
\* its own chunk's text, the records follow the chunks one by one, and an
\* embedding that ends has one for each of them.
RecordsAligned ==
    /\ \A i \in DOMAIN records :
          records[i] = [chunk |-> chunks[i], vector |-> Content(chunks[i])]
    /\ stage = "embedded" => Len(records) = Len(chunks)

\* The provider refuses a text the chunker has made only if it is configured
\* with a limit below the chunker's maximum: a chunk is never blank.
RejectedOnlyOversized == stage = "rejected" => config.maximum > MaxText

\* Chunking and embedding end, with records for every chunk or with an error.
ContentSettles == <>(stage \in {"embedded", "invalid", "rejected", "failed"})

-----------------------------------------------------------------------------
(* The inductive invariant of the embedding                                *)

\* The record of a chunk, and the records made so far.
RecordOf(i) == [chunk |-> chunks[i], vector |-> Content(chunks[i])]
RecordsFollow ==
    /\ Len(records) \in 0 .. Len(chunks)
    /\ records = [i \in 1 .. Len(records) |-> RecordOf(i)]

\* The calls are those of the batch, also those that run on after an error.
CallsAreOfBatch ==
    /\ stage \in {"calling", "failed"} => DOMAIN calls = Batch
    /\ stage \notin {"calling", "failed"} => DOMAIN calls = {}

AnswersAreOfTexts ==
    /\ DOMAIN answers = WithState("answered")
    /\ \A i \in DOMAIN answers : answers[i] = Content(chunks[i])

EmbeddingInv ==
    /\ ChunkTypeOK
    /\ stage \in Stages /\ \A i \in DOMAIN calls : calls[i] \in CallStates
    /\ RecordsFollow /\ CallsAreOfBatch /\ AnswersAreOfTexts
    /\ stage = "chunking" => records = <<>>
    /\ stage = "embedded" => Len(records) = Len(chunks)

=============================================================================
