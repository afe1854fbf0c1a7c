------------------------------ MODULE Retrieval ------------------------------
(***************************************************************************)
(* RetrievalPipeline.Retrieve, behind the gRPC method of the same name,     *)
(* beside the chunk consumers and the abstract indexer of ChunkDelivery.    *)
(* A query changes no row and no vector, but it reads Pinecone first and    *)
(* Postgres later, and both go on changing in between.                      *)
(*                                                                          *)
(* Queries do not see each other, so one at a time, again and again, stands *)
(* for all of them.  Similarity is abstracted away: any vectors may be the  *)
(* nearest ones.  organization_id is accepted and ignored, as in the code.  *)
(***************************************************************************)
EXTENDS ChunkDelivery

CONSTANTS TopKs,         \* the top_k values that requests carry; 0 stands for
                         \* any that is not positive
          DefaultTopK    \* defaultTopK

ASSUME TopKAssumption ==
  /\ TopKs \subseteq Nat
  /\ DefaultTopK \in Nat \ {0}

VARIABLES
  queryPc,   \* where the query is: what it reads next
  matches,   \* the vector ids Pinecone returned
  answer     \* the chunks whose rows were found

queryVars == <<queryPc, matches, answer>>
allVars == <<vars, queryVars>>

\* The query has its types, and nothing of it outlives its reply or its
\* process: a crash or a panic of a consumer ends the query too.
RetrievalTypeOK ==
  /\ queryPc \in {"idle", "rows", "edges"}
  /\ matches \subseteq 1..upserts
  /\ answer \subseteq ChunkIds
  /\ Cardinality(answer) <= Cardinality(matches)
  /\ queryPc = "idle" => matches = {}
  /\ queryPc # "edges" => answer = {}
  /\ ~ up => queryPc = "idle"

\* Mutant: the chunks of the last query are kept in the pipeline.
QueryKeepsAnswer ==
  /\ queryPc' = "idle"
  /\ matches' = {}
  /\ UNCHANGED answer

QueryOver ==
  /\ queryPc' = "idle"
  /\ matches' = {}
  /\ answer' = {}

RetrievalInit ==
  /\ Init
  /\ queryPc = "idle"
  /\ matches = {}
  /\ answer = {}

-----------------------------------------------------------------------------
EffectiveTopK(k) == IF k = 0 THEN DefaultTopK ELSE k

\* As many vectors as asked for, or all there are.
Nearest(k) ==
  LET n == Cardinality(DOMAIN vector)
  IN {S \in SUBSET DOMAIN vector : Cardinality(S) = IF k < n THEN k ELSE n}

\* GenerateEmbeddings of the query text, then the similarity search.
QuerySimilarVectors(k) ==
  /\ up /\ queryPc = "idle"
  /\ matches' \in Nearest(EffectiveTopK(k))
  /\ queryPc' = "rows"
  /\ UNCHANGED <<vars, answer>>

\* Mutant: the query asks for summarized chunks only.
GetSummarizedChunks ==
  /\ up /\ queryPc = "rows"
  /\ answer' = {c \in DOMAIN chunk :
                  chunk[c].embedding \in matches /\ chunk[c].summary}
  /\ queryPc' = "edges"
  /\ UNCHANGED <<vars, matches>>

\* WHERE embedding_id = ANY(ids): an id that no row has is dropped in silence.
GetChunksByEmbeddingIDs ==
  /\ up /\ queryPc = "rows"
  /\ answer' = {c \in DOMAIN chunk : chunk[c].embedding \in matches}
  /\ queryPc' = "edges"
  /\ UNCHANGED <<vars, matches>>

\* buildContext reads the call edges of each symbol and the import edges of
\* each file - none, when the file has been discarded since - and the reply is
\* sent.
BuildContext ==
  /\ up /\ queryPc = "edges"
  /\ QueryOver
  /\ UNCHANGED vars

\* Any call that fails fails the query.
RetrieveFails ==
  /\ CallFaults
  /\ up /\ queryPc # "idle"
  /\ QueryOver
  /\ UNCHANGED vars

Retrieve ==
  \/ \E k \in TopKs : QuerySimilarVectors(k)
  \/ GetChunksByEmbeddingIDs
  \/ BuildContext
  \/ RetrieveFails

\* The rest of the process goes on; its death ends the query.
Others ==
  /\ ReindexingNext
  /\ IF up' THEN UNCHANGED queryVars ELSE QueryOver

RetrievalNext == Retrieve \/ Others

RetrievalSpec == RetrievalInit /\ [][RetrievalNext]_allVars

-----------------------------------------------------------------------------
\* A vector that a chunk's embedding_id points at was made from that chunk:
\* whatever was redelivered, rolled back or embedded twice, a match is never
\* answered with the code of another chunk, and no vector stands for two.
EmbeddingIsOwn ==
  \A c \in DOMAIN chunk :
    chunk[c].embedding \in DOMAIN vector => vector[chunk[c].embedding] = c

\* When the rows are read, a chunk that was matched and is still in the index
\* is answered - even though its embedding_id may have been written, rolled
\* back or replaced since the similarity search - unless its message is still
\* to be processed or parked, or its file is being discarded, or was when a
\* run ended early, or it has meanwhile been given another vector, by which
\* the next query finds it.
MatchedIsAnswered ==
  [][queryPc = "rows" /\ queryPc' = "edges" =>
       \A v \in matches \cap DOMAIN vector :
         LET c == vector[v] IN
         c \in DOMAIN chunk =>
           \/ c \in answer'
           \/ InQueue(c, embeddingQueue) \/ c \in embeddingError
           \/ InRun(c)
           \/ chunk[c].embedding \in DOMAIN vector \ {v}]_allVars
=============================================================================
