------------------------------- MODULE Storage -------------------------------
(***************************************************************************)
(* The stores that the three consumer loops of cmd/synthy share while they  *)
(* index ONE repository: the Postgres rows, the Pinecone vectors and the    *)
(* two RabbitMQ queues fed by the embedding_exchange fanout.  This module   *)
(* holds the state and what each statement does to it; IndexWorker and      *)
(* ChunkConsumers, which extend it, say who runs which statement and when.  *)
(*                                                                          *)
(* A path stands for one Go source file.  Its content is a version number,  *)
(* 0 standing for "no such file"; file[p] is the version the file row of p  *)
(* was made from (its checksum column).  A file has one chunk, identified   *)
(* by the path and by the indexing attempt that wrote it, because every     *)
(* attempt draws new random ids.                                            *)
(***************************************************************************)
EXTENDS Naturals, Sequences, FiniteSets, Functions

CONSTANTS Paths,        \* the repo-relative paths of the repository's Go files
          Refs          \* <<p, q>>: p calls a function of, and imports, q

ASSUME RefsAssumption == Refs \subseteq Paths \X Paths

VARIABLES
  repository,      \* the repository row exists
  file,            \* file rows: content version per path, 0 when there is no row
  absPaths,        \* the file rows hold absolute paths (a legacy index)
  symbol,          \* paths whose symbols are stored
  callEdge,        \* number of call_edge rows per pair of files
  importEdge,      \* number of import_edge rows per pair of files
  chunk,           \* code_chunk rows: chunk id -> [embedding, summary]
  vector,          \* Pinecone: vector id -> the chunk id in its metadata
  embeddingQueue,  \* embedding_queue: chunk ids; the head is the one delivered
  summaryQueue     \* summary_queue, likewise

storageVars == <<repository, file, absPaths, symbol, callEdge, importEdge,
                 chunk, vector, embeddingQueue, summaryQueue>>

\* The tables that only the indexing pipeline writes.
graphVars == <<repository, file, absPaths, symbol, callEdge, importEdge>>

-----------------------------------------------------------------------------
Versions == Nat
ChunkIds == Paths \X Nat
VectorIds == Nat \ {0}

\* embedding is the id of the chunk's vector, 0 for a NULL embedding_id;
\* summary tells whether the summary column is set.
ChunkRow == [embedding : Nat, summary : BOOLEAN]

NewChunkRow == [embedding |-> 0, summary |-> FALSE]

StorageTypeOK ==
  /\ repository \in BOOLEAN
  /\ file \in [Paths -> Versions]
  /\ absPaths \in BOOLEAN
  /\ symbol \subseteq Paths
  /\ callEdge \in [Paths \X Paths -> Nat]
  /\ importEdge \in [Paths \X Paths -> Nat]
  /\ DOMAIN chunk \subseteq ChunkIds
  /\ chunk \in [DOMAIN chunk -> ChunkRow]
  /\ DOMAIN vector \subseteq VectorIds
  /\ vector \in [DOMAIN vector -> ChunkIds]
  /\ embeddingQueue \in Seq(ChunkIds)
  /\ summaryQueue \in Seq(ChunkIds)

\* Mutant: the listing joins the symbols, and misses a file without any.
IndexedWithSymbols == {p \in Paths : file[p] # 0 /\ p \in symbol}

\* GetFilesByRepositoryID
Indexed == {p \in Paths : file[p] # 0}

NoEdges == [r \in Paths \X Paths |-> 0]
NoRows == [x \in {} |-> 0]

\* A database that has never seen the repository.
EmptyStorage ==
  /\ repository = FALSE
  /\ file = [p \in Paths |-> 0]
  /\ absPaths = FALSE
  /\ symbol = {}
  /\ callEdge = NoEdges
  /\ importEdge = NoEdges
  /\ chunk = NoRows
  /\ vector = NoRows
  /\ embeddingQueue = <<>>
  /\ summaryQueue = <<>>

\* The chunk an earlier release left for a file; attempts count from 1.
LegacyChunk(p) == <<p, 0>>

\* A database left by a release that stored absolute file paths: every file of
\* version 1 is there, with its symbols, its edges, and its chunk, summarized
\* and embedded under a vector id of its own.
LegacyStorage ==
  /\ repository = TRUE
  /\ file = [p \in Paths |-> 1]
  /\ absPaths = TRUE
  /\ symbol = Paths
  /\ callEdge = [r \in Paths \X Paths |-> IF r \in Refs THEN 1 ELSE 0]
  /\ importEdge = [r \in Paths \X Paths |-> IF r \in Refs THEN 1 ELSE 0]
  /\ \E id \in Bijection(Paths, 1..Cardinality(Paths)) :
       /\ chunk = [c \in {LegacyChunk(p) : p \in Paths} |->
                     [embedding |-> id[c[1]], summary |-> TRUE]]
       /\ vector = [v \in Range(id) |->
                      LegacyChunk(CHOOSE p \in Paths : id[p] = v)]
  /\ embeddingQueue = <<>>
  /\ summaryQueue = <<>>

-----------------------------------------------------------------------------
(* Statements on the tables.                                               *)

\* INSERT INTO repository, or UPDATE repository of the row that is there.
UpsertRepositoryRow == repository' = TRUE

\* INSERT INTO file
InsertFileRow(p, version) == file' = [file EXCEPT ![p] = version]

\* INSERT INTO symbol, for the symbols of the files S, in one transaction.
InsertSymbols(S) == symbol' = symbol \cup S

\* What a table of edges is after an INSERT for each pair of S: nothing makes
\* the pair unique.
WithEdges(edges, S) ==
  [r \in Paths \X Paths |-> IF r \in S THEN edges[r] + 1 ELSE edges[r]]

\* INSERT INTO call_edge, INSERT INTO import_edge
InsertCallEdges(S) == callEdge' = WithEdges(callEdge, S)
InsertImportEdges(S) == importEdge' = WithEdges(importEdge, S)

\* DELETE FROM file for the paths of S: the foreign keys cascade to the
\* symbols, the edges with an end in S and the chunks.
DeleteFiles(S) ==
  /\ file' = [p \in Paths |-> IF p \in S THEN 0 ELSE file[p]]
  /\ symbol' = symbol \ S
  /\ callEdge' = [r \in Paths \X Paths |->
                    IF r[1] \in S \/ r[2] \in S THEN 0 ELSE callEdge[r]]
  /\ importEdge' = [r \in Paths \X Paths |->
                      IF r[1] \in S \/ r[2] \in S THEN 0 ELSE importEdge[r]]
  /\ chunk' = Restrict(chunk, {c \in DOMAIN chunk : c[1] \notin S})

\* Mutant: the repository's chunks are read where the file's were meant.
AllEmbeddingIds(S) == {chunk[c].embedding : c \in DOMAIN chunk} \ {0}

\* GetChunksByFileID / GetChunksByRepositoryID, and the ids that
\* deleteVectorsForChunks keeps of what they return.
EmbeddingIdsOf(S) ==
  {chunk[c].embedding : c \in {d \in DOMAIN chunk : d[1] \in S}} \ {0}

\* INSERT INTO code_chunk
InsertChunks(S) ==
  chunk' = [c \in DOMAIN chunk \cup S |->
              IF c \in DOMAIN chunk THEN chunk[c] ELSE NewChunkRow]

\* UPDATE code_chunk SET embedding_id = v WHERE id = c.  A row that is gone is
\* no error: the statement reports success whatever number of rows it touched.
SetEmbedding(c, v) ==
  chunk' = [d \in DOMAIN chunk |->
              IF d = c THEN [chunk[d] EXCEPT !.embedding = v] ELSE chunk[d]]

\* Mutant: the whole row is written, from a copy that may be older.
SetWholeRow(c) ==
  chunk' = [d \in DOMAIN chunk |->
              IF d = c THEN [NewChunkRow EXCEPT !.summary = TRUE] ELSE chunk[d]]

\* UPDATE code_chunk SET summary = ... WHERE id = c
SetSummary(c) ==
  chunk' = [d \in DOMAIN chunk |->
              IF d = c THEN [chunk[d] EXCEPT !.summary = TRUE] ELSE chunk[d]]

(* Pinecone.                                                               *)
UpsertVector(v, c) ==
  vector' = [w \in DOMAIN vector \cup {v} |-> IF w = v THEN c ELSE vector[w]]

DeleteVectors(ids) == vector' = Restrict(vector, DOMAIN vector \ ids)

(* RabbitMQ: the exchange is a fanout, so both queues get the message.     *)
PublishEmbedding(c) ==
  /\ embeddingQueue' = Append(embeddingQueue, c)
  /\ summaryQueue' = Append(summaryQueue, c)
=============================================================================
