--------------------------- MODULE IndexCapability ---------------------------
(***************************************************************************)
(* IndexCapability and IndexingService (capabilities/index.py and          *)
(* indexing.py): retrievers cached per top_k, rebuilding and updating the  *)
(* index, and closing it, all under one re-entrant lock.  The vector       *)
(* backend and the embedding provider may call back into the capability    *)
(* on the thread that called them, so a thread is a stack of calls.        *)
(* The index is the number of resets it went through; a retriever is the   *)
(* index it was made of.                                                   *)
(***************************************************************************)
EXTENDS Naturals, FiniteSets, Sequences, SequencesExt

CONSTANTS Clients,    \* threads
          TopKs,      \* the top_k values in use
          MaxDepth,   \* bound on nested calls of a thread
          MaxResets   \* bound on rebuilds

VARIABLES
    index,      \* the index the backend holds
    retrievers, \* retriever_code/docs and _retrievers_by_top_k: 0 or 1 + the index of the retriever
    retrieverGeneration, \* _retriever_generation
    embedded,   \* the embedding models exist
    mutations,  \* _active_mutations
    indexClosed, \* IndexingService._closed
    backendCloses, \* calls of vector_backend.close
    pending,    \* pending[c]: the thread has prepared nodes
    calls       \* calls[c]: the calls the thread is in, inner last

indexVars == <<index, retrievers, retrieverGeneration, embedded, mutations, indexClosed,
               backendCloses, pending, calls>>
backend == <<index, backendCloses>>
cache == <<retrievers, retrieverGeneration>>

Frame(op, k) == [op |-> op, k |-> k, at |-> "enter", generation |-> retrieverGeneration, made |-> 0]
IsMutation(f) == f.op \in {"finalize", "update"}

IndexInit ==
    /\ index = 0 /\ retrievers = [k \in TopKs |-> 0] /\ retrieverGeneration = 0
    /\ embedded = FALSE /\ mutations = 0 /\ indexClosed = FALSE /\ backendCloses = 0
    /\ pending = [c \in Clients |-> FALSE] /\ calls = [c \in Clients |-> <<>>]

\* retriever_lock
HoldsLock(c) == \A d \in Clients \ {c} : calls[d] = <<>>
Top(c) == Last(calls[c])

\* Where a call is inside the provider or the backend, which may call back.
Outside == {"embed", "init", "fetched", "resetting", "reset", "inserting"}
MayCall(c) == /\ HoldsLock(c) /\ Len(calls[c]) < MaxDepth
              /\ calls[c] # <<>> => Top(c).at \in Outside

Push(c, f) == calls' = [calls EXCEPT ![c] = Append(@, f)]
Pop(c) == calls' = [calls EXCEPT ![c] = Front(@)]
At(c, place) == calls' = [calls EXCEPT ![c][Len(calls[c])].at = place]
In(c, place) == calls[c] # <<>> /\ Top(c).at = place

\* clear_retriever_cache
ClearRetrieverCache == /\ retrievers' = [k \in TopKs |-> 0]
                       /\ retrieverGeneration' = retrieverGeneration + 1

\* The finally of _mutation: a close() asked for by a backend call is done
\* when the last mutation ends.
EndMutation == /\ mutations' = mutations - 1
               /\ backendCloses' = IF indexClosed /\ mutations = 1 THEN backendCloses + 1 ELSE backendCloses

\* The call of the top frame returns or raises.
Leave(c) == /\ Pop(c)
            /\ IF IsMutation(Top(c)) THEN EndMutation ELSE UNCHANGED <<mutations, backendCloses>>

-----------------------------------------------------------------------------
(* get_retrievers, _retrievers_for_top_k                                     *)

GetRetrievers(c, k) ==
    /\ MayCall(c) /\ retrievers[k] = 0
    /\ Push(c, Frame("get", k))
    /\ UNCHANGED <<embedded, mutations, indexClosed, pending>> /\ UNCHANGED backend /\ UNCHANGED cache

\* get_embedding_models: they are built once, and not from their own construction.
ConstructingEmbeddings == \E c \in Clients : \E i \in DOMAIN calls[c] : calls[c][i].at = "embed"

GetEmbeddingModels(c) ==
    /\ In(c, "enter") /\ ~ConstructingEmbeddings
    /\ At(c, IF embedded THEN "init" ELSE "embed")
    /\ UNCHANGED <<embedded, mutations, indexClosed, pending>> /\ UNCHANGED backend /\ UNCHANGED cache

EmbeddingModelsBuilt(c) ==
    /\ In(c, "embed") /\ embedded' = TRUE /\ At(c, "init")
    /\ UNCHANGED <<mutations, indexClosed, pending>> /\ UNCHANGED backend /\ UNCHANGED cache

\* vector_backend.get_retrievers returns retrievers of the index it holds.
FetchRetrievers(c) ==
    /\ In(c, "init") /\ Top(c).op = "get"
    /\ calls' = [calls EXCEPT ![c][Len(calls[c])].at = "fetched", ![c][Len(calls[c])].made = index + 1]
    /\ UNCHANGED <<embedded, mutations, indexClosed, pending>> /\ UNCHANGED backend /\ UNCHANGED cache

\* Mutant: the generation is not compared.
PublishUnchecked(c) ==
    /\ In(c, "fetched") /\ Pop(c)
    /\ retrievers' = [retrievers EXCEPT ![Top(c).k] = Top(c).made]
    /\ UNCHANGED <<embedded, mutations, indexClosed, pending, retrieverGeneration>> /\ UNCHANGED backend

\* create_retrievers raises when the index changed under it, else they are cached.
PublishRetrievers(c) ==
    /\ In(c, "fetched") /\ Pop(c)
    /\ retrievers' = IF Top(c).generation = retrieverGeneration
                     THEN [retrievers EXCEPT ![Top(c).k] = Top(c).made] ELSE retrievers
    /\ UNCHANGED <<embedded, mutations, indexClosed, pending, retrieverGeneration>> /\ UNCHANGED backend

-----------------------------------------------------------------------------
(* Rebuilding and updating the index                                         *)

\* index_prepare_nodes_iter, outside the lock but for the embedding models.
PrepareNodes(c) ==
    /\ calls[c] = <<>> /\ ~indexClosed /\ ~pending[c] /\ retrieverGeneration < 2 * MaxResets
    /\ embedded \/ HoldsLock(c)
    /\ embedded' = TRUE /\ pending' = [pending EXCEPT ![c] = TRUE]
    /\ UNCHANGED <<mutations, indexClosed, calls>> /\ UNCHANGED backend /\ UNCHANGED cache

\* index_finalize_embeddings and update_index enter _mutation, unless closed.
FinalizeEmbeddings(c) ==
    /\ pending[c] /\ MayCall(c) /\ pending' = [pending EXCEPT ![c] = FALSE]
    /\ IF indexClosed THEN UNCHANGED <<mutations, calls>>
       ELSE mutations' = mutations + 1 /\ Push(c, Frame("finalize", 0))
    /\ UNCHANGED <<embedded, indexClosed>> /\ UNCHANGED backend /\ UNCHANGED cache

UpdateIndex(c) ==
    /\ MayCall(c) /\ ~indexClosed
    /\ mutations' = mutations + 1 /\ Push(c, Frame("update", 0))
    /\ UNCHANGED <<embedded, indexClosed, pending>> /\ UNCHANGED backend /\ UNCHANGED cache

\* The rebuild drops the cached retrievers before reset_index ...
BeginReset(c) ==
    /\ In(c, "init") /\ Top(c).op = "finalize" /\ retrieverGeneration < 2 * MaxResets
    /\ ClearRetrieverCache /\ At(c, "resetting")
    /\ UNCHANGED <<embedded, mutations, indexClosed, pending>> /\ UNCHANGED backend

ResetIndex(c) ==
    /\ In(c, "resetting")
    /\ index' = index + 1 /\ At(c, "reset")
    /\ UNCHANGED <<embedded, mutations, indexClosed, pending, backendCloses>> /\ UNCHANGED cache

\* Mutant: the second clear is missing.
EndResetUncleared(c) ==
    /\ In(c, "reset") /\ At(c, "inserting")
    /\ UNCHANGED <<embedded, mutations, indexClosed, pending>> /\ UNCHANGED backend /\ UNCHANGED cache

\* ... and again after it, for what a callback cached meanwhile.
EndReset(c) ==
    /\ In(c, "reset") /\ ClearRetrieverCache /\ At(c, "inserting")
    /\ UNCHANGED <<embedded, mutations, indexClosed, pending>> /\ UNCHANGED backend

\* A backend without reset_index, and update_index, go straight to inserting.
BeginInsert(c) ==
    /\ In(c, "init") /\ IsMutation(Top(c)) /\ At(c, "inserting")
    /\ UNCHANGED <<embedded, mutations, indexClosed, pending>> /\ UNCHANGED backend /\ UNCHANGED cache

EndInsert(c) ==
    /\ In(c, "inserting") /\ Pop(c) /\ EndMutation
    /\ UNCHANGED <<index, embedded, indexClosed, pending>> /\ UNCHANGED cache

\* Any call raises: the cache is cleared on the way out of reset_index.
CallRaises(c) ==
    /\ calls[c] # <<>> /\ Leave(c)
    /\ IF Top(c).at \in {"resetting", "reset"} THEN ClearRetrieverCache ELSE UNCHANGED cache
    /\ UNCHANGED <<index, embedded, indexClosed, pending>>

\* close(): from a backend call it only leaves word, and always clears the cache.
CloseIndex(c) ==
    /\ MayCall(c) /\ ~indexClosed
    /\ indexClosed' = TRUE /\ ClearRetrieverCache
    /\ backendCloses' = IF mutations = 0 THEN backendCloses + 1 ELSE backendCloses
    /\ UNCHANGED <<index, embedded, mutations, pending, calls>>

IndexDone == indexClosed /\ \A c \in Clients : calls[c] = <<>> /\ ~pending[c]

IndexNext == \E c \in Clients :
    \/ \E k \in TopKs : GetRetrievers(c, k)
    \/ GetEmbeddingModels(c) \/ EmbeddingModelsBuilt(c) \/ FetchRetrievers(c) \/ PublishRetrievers(c)
    \/ PrepareNodes(c) \/ FinalizeEmbeddings(c) \/ UpdateIndex(c) \/ BeginReset(c) \/ ResetIndex(c)
    \/ EndReset(c) \/ BeginInsert(c) \/ EndInsert(c) \/ CallRaises(c) \/ CloseIndex(c)

IndexSpec == IndexInit /\ [][IndexNext \/ (IndexDone /\ UNCHANGED indexVars)]_indexVars

-----------------------------------------------------------------------------
(***************************************************************************)
(* A cached retriever is one of the index the backend holds, although the  *)
(* backend may call back while it makes retrievers or resets the index     *)
(* (between the reset and the clear that follows it only the backend's own *)
(* callbacks run), and the backend is closed once, after its last mutation.*)
(***************************************************************************)
RetrieversAreCurrent ==
    /\ (\A c \in Clients : \A i \in DOMAIN calls[c] : calls[c][i].at # "reset")
          => \A k \in TopKs : retrievers[k] \in {0, index + 1}
    /\ backendCloses <= 1 /\ (backendCloses = 1 => mutations = 0)
    /\ IndexDone => backendCloses = 1
=============================================================================
