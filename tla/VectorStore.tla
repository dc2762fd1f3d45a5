---------------------------- MODULE VectorStore -----------------------------
(***************************************************************************)
(* VectorStore of the Python layer: vectors under keys of the engine, an   *)
(* index of them in memory, and the counter their ids come from, which is  *)
(* kept in both places.  add makes two calls of the engine; a thread may   *)
(* be preempted between any two steps below, and the engine may refuse     *)
(* either call, which add does not notice.  Vectors and scores are left    *)
(* out: a vector is the document it belongs to.                            *)
(***************************************************************************)
EXTENDS Callers, FiniteSetsExt

CONSTANTS
  Doc,        \* documents, each added at most once
  MaxVector   \* bound: largest vector id

ASSUME VectorConstants ==
  /\ MaxVector \in Nat
  /\ None \notin Nat \cup Doc

VARIABLES
  vec,        \* vec[i]: the document under vec:<i>
  vecCounter, \* the value of meta:vector_id_counter
  index,      \* the ids in _index
  idCounter,  \* _id_counter
  vector,     \* vector[t]: the operation thread t is in
  added,      \* history: the ids and documents add has returned
  unstored,   \* history: the ids and documents whose vector was refused
  shared      \* history: a thread has read _id_counter before another, which
              \* had read it too, stored its successor

vectorStore == <<vec, vecCounter>>
vectorVars == <<vectorStore, index, idCounter, vector, added, unstored, shared>>

VectorId == 0 .. MaxVector

VectorCall ==
  [op : {"idle", "take", "bump", "index", "put vector", "read counter", "put counter", "fetch"},
   doc : Doc \cup {None}, id : VectorId, count : Nat, matches : SUBSET VectorId,
   found : SUBSET (VectorId \X Doc), owed : SUBSET (VectorId \X Doc)]

NoCall == [op |-> "idle", doc |-> None, id |-> 0, count |-> 0,
           matches |-> {}, found |-> {}, owed |-> {}]

StoredIds == {i \in VectorId : vec[i] # None}

-----------------------------------------------------------------------------
(* add.                                                                    *)

BeginAdd(t, d) ==
  vector' = [vector EXCEPT ![t] = [NoCall EXCEPT !.op = "take", !.doc = d]]

(* int_id = self._id_counter.                                              *)
Take(t) ==
  /\ vector[t].op = "take"
  /\ idCounter \in VectorId
  /\ vector' = [vector EXCEPT ![t].op = "bump", ![t].id = idCounter]
  /\ shared' = (shared \/ \E u \in Thread : vector[u].op = "bump")
  /\ UNCHANGED <<vectorStore, index, idCounter, added, unstored>>

(* self._id_counter += 1; a thread that comes in between its read and its  *)
(* write is one that shared records.                                       *)
Bump(t) ==
  /\ vector[t].op = "bump"
  /\ idCounter' = idCounter + 1
  /\ vector' = [vector EXCEPT ![t].op = "index"]
  /\ UNCHANGED <<vectorStore, index, added, unstored, shared>>

AddToIndex(t) ==
  /\ vector[t].op = "index"
  /\ index' = index \cup {vector[t].id}
  /\ vector' = [vector EXCEPT ![t].op = "put vector"]
  /\ UNCHANGED <<vectorStore, idCounter, added, unstored, shared>>

PutVector(t) ==
  /\ vector[t].op = "put vector"
  /\ vec' = [vec EXCEPT ![vector[t].id] = vector[t].doc]
  /\ vector' = [vector EXCEPT ![t].op = "read counter"]
  /\ UNCHANGED <<vecCounter, index, idCounter, added, unstored, shared>>

PutVectorRefused(t) ==
  /\ vector[t].op = "put vector"
  /\ unstored' = unstored \cup {<<vector[t].id, vector[t].doc>>}
  /\ vector' = [vector EXCEPT ![t].op = "read counter"]
  /\ UNCHANGED <<vectorStore, index, idCounter, added, shared>>

(* str(self._id_counter), before the call that stores it.                  *)
ReadCounter(t) ==
  /\ vector[t].op = "read counter"
  /\ vector' = [vector EXCEPT ![t].op = "put counter", ![t].count = idCounter]
  /\ UNCHANGED <<vectorStore, index, idCounter, added, unstored, shared>>

EndAdd(t) ==
  /\ vector[t].op = "put counter"
  /\ added' = added \cup {<<vector[t].id, vector[t].doc>>}
  /\ vector' = [vector EXCEPT ![t] = NoCall]
  /\ UNCHANGED <<vec, index, idCounter, unstored, shared>>

PutVectorCounter(t) ==
  /\ EndAdd(t)
  /\ vecCounter' = vector[t].count

PutVectorCounterRefused(t) ==
  /\ EndAdd(t)
  /\ UNCHANGED vecCounter

-----------------------------------------------------------------------------
(* search, with top_k at least the number of vectors: the index answers    *)
(* with ids, then each is fetched from the engine, and skipped if absent.  *)

BeginSearch(t) ==
  /\ index # {}
  /\ vector' = [vector EXCEPT ![t] = [NoCall EXCEPT !.op = "fetch", !.matches = index,
                                                    !.owed = added \ unstored]]

Fetch(t) ==
  /\ vector[t].op = "fetch"
  /\ \E i \in vector[t].matches :
       /\ i = Max(vector[t].matches)   \* the order of scores does not matter
       /\ vector' = [vector EXCEPT
                       ![t].matches = @ \ {i},
                       ![t].found = IF vec[i] = None THEN @ ELSE @ \cup {<<i, vec[i]>>}]
  /\ UNCHANGED <<vectorStore, index, idCounter, added, unstored, shared>>

EndSearch(t) ==
  /\ vector[t].op = "fetch"
  /\ vector[t].matches = {}
  /\ vector' = [vector EXCEPT ![t] = NoCall]
  /\ UNCHANGED <<vectorStore, index, idCounter, added, unstored, shared>>

-----------------------------------------------------------------------------
(* The process ends; then the constructor fills the index from the keys    *)
(* and takes the counter from the larger of the two sources.               *)

CrashVectors ==
  /\ index' = {}
  /\ idCounter' = 0
  /\ vector' = [t \in Thread |-> NoCall]
  /\ UNCHANGED <<vectorStore, added, unstored, shared>>

NextId == IF StoredIds = {} THEN 0 ELSE Max(StoredIds) + 1

(* Mutant of RestoredCounter: the stored counter is believed.              *)
RestoredCounterFromMeta == IF vecCounter = None THEN NextId ELSE vecCounter

RestoredCounter == IF vecCounter = None \/ NextId > vecCounter THEN NextId ELSE vecCounter

(* Mutant of RehydrateIndex: only ids below the stored counter are read.   *)
RehydrateIndexCounted ==
  /\ index' = {i \in StoredIds : vecCounter # None /\ i < vecCounter}
  /\ idCounter' = RestoredCounter
  /\ UNCHANGED <<vectorStore, vector, added, unstored, shared>>

RehydrateIndex ==
  /\ index' = StoredIds
  /\ idCounter' = RestoredCounter
  /\ UNCHANGED <<vectorStore, vector, added, unstored, shared>>

InitVectors ==
  /\ vec = [i \in VectorId |-> None]
  /\ vecCounter = None
  /\ index = {}
  /\ idCounter = 0
  /\ vector = [t \in Thread |-> NoCall]
  /\ added = {}
  /\ unstored = {}
  /\ shared = FALSE

VectorStep(t) ==
  \/ Take(t)
  \/ Bump(t)
  \/ AddToIndex(t)
  \/ PutVector(t)
  \/ ReadCounter(t)
  \/ PutVectorCounter(t)
  \/ Fetch(t)
  \/ EndSearch(t)

VectorRefusal(t) == PutVectorRefused(t) \/ PutVectorCounterRefused(t)

-----------------------------------------------------------------------------
(* Properties.                                                             *)

VectorTypeOK ==
  /\ vec \in [VectorId -> Doc \cup {None}]
  /\ vecCounter \in Nat \cup {None}
  /\ index \subseteq VectorId
  /\ idCounter \in Nat
  /\ vector \in [Thread -> VectorCall]
  /\ \A t \in Thread : vector[t].matches \subseteq index
  /\ added \subseteq VectorId \X Doc
  /\ unstored \subseteq VectorId \X Doc
  /\ shared \in BOOLEAN

(* A stored vector is never overwritten, by racing threads or by a process *)
(* that starts again from a counter which was written late, or out of      *)
(* order, or was refused.  Only two threads that read the counter in the   *)
(* same moment take the same id.                                           *)
StoredVectorsImmutable ==
  [][~shared' => \A i \in StoredIds : vec'[i] = vec[i]]_vectorVars

(* A search finds every document whose add had returned before it began,   *)
(* unless the engine had refused the vector, and nothing else than stored  *)
(* documents.                                                              *)
SearchFindsAdded ==
  \A t \in Thread :
    vector[t].op = "fetch" /\ vector[t].matches = {} /\ ~shared =>
      /\ vector[t].owed \subseteq vector[t].found
      /\ \A hit \in vector[t].found : vec[hit[1]] = hit[2]

(* "Adds a document and its embedding vector into the index and persistent *)
(* store" (vector_index.py:295): what add has returned is stored.          *)
AddedIsStored == \A one \in added : one[1] \in StoredIds
=============================================================================
