--------------------------- MODULE MemoryManager ----------------------------
(***************************************************************************)
(* MemoryManager: threads that remember facts, search them and add turns   *)
(* to chat sessions, over one engine, with crashes and restarts between    *)
(* any two steps.  remember stores the chunk itself (MemoryStore) and then *)
(* its vector; recall reads through search and get_history.  MaxRefused    *)
(* calls of the engine return false.                                       *)
(***************************************************************************)
EXTENDS ChatHistory, VectorStore

CONSTANTS
  MaxCrashes,   \* bound: how often the process dies
  MaxBegun,     \* bound: how many appends and adds begin
  MaxRefused    \* bound: how many calls the engine refuses

ASSUME MemoryBounds == MaxCrashes \in Nat /\ MaxBegun \in Nat /\ MaxRefused \in Nat

VARIABLES
  up,         \* the process runs
  chunks,     \* the documents under doc:<doc>:000000
  chunkless,  \* history: the documents whose chunk was refused
  begun,      \* history: the messages and documents already used
  crashes,    \* history: how often the process died
  refusals    \* history: how many calls were refused

memoryVars == <<chatVars, vectorVars, up, chunks, chunkless, begun, crashes, refusals>>

Free(t) == up /\ chat[t] = Idle /\ vector[t] = NoCall

(* A message or a document is used once.                                   *)
Use(x) ==
  /\ x \notin begun
  /\ Cardinality(begun) < MaxBegun
  /\ begun' = begun \cup {x}

Refuse ==
  /\ refusals < MaxRefused
  /\ refusals' = refusals + 1

Chat == UNCHANGED <<vectorVars, up, chunks, chunkless, crashes>>
Vectors == UNCHANGED <<chatVars, up, crashes>>

-----------------------------------------------------------------------------
AddChatTurn(t, s, m) ==
  /\ Free(t)
  /\ Use(m)
  /\ BeginAppend(t, s, m)
  /\ UNCHANGED refusals
  /\ Chat

ClearSession(t, s) ==
  /\ Free(t)
  /\ BeginClear(t, s)
  /\ UNCHANGED <<begun, refusals>>
  /\ Chat

(* add, the second call of remember.                                       *)
AddDocument(t, d) ==
  /\ Free(t)
  /\ Use(d)
  /\ BeginAdd(t, d)
  /\ UNCHANGED <<vectorStore, index, idCounter, added, unstored, shared>>
  /\ Vectors

(* Mutant of Remember: the vector is added, the chunk is not stored.       *)
RememberVectorOnly(t, d) ==
  /\ AddDocument(t, d)
  /\ UNCHANGED <<chunks, chunkless, refusals>>

(* put_chunk, the first.                                                   *)
Remember(t, d) ==
  /\ AddDocument(t, d)
  /\ chunks' = chunks \cup {d}
  /\ UNCHANGED <<chunkless, refusals>>

RememberRefused(t, d) ==
  /\ AddDocument(t, d)
  /\ chunkless' = chunkless \cup {d}
  /\ Refuse
  /\ UNCHANGED chunks

Recall(t) ==
  /\ Free(t)
  /\ BeginSearch(t)
  /\ UNCHANGED <<vectorStore, index, idCounter, added, unstored, shared>>
  /\ UNCHANGED <<chunks, chunkless, begun, refusals>>
  /\ Vectors

Crash ==
  /\ up
  /\ crashes < MaxCrashes
  /\ crashes' = crashes + 1
  /\ up' = FALSE
  /\ CrashChat
  /\ CrashVectors
  /\ UNCHANGED <<chunks, chunkless, begun, refusals>>

Open ==
  /\ ~up
  /\ up' = TRUE
  /\ RehydrateIndex
  /\ UNCHANGED <<chatVars, chunks, chunkless, begun, crashes, refusals>>

Init ==
  /\ InitChat
  /\ InitVectors
  /\ up = FALSE
  /\ chunks = {}
  /\ chunkless = {}
  /\ begun = {}
  /\ crashes = 0
  /\ refusals = 0

Next ==
  \/ \E t \in Thread :
       \/ \E s \in Session, m \in Message : AddChatTurn(t, s, m)
       \/ \E s \in Session : ClearSession(t, s)
       \/ \E d \in Doc : Remember(t, d) \/ RememberRefused(t, d)
       \/ Recall(t)
       \/ ChatStep(t) /\ UNCHANGED <<begun, refusals>> /\ Chat
       \/ ChatRefusal(t) /\ Refuse /\ UNCHANGED begun /\ Chat
       \/ VectorStep(t) /\ UNCHANGED <<chunks, chunkless, begun, refusals>> /\ Vectors
       \/ VectorRefusal(t) /\ Refuse /\ UNCHANGED <<chunks, chunkless, begun>> /\ Vectors
  \/ Crash
  \/ Open

Spec == Init /\ [][Next]_memoryVars

-----------------------------------------------------------------------------
(* Properties.                                                             *)

MemoryTypeOK ==
  /\ ChatTypeOK
  /\ VectorTypeOK
  /\ up \in BOOLEAN
  /\ chunks \subseteq Doc
  /\ chunkless \subseteq Doc
  /\ begun \subseteq Message \cup Doc
  /\ crashes \in 0 .. MaxCrashes
  /\ refusals \in 0 .. MaxRefused
  /\ \A t \in Thread : chat[t] = Idle \/ vector[t] = NoCall

(* What remember has returned is stored under its id and indexed while the *)
(* process runs, and every vector has its chunk, except what the engine    *)
(* refused.  An id is in the index without being stored only while its add *)
(* is under way or if its vector was refused.                              *)
VectorsKept ==
  /\ ~shared => \A one \in added \ unstored : vec[one[1]] = one[2]
  /\ \A i \in StoredIds : vec[i] \in chunks \cup chunkless
  /\ up => StoredIds \subseteq index
  /\ \A i \in index \ StoredIds :
       \/ \E t \in Thread : vector[t].op = "put vector" /\ vector[t].id = i
       \/ \E d \in Doc : <<i, d>> \in unstored
=============================================================================
