---------------------------- MODULE ChatHistory -----------------------------
(***************************************************************************)
(* ChatHistory of the Python layer: the turns of chat sessions, kept under *)
(* keys of the engine.  An operation makes several calls of the engine;    *)
(* each call is atomic, and between two of them other threads may run or   *)
(* the process may end.  What the engine has acknowledged survives that.   *)
(*                                                                         *)
(* put and delete return false, and change nothing, when the log cannot be *)
(* written.  No caller looks at the result: the actions named Refused are  *)
(* the other outcome of a call, and the operation goes on after it.        *)
(*                                                                         *)
(* A prefix scan for chat:<session>: also returns the turns of sessions    *)
(* whose name goes on after a colon; Covers(s) is those and s itself.      *)
(***************************************************************************)
EXTENDS Callers, Sequences, FiniteSets

CONSTANTS
  Session,
  Message,    \* messages, each appended at most once
  Covers(_),
  KeyLess(_, _),  \* the order of the keys of two turns, each a session and an index
  MaxTurn     \* bound: largest turn index

ASSUME ChatConstants ==
  /\ MaxTurn \in Nat
  /\ None \notin Nat \cup Message
  /\ \A s \in Session : s \in Covers(s) /\ Covers(s) \subseteq Session
  /\ \A s \in Session : \A i, j \in 0 .. MaxTurn : KeyLess(<<s, i>>, <<s, j>>) <=> i < j

VARIABLES
  turn,       \* turn[s][i]: the message under chat:<s>:<i>
  counter,    \* counter[s]: the value of meta:chat_turn:<s>
  chat,       \* chat[t]: the operation thread t is in
  acked,      \* history: the messages a caller was told are appended, since
              \* the last complete clear of the session
  cleared,    \* history: how many of them a clear has set out to delete
  raced,      \* history: sessions on which two appends have overlapped
  torn,       \* history: sessions a clear has met in use, after such an
              \* overlap, or through a prefix, or that kept a turn it was to delete
  holes,      \* history: holes[s]: the indexes whose message was refused, from
              \* the first turn on that a clear has not deleted
  refused     \* history: sessions with a message or a counter refused

chatStore == <<turn, counter>>
chatHistory == <<acked, cleared, raced, torn, holes, refused>>
chatVars == <<chatStore, chat, chatHistory>>

Turn == 0 .. MaxTurn

ChatCall ==
  [op : {"idle", "put turn", "put counter", "delete turns"},
   session : Session \cup {None}, message : Message \cup {None},
   index : Turn, keys : SUBSET (Session \X Turn)]

Idle == [op |-> "idle", session |-> None, message |-> None, index |-> 0, keys |-> {}]

Stored(s) == {i \in Turn : turn[s][i] # None}

(* The indexes given to turns, although the engine may have refused them.  *)
Taken(s) == Stored(s) \cup holes[s]

(* What a prefix scan for the session finds.                               *)
Found(s) == UNION {{r} \X Stored(r) : r \in Covers(s)}

Appending(s) == {t \in Thread : chat[t].op \in {"put turn", "put counter"} /\ chat[t].session = s}
Clearing(s) == {t \in Thread : chat[t].op = "delete turns" /\ s \in Covers(chat[t].session)}

-----------------------------------------------------------------------------
(* append_message.                                                         *)

(* Mutant of NextTurn: the index of the last turn is taken again.          *)
NextTurnAgain(s) == IF counter[s] = None THEN 0 ELSE counter[s]

NextTurn(s) == IF counter[s] = None THEN 0 ELSE counter[s] + 1

(* The counter is read; the turn will be stored under the next index.      *)
BeginAppend(t, s, m) ==
  /\ chat[t] = Idle
  /\ NextTurn(s) \in Turn
  /\ chat' = [chat EXCEPT ![t] = [op |-> "put turn", session |-> s, message |-> m,
                                  index |-> NextTurn(s), keys |-> {}]]
  /\ raced' = IF Appending(s) = {} THEN raced ELSE raced \cup {s}
  /\ torn' = IF Clearing(s) = {} THEN torn ELSE torn \cup {s}
  /\ UNCHANGED <<chatStore, acked, cleared, holes, refused>>

PutTurn(t) ==
  /\ chat[t].op = "put turn"
  /\ turn' = [turn EXCEPT ![chat[t].session][chat[t].index] = chat[t].message]
  /\ holes' = [holes EXCEPT ![chat[t].session] = @ \ {chat[t].index}]
  /\ chat' = [chat EXCEPT ![t].op = "put counter"]
  /\ UNCHANGED <<counter, acked, cleared, raced, torn, refused>>

PutTurnRefused(t) ==
  /\ chat[t].op = "put turn"
  /\ holes' = [holes EXCEPT ![chat[t].session] = @ \cup {chat[t].index}]
  /\ refused' = refused \cup {chat[t].session}
  /\ chat' = [chat EXCEPT ![t].op = "put counter"]
  /\ UNCHANGED <<chatStore, acked, cleared, raced, torn>>

(* Mutant of PutCounter: the number of turns is stored, not the last index.*)
PutCounterAsCount(t) ==
  LET s == chat[t].session
  IN  /\ chat[t].op = "put counter"
      /\ counter' = [counter EXCEPT ![s] = chat[t].index + 1]
      /\ acked' = [acked EXCEPT ![s] = Append(@, chat[t].message)]
      /\ chat' = [chat EXCEPT ![t] = Idle]
      /\ UNCHANGED <<turn, cleared, raced, torn, holes, refused>>

PutCounter(t) ==
  LET s == chat[t].session
  IN  /\ chat[t].op = "put counter"
      /\ counter' = [counter EXCEPT ![s] = chat[t].index]
      /\ acked' = [acked EXCEPT ![s] = Append(@, chat[t].message)]
      /\ chat' = [chat EXCEPT ![t] = Idle]
      /\ UNCHANGED <<turn, cleared, raced, torn, holes, refused>>

(* The caller is told of a turn whose successor will overwrite it.         *)
PutCounterRefused(t) ==
  LET s == chat[t].session
  IN  /\ chat[t].op = "put counter"
      /\ acked' = [acked EXCEPT ![s] = Append(@, chat[t].message)]
      /\ refused' = refused \cup {s}
      /\ chat' = [chat EXCEPT ![t] = Idle]
      /\ UNCHANGED <<chatStore, cleared, raced, torn, holes>>

-----------------------------------------------------------------------------
(* clear_session: a prefix scan, one delete per key found, in the order of *)
(* the keys, and the delete of the counter.                                *)

BeginClear(t, s) ==
  LET inUse == {r \in Covers(s) : Appending(r) # {} \/ Clearing(r) # {}}
      others == {r \in Covers(s) \ {s} : Stored(r) # {}}
  IN  /\ chat[t] = Idle
      /\ chat' = [chat EXCEPT ![t] =
                    [op |-> "delete turns", session |-> s, message |-> None, index |-> 0,
                     keys |-> Found(s)]]
      /\ cleared' = [cleared EXCEPT ![s] = Len(acked[s])]
      /\ torn' = torn \cup inUse \cup ({s} \cap raced) \cup others
      /\ UNCHANGED <<chatStore, acked, raced, holes, refused>>

FirstKey(t, key) ==
  key \in chat[t].keys /\ \A other \in chat[t].keys : ~ KeyLess(other, key)

DeleteTurn(t) ==
  /\ chat[t].op = "delete turns"
  /\ \E r \in Session, i \in Turn :
       /\ FirstKey(t, <<r, i>>)
       /\ turn' = [turn EXCEPT ![r][i] = None]
       /\ holes' = [holes EXCEPT ![r] = {j \in @ : i < j}]
       /\ chat' = [chat EXCEPT ![t].keys = @ \ {<<r, i>>}]
  /\ UNCHANGED <<counter, acked, cleared, raced, torn, refused>>

DeleteTurnRefused(t) ==
  /\ chat[t].op = "delete turns"
  /\ \E r \in Session, i \in Turn :
       /\ FirstKey(t, <<r, i>>)
       /\ torn' = torn \cup {r}
       /\ chat' = [chat EXCEPT ![t].keys = @ \ {<<r, i>>}]
  /\ UNCHANGED <<chatStore, acked, cleared, raced, holes, refused>>

EndClear(t) ==
  /\ chat[t].op = "delete turns"
  /\ chat[t].keys = {}
  /\ chat' = [chat EXCEPT ![t] = Idle]
  /\ acked' = [acked EXCEPT ![chat[t].session] = <<>>]
  /\ cleared' = [cleared EXCEPT ![chat[t].session] = 0]
  /\ holes' = [holes EXCEPT ![chat[t].session] = {}]
  /\ UNCHANGED <<turn, raced, torn, refused>>

DeleteCounter(t) ==
  /\ EndClear(t)
  /\ counter' = [counter EXCEPT ![chat[t].session] = None]

(* The next turn goes on from the indexes of the turns that were deleted.  *)
DeleteCounterRefused(t) ==
  /\ EndClear(t)
  /\ UNCHANGED counter

(* The process ends; the keys stay.                                        *)
CrashChat ==
  /\ chat' = [t \in Thread |-> Idle]
  /\ UNCHANGED <<chatStore, chatHistory>>

InitChat ==
  /\ turn = [s \in Session |-> [i \in Turn |-> None]]
  /\ counter = [s \in Session |-> None]
  /\ chat = [t \in Thread |-> Idle]
  /\ acked = [s \in Session |-> <<>>]
  /\ cleared = [s \in Session |-> 0]
  /\ raced = {}
  /\ torn = {}
  /\ holes = [s \in Session |-> {}]
  /\ refused = {}

ChatStep(t) == PutTurn(t) \/ PutCounter(t) \/ DeleteTurn(t) \/ DeleteCounter(t)

ChatRefusal(t) ==
  \/ PutTurnRefused(t)
  \/ PutCounterRefused(t)
  \/ DeleteTurnRefused(t)
  \/ DeleteCounterRefused(t)

-----------------------------------------------------------------------------
(* Properties.                                                             *)

ChatTypeOK ==
  /\ turn \in [Session -> [Turn -> Message \cup {None}]]
  /\ counter \in [Session -> Turn \cup {None}]
  /\ chat \in [Thread -> ChatCall]
  /\ acked \in [Session -> Seq(Message)]
  /\ cleared \in [Session -> Nat]
  /\ \A s \in Session : cleared[s] <= Len(acked[s])
  /\ raced \subseteq Session
  /\ torn \subseteq Session
  /\ holes \in [Session -> SUBSET Turn]
  /\ refused \subseteq Session

(* What get_history returns: all that the prefix scan finds, in the order  *)
(* of the keys.                                                            *)
Upto(s, key) == {other \in Found(s) : other = key \/ KeyLess(other, key)}
Nth(s, n) == CHOOSE key \in Found(s) : Cardinality(Upto(s, key)) = n
History(s) ==
  [n \in 1 .. Cardinality(Found(s)) |-> turn[Nth(s, n)[1]][Nth(s, n)[2]]]

(* Sessions on which neither two operations overlapped nor the engine      *)
(* refused a call that counts, and whose prefix finds no other session.    *)
Undisturbed ==
  {s \in Session \ (raced \cup torn \cup refused) :
     \A r \in Covers(s) \ {s} : Stored(r) = {}}

(* The history of such a session is every acknowledged message in the      *)
(* order of their acknowledgements, followed by at most one that was never *)
(* acknowledged, whenever the process dies and starts again.  A clear that *)
(* was cut short has deleted the oldest.  The delete of a counter may be   *)
(* refused.                                                                *)
HistoryKeepsAcked ==
  \A s \in Undisturbed :
    \E gone \in 0 .. cleared[s], tail \in {<<>>} \cup {<<m>> : m \in Message} :
      History(s) = SubSeq(acked[s], gone + 1, Len(acked[s])) \o tail

(* However appends overlap, and although they then overwrite each other's  *)
(* turns and set the counter back, and whichever put the engine refuses:   *)
(* an index between two turns is free only if its own message was refused; *)
(* and the counter, where there are turns, is not beyond the last index    *)
(* given.  Not so after a clear that follows such an overlap and is cut    *)
(* short, or one that left a turn.                                         *)
TurnsContiguous ==
  \A s \in Session \ torn :
    /\ \A i, j \in Stored(s) : \A k \in i .. j : k \in Taken(s)
    /\ Stored(s) # {} /\ counter[s] # None => \E i \in Taken(s) : counter[s] <= i

(* "Retrieves chronological chat history for a session"                    *)
(* (chat_history.py:76): of no other session.                              *)
HistoryIsOwn == \A s \in Session : Found(s) = {s} \X Stored(s)
=============================================================================
