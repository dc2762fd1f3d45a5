---------------------------- MODULE MemoryProofs ----------------------------
(***************************************************************************)
(* The memory layer, for any number of threads, sessions, messages and     *)
(* vectors: the chat history, then the vector store, then MemoryManager,   *)
(* which puts the two over one engine.  A step is of a chat session or of  *)
(* the vectors, and leaves the other half alone; a crash and a start are   *)
(* of both.                                                                *)
(***************************************************************************)
EXTENDS MemoryManager, OrderProofs, FiniteSetTheorems, SequenceTheorems

-----------------------------------------------------------------------------
(* The chat history.                                                       *)

(* What an operation under way carries.                                    *)
CallsFit ==
  \A t \in Thread :
    /\ chat[t].op # "idle" => chat[t].session \in Session
    /\ chat[t].op \in {"put turn", "put counter"} => chat[t].message \in Message
    /\ chat[t].op = "delete turns" => chat[t].keys \subseteq Covers(chat[t].session) \X Turn

NoGap(s) == \A i, j \in Taken(s) : \A k \in Turn : i <= k /\ k <= j => k \in Taken(s)

(* Index n continues the indexes given or is one of them.                  *)
Adjoins(s, n) == Taken(s) # {} => n \in Taken(s) \/ n - 1 \in Taken(s)

(* Appends that have not overlapped: one at a time, at the end.            *)
InTurn(s) ==
  s \notin raced =>
    /\ \A i \in Taken(s) : i <= NextTurn(s)
    /\ \A t, u \in Appending(s) : t = u
    /\ \A t \in Appending(s) : chat[t].index = NextTurn(s)

(* Where the appends under way put their turn, or have put it, or had it   *)
(* refused.                                                                *)
AppendsFit(s) ==
  \A t \in Appending(s) :
    /\ chat[t].op = "put turn" =>
         /\ Adjoins(s, chat[t].index)
         /\ Taken(s) = {} => chat[t].index = NextTurn(s)
    /\ chat[t].op = "put counter" => chat[t].index \in Taken(s)

(* A clear has the session to itself and the keys of all its turns.        *)
ClearsFit(s) ==
  \A t \in Clearing(s) :
    /\ Appending(s) = {}
    /\ \A u \in Clearing(s) : u = t
    /\ \A i \in Turn : <<s, i>> \in chat[t].keys <=> i \in Stored(s)
    /\ s \notin raced \/ Stored(s) = {}

SessionInv(s) ==
  /\ NoGap(s)
  /\ Adjoins(s, NextTurn(s))
  /\ InTurn(s)
  /\ AppendsFit(s)
  /\ ClearsFit(s)

(* Only a refusal leaves a hole.                                           *)
HolesFit == \A s \in Session : s \notin refused => holes[s] = {}

ChatInv ==
  /\ ChatTypeOK
  /\ CallsFit
  /\ HolesFit
  /\ \A s \in Session \ torn : SessionInv(s)

(* The indexes of the acknowledged turns start at base; a clear has        *)
(* deleted the first gone of them, and no other.                           *)
From(s, base, gone) ==
  /\ NextTurn(s) = base + Len(acked[s])
  /\ \A i \in Stored(s) : base + gone <= i
  /\ \A i \in Turn : base + gone <= i /\ i < NextTurn(s) => turn[s][i] = acked[s][i - base + 1]

(* What is stored of a session on which no two operations have overlapped  *)
(* and no put was refused.  The indexes start again at zero after a clear, *)
(* unless the delete of the counter was refused.                           *)
Chronicle(s) ==
  /\ \E base \in Nat, gone \in 0 .. cleared[s] : From(s, base, gone)
  /\ \A t \in Appending(s) :
       chat[t].op = "put counter" => turn[s][chat[t].index] = chat[t].message
  /\ \A t \in Clearing(s) :
       IF chat[t].session = s THEN cleared[s] = Len(acked[s]) ELSE Stored(s) = {}

HistoryInv == \A s \in Session \ (raced \cup torn \cup refused) : Chronicle(s)

-----------------------------------------------------------------------------
(* The fields of a call.                                                   *)
LEMMA ChatFields ==
  ASSUME NEW c \in ChatCall
  PROVE  /\ c.op \in {"idle", "put turn", "put counter", "delete turns"}
         /\ c.session \in Session \cup {None}
         /\ c.message \in Message \cup {None}
         /\ c.index \in Turn
         /\ c.keys \in SUBSET (Session \X Turn)
BY DEF ChatCall

LEMMA IdleFields ==
  Idle \in ChatCall /\ Idle.op = "idle"
BY ChatConstants DEF Idle, ChatCall, Turn

LEMMA TurnNat ==
  Turn \subseteq Nat /\ 0 \in Turn
BY ChatConstants DEF Turn

LEMMA IndexesNat ==
  ASSUME ChatTypeOK, NEW s \in Session
  PROVE  Stored(s) \subseteq Nat /\ Taken(s) \subseteq Nat /\ NextTurn(s) \in Nat
<1>1. counter[s] \in Turn \cup {None}
  BY DEF ChatTypeOK
<1>2. NextTurn(s) \in Nat
  <2>1. CASE counter[s] = None
    BY <2>1 DEF NextTurn
  <2>2. CASE counter[s] # None
    <3>1. counter[s] \in Nat
      BY <1>1, <2>2, TurnNat
    <3>2. QED
      BY <2>2, <3>1 DEF NextTurn
  <2>3. QED
    BY <2>1, <2>2
<1>3. holes[s] \subseteq Turn
  BY DEF ChatTypeOK
<1>4. QED
  BY <1>2, <1>3, TurnNat DEF Stored, Taken

(* A message appended to those acknowledged.                               *)
LEMMA AckedTyped ==
  ASSUME ChatTypeOK, NEW s \in Session, NEW m \in Message,
         acked' = [acked EXCEPT ![s] = Append(@, m)], UNCHANGED cleared
  PROVE  /\ acked' \in [Session -> Seq(Message)]
         /\ cleared' \in [Session -> Nat]
         /\ \A r \in Session : cleared'[r] <= Len(acked'[r])
<1>1. acked[s] \in Seq(Message) /\ acked' = [acked EXCEPT ![s] = Append(acked[s], m)]
  BY DEF ChatTypeOK
<1>2. Append(acked[s], m) \in Seq(Message) /\ Len(Append(acked[s], m)) = Len(acked[s]) + 1
  BY <1>1
<1>3. acked' \in [Session -> Seq(Message)]
  BY <1>1, <1>2 DEF ChatTypeOK
<1>4. ASSUME NEW r \in Session
      PROVE  cleared[r] <= Len(acked'[r])
  <2>1. acked[r] \in Seq(Message)
    BY DEF ChatTypeOK
  <2>2. cleared[r] \in Nat /\ Len(acked[r]) \in Nat /\ cleared[r] <= Len(acked[r])
    <3>1. cleared \in [Session -> Nat] /\ \A z \in Session : cleared[z] <= Len(acked[z])
      BY DEF ChatTypeOK
    <3>2. Len(acked[r]) \in Nat
      BY <2>1
    <3>3. QED
      BY <3>1, <3>2
  <2>3. acked'[r] = IF r = s THEN Append(acked[s], m) ELSE acked[r]
    BY <1>1 DEF ChatTypeOK
  <2>4. cleared[r] <= Len(acked[r]) + 1
    BY <2>2
  <2>5. QED
    BY <1>2, <2>2, <2>3, <2>4
<1>5. QED
  BY <1>3, <1>4 DEF ChatTypeOK

(* One thread goes on to call c, the others stay where they are.           *)
LEMMA ChatReplaced ==
  ASSUME ChatTypeOK, NEW t \in Thread, NEW c \in ChatCall, chat' = [chat EXCEPT ![t] = c]
  PROVE  /\ chat' \in [Thread -> ChatCall]
         /\ chat'[t] = c
         /\ \A u \in Thread \ {t} : chat'[u] = chat[u]
BY DEF ChatTypeOK

(* A session whose turns and counter a step leaves, and which it neither   *)
(* begins to use nor goes on using otherwise than by leaving it.           *)
LEMMA SessionUntouched ==
  ASSUME NEW s \in Session, SessionInv(s),
         turn'[s] = turn[s], counter'[s] = counter[s], holes'[s] = holes[s],
         s \in raced <=> s \in raced',
         \A u \in Thread : u \in Appending(s)' => chat'[u] = chat[u],
         \A u \in Thread : u \in Clearing(s)' =>
           /\ u \in Clearing(s)
           /\ \A i \in Turn : <<s, i>> \in chat'[u].keys <=> <<s, i>> \in chat[u].keys
  PROVE  SessionInv(s)'
<1>1. Stored(s)' = Stored(s) /\ Taken(s)' = Taken(s) /\ NextTurn(s)' = NextTurn(s)
  BY DEF Stored, Taken, NextTurn
<1>2. \A u \in Appending(s)' : u \in Appending(s) /\ chat'[u] = chat[u]
  BY DEF Appending
<1>3. NoGap(s)' /\ Adjoins(s, NextTurn(s))'
  BY <1>1 DEF SessionInv, NoGap, Adjoins
<1>4. InTurn(s)'
  BY <1>1, <1>2 DEF SessionInv, InTurn
<1>5. AppendsFit(s)'
  BY <1>1, <1>2 DEF SessionInv, AppendsFit, Adjoins
<1>6. ClearsFit(s)'
  <2>1. ASSUME NEW u \in Clearing(s)'
        PROVE  /\ u \in Clearing(s)
               /\ \A i \in Turn : <<s, i>> \in chat'[u].keys <=> <<s, i>> \in chat[u].keys
    BY <2>1 DEF Clearing
  <2>2. QED
    BY <1>1, <1>2, <2>1 DEF SessionInv, ClearsFit
<1>7. QED
  BY <1>3, <1>4, <1>5, <1>6 DEF SessionInv

-----------------------------------------------------------------------------
(* One lemma for each step.                                                *)

LEMMA BeginAppendKeeps ==
  ASSUME ChatInv, NEW t \in Thread, NEW s \in Session, NEW m \in Message, BeginAppend(t, s, m)
  PROVE  ChatInv'
<1> DEFINE c == [op |-> "put turn", session |-> s, message |-> m,
                 index |-> NextTurn(s), keys |-> {}]
<1> USE DEF chatStore
<1>1. /\ ChatTypeOK /\ chat[t] = Idle /\ NextTurn(s) \in Turn
      /\ chat' = [chat EXCEPT ![t] = c]
      /\ UNCHANGED <<turn, counter, acked, cleared, holes, refused>>
  BY DEF ChatInv, BeginAppend
<1>2. /\ c \in ChatCall /\ c.op = "put turn" /\ c.session = s /\ c.message = m
      /\ c.index = NextTurn(s)
  BY <1>1 DEF ChatCall
<1> HIDE DEF c
<1>3. /\ chat' \in [Thread -> ChatCall]
      /\ chat'[t] = c
      /\ \A u \in Thread \ {t} : chat'[u] = chat[u]
  BY <1>1, <1>2, ChatReplaced
<1>4. /\ raced' = IF Appending(s) = {} THEN raced ELSE raced \cup {s}
      /\ torn' = IF Clearing(s) = {} THEN torn ELSE torn \cup {s}
  BY DEF BeginAppend
<1>5. ChatTypeOK'
  BY <1>1, <1>3, <1>4 DEF ChatTypeOK
<1>6. CallsFit'
  BY <1>2, <1>3 DEF ChatInv, CallsFit
<1>7. ASSUME NEW r \in Session \ torn'
      PROVE  SessionInv(r)'
  <2>1. r \notin torn /\ SessionInv(r)
    BY <1>4, <1>7 DEF ChatInv
  <2>2. CASE r # s
    <3>1. r \in raced <=> r \in raced'
      BY <1>4, <2>2
    <3>2. \A u \in Thread : u \in Appending(r)' => chat'[u] = chat[u]
      BY <1>2, <1>3, <2>2 DEF Appending
    <3>3. \A u \in Thread : u \in Clearing(r)' => u \in Clearing(r) /\ chat'[u] = chat[u]
      BY <1>2, <1>3 DEF Clearing
    <3>4. QED
      BY <1>1, <2>1, <3>1, <3>2, <3>3, SessionUntouched
  <2>3. CASE r = s
    <3>1. Clearing(s) = {}
      BY <1>4, <1>7, <2>3
    <3>2. /\ Taken(s)' = Taken(s) /\ NextTurn(s)' = NextTurn(s)
      BY <1>1 DEF Stored, Taken, NextTurn
    <3>3. \A u \in Appending(s)' : u = t \/ (u \in Appending(s) /\ chat'[u] = chat[u])
      BY <1>3 DEF Appending
    <3>4. NoGap(s)' /\ Adjoins(s, NextTurn(s))'
      BY <2>1, <2>3, <3>2 DEF SessionInv, NoGap, Adjoins
    <3>5. InTurn(s)'
      <4>1. CASE s \in raced'
        BY <4>1 DEF InTurn
      <4>2. CASE s \notin raced'
        <5>1. Appending(s) = {} /\ s \notin raced
          BY <1>4, <4>2
        <5>2. \A u \in Appending(s)' : u = t
          BY <3>3, <5>1
        <5>3. \A i \in Taken(s) : i <= NextTurn(s)
          BY <2>1, <2>3, <5>1 DEF SessionInv, InTurn
        <5>4. QED
          BY <1>2, <1>3, <3>2, <5>2, <5>3 DEF InTurn
      <4>3. QED
        BY <4>1, <4>2
    <3>6. AppendsFit(s)'
      <4>1. ASSUME NEW u \in Appending(s)'
            PROVE  /\ chat'[u].op = "put turn" =>
                        /\ Taken(s)' # {} => \/ chat'[u].index \in Taken(s)'
                                             \/ chat'[u].index - 1 \in Taken(s)'
                        /\ Taken(s)' = {} => chat'[u].index = NextTurn(s)'
                   /\ chat'[u].op = "put counter" => chat'[u].index \in Taken(s)'
        <5>1. CASE u = t
          BY <1>2, <1>3, <2>1, <2>3, <3>2, <5>1 DEF SessionInv, Adjoins
        <5>2. CASE u # t
          BY <2>1, <2>3, <3>2, <3>3, <5>2 DEF SessionInv, AppendsFit, Adjoins
        <5>3. QED
          BY <5>1, <5>2
      <4>2. QED
        BY <4>1 DEF AppendsFit, Adjoins
    <3>7. ClearsFit(s)'
      <4>1. Clearing(s)' = {}
        BY <1>2, <1>3, <3>1 DEF Clearing
      <4>2. QED
        BY <4>1 DEF ClearsFit
    <3>8. QED
      BY <2>3, <3>4, <3>5, <3>6, <3>7 DEF SessionInv
  <2>4. QED
    BY <2>2, <2>3
<1>8. HolesFit'
  BY <1>1 DEF ChatInv, HolesFit
<1>9. QED
  BY <1>5, <1>6, <1>7, <1>8 DEF ChatInv

LEMMA PutTurnKeeps ==
  ASSUME ChatInv, NEW t \in Thread, PutTurn(t) \/ PutTurnRefused(t)
  PROVE  ChatInv'
<1> DEFINE c == [chat[t] EXCEPT !.op = "put counter"]
<1>1. /\ ChatTypeOK /\ chat[t] \in ChatCall /\ chat[t].op = "put turn"
      /\ chat' = [chat EXCEPT ![t].op = "put counter"]
      /\ UNCHANGED <<counter, acked, cleared, raced, torn>>
  BY DEF ChatInv, ChatTypeOK, PutTurn, PutTurnRefused, chatStore
<1>2. PICK s \in Session, p \in Turn, m \in Message :
        s = chat[t].session /\ p = chat[t].index /\ m = chat[t].message
  BY <1>1, ChatFields DEF ChatInv, CallsFit
<1>3. /\ c \in ChatCall /\ c.op = "put counter" /\ c.session = s
      /\ c.index = p /\ c.message = m
  BY <1>1, <1>2 DEF ChatCall
<1>4. chat' = [chat EXCEPT ![t] = c]
  BY <1>1 DEF ChatTypeOK
<1> HIDE DEF c
<1>5. /\ chat' \in [Thread -> ChatCall]
      /\ chat'[t] = c
      /\ \A u \in Thread \ {t} : chat'[u] = chat[u]
  BY <1>1, <1>3, <1>4, ChatReplaced
<1>6. /\ turn' \in [Session -> [Turn -> Message \cup {None}]]
      /\ holes' \in [Session -> SUBSET Turn] /\ refused' \in SUBSET Session
      /\ \A r \in Session \ {s} : turn'[r] = turn[r] /\ holes'[r] = holes[r]
      /\ refused \subseteq refused'
      /\ s \in refused' \/ holes'[s] \subseteq holes[s]
      /\ Taken(s)' = Taken(s) \cup {p}
  <2>1. /\ turn \in [Session -> [Turn -> Message \cup {None}]]
        /\ holes \in [Session -> SUBSET Turn] /\ refused \subseteq Session
    BY <1>1 DEF ChatTypeOK
  <2>2. CASE PutTurn(t)
    <3>1. /\ turn' = [turn EXCEPT ![s][p] = m]
          /\ holes' = [holes EXCEPT ![s] = @ \ {p}]
          /\ refused' = refused
      BY <1>2, <2>2 DEF PutTurn
    <3>2. m # None
      BY <1>2, ChatConstants
    <3>3. Stored(s)' = Stored(s) \cup {p}
      BY <1>2, <2>1, <3>1, <3>2 DEF Stored
    <3>4. holes'[s] = holes[s] \ {p}
      BY <2>1, <3>1
    <3>5. QED
      BY <1>2, <2>1, <3>1, <3>3, <3>4 DEF Taken
  <2>3. CASE PutTurnRefused(t)
    <3>1. /\ turn' = turn
          /\ holes' = [holes EXCEPT ![s] = @ \cup {p}]
          /\ refused' = refused \cup {s}
      BY <1>2, <2>3 DEF PutTurnRefused, chatStore
    <3>2. holes'[s] = holes[s] \cup {p} /\ Stored(s)' = Stored(s)
      BY <2>1, <3>1 DEF Stored
    <3>3. QED
      BY <1>2, <2>1, <3>1, <3>2 DEF Taken
  <2>4. QED
    BY <2>2, <2>3
<1>7. Taken(s)' = Taken(s) \cup {p} /\ NextTurn(s)' = NextTurn(s)
  BY <1>1, <1>6 DEF NextTurn
<1>8. ChatTypeOK'
  BY <1>1, <1>5, <1>6 DEF ChatTypeOK
<1>9. CallsFit'
  BY <1>2, <1>3, <1>5 DEF ChatInv, CallsFit
<1>10. ASSUME NEW r \in Session \ torn'
       PROVE  SessionInv(r)'
  <2>1. r \notin torn /\ SessionInv(r)
    BY <1>1, <1>10 DEF ChatInv
  <2>2. CASE r # s
    <3>1. \A u \in Thread : u \in Appending(r)' => chat'[u] = chat[u]
      BY <1>3, <1>5, <2>2 DEF Appending
    <3>2. \A u \in Thread : u \in Clearing(r)' => u \in Clearing(r) /\ chat'[u] = chat[u]
      BY <1>3, <1>5 DEF Clearing
    <3>3. QED
      BY <1>1, <1>6, <2>1, <2>2, <3>1, <3>2, SessionUntouched
  <2>3. CASE r = s
    <3>1. t \in Appending(s) /\ SessionInv(s)
      BY <1>1, <1>2, <2>1, <2>3 DEF Appending
    <3>2. /\ Taken(s) # {} => p \in Taken(s) \/ p - 1 \in Taken(s)
          /\ Taken(s) = {} => p = NextTurn(s)
      BY <1>1, <1>2, <3>1 DEF SessionInv, AppendsFit, Adjoins
    <3>3. Taken(s) \subseteq Nat /\ p \in Nat /\ NextTurn(s) \in Nat
      BY <1>1, <1>2, TurnNat, IndexesNat
    <3>4. NoGap(s)'
      <4>1. NoGap(s)
        BY <3>1 DEF SessionInv
      <4>2. ASSUME NEW i \in Taken(s), NEW k \in Turn, i <= k, k <= p
            PROVE  k = p \/ k \in Taken(s)
        <5>1. CASE p \in Taken(s)
          BY <4>1, <4>2, <5>1 DEF NoGap
        <5>2. CASE p - 1 \in Taken(s) /\ k # p
          <6>1. k <= p - 1
            BY <3>3, <4>2, <5>2, TurnNat
          <6>2. QED
            BY <4>1, <4>2, <5>2, <6>1 DEF NoGap
        <5>3. QED
          BY <3>2, <4>2, <5>1, <5>2
      <4>3. ASSUME NEW j \in Taken(s), NEW k \in Turn, p <= k, k <= j
            PROVE  k = p \/ k \in Taken(s)
        <5>1. CASE p \in Taken(s)
          BY <4>1, <4>3, <5>1 DEF NoGap
        <5>2. CASE p - 1 \in Taken(s)
          <6>1. p - 1 <= k
            BY <3>3, <4>3, TurnNat
          <6>2. QED
            BY <4>1, <4>3, <5>2, <6>1 DEF NoGap
        <5>3. QED
          BY <3>2, <4>3, <5>1, <5>2
      <4>4. ASSUME NEW k \in Turn, p <= k, k <= p
            PROVE  k = p
        BY <3>3, <4>4, TurnNat
      <4>5. ASSUME NEW i \in Taken(s)', NEW j \in Taken(s)', NEW k \in Turn, i <= k, k <= j
            PROVE  k \in Taken(s)'
        <5>1. (i \in Taken(s) \/ i = p) /\ (j \in Taken(s) \/ j = p)
          BY <1>7
        <5>2. CASE i \in Taken(s) /\ j \in Taken(s)
          BY <1>7, <4>1, <4>5, <5>2 DEF NoGap
        <5>3. CASE i \in Taken(s) /\ j = p
          BY <1>7, <4>2, <4>5, <5>3
        <5>4. CASE i = p /\ j \in Taken(s)
          BY <1>7, <4>3, <4>5, <5>4
        <5>5. CASE i = p /\ j = p
          BY <1>7, <4>4, <4>5, <5>5
        <5>6. QED
          BY <5>1, <5>2, <5>3, <5>4, <5>5
      <4>6. QED
        BY <4>5 DEF NoGap
    <3>5. NextTurn(s) \in Taken(s)' \/ NextTurn(s) - 1 \in Taken(s)'
      BY <1>7, <3>1, <3>2 DEF SessionInv, Adjoins
    <3>6. \A u \in Appending(s)' :
            /\ u \in Appending(s) /\ chat'[u].index = chat[u].index
            /\ u = t \/ chat'[u] = chat[u]
      <4>1. ASSUME NEW u \in Appending(s)'
            PROVE  /\ u \in Appending(s) /\ chat'[u].index = chat[u].index
                   /\ u = t \/ chat'[u] = chat[u]
        <5>1. CASE u = t
          BY <1>2, <1>3, <1>5, <3>1, <5>1
        <5>2. CASE u # t
          BY <1>5, <4>1, <5>2 DEF Appending
        <5>3. QED
          BY <5>1, <5>2
      <4>2. QED
        BY <4>1
    <3>7. InTurn(s)'
      <4>1. CASE s \in raced'
        BY <4>1 DEF InTurn
      <4>2. CASE s \notin raced
        <5>1. /\ \A i \in Taken(s) : i <= NextTurn(s)
              /\ \A u, w \in Appending(s) : u = w
              /\ \A u \in Appending(s) : chat[u].index = NextTurn(s)
          BY <3>1, <4>2 DEF SessionInv, InTurn
        <5>2. p = NextTurn(s) /\ NextTurn(s) <= NextTurn(s)
          BY <1>2, <3>1, <3>3, <5>1
        <5>3. QED
          BY <1>7, <3>6, <5>1, <5>2 DEF InTurn
      <4>3. QED
        BY <1>1, <4>1, <4>2
    <3>8. AppendsFit(s)'
      <4>1. ASSUME NEW u \in Appending(s)'
            PROVE  /\ chat'[u].op = "put turn" =>
                        \/ chat'[u].index \in Taken(s)'
                        \/ chat'[u].index - 1 \in Taken(s)'
                   /\ chat'[u].op = "put counter" => chat'[u].index \in Taken(s)'
        <5>1. CASE u = t
          BY <1>3, <1>5, <1>7, <5>1
        <5>2. CASE u # t
          <6>1. u \in Appending(s) /\ chat'[u] = chat[u]
            BY <3>6, <4>1, <5>2
          <6>2. CASE Taken(s) = {}
            <7>1. chat[u].op = "put turn" => chat[u].index = p
              BY <3>1, <3>2, <6>1, <6>2 DEF SessionInv, AppendsFit
            <7>2. chat[u].op # "put counter"
              BY <3>1, <6>1, <6>2 DEF SessionInv, AppendsFit
            <7>3. QED
              BY <1>7, <6>1, <7>1, <7>2
          <6>3. CASE Taken(s) # {}
            BY <1>7, <3>1, <6>1, <6>3 DEF SessionInv, AppendsFit, Adjoins
          <6>4. QED
            BY <6>2, <6>3
        <5>3. QED
          BY <5>1, <5>2
      <4>2. Taken(s)' # {}
        BY <1>7
      <4>3. QED
        BY <4>1, <4>2 DEF AppendsFit, Adjoins
    <3>9. ClearsFit(s)'
      <4>1. Clearing(s) = {}
        BY <3>1 DEF SessionInv, ClearsFit
      <4>2. Clearing(s)' = {}
        BY <1>3, <1>5, <4>1 DEF Clearing
      <4>3. QED
        BY <4>2 DEF ClearsFit
    <3>10. QED
      BY <1>7, <2>3, <3>4, <3>5, <3>7, <3>8, <3>9 DEF SessionInv, Adjoins
  <2>4. QED
    BY <2>2, <2>3
<1>11. HolesFit'
  BY <1>6 DEF ChatInv, HolesFit
<1>12. QED
  BY <1>8, <1>9, <1>10, <1>11 DEF ChatInv

LEMMA PutCounterKeeps ==
  ASSUME ChatInv, NEW t \in Thread, PutCounter(t)
  PROVE  ChatInv'
<1>1. /\ ChatTypeOK /\ chat[t] \in ChatCall /\ chat[t].op = "put counter"
      /\ counter' = [counter EXCEPT ![chat[t].session] = chat[t].index]
      /\ acked' = [acked EXCEPT ![chat[t].session] = Append(@, chat[t].message)]
      /\ chat' = [chat EXCEPT ![t] = Idle]
      /\ UNCHANGED <<turn, cleared, raced, torn, holes, refused>>
  BY DEF ChatInv, ChatTypeOK, PutCounter
<1>2. PICK s \in Session, p \in Turn, m \in Message :
        s = chat[t].session /\ p = chat[t].index /\ m = chat[t].message
  BY <1>1, ChatFields DEF ChatInv, CallsFit
<1>3. /\ chat' \in [Thread -> ChatCall]
      /\ chat'[t] = Idle
      /\ \A u \in Thread \ {t} : chat'[u] = chat[u]
  BY <1>1, IdleFields, ChatReplaced
<1>4. /\ counter' \in [Session -> Turn \cup {None}]
      /\ counter'[s] = p
      /\ \A r \in Session \ {s} : counter'[r] = counter[r]
  BY <1>1, <1>2 DEF ChatTypeOK
<1>5. ChatTypeOK'
  <2>1. acked' = [acked EXCEPT ![s] = Append(@, m)] /\ ChatTypeOK
    BY <1>1, <1>2
  <2>2. /\ acked' \in [Session -> Seq(Message)]
        /\ cleared' \in [Session -> Nat]
        /\ \A r \in Session : cleared'[r] <= Len(acked'[r])
    BY <1>1, <2>1, AckedTyped
  <2>3. QED
    BY <1>1, <1>3, <1>4, <2>2 DEF ChatTypeOK
<1>6. CallsFit'
  BY <1>3, IdleFields DEF ChatInv, CallsFit
<1>7. ASSUME NEW r \in Session \ torn'
      PROVE  SessionInv(r)'
  <2>1. r \notin torn /\ SessionInv(r)
    BY <1>1, <1>7 DEF ChatInv
  <2>2. \A u \in Thread : u \in Appending(r)' \/ u \in Clearing(r)' => u # t /\ chat'[u] = chat[u]
    BY <1>3, IdleFields DEF Appending, Clearing
  <2>3. CASE r # s
    <3>1. \A u \in Thread : u \in Clearing(r)' => u \in Clearing(r)
      BY <2>2 DEF Clearing
    <3>2. QED
      BY <1>1, <1>4, <2>1, <2>2, <2>3, <3>1, SessionUntouched
  <2>4. CASE r = s
    <3>1. t \in Appending(s) /\ SessionInv(s)
      BY <1>1, <1>2, <2>1, <2>4 DEF Appending
    <3>2. p \in Taken(s)
      BY <1>1, <1>2, <3>1 DEF SessionInv, AppendsFit
    <3>3. Taken(s)' = Taken(s) /\ NextTurn(s)' = p + 1 /\ p \in Nat
      <4>1. p \in Nat /\ p # None
        BY TurnNat, ChatConstants
      <4>2. QED
        BY <1>1, <1>4, <4>1 DEF Stored, Taken, NextTurn
    <3>4. NoGap(s)'
      BY <3>1, <3>3 DEF SessionInv, NoGap
    <3>5. NextTurn(s)' - 1 \in Taken(s)'
      BY <3>2, <3>3
    <3>6. \A u \in Appending(s)' : u \in Appending(s) /\ u # t /\ chat'[u] = chat[u]
      BY <2>2, <2>4 DEF Appending
    <3>7. InTurn(s)'
      <4>1. CASE s \in raced
        BY <1>1, <4>1 DEF InTurn
      <4>2. CASE s \notin raced
        <5>1. /\ \A i \in Taken(s) : i <= NextTurn(s)
              /\ \A u, w \in Appending(s) : u = w
              /\ chat[t].index = NextTurn(s)
          BY <3>1, <4>2 DEF SessionInv, InTurn
        <5>2. Appending(s)' = {}
          BY <3>1, <3>6, <5>1
        <5>3. \A i \in Taken(s) : i <= p + 1
          <6>1. p = NextTurn(s) /\ \A i \in Taken(s) : i \in Nat
            BY <1>1, <1>2, <5>1, IndexesNat
          <6>2. ASSUME NEW i \in Taken(s)
                PROVE  i <= p + 1
            <7>1. i \in Nat /\ i <= p
              BY <5>1, <6>1
            <7>2. QED
              BY <3>3, <7>1
          <6>3. QED
            BY <6>2
        <5>4. QED
          BY <3>3, <5>2, <5>3 DEF InTurn
      <4>3. QED
        BY <4>1, <4>2
    <3>8. AppendsFit(s)'
      <4>1. ASSUME NEW u \in Appending(s)'
            PROVE  /\ chat'[u].op = "put turn" =>
                        \/ chat'[u].index \in Taken(s)'
                        \/ chat'[u].index - 1 \in Taken(s)'
                   /\ chat'[u].op = "put counter" => chat'[u].index \in Taken(s)'
        BY <3>1, <3>2, <3>3, <3>6, <4>1 DEF SessionInv, AppendsFit, Adjoins
      <4>2. QED
        BY <3>2, <3>3, <4>1 DEF AppendsFit, Adjoins
    <3>9. ClearsFit(s)'
      <4>1. Clearing(s) = {}
        BY <3>1 DEF SessionInv, ClearsFit
      <4>2. Clearing(s)' = {}
        BY <2>2, <2>4, <4>1 DEF Clearing
      <4>3. QED
        BY <4>2 DEF ClearsFit
    <3>10. QED
      BY <2>4, <3>4, <3>5, <3>7, <3>8, <3>9 DEF SessionInv, Adjoins
  <2>5. QED
    BY <2>3, <2>4
<1>8. HolesFit'
  BY <1>1 DEF ChatInv, HolesFit
<1>9. QED
  BY <1>5, <1>6, <1>7, <1>8 DEF ChatInv

LEMMA PutCounterRefusedKeeps ==
  ASSUME ChatInv, NEW t \in Thread, PutCounterRefused(t)
  PROVE  ChatInv'
<1>1. /\ ChatTypeOK /\ chat[t] \in ChatCall /\ chat[t].op = "put counter"
      /\ acked' = [acked EXCEPT ![chat[t].session] = Append(@, chat[t].message)]
      /\ refused' = refused \cup {chat[t].session}
      /\ chat' = [chat EXCEPT ![t] = Idle]
      /\ UNCHANGED <<turn, counter, cleared, raced, torn, holes>>
  BY DEF ChatInv, ChatTypeOK, PutCounterRefused, chatStore
<1>2. PICK s \in Session, m \in Message : s = chat[t].session /\ m = chat[t].message
  BY <1>1, ChatFields DEF ChatInv, CallsFit
<1>3. /\ chat' \in [Thread -> ChatCall]
      /\ chat'[t] = Idle
      /\ \A u \in Thread \ {t} : chat'[u] = chat[u]
  BY <1>1, IdleFields, ChatReplaced
<1>4. ChatTypeOK'
  <2>1. acked' = [acked EXCEPT ![s] = Append(@, m)] /\ refused' = refused \cup {s}
    BY <1>1, <1>2
  <2>2. QED
    BY <1>1, <1>3, <2>1, AckedTyped DEF ChatTypeOK
<1>5. CallsFit'
  BY <1>3, IdleFields DEF ChatInv, CallsFit
<1>6. ASSUME NEW r \in Session \ torn'
      PROVE  SessionInv(r)'
  <2>1. r \notin torn /\ SessionInv(r)
    BY <1>1, <1>6 DEF ChatInv
  <2>2. \A u \in Thread : u \in Appending(r)' \/ u \in Clearing(r)' => u # t /\ chat'[u] = chat[u]
    BY <1>3, IdleFields DEF Appending, Clearing
  <2>3. \A u \in Thread : u \in Clearing(r)' => u \in Clearing(r)
    BY <2>2 DEF Clearing
  <2>4. QED
    BY <1>1, <2>1, <2>2, <2>3, SessionUntouched
<1>7. HolesFit'
  BY <1>1 DEF ChatInv, HolesFit
<1>8. QED
  BY <1>4, <1>5, <1>6, <1>7 DEF ChatInv

LEMMA BeginClearKeeps ==
  ASSUME ChatInv, NEW t \in Thread, NEW s \in Session, BeginClear(t, s)
  PROVE  ChatInv'
<1> DEFINE c == [op |-> "delete turns", session |-> s, message |-> None, index |-> 0,
                 keys |-> Found(s)]
<1>1. /\ ChatTypeOK /\ chat[t] = Idle
      /\ chat' = [chat EXCEPT ![t] = c]
      /\ cleared' = [cleared EXCEPT ![s] = Len(acked[s])]
      /\ UNCHANGED <<turn, counter, acked, raced, holes, refused>>
  BY DEF ChatInv, BeginClear, chatStore
<1>2. /\ \A r \in Covers(s) \ torn' :
           /\ r \notin torn /\ Appending(r) = {} /\ Clearing(r) = {}
           /\ r = s => r \notin raced
           /\ r # s => Stored(r) = {}
      /\ torn \subseteq torn' /\ torn' \subseteq Session
      /\ Covers(s) \subseteq Session
  BY <1>1, ChatConstants DEF BeginClear, ChatTypeOK
<1>3. /\ c.op = "delete turns" /\ c.session = s
      /\ c.keys \subseteq Covers(s) \X Turn
      /\ \A r \in Covers(s), i \in Turn : <<r, i>> \in c.keys <=> i \in Stored(r)
  <2>1. \A r : Stored(r) \subseteq Turn
    BY DEF Stored
  <2>2. QED
    BY <2>1 DEF Found
<1>4. c \in ChatCall
  BY <1>2, <1>3, TurnNat DEF ChatCall
<1> HIDE DEF c
<1>5. /\ chat' \in [Thread -> ChatCall]
      /\ chat'[t] = c
      /\ \A u \in Thread \ {t} : chat'[u] = chat[u]
  BY <1>1, <1>4, ChatReplaced
<1>6. ChatTypeOK'
  <2>1. /\ cleared' \in [Session -> Nat]
        /\ \A r \in Session : cleared'[r] <= Len(acked[r])
    BY <1>1 DEF ChatTypeOK
  <2>2. QED
    BY <1>1, <1>2, <1>5, <2>1 DEF ChatTypeOK
<1>7. CallsFit'
  BY <1>3, <1>5 DEF ChatInv, CallsFit
<1>8. ASSUME NEW r \in Session \ torn'
      PROVE  SessionInv(r)'
  <2>1. r \notin torn /\ SessionInv(r)
    BY <1>2, <1>8 DEF ChatInv
  <2>2. \A u \in Thread : u \in Appending(r)' => u # t /\ chat'[u] = chat[u]
    BY <1>3, <1>5 DEF Appending
  <2>3. CASE r \notin Covers(s)
    <3>1. \A u \in Thread : u \in Clearing(r)' => u \in Clearing(r) /\ chat'[u] = chat[u]
      BY <1>3, <1>5, <2>3 DEF Clearing
    <3>2. QED
      BY <1>1, <2>1, <2>2, <3>1, SessionUntouched
  <2>4. CASE r \in Covers(s)
    <3>1. /\ Appending(r) = {} /\ Clearing(r) = {}
          /\ r \notin raced \/ Stored(r) = {}
      BY <1>2, <1>8, <2>4
    <3>2. Stored(r)' = Stored(r) /\ Taken(r)' = Taken(r) /\ NextTurn(r)' = NextTurn(r)
      BY <1>1 DEF Stored, Taken, NextTurn
    <3>3. Appending(r)' = {}
      BY <2>2, <3>1 DEF Appending
    <3>4. \A u \in Clearing(r)' : u = t
      BY <1>5, <3>1 DEF Clearing
    <3>5. NoGap(r)' /\ Adjoins(r, NextTurn(r))' /\ InTurn(r)' /\ AppendsFit(r)'
      BY <1>1, <2>1, <3>2, <3>3 DEF SessionInv, NoGap, Adjoins, InTurn, AppendsFit
    <3>6. ClearsFit(r)'
      BY <1>1, <1>3, <1>5, <2>4, <3>1, <3>2, <3>3, <3>4 DEF ClearsFit
    <3>7. QED
      BY <3>5, <3>6 DEF SessionInv
  <2>5. QED
    BY <2>3, <2>4
<1>9. HolesFit'
  BY <1>1 DEF ChatInv, HolesFit
<1>10. QED
  BY <1>6, <1>7, <1>8, <1>9 DEF ChatInv

(* The first key of a session is the one with the least index.             *)
LEMMA FirstLeast ==
  ASSUME NEW t, NEW q \in Session, NEW i \in Turn, FirstKey(t, <<q, i>>)
  PROVE  /\ <<q, i>> \in chat[t].keys
         /\ \A j \in Turn : <<q, j>> \in chat[t].keys => i <= j
<1>1. ASSUME NEW j \in Turn, <<q, j>> \in chat[t].keys
      PROVE  i <= j
  <2>1. ~ (j < i)
    BY <1>1, ChatConstants DEF FirstKey, Turn
  <2>2. QED
    BY <1>1, <2>1, TurnNat
<1>2. QED
  BY <1>1 DEF FirstKey

LEMMA DeleteTurnKeeps ==
  ASSUME ChatInv, NEW t \in Thread, DeleteTurn(t)
  PROVE  ChatInv'
<1>1. PICK q \in Session, i \in Turn :
        /\ FirstKey(t, <<q, i>>)
        /\ turn' = [turn EXCEPT ![q][i] = None]
        /\ holes' = [holes EXCEPT ![q] = {j \in @ : i < j}]
        /\ chat' = [chat EXCEPT ![t].keys = @ \ {<<q, i>>}]
  BY DEF DeleteTurn
<1> DEFINE c == [chat[t] EXCEPT !.keys = @ \ {<<q, i>>}]
<1>2. /\ ChatTypeOK /\ chat[t] \in ChatCall /\ chat[t].op = "delete turns"
      /\ chat[t].session \in Session /\ q \in Covers(chat[t].session)
      /\ <<q, i>> \in chat[t].keys
      /\ \A j \in Turn : <<q, j>> \in chat[t].keys => i <= j
      /\ UNCHANGED <<counter, acked, cleared, raced, torn, refused>>
  <2>1. /\ ChatTypeOK /\ chat[t] \in ChatCall /\ chat[t].op = "delete turns"
        /\ UNCHANGED <<counter, acked, cleared, raced, torn, refused>>
    BY DEF ChatInv, ChatTypeOK, DeleteTurn
  <2>2. /\ <<q, i>> \in chat[t].keys
        /\ \A j \in Turn : <<q, j>> \in chat[t].keys => i <= j
    BY <1>1, FirstLeast
  <2>3. chat[t].session \in Session /\ q \in Covers(chat[t].session)
    BY <2>1, <2>2 DEF ChatInv, CallsFit
  <2>4. QED
    BY <2>1, <2>2, <2>3
<1>3. /\ c \in ChatCall /\ c.op = "delete turns" /\ c.session = chat[t].session
      /\ c.keys = chat[t].keys \ {<<q, i>>}
  BY <1>2 DEF ChatCall
<1>4. chat' = [chat EXCEPT ![t] = c]
  BY <1>1, <1>2 DEF ChatTypeOK
<1> HIDE DEF c
<1>5. /\ chat' \in [Thread -> ChatCall]
      /\ chat'[t] = c
      /\ \A u \in Thread \ {t} : chat'[u] = chat[u]
  BY <1>2, <1>3, <1>4, ChatReplaced
<1>6. /\ turn' \in [Session -> [Turn -> Message \cup {None}]]
      /\ holes' \in [Session -> SUBSET Turn]
      /\ \A r \in Session \ {q} : turn'[r] = turn[r] /\ holes'[r] = holes[r]
      /\ turn'[q][i] = None
      /\ \A j \in Turn \ {i} : turn'[q][j] = turn[q][j]
      /\ holes'[q] = {j \in holes[q] : i < j}
  <2>1. /\ turn \in [Session -> [Turn -> Message \cup {None}]]
        /\ holes \in [Session -> SUBSET Turn]
    BY <1>2 DEF ChatTypeOK
  <2>2. holes'[q] = {j \in holes[q] : i < j}
    BY <1>1, <2>1
  <2>3. QED
    BY <1>1, <2>1, <2>2
<1>7. Stored(q)' = Stored(q) \ {i}
  <2>1. \A j \in Turn : turn'[q][j] # None <=> j # i /\ turn[q][j] # None
    BY <1>6
  <2>2. QED
    BY <2>1 DEF Stored
<1>8. ChatTypeOK'
  BY <1>2, <1>5, <1>6 DEF ChatTypeOK
<1>9. CallsFit'
  BY <1>2, <1>3, <1>5 DEF ChatInv, CallsFit
<1>10. ASSUME NEW r \in Session \ torn'
       PROVE  SessionInv(r)'
  <2>1. r \notin torn /\ SessionInv(r)
    BY <1>2, <1>10 DEF ChatInv
  <2>2. \A u \in Thread : u \in Appending(r)' => u # t /\ chat'[u] = chat[u]
    BY <1>3, <1>5 DEF Appending
  <2>3. \A u \in Thread : u \in Clearing(r)' => u \in Clearing(r)
    <3>1. ASSUME NEW u \in Thread, u \in Clearing(r)'
          PROVE  u \in Clearing(r)
      <4>1. CASE u = t
        BY <1>2, <1>3, <1>5, <3>1, <4>1 DEF Clearing
      <4>2. CASE u # t
        BY <1>5, <3>1, <4>2 DEF Clearing
      <4>3. QED
        BY <4>1, <4>2
    <3>2. QED
      BY <3>1
  <2>4. CASE r # q
    <3>1. \A u \in Thread, j \in Turn : <<r, j>> \in chat'[u].keys <=> <<r, j>> \in chat[u].keys
      BY <1>3, <1>5, <2>4
    <3>2. QED
      BY <1>2, <1>6, <2>1, <2>2, <2>3, <2>4, <3>1, SessionUntouched
  <2>5. CASE r = q
    <3>1. t \in Clearing(q) /\ SessionInv(q)
      BY <1>2, <2>1, <2>5 DEF Clearing
    <3>2. /\ Appending(q) = {}
          /\ \A u \in Clearing(q) : u = t
          /\ \A j \in Turn : <<q, j>> \in chat[t].keys <=> j \in Stored(q)
          /\ q \notin raced \/ Stored(q) = {}
      BY <3>1 DEF SessionInv, ClearsFit
    <3>3. /\ i \in Stored(q) /\ q \notin raced
          /\ \A j \in Stored(q) : i <= j
      BY <1>2, <3>2 DEF Stored
    <3>4. /\ Taken(q) \subseteq Nat /\ NextTurn(q) \in Nat /\ i \in Nat
          /\ NextTurn(q)' = NextTurn(q)
      BY <1>2, IndexesNat, TurnNat DEF NextTurn
    <3>5. \A j \in Taken(q) : j <= NextTurn(q)
      BY <3>1, <3>3 DEF SessionInv, InTurn
    <3>6. Taken(q)' = {j \in Taken(q) : i < j}
      <4>1. \A j \in Stored(q) : j \in Nat
        BY <3>4 DEF Taken
      <4>2. Stored(q)' = {j \in Stored(q) : i < j}
        <5>1. ASSUME NEW j \in Stored(q)
              PROVE  j # i <=> i < j
          BY <3>3, <3>4, <4>1
        <5>2. QED
          BY <1>7, <5>1
      <4>3. holes'[q] = {j \in holes[q] : i < j}
        BY <1>6
      <4>4. QED
        BY <4>2, <4>3 DEF Taken
    <3>7. NoGap(q)'
      <4>1. NoGap(q)
        BY <3>1 DEF SessionInv
      <4>2. ASSUME NEW j \in Taken(q)', NEW l \in Taken(q)', NEW k \in Turn, j <= k, k <= l
            PROVE  k \in Taken(q)'
        <5>1. j \in Taken(q) /\ l \in Taken(q) /\ i < j
          BY <3>6, <4>2
        <5>2. k \in Taken(q)
          BY <4>1, <4>2, <5>1 DEF NoGap
        <5>3. i < k
          <6>1. i \in Nat /\ j \in Nat /\ k \in Nat
            BY <3>4, <5>1, TurnNat
          <6>2. QED
            BY <4>2, <5>1, <6>1
        <5>4. QED
          BY <3>6, <5>2, <5>3
      <4>3. QED
        BY <4>2 DEF NoGap
    <3>8. ASSUME Taken(q)' # {}
          PROVE  NextTurn(q) \in Taken(q)' \/ NextTurn(q) - 1 \in Taken(q)'
      <4>1. PICK j \in Taken(q) : i < j
        BY <3>6, <3>8
      <4>2. j \in Nat /\ j <= NextTurn(q)
        BY <3>4, <3>5
      <4>3. i < NextTurn(q)
        BY <3>4, <4>1, <4>2
      <4>4. CASE NextTurn(q) \in Taken(q)
        BY <3>6, <4>3, <4>4
      <4>5. CASE NextTurn(q) \notin Taken(q)
        <5>1. NextTurn(q) - 1 \in Taken(q)
          BY <3>1, <4>1, <4>5 DEF SessionInv, Adjoins
        <5>2. j # NextTurn(q)
          BY <4>5
        <5>3. i < NextTurn(q) - 1
          BY <3>4, <4>1, <4>2, <5>2
        <5>4. QED
          BY <3>6, <5>1, <5>3
      <4>6. QED
        BY <4>4, <4>5
    <3>9. Appending(q)' = {}
      BY <2>2, <2>5, <3>2 DEF Appending
    <3>10. InTurn(q)' /\ AppendsFit(q)'
      BY <3>4, <3>5, <3>6, <3>9 DEF InTurn, AppendsFit
    <3>11. ClearsFit(q)'
      <4>1. \A u \in Clearing(q)' : u = t
        BY <2>3, <2>5, <3>2 DEF Clearing
      <4>2. \A j \in Turn : <<q, j>> \in chat'[t].keys <=> j \in Stored(q)'
        BY <1>3, <1>5, <1>7, <3>2
      <4>3. q \notin raced'
        BY <1>2, <3>3
      <4>4. QED
        BY <3>9, <4>1, <4>2, <4>3 DEF ClearsFit
    <3>12. QED
      BY <2>5, <3>4, <3>7, <3>8, <3>10, <3>11 DEF SessionInv, Adjoins
  <2>6. QED
    BY <2>4, <2>5
<1>11. HolesFit'
  BY <1>2, <1>6 DEF ChatInv, HolesFit
<1>12. QED
  BY <1>8, <1>9, <1>10, <1>11 DEF ChatInv

(* A turn that is not deleted: the session is torn, the others are not     *)
(* touched.                                                                *)
LEMMA DeleteTurnRefusedKeeps ==
  ASSUME ChatInv, NEW t \in Thread, DeleteTurnRefused(t)
  PROVE  ChatInv'
<1>1. PICK q \in Session, i \in Turn :
        /\ torn' = torn \cup {q}
        /\ chat' = [chat EXCEPT ![t].keys = @ \ {<<q, i>>}]
  BY DEF DeleteTurnRefused
<1> DEFINE c == [chat[t] EXCEPT !.keys = @ \ {<<q, i>>}]
<1>2. /\ ChatTypeOK /\ chat[t] \in ChatCall /\ chat[t].op = "delete turns"
      /\ UNCHANGED <<turn, counter, acked, cleared, raced, holes, refused>>
  BY DEF ChatInv, ChatTypeOK, DeleteTurnRefused, chatStore
<1>3. /\ c \in ChatCall /\ c.op = "delete turns" /\ c.session = chat[t].session
      /\ c.keys = chat[t].keys \ {<<q, i>>}
  BY <1>2 DEF ChatCall
<1>4. chat' = [chat EXCEPT ![t] = c]
  BY <1>1, <1>2 DEF ChatTypeOK
<1> HIDE DEF c
<1>5. /\ chat' \in [Thread -> ChatCall]
      /\ chat'[t] = c
      /\ \A u \in Thread \ {t} : chat'[u] = chat[u]
  BY <1>2, <1>3, <1>4, ChatReplaced
<1>6. ChatTypeOK'
  BY <1>1, <1>2, <1>5 DEF ChatTypeOK
<1>7. CallsFit'
  BY <1>2, <1>3, <1>5 DEF ChatInv, CallsFit
<1>8. ASSUME NEW r \in Session \ torn'
      PROVE  SessionInv(r)'
  <2>1. r \notin torn /\ r # q /\ SessionInv(r)
    BY <1>1, <1>8 DEF ChatInv
  <2>2. \A u \in Thread : u \in Appending(r)' => u # t /\ chat'[u] = chat[u]
    BY <1>3, <1>5 DEF Appending
  <2>3. \A u \in Thread : u \in Clearing(r)' => u \in Clearing(r)
    BY <1>2, <1>3, <1>5 DEF Clearing
  <2>4. \A u \in Thread, j \in Turn : <<r, j>> \in chat'[u].keys <=> <<r, j>> \in chat[u].keys
    BY <1>3, <1>5, <2>1
  <2>5. QED
    BY <1>2, <2>1, <2>2, <2>3, <2>4, SessionUntouched
<1>9. HolesFit'
  BY <1>2 DEF ChatInv, HolesFit
<1>10. QED
  BY <1>6, <1>7, <1>8, <1>9 DEF ChatInv

(* The end of a clear, whether the counter is deleted or not.              *)
LEMMA EndClearKeeps ==
  ASSUME ChatInv, NEW t \in Thread, DeleteCounter(t) \/ DeleteCounterRefused(t)
  PROVE  ChatInv'
<1>1. /\ ChatTypeOK /\ chat[t] \in ChatCall
      /\ chat[t].op = "delete turns" /\ chat[t].keys = {}
      /\ acked' = [acked EXCEPT ![chat[t].session] = <<>>]
      /\ cleared' = [cleared EXCEPT ![chat[t].session] = 0]
      /\ chat' = [chat EXCEPT ![t] = Idle]
      /\ holes' = [holes EXCEPT ![chat[t].session] = {}]
      /\ UNCHANGED <<turn, raced, torn, refused>>
  BY DEF ChatInv, ChatTypeOK, DeleteCounter, DeleteCounterRefused, EndClear
<1>2. PICK s \in Session : s = chat[t].session
  BY <1>1 DEF ChatInv, CallsFit
<1>3. /\ chat' \in [Thread -> ChatCall]
      /\ chat'[t] = Idle
      /\ \A u \in Thread \ {t} : chat'[u] = chat[u]
  BY <1>1, IdleFields, ChatReplaced
<1>4. /\ counter' \in [Session -> Turn \cup {None}]
      /\ \A r \in Session \ {s} : counter'[r] = counter[r]
  <2>1. counter \in [Session -> Turn \cup {None}]
    BY <1>1 DEF ChatTypeOK
  <2>2. CASE DeleteCounter(t)
    BY <1>2, <2>1, <2>2 DEF DeleteCounter
  <2>3. CASE DeleteCounterRefused(t)
    BY <2>1, <2>3 DEF DeleteCounterRefused
  <2>4. QED
    BY <2>2, <2>3
<1>5. ChatTypeOK'
  <2>1. <<>> \in Seq(Message) /\ Len(<<>>) = 0
    OBVIOUS
  <2>2. acked' \in [Session -> Seq(Message)] /\ cleared' \in [Session -> Nat]
    BY <1>1, <1>2, <2>1 DEF ChatTypeOK
  <2>3. ASSUME NEW r \in Session
        PROVE  cleared'[r] <= Len(acked'[r])
    <3>1. CASE r = s
      <4>1. cleared'[s] = 0 /\ acked'[s] = <<>>
        BY <1>1, <1>2 DEF ChatTypeOK
      <4>2. QED
        BY <2>1, <3>1, <4>1
    <3>2. CASE r # s
      BY <1>1, <1>2, <3>2 DEF ChatTypeOK
    <3>3. QED
      BY <3>1, <3>2
  <2>4. holes' \in [Session -> SUBSET Turn]
    BY <1>1, <1>2 DEF ChatTypeOK
  <2>5. QED
    BY <1>1, <1>3, <1>4, <2>2, <2>3, <2>4 DEF ChatTypeOK
<1>6. /\ holes' \in [Session -> SUBSET Turn] /\ holes'[s] = {}
      /\ \A r \in Session \ {s} : holes'[r] = holes[r]
  BY <1>1, <1>2 DEF ChatTypeOK
<1>7. CallsFit'
  BY <1>3, IdleFields DEF ChatInv, CallsFit
<1>8. ASSUME NEW r \in Session \ torn'
      PROVE  SessionInv(r)'
  <2>1. r \notin torn /\ SessionInv(r)
    BY <1>1, <1>8 DEF ChatInv
  <2>2. \A u \in Thread : u \in Appending(r)' \/ u \in Clearing(r)' => u # t /\ chat'[u] = chat[u]
    BY <1>3, IdleFields DEF Appending, Clearing
  <2>3. \A u \in Thread : u \in Clearing(r)' => u \in Clearing(r)
    BY <2>2 DEF Clearing
  <2>4. CASE r # s
    BY <1>1, <1>4, <1>6, <2>1, <2>2, <2>3, <2>4, SessionUntouched
  <2>5. CASE r = s
    <3>1. t \in Clearing(s) /\ SessionInv(s)
      BY <1>1, <1>2, <2>1, <2>5, ChatConstants DEF Clearing
    <3>2. /\ Appending(s) = {}
          /\ \A u \in Clearing(s) : u = t
          /\ \A j \in Turn : j \notin Stored(s)
      BY <1>1, <3>1 DEF SessionInv, ClearsFit
    <3>3. Taken(s)' = {}
      BY <1>1, <1>6, <3>2 DEF Stored, Taken
    <3>4. Appending(s)' = {} /\ Clearing(s)' = {}
      BY <2>2, <2>3, <2>5, <3>2 DEF Appending, Clearing
    <3>5. QED
      BY <2>5, <3>3, <3>4 DEF SessionInv, NoGap, Adjoins, InTurn, AppendsFit, ClearsFit
  <2>6. QED
    BY <2>4, <2>5
<1>9. HolesFit'
  BY <1>1, <1>6 DEF ChatInv, HolesFit
<1>10. QED
  BY <1>5, <1>7, <1>8, <1>9 DEF ChatInv

LEMMA CrashChatKeeps ==
  ASSUME ChatInv, CrashChat
  PROVE  ChatInv'
<1>1. /\ ChatTypeOK /\ UNCHANGED <<turn, counter, acked, cleared, raced, torn, holes, refused>>
      /\ \A t \in Thread : chat'[t] = Idle
      /\ chat' \in [Thread -> ChatCall]
  BY IdleFields DEF ChatInv, CrashChat, chatStore, chatHistory
<1>2. ChatTypeOK'
  BY <1>1 DEF ChatTypeOK
<1>3. CallsFit'
  BY <1>1, IdleFields DEF CallsFit
<1>4. ASSUME NEW r \in Session \ torn'
      PROVE  SessionInv(r)'
  <2>1. r \notin torn /\ SessionInv(r)
    BY <1>1, <1>4 DEF ChatInv
  <2>2. \A u \in Thread : ~ (u \in Appending(r)') /\ ~ (u \in Clearing(r)')
    BY <1>1, IdleFields DEF Appending, Clearing
  <2>3. QED
    BY <1>1, <2>1, <2>2, SessionUntouched
<1>5. HolesFit'
  BY <1>1 DEF ChatInv, HolesFit
<1>6. QED
  BY <1>2, <1>3, <1>4, <1>5 DEF ChatInv

LEMMA InitChatInv ==
  InitChat => ChatInv
<1>1. SUFFICES ASSUME InitChat PROVE ChatInv
  OBVIOUS
<1>2. /\ \A t \in Thread : chat[t] = Idle
      /\ \A s \in Session : Taken(s) = {} /\ Appending(s) = {} /\ Clearing(s) = {}
  BY <1>1, IdleFields DEF InitChat, Stored, Taken, Appending, Clearing
<1>3. ChatTypeOK
  <2>1. <<>> \in Seq(Message) /\ Len(<<>>) = 0
    OBVIOUS
  <2>2. QED
    BY <1>1, <2>1, IdleFields DEF InitChat, ChatTypeOK
<1>4. CallsFit
  BY <1>2, IdleFields DEF CallsFit
<1>5. \A s \in Session : SessionInv(s)
  BY <1>2 DEF SessionInv, NoGap, Adjoins, InTurn, AppendsFit, ClearsFit
<1>6. HolesFit
  BY <1>1 DEF InitChat, HolesFit
<1>7. QED
  BY <1>3, <1>4, <1>5, <1>6 DEF ChatInv

LEMMA ChatUnchanged ==
  ASSUME ChatInv, UNCHANGED chatVars
  PROVE  ChatInv'
<1>1. /\ UNCHANGED <<turn, counter, chat, acked, cleared, raced, torn, holes, refused>>
  BY DEF chatVars, chatStore, chatHistory
<1>2. ChatTypeOK' /\ CallsFit'
  BY <1>1 DEF ChatInv, ChatTypeOK, CallsFit
<1>3. ASSUME NEW s \in Session \ torn'
      PROVE  SessionInv(s)'
  <2>1. SessionInv(s)
    BY <1>1, <1>3 DEF ChatInv
  <2>2. \A u \in Thread : u \in Clearing(s)' => u \in Clearing(s)
    BY <1>1 DEF Clearing
  <2>3. QED
    BY <1>1, <2>1, <2>2, SessionUntouched
<1>4. HolesFit'
  BY <1>1 DEF ChatInv, HolesFit
<1>5. QED
  BY <1>2, <1>3, <1>4 DEF ChatInv

-----------------------------------------------------------------------------
(* What the invariant is for.                                              *)
LEMMA ChatInvContiguous ==
  ChatInv => TurnsContiguous
<1>1. SUFFICES ASSUME ChatInv, NEW s \in Session \ torn
               PROVE  /\ \A i, j \in Stored(s) : \A k \in i .. j : k \in Taken(s)
                      /\ Stored(s) # {} /\ counter[s] # None => \E i \in Taken(s) : counter[s] <= i
  BY DEF TurnsContiguous
<1>2. ChatTypeOK /\ NoGap(s) /\ Adjoins(s, NextTurn(s))
  BY <1>1 DEF ChatInv, SessionInv
<1>3. ASSUME NEW i \in Stored(s), NEW j \in Stored(s), NEW k \in i .. j
      PROVE  k \in Taken(s)
  <2>1. i \in 0 .. MaxTurn /\ j \in 0 .. MaxTurn /\ MaxTurn \in Nat
    BY ChatConstants DEF Stored, Turn
  <2>2. k \in Turn /\ i <= k /\ k <= j
    BY <2>1 DEF Turn
  <2>3. QED
    BY <1>2, <2>2 DEF NoGap, Taken
<1>4. ASSUME Stored(s) # {}, counter[s] # None
      PROVE  \E i \in Taken(s) : counter[s] <= i
  <2>1. counter[s] \in Nat
    BY <1>2, <1>4, TurnNat DEF ChatTypeOK
  <2>2. NextTurn(s) = counter[s] + 1
    BY <1>4 DEF NextTurn
  <2>3. NextTurn(s) \in Taken(s) \/ NextTurn(s) - 1 \in Taken(s)
    BY <1>2, <1>4 DEF Adjoins, Taken
  <2>4. counter[s] <= NextTurn(s) /\ counter[s] <= NextTurn(s) - 1
    BY <2>1, <2>2
  <2>5. QED
    BY <2>3, <2>4
<1>5. QED
  BY <1>3, <1>4

-----------------------------------------------------------------------------
(* What a session keeps of its history on which no two operations have     *)
(* overlapped and no put was refused: again one lemma for each step.  A    *)
(* refused put says nothing of its own session.                            *)

(* There the indexes given are those of the turns stored.                  *)
LEMMA AllTaken ==
  ASSUME ChatInv, NEW s \in Session \ (raced \cup torn \cup refused)
  PROVE  Taken(s) = Stored(s) /\ SessionInv(s) /\ s \notin raced
BY DEF ChatInv, HolesFit, Taken

(* A session whose turns, counter and history a step leaves.               *)
LEMMA ChronicleUntouched ==
  ASSUME NEW s \in Session, Chronicle(s),
         turn'[s] = turn[s], counter'[s] = counter[s],
         acked'[s] = acked[s], cleared'[s] = cleared[s],
         \A u \in Thread : u \in Appending(s)' => chat'[u] = chat[u],
         \A u \in Thread : u \in Clearing(s)' =>
           u \in Clearing(s) /\ chat'[u].session = chat[u].session
  PROVE  Chronicle(s)'
<1>1. Stored(s)' = Stored(s) /\ NextTurn(s)' = NextTurn(s)
  BY DEF Stored, NextTurn
<1>2. \A u \in Appending(s)' : u \in Appending(s) /\ chat'[u] = chat[u]
  BY DEF Appending
<1>3. \A u \in Clearing(s)' : u \in Clearing(s) /\ chat'[u].session = chat[u].session
  BY DEF Clearing
<1>4. PICK base \in Nat, gone \in 0 .. cleared[s] : From(s, base, gone)
  BY DEF Chronicle
<1>5. gone \in 0 .. cleared'[s] /\ From(s, base, gone)'
  BY <1>1, <1>4 DEF From
<1>6. QED
  BY <1>1, <1>2, <1>3, <1>5 DEF Chronicle

LEMMA BeginAppendTold ==
  ASSUME ChatInv, HistoryInv,
         NEW t \in Thread, NEW s \in Session, NEW m \in Message, BeginAppend(t, s, m)
  PROVE  HistoryInv'
<1> DEFINE c == [op |-> "put turn", session |-> s, message |-> m,
                 index |-> NextTurn(s), keys |-> {}]
<1>1. /\ chat \in [Thread -> ChatCall] /\ NextTurn(s) \in Turn
      /\ chat' = [chat EXCEPT ![t] = c]
      /\ UNCHANGED <<turn, counter, acked, cleared, refused>>
      /\ raced \subseteq raced' /\ torn \subseteq torn'
      /\ s \notin torn' => Clearing(s) = {}
      /\ s \notin raced' => Appending(s) = {}
  BY DEF ChatInv, ChatTypeOK, BeginAppend, chatStore
<1>2. c.op = "put turn" /\ c.session = s
  OBVIOUS
<1> HIDE DEF c
<1>3. chat'[t] = c /\ \A u \in Thread \ {t} : chat'[u] = chat[u]
  BY <1>1
<1>4. ASSUME NEW r \in Session \ (raced' \cup torn' \cup refused')
      PROVE  Chronicle(r)'
  <2>1. Chronicle(r)
    BY <1>1, <1>4 DEF HistoryInv
  <2>2. \A u \in Thread : u \in Clearing(r)' => u \in Clearing(r) /\ chat'[u] = chat[u]
    BY <1>2, <1>3 DEF Clearing
  <2>3. CASE r # s
    <3>1. \A u \in Thread : u \in Appending(r)' => chat'[u] = chat[u]
      BY <1>2, <1>3, <2>3 DEF Appending
    <3>2. QED
      BY <1>1, <2>1, <2>2, <3>1, ChronicleUntouched
  <2>4. CASE r = s
    <3>1. \A u \in Appending(s)' : u = t
      BY <1>1, <1>3, <1>4, <2>4 DEF Appending
    <3>2. Clearing(s)' = {}
      BY <1>1, <1>4, <2>2, <2>4 DEF Clearing
    <3>3. PICK base \in Nat, gone \in 0 .. cleared[s] : From(s, base, gone)
      BY <2>1, <2>4 DEF Chronicle
    <3>4. gone \in 0 .. cleared'[s] /\ From(s, base, gone)'
      BY <1>1, <3>3 DEF From, Stored, NextTurn
    <3>5. QED
      BY <1>2, <1>3, <2>4, <3>1, <3>2, <3>4 DEF Chronicle
  <2>5. QED
    BY <2>3, <2>4
<1>5. QED
  BY <1>4 DEF HistoryInv

(* The one append under way puts its turn behind the acknowledged ones.    *)
LEMMA PutTurnTold ==
  ASSUME ChatInv, HistoryInv, NEW t \in Thread, PutTurn(t) \/ PutTurnRefused(t)
  PROVE  HistoryInv'
<1>1. /\ ChatTypeOK /\ chat[t] \in ChatCall /\ chat[t].op = "put turn"
      /\ chat' = [chat EXCEPT ![t].op = "put counter"]
      /\ UNCHANGED <<counter, acked, cleared, raced, torn>>
  BY DEF ChatInv, ChatTypeOK, PutTurn, PutTurnRefused, chatStore
<1>2. PICK s \in Session, p \in Turn, m \in Message :
        s = chat[t].session /\ p = chat[t].index /\ m = chat[t].message
  BY <1>1, ChatFields DEF ChatInv, CallsFit
<1>3. /\ chat'[t].op = "put counter" /\ chat'[t].session = s
      /\ chat'[t].index = p /\ chat'[t].message = m
      /\ \A u \in Thread \ {t} : chat'[u] = chat[u]
  BY <1>1, <1>2 DEF ChatTypeOK, ChatCall
<1>4. /\ \A r \in Session \ {s} : turn'[r] = turn[r]
      /\ refused \subseteq refused'
      /\ s \notin refused' => /\ turn'[s][p] = m
                            /\ \A i \in Turn \ {p} : turn'[s][i] = turn[s][i]
  <2>1. CASE PutTurn(t)
    BY <1>1, <1>2, <2>1 DEF PutTurn, ChatTypeOK
  <2>2. CASE PutTurnRefused(t)
    BY <1>2, <2>2 DEF PutTurnRefused, chatStore
  <2>3. QED
    BY <2>1, <2>2
<1>5. ASSUME NEW r \in Session \ (raced' \cup torn' \cup refused')
      PROVE  Chronicle(r)'
  <2>1. /\ Chronicle(r) /\ r \notin raced /\ SessionInv(r)
        /\ r \notin refused'
    BY <1>1, <1>4, <1>5, AllTaken DEF HistoryInv
  <2>2. \A u \in Thread : u \in Clearing(r)' => u \in Clearing(r) /\ chat'[u] = chat[u]
    BY <1>3 DEF Clearing
  <2>3. CASE r # s
    <3>1. \A u \in Thread : u \in Appending(r)' => chat'[u] = chat[u]
      BY <1>2, <1>3, <2>3 DEF Appending
    <3>2. QED
      BY <1>1, <1>4, <2>1, <2>2, <2>3, <3>1, ChronicleUntouched
  <2>4. CASE r = s
    <3>1. t \in Appending(s)
      BY <1>1, <1>2 DEF Appending
    <3>2. p = NextTurn(s) /\ \A u \in Appending(s) : u = t
      BY <1>2, <2>1, <2>4, <3>1 DEF SessionInv, InTurn
    <3>3. Clearing(s)' = {}
      BY <2>1, <2>2, <2>4, <3>1 DEF SessionInv, ClearsFit, Clearing
    <3>4. \A u \in Appending(s)' : u = t
      BY <1>3, <3>2 DEF Appending
    <3>5. PICK base \in Nat, gone \in 0 .. cleared[s] : From(s, base, gone)
      BY <2>1, <2>4 DEF Chronicle
    <3>6. /\ turn'[s][p] = m
          /\ \A i \in Turn \ {p} : turn'[s][i] = turn[s][i]
          /\ \A i \in Stored(s)' : i \in Stored(s) \/ i = p
      BY <1>4, <2>1, <2>4 DEF Stored
    <3>7. base + gone <= p /\ p \in Nat
      <4>1. cleared[s] \in Nat /\ cleared[s] <= Len(acked[s]) /\ Len(acked[s]) \in Nat
        <5>1. acked[s] \in Seq(Message)
          BY <1>1 DEF ChatTypeOK
        <5>2. QED
          <6>1. cleared \in [Session -> Nat] /\ \A z \in Session : cleared[z] <= Len(acked[z])
            BY <1>1 DEF ChatTypeOK
          <6>2. Len(acked[s]) \in Nat
            BY <5>1
          <6>3. QED
            BY <6>1, <6>2
      <4>2. p = base + Len(acked[s])
        BY <3>2, <3>5 DEF From
      <4>3. QED
        BY <3>5, <4>1, <4>2
    <3>8. NextTurn(s)' = NextTurn(s)
      BY <1>1 DEF NextTurn
    <3>9. From(s, base, gone)'
      <4>1. \A i \in Turn : i < p => turn'[s][i] = turn[s][i]
        BY <3>6, <3>7
      <4>2. QED
        BY <1>1, <3>2, <3>5, <3>6, <3>7, <3>8, <4>1 DEF From
    <3>10. gone \in 0 .. cleared'[s]
      BY <1>1, <3>5
    <3>11. QED
      BY <1>3, <2>4, <3>3, <3>4, <3>6, <3>9, <3>10 DEF Chronicle
  <2>5. QED
    BY <2>3, <2>4
<1>6. QED
  BY <1>5 DEF HistoryInv

(* The message acknowledged is the one stored under the next index.        *)
LEMMA PutCounterTold ==
  ASSUME ChatInv, HistoryInv, NEW t \in Thread, PutCounter(t)
  PROVE  HistoryInv'
<1>1. /\ ChatTypeOK /\ chat[t] \in ChatCall /\ chat[t].op = "put counter"
      /\ counter' = [counter EXCEPT ![chat[t].session] = chat[t].index]
      /\ acked' = [acked EXCEPT ![chat[t].session] = Append(@, chat[t].message)]
      /\ chat' = [chat EXCEPT ![t] = Idle]
      /\ UNCHANGED <<turn, cleared, raced, torn, refused>>
  BY DEF ChatInv, ChatTypeOK, PutCounter
<1>2. PICK s \in Session, p \in Turn, m \in Message :
        s = chat[t].session /\ p = chat[t].index /\ m = chat[t].message
  BY <1>1, ChatFields DEF ChatInv, CallsFit
<1>3. chat'[t] = Idle /\ \A u \in Thread \ {t} : chat'[u] = chat[u]
  BY <1>1 DEF ChatTypeOK
<1>4. /\ counter'[s] = p
      /\ acked[s] \in Seq(Message) /\ acked'[s] = Append(acked[s], m)
      /\ \A r \in Session \ {s} : counter'[r] = counter[r] /\ acked'[r] = acked[r]
  BY <1>1, <1>2 DEF ChatTypeOK
<1>5. ASSUME NEW r \in Session \ (raced' \cup torn' \cup refused')
      PROVE  Chronicle(r)'
  <2>1. Chronicle(r) /\ r \notin raced /\ SessionInv(r)
    BY <1>1, <1>5, AllTaken DEF HistoryInv
  <2>2. \A u \in Thread : u \in Appending(r)' \/ u \in Clearing(r)' => u # t /\ chat'[u] = chat[u]
    BY <1>3, IdleFields DEF Appending, Clearing
  <2>3. \A u \in Thread : u \in Clearing(r)' => u \in Clearing(r)
    BY <2>2 DEF Clearing
  <2>4. CASE r # s
    BY <1>1, <1>4, <2>1, <2>2, <2>3, <2>4, ChronicleUntouched
  <2>5. CASE r = s
    <3>1. t \in Appending(s)
      BY <1>1, <1>2 DEF Appending
    <3>2. p = NextTurn(s) /\ \A u \in Appending(s) : u = t
      BY <1>2, <2>1, <2>5, <3>1 DEF SessionInv, InTurn
    <3>3. Appending(s)' = {} /\ Clearing(s)' = {}
      <4>1. Clearing(s) = {}
        BY <2>1, <2>5, <3>1 DEF SessionInv, ClearsFit
      <4>2. \A u \in Appending(s)' : u \in Appending(s) /\ u # t
        BY <2>2, <2>5 DEF Appending
      <4>3. \A u \in Clearing(s)' : u \in Clearing(s)
        BY <2>3, <2>5 DEF Clearing
      <4>4. QED
        BY <3>2, <4>1, <4>2, <4>3
    <3>4. turn[s][p] = m
      BY <1>1, <1>2, <2>1, <2>5, <3>1 DEF Chronicle
    <3>5. PICK base \in Nat, gone \in 0 .. cleared[s] : From(s, base, gone)
      BY <2>1, <2>5 DEF Chronicle
    <3>6. p \in Nat /\ p # None /\ p = base + Len(acked[s])
      BY <3>2, <3>5, TurnNat, ChatConstants DEF From
    <3>7. /\ Len(acked[s]) \in Nat
          /\ Len(acked'[s]) = Len(acked[s]) + 1 /\ acked'[s][Len(acked[s]) + 1] = m
          /\ \A i \in 1 .. Len(acked[s]) : acked'[s][i] = acked[s][i]
      BY <1>2, <1>4, AppendProperties
    <3>8. NextTurn(s)' = p + 1
      BY <1>4, <3>6 DEF NextTurn
    <3>9. From(s, base, gone)'
      <4>1. Stored(s)' = Stored(s)
        BY <1>1 DEF Stored
      <4>2. ASSUME NEW i \in Turn, base + gone <= i, i < p + 1
            PROVE  turn'[s][i] = acked'[s][i - base + 1]
        <5>1. i \in Nat /\ gone \in Nat
          <6>1. cleared[s] \in Nat
            BY <1>1 DEF ChatTypeOK
          <6>2. QED
            BY <3>5, <6>1, TurnNat
        <5>2. CASE i = p
          <6>1. i - base + 1 = Len(acked[s]) + 1
            BY <3>6, <3>7, <5>2
          <6>2. QED
            BY <1>1, <3>4, <3>7, <5>2, <6>1
        <5>3. CASE i # p
          <6>1. i < p
            BY <3>6, <4>2, <5>1, <5>3
          <6>2. i - base + 1 \in 1 .. Len(acked[s])
            <7>1. Len(acked[s]) \in Nat
              BY <3>7
            <7>2. i < base + Len(acked[s])
              BY <3>6, <6>1
            <7>3. base <= i
              BY <4>2, <5>1
            <7>4. QED
              BY <5>1, <7>1, <7>2, <7>3
          <6>3. turn[s][i] = acked[s][i - base + 1]
            BY <3>2, <3>5, <4>2, <6>1 DEF From
          <6>4. QED
            BY <1>1, <3>7, <6>1, <6>2, <6>3
        <5>4. QED
          BY <5>2, <5>3
      <4>3. p + 1 = base + Len(acked'[s])
        BY <3>6, <3>7
      <4>4. QED
        BY <3>5, <3>8, <4>1, <4>2, <4>3 DEF From
    <3>10. gone \in 0 .. cleared'[s]
      BY <1>1, <3>5
    <3>11. QED
      BY <2>5, <3>3, <3>9, <3>10 DEF Chronicle
  <2>6. QED
    BY <2>4, <2>5
<1>6. QED
  BY <1>5 DEF HistoryInv

LEMMA PutCounterRefusedTold ==
  ASSUME ChatInv, HistoryInv, NEW t \in Thread, PutCounterRefused(t)
  PROVE  HistoryInv'
<1>1. /\ ChatTypeOK /\ chat[t].session \in Session
      /\ acked' = [acked EXCEPT ![chat[t].session] = Append(@, chat[t].message)]
      /\ refused' = refused \cup {chat[t].session}
      /\ chat' = [chat EXCEPT ![t] = Idle]
      /\ UNCHANGED <<turn, counter, cleared, raced, torn>>
  BY DEF ChatInv, CallsFit, PutCounterRefused, chatStore
<1>2. chat'[t] = Idle /\ \A u \in Thread \ {t} : chat'[u] = chat[u]
  BY <1>1 DEF ChatTypeOK
<1>3. ASSUME NEW r \in Session \ (raced' \cup torn' \cup refused')
      PROVE  Chronicle(r)'
  <2>1. Chronicle(r) /\ r # chat[t].session
    BY <1>1, <1>3 DEF HistoryInv
  <2>2. \A u \in Thread : u \in Appending(r)' \/ u \in Clearing(r)' => u # t /\ chat'[u] = chat[u]
    BY <1>2, IdleFields DEF Appending, Clearing
  <2>3. \A u \in Thread : u \in Clearing(r)' => u \in Clearing(r)
    BY <2>2 DEF Clearing
  <2>4. acked'[r] = acked[r]
    BY <1>1, <2>1 DEF ChatTypeOK
  <2>5. QED
    BY <1>1, <2>1, <2>2, <2>3, <2>4, ChronicleUntouched
<1>4. QED
  BY <1>3 DEF HistoryInv

(* A clear finds every message acknowledged that it may delete.            *)
LEMMA BeginClearTold ==
  ASSUME ChatInv, HistoryInv, NEW t \in Thread, NEW s \in Session, BeginClear(t, s)
  PROVE  HistoryInv'
<1> DEFINE c == [op |-> "delete turns", session |-> s, message |-> None, index |-> 0,
                 keys |-> Found(s)]
<1>1. /\ ChatTypeOK
      /\ chat' = [chat EXCEPT ![t] = c]
      /\ cleared' = [cleared EXCEPT ![s] = Len(acked[s])]
      /\ UNCHANGED <<turn, counter, acked, raced, refused>>
  BY DEF ChatInv, BeginClear, chatStore
<1>2. /\ \A r \in Covers(s) \ torn' :
           /\ Appending(r) = {} /\ Clearing(r) = {}
           /\ r # s => Stored(r) = {}
      /\ torn \subseteq torn' /\ s \in Covers(s)
  BY <1>1, ChatConstants DEF BeginClear, ChatTypeOK
<1>3. c.op = "delete turns" /\ c.session = s
  OBVIOUS
<1> HIDE DEF c
<1>4. chat'[t] = c /\ \A u \in Thread \ {t} : chat'[u] = chat[u]
  BY <1>1 DEF ChatTypeOK
<1>5. ASSUME NEW r \in Session \ (raced' \cup torn' \cup refused')
      PROVE  Chronicle(r)'
  <2>1. Chronicle(r) /\ r \notin torn'
    BY <1>1, <1>2, <1>5 DEF HistoryInv
  <2>2. \A u \in Thread : u \in Appending(r)' => u \in Appending(r) /\ chat'[u] = chat[u]
    BY <1>3, <1>4 DEF Appending
  <2>3. CASE r \notin Covers(s)
    <3>1. \A u \in Thread : u \in Clearing(r)' => u \in Clearing(r) /\ chat'[u] = chat[u]
      BY <1>3, <1>4, <2>3 DEF Clearing
    <3>2. r # s
      BY <1>2, <2>3
    <3>3. cleared'[r] = cleared[r]
      BY <1>1, <3>2 DEF ChatTypeOK
    <3>4. QED
      BY <1>1, <2>1, <2>2, <3>1, <3>3, ChronicleUntouched
  <2>4. CASE r \in Covers(s)
    <3>1. Appending(r) = {} /\ Clearing(r) = {} /\ (r # s => Stored(r) = {})
      BY <1>2, <2>1, <2>4
    <3>2. \A u \in Clearing(r)' : u = t
      BY <1>4, <3>1 DEF Clearing
    <3>3. Appending(r)' = {}
      BY <2>2, <3>1 DEF Appending
    <3>4. /\ Stored(r)' = Stored(r)
          /\ NextTurn(r)' = NextTurn(r)
      BY <1>1 DEF Stored, NextTurn
    <3>5. PICK base \in Nat, gone \in 0 .. cleared[r] : From(r, base, gone)
      BY <2>1 DEF Chronicle
    <3>6. gone \in 0 .. cleared'[r]
      <4>1. CASE r = s
        <5>1. cleared'[s] = Len(acked[s]) /\ cleared[s] \in Nat /\ cleared[s] <= Len(acked[s])
          BY <1>1 DEF ChatTypeOK
        <5>2. Len(acked[s]) \in Nat
          BY <1>1 DEF ChatTypeOK
        <5>3. QED
          BY <3>5, <4>1, <5>1, <5>2
      <4>2. CASE r # s
        BY <1>1, <3>5, <4>2 DEF ChatTypeOK
      <4>3. QED
        BY <4>1, <4>2
    <3>7. From(r, base, gone)'
      BY <1>1, <3>4, <3>5 DEF From
    <3>8. r = s => cleared'[s] = Len(acked'[s])
      BY <1>1 DEF ChatTypeOK
    <3>9. \A u \in Clearing(r)' :
            IF chat'[u].session = r THEN cleared'[r] = Len(acked'[r]) ELSE Stored(r)' = {}
      BY <1>3, <1>4, <3>1, <3>2, <3>4, <3>8
    <3>10. QED
      BY <3>3, <3>6, <3>7, <3>9 DEF Chronicle
  <2>5. QED
    BY <2>3, <2>4
<1>6. QED
  BY <1>5 DEF HistoryInv

(* A clear deletes the oldest turn left.                                   *)
LEMMA DeleteTurnTold ==
  ASSUME ChatInv, HistoryInv, NEW t \in Thread, DeleteTurn(t)
  PROVE  HistoryInv'
<1>1. /\ ChatTypeOK /\ chat[t] \in ChatCall /\ chat[t].op = "delete turns"
      /\ UNCHANGED <<counter, acked, cleared, raced, torn, refused>>
  BY DEF ChatInv, ChatTypeOK, DeleteTurn
<1>2. PICK s \in Session, p \in Turn :
        /\ <<s, p>> \in chat[t].keys
        /\ \A j \in Turn : <<s, j>> \in chat[t].keys => p <= j
        /\ turn' = [turn EXCEPT ![s][p] = None]
        /\ chat' = [chat EXCEPT ![t].keys = @ \ {<<s, p>>}]
  BY FirstLeast DEF DeleteTurn
<1>3. /\ chat'[t].op = "delete turns" /\ chat'[t].session = chat[t].session
      /\ \A u \in Thread \ {t} : chat'[u] = chat[u]
  BY <1>1, <1>2 DEF ChatTypeOK, ChatCall
<1>4. /\ \A r \in Session \ {s} : turn'[r] = turn[r]
      /\ turn'[s][p] = None
      /\ \A i \in Turn \ {p} : turn'[s][i] = turn[s][i]
  BY <1>1, <1>2 DEF ChatTypeOK
<1>5. ASSUME NEW r \in Session \ (raced' \cup torn' \cup refused')
      PROVE  Chronicle(r)'
  <2>1. Chronicle(r) /\ SessionInv(r)
    BY <1>1, <1>5, AllTaken DEF HistoryInv
  <2>2. \A u \in Thread : u \in Appending(r)' => u \in Appending(r) /\ chat'[u] = chat[u]
    BY <1>3 DEF Appending
  <2>3. \A u \in Thread : u \in Clearing(r)' =>
          u \in Clearing(r) /\ chat'[u].session = chat[u].session
    BY <1>1, <1>3 DEF Clearing
  <2>4. CASE r # s
    BY <1>1, <1>4, <2>1, <2>2, <2>3, <2>4, ChronicleUntouched
  <2>5. CASE r = s
    <3>1. t \in Clearing(s) /\ p \in Stored(s)
      <4>1. s \in Covers(chat[t].session)
        BY <1>1, <1>2 DEF ChatInv, CallsFit
      <4>2. t \in Clearing(s)
        BY <1>1, <4>1 DEF Clearing
      <4>3. QED
        BY <1>2, <2>1, <2>5, <4>2 DEF SessionInv, ClearsFit
    <3>2. /\ Appending(s) = {} /\ \A u \in Clearing(s) : u = t
          /\ \A i \in Stored(s) : p <= i
      BY <1>2, <2>1, <2>5, <3>1 DEF SessionInv, ClearsFit, Stored
    <3>3. chat[t].session = s /\ cleared[s] = Len(acked[s])
      BY <2>1, <2>5, <3>1 DEF Chronicle
    <3>4. Appending(s)' = {} /\ \A u \in Clearing(s)' : u = t
      <4>1. \A u \in Clearing(s)' : u \in Clearing(s)
        BY <2>3, <2>5 DEF Clearing
      <4>2. \A u \in Appending(s)' : u \in Appending(s)
        BY <2>2, <2>5 DEF Appending
      <4>3. QED
        BY <3>2, <4>1, <4>2
    <3>5. Stored(s)' = Stored(s) \ {p} /\ NextTurn(s)' = NextTurn(s)
      BY <1>1, <1>4, <3>1 DEF Stored, NextTurn
    <3>6. PICK base \in Nat, gone \in 0 .. cleared[s] : From(s, base, gone)
      BY <2>1, <2>5 DEF Chronicle
    <3>7. /\ Len(acked[s]) \in Nat /\ gone \in Nat /\ p \in Nat /\ base + gone <= p
          /\ Stored(s) \subseteq Nat /\ cleared'[s] = Len(acked[s])
          /\ NextTurn(s) = base + Len(acked[s])
      <4>1. acked[s] \in Seq(Message) /\ cleared[s] \in Nat /\ cleared' = cleared
        BY <1>1 DEF ChatTypeOK
      <4>2. Stored(s) \subseteq Nat /\ p \in Nat
        BY <1>1, TurnNat, IndexesNat
      <4>3. gone \in Nat /\ base + gone <= p /\ NextTurn(s) = base + Len(acked[s])
        BY <3>1, <3>6, <4>1 DEF From
      <4>4. QED
        BY <3>3, <4>1, <4>2, <4>3
    <3>8. PICK left \in 0 .. cleared'[s] :
            /\ \A i \in Nat : p <= i /\ i # p => base + left <= i
            /\ \A i \in Nat : base + left <= i /\ i < NextTurn(s) => base + gone <= i /\ i # p
      <4>1. CASE p < NextTurn(s)
        <5>1. PICK n \in Nat : n = p - base + 1
          BY <3>6, <3>7
        <5>2. base + n = p + 1 /\ n \in 0 .. cleared'[s]
          BY <3>6, <3>7, <4>1, <5>1
        <5>3. \A i \in Nat : p <= i /\ i # p => base + n <= i
          BY <3>7, <5>2
        <5>4. \A i \in Nat : base + n <= i => base + gone <= i /\ i # p
          BY <3>6, <3>7, <5>2
        <5>5. QED
          BY <5>2, <5>3, <5>4
      <4>2. CASE NextTurn(s) <= p
        <5>1. PICK n \in Nat : n = Len(acked[s])
          BY <3>7
        <5>2. base + n = NextTurn(s) /\ n \in 0 .. cleared'[s]
          BY <3>7, <5>1
        <5>3. \A i \in Nat : p <= i => base + n <= i
          BY <3>6, <3>7, <4>2, <5>2
        <5>4. \A i \in Nat : ~ (base + n <= i /\ i < NextTurn(s))
          BY <3>6, <3>7, <5>2
        <5>5. QED
          BY <5>2, <5>3, <5>4
      <4>3. QED
        BY <3>6, <3>7, <4>1, <4>2
    <3>9. From(s, base, left)'
      <4>1. ASSUME NEW i \in Stored(s)'
            PROVE  base + left <= i
        <5>1. i \in Nat /\ p <= i /\ i # p
          BY <3>2, <3>5, <3>7, <4>1
        <5>2. QED
          BY <3>8, <5>1
      <4>2. ASSUME NEW i \in Turn, base + left <= i, i < NextTurn(s)
            PROVE  turn'[s][i] = acked[s][i - base + 1]
        <5>1. i # p /\ base + gone <= i
          BY <3>8, <4>2, TurnNat
        <5>2. QED
          BY <1>4, <3>6, <4>2, <5>1 DEF From
      <4>3. QED
        BY <1>1, <3>5, <3>7, <4>1, <4>2 DEF From
    <3>10. QED
      BY <1>1, <1>3, <2>5, <3>3, <3>4, <3>8, <3>9 DEF Chronicle
  <2>6. QED
    BY <2>4, <2>5
<1>6. QED
  BY <1>5 DEF HistoryInv

LEMMA DeleteTurnRefusedTold ==
  ASSUME ChatInv, HistoryInv, NEW t \in Thread, DeleteTurnRefused(t)
  PROVE  HistoryInv'
<1>1. /\ ChatTypeOK /\ chat[t] \in ChatCall /\ chat[t].op = "delete turns"
      /\ torn \subseteq torn'
      /\ UNCHANGED <<turn, counter, acked, cleared, raced, refused>>
  BY DEF ChatInv, ChatTypeOK, DeleteTurnRefused, chatStore
<1>2. PICK keys : chat' = [chat EXCEPT ![t].keys = keys]
  BY DEF DeleteTurnRefused
<1>3. /\ chat'[t].op = "delete turns" /\ chat'[t].session = chat[t].session
      /\ \A u \in Thread \ {t} : chat'[u] = chat[u]
  BY <1>1, <1>2 DEF ChatTypeOK, ChatCall
<1>4. ASSUME NEW r \in Session \ (raced' \cup torn' \cup refused')
      PROVE  Chronicle(r)'
  <2>1. Chronicle(r)
    BY <1>1, <1>4 DEF HistoryInv
  <2>2. \A u \in Thread : u \in Appending(r)' => chat'[u] = chat[u]
    BY <1>3 DEF Appending
  <2>3. \A u \in Thread : u \in Clearing(r)' =>
          u \in Clearing(r) /\ chat'[u].session = chat[u].session
    BY <1>1, <1>3 DEF Clearing
  <2>4. QED
    BY <1>1, <2>1, <2>2, <2>3, ChronicleUntouched
<1>5. QED
  BY <1>4 DEF HistoryInv

(* After a complete clear the session begins again.                        *)
LEMMA EndClearTold ==
  ASSUME ChatInv, HistoryInv, NEW t \in Thread, DeleteCounter(t) \/ DeleteCounterRefused(t)
  PROVE  HistoryInv'
<1>1. /\ ChatTypeOK /\ chat[t] \in ChatCall
      /\ chat[t].op = "delete turns" /\ chat[t].keys = {}
      /\ acked' = [acked EXCEPT ![chat[t].session] = <<>>]
      /\ cleared' = [cleared EXCEPT ![chat[t].session] = 0]
      /\ chat' = [chat EXCEPT ![t] = Idle]
      /\ UNCHANGED <<turn, raced, torn, refused>>
  BY DEF ChatInv, ChatTypeOK, DeleteCounter, DeleteCounterRefused, EndClear
<1>2. PICK s \in Session : s = chat[t].session
  BY <1>1 DEF ChatInv, CallsFit
<1>3. chat'[t] = Idle /\ \A u \in Thread \ {t} : chat'[u] = chat[u]
  BY <1>1 DEF ChatTypeOK
<1>4. /\ counter'[s] = None \/ counter'[s] = counter[s]
      /\ acked'[s] = <<>> /\ cleared'[s] = 0
      /\ \A r \in Session \ {s} :
           counter'[r] = counter[r] /\ acked'[r] = acked[r] /\ cleared'[r] = cleared[r]
  <2>1. CASE DeleteCounter(t)
    BY <1>1, <1>2, <2>1 DEF DeleteCounter, ChatTypeOK
  <2>2. CASE DeleteCounterRefused(t)
    BY <1>1, <1>2, <2>2 DEF DeleteCounterRefused, ChatTypeOK
  <2>3. QED
    BY <2>1, <2>2
<1>5. ASSUME NEW r \in Session \ (raced' \cup torn' \cup refused')
      PROVE  Chronicle(r)'
  <2>1. Chronicle(r) /\ SessionInv(r)
    BY <1>1, <1>5, AllTaken DEF HistoryInv
  <2>2. \A u \in Thread : u \in Appending(r)' =>
          u # t /\ u \in Appending(r) /\ chat'[u] = chat[u]
    BY <1>3, IdleFields DEF Appending
  <2>3. \A u \in Thread : u \in Clearing(r)' =>
          u # t /\ u \in Clearing(r) /\ chat'[u] = chat[u]
    BY <1>3, IdleFields DEF Clearing
  <2>4. CASE r # s
    BY <1>1, <1>4, <2>1, <2>2, <2>3, <2>4, ChronicleUntouched
  <2>5. CASE r = s
    <3>1. t \in Clearing(s)
      BY <1>1, <1>2, ChatConstants DEF Clearing
    <3>2. Appending(s)' = {} /\ Clearing(s)' = {}
      <4>1. Appending(s) = {} /\ \A u \in Clearing(s) : u = t
        BY <2>1, <2>5, <3>1 DEF SessionInv, ClearsFit
      <4>2. \A u \in Appending(s)' : u \in Appending(s)
        BY <2>2, <2>5 DEF Appending
      <4>3. \A u \in Clearing(s)' : u \in Clearing(s) /\ u # t
        BY <2>3, <2>5 DEF Clearing
      <4>4. QED
        BY <4>1, <4>2, <4>3
    <3>3. Stored(s)' = {}
      <4>1. Stored(s) = {}
        BY <1>1, <2>1, <2>5, <3>1 DEF SessionInv, ClearsFit, Stored
      <4>2. QED
        BY <1>1, <4>1 DEF Stored
    <3>4. NextTurn(s)' \in Nat /\ Len(acked'[s]) = 0
      BY <1>1, <1>4, IndexesNat DEF NextTurn
    <3>5. ASSUME NEW base \in Nat, base = NextTurn(s)'
          PROVE  From(s, base, 0)'
      <4>1. \A i \in Turn : ~ (base + 0 <= i /\ i < base)
        BY TurnNat
      <4>2. QED
        BY <3>3, <3>4, <3>5, <4>1 DEF From
    <3>6. 0 \in 0 .. cleared'[s]
      BY <1>4
    <3>7. QED
      BY <2>5, <3>2, <3>4, <3>5, <3>6 DEF Chronicle
  <2>6. QED
    BY <2>4, <2>5
<1>6. QED
  BY <1>5 DEF HistoryInv

LEMMA CrashChatTold ==
  ASSUME ChatInv, HistoryInv, CrashChat
  PROVE  HistoryInv'
<1>1. /\ UNCHANGED <<turn, counter, acked, cleared, raced, torn, refused>>
      /\ \A t \in Thread : chat'[t] = Idle
  BY DEF CrashChat, chatStore, chatHistory
<1>2. ASSUME NEW r \in Session \ (raced' \cup torn' \cup refused')
      PROVE  Chronicle(r)'
  <2>1. Chronicle(r)
    BY <1>1, <1>2 DEF HistoryInv
  <2>2. \A u \in Thread : ~ (u \in Appending(r)') /\ ~ (u \in Clearing(r)')
    BY <1>1, IdleFields DEF Appending, Clearing
  <2>3. QED
    BY <1>1, <2>1, <2>2, ChronicleUntouched
<1>3. QED
  BY <1>2 DEF HistoryInv

LEMMA InitHistoryInv ==
  InitChat => HistoryInv
<1>1. SUFFICES ASSUME InitChat, NEW s \in Session PROVE Chronicle(s)
  BY DEF HistoryInv
<1>2. Stored(s) = {} /\ Appending(s) = {} /\ Clearing(s) = {}
  BY <1>1, IdleFields DEF InitChat, Stored, Appending, Clearing
<1>3. NextTurn(s) = 0 /\ acked[s] = <<>> /\ Len(acked[s]) = 0 /\ cleared[s] = 0
  BY <1>1 DEF InitChat, NextTurn
<1>4. From(s, 0, 0)
  <2>1. \A i \in Turn : ~ (0 + 0 <= i /\ i < 0)
    BY TurnNat
  <2>2. QED
    BY <1>2, <1>3, <2>1 DEF From
<1>5. 0 \in 0 .. cleared[s]
  BY <1>3
<1>6. QED
  BY <1>2, <1>3, <1>4, <1>5 DEF Chronicle

LEMMA HistoryUnchanged ==
  ASSUME HistoryInv, UNCHANGED chatVars
  PROVE  HistoryInv'
<1>1. UNCHANGED <<turn, counter, chat, acked, cleared, raced, torn, refused>>
  BY DEF chatVars, chatStore, chatHistory
<1>2. ASSUME NEW r \in Session \ (raced' \cup torn' \cup refused')
      PROVE  Chronicle(r)'
  <2>1. Chronicle(r)
    BY <1>1, <1>2 DEF HistoryInv
  <2>2. \A u \in Thread : u \in Clearing(r)' => u \in Clearing(r)
    BY <1>1 DEF Clearing
  <2>3. QED
    BY <1>1, <2>1, <2>2, ChronicleUntouched
<1>3. QED
  BY <1>2 DEF HistoryInv

-----------------------------------------------------------------------------
(* What get_history returns.                                               *)

LEMMA KeysOfSession ==
  ASSUME NEW s, NEW I, IsFiniteSet(I)
  PROVE  Cardinality({s} \X I) = Cardinality(I)
<1>1. IsFiniteSet({s}) /\ Cardinality({s}) = 1
  BY FS_Singleton
<1>2. Cardinality({s} \X I) = 1 * Cardinality(I) /\ Cardinality(I) \in Nat
  BY <1>1, FS_Product, FS_CardinalityType
<1>3. QED
  BY <1>2

(* The n-th key of a session whose turns are an interval that starts at lo,*)
(* if its prefix finds no other session.                                   *)
LEMMA NthOfInterval ==
  ASSUME NEW s \in Session, NEW lo \in Nat, NEW n \in Nat,
         Found(s) = {s} \X Stored(s), Stored(s) = lo .. (lo + n - 1)
  PROVE  /\ Cardinality(Found(s)) = n
         /\ \A k \in 1 .. n : Nth(s, k) = <<s, lo + k - 1>>
<1>1. Cardinality(Found(s)) = n
  <2>1. IsFiniteSet(Stored(s)) /\ Cardinality(Stored(s)) = n
    BY FS_Interval
  <2>2. Cardinality({s} \X Stored(s)) = Cardinality(Stored(s))
    BY <2>1, KeysOfSession, Zenon
  <2>3. QED
    BY <2>1, <2>2
<1>2. ASSUME NEW i \in Stored(s)
      PROVE  Cardinality(Upto(s, <<s, i>>)) = i - lo + 1
  <2>1. i \in Nat /\ lo <= i /\ i <= lo + n - 1
    OBVIOUS
  <2>2. \A j \in Stored(s) : j \in Turn /\ (j = i \/ KeyLess(<<s, j>>, <<s, i>>) <=> j <= i)
    <3>1. ASSUME NEW j \in Stored(s)
          PROVE  j \in Turn /\ (j = i \/ KeyLess(<<s, j>>, <<s, i>>) <=> j <= i)
      <4>1. i \in 0 .. MaxTurn /\ j \in 0 .. MaxTurn /\ j \in Turn
        BY DEF Stored, Turn
      <4>2. KeyLess(<<s, j>>, <<s, i>>) <=> j < i
        BY <4>1, ChatConstants
      <4>3. j \in Nat
        OBVIOUS
      <4>4. j = i \/ j < i <=> j <= i
        BY <2>1, <4>3
      <4>5. QED
        BY <4>1, <4>2, <4>4
    <3>2. QED
      BY <3>1
  <2>3. Upto(s, <<s, i>>) = {s} \X {j \in Stored(s) : j <= i}
    <3>1. \A key \in {s} \X Stored(s) : key = <<s, key[2]>> /\ key[2] \in Stored(s)
      OBVIOUS
    <3>2. ASSUME NEW key \in {s} \X Stored(s)
          PROVE  key = <<s, i>> \/ KeyLess(key, <<s, i>>) <=> key[2] <= i
      BY <2>2, <3>1
    <3>3. QED
      BY <3>1, <3>2 DEF Upto
  <2> DEFINE I == {j \in Stored(s) : j <= i}
  <2>4. I = lo .. i
    BY <2>1
  <2>5. IsFiniteSet(I) /\ Cardinality(I) = i - lo + 1
    <3>1. IsFiniteSet(lo .. i) /\ Cardinality(lo .. i) = IF lo > i THEN 0 ELSE i - lo + 1
      BY <2>1, FS_Interval
    <3> HIDE DEF I
    <3>2. QED
      BY <2>1, <2>4, <3>1
  <2>6. Upto(s, <<s, i>>) = {s} \X I
    BY <2>3
  <2> HIDE DEF I
  <2>7. Cardinality({s} \X I) = Cardinality(I)
    BY <2>5, KeysOfSession, Zenon
  <2>8. QED
    BY <2>5, <2>6, <2>7
<1>3. ASSUME NEW k \in 1 .. n
      PROVE  Nth(s, k) = <<s, lo + k - 1>>
  <2>1. \A i \in Stored(s) : Cardinality(Upto(s, <<s, i>>)) = k <=> i = lo + k - 1
    <3>1. \A i \in Stored(s) : i \in Nat
      OBVIOUS
    <3>2. QED
      BY <1>2, <3>1
  <2>2. lo + k - 1 \in Stored(s)
    OBVIOUS
  <2>3. \A key \in Found(s) : Cardinality(Upto(s, key)) = k <=> key = <<s, lo + k - 1>>
    <3>1. ASSUME NEW key \in Found(s)
          PROVE  Cardinality(Upto(s, key)) = k <=> key = <<s, lo + k - 1>>
      <4>1. key = <<s, key[2]>> /\ key[2] \in Stored(s)
        OBVIOUS
      <4>2. Cardinality(Upto(s, <<s, key[2]>>)) = k <=> key[2] = lo + k - 1
        BY <2>1, <4>1
      <4>3. QED
        BY <4>1, <4>2
    <3>2. QED
      BY <3>1
  <2>4. <<s, lo + k - 1>> \in Found(s)
    BY <2>2
  <2>5. QED
    BY <2>3, <2>4 DEF Nth
<1>4. QED
  BY <1>1, <1>3

(* The history of such a session, turn for turn.                           *)
LEMMA HistoryOfInterval ==
  ASSUME NEW s \in Session, NEW lo \in Nat, NEW n \in Nat,
         Found(s) = {s} \X Stored(s), Stored(s) = lo .. (lo + n - 1)
  PROVE  History(s) = [k \in 1 .. n |-> turn[s][lo + k - 1]]
<1>1. /\ Cardinality(Found(s)) = n
      /\ \A k \in 1 .. n : Nth(s, k) = <<s, lo + k - 1>>
  BY NthOfInterval
<1>2. \A k \in 1 .. n : turn[Nth(s, k)[1]][Nth(s, k)[2]] = turn[s][lo + k - 1]
  BY <1>1
<1>3. QED
  BY <1>1, <1>2 DEF History

(* What is left of the acknowledged messages, and at most one turn more.   *)
LEMMA ChronicleKeeps ==
  ASSUME ChatTypeOK, NEW s \in Session, Chronicle(s), SessionInv(s), s \notin raced,
         Taken(s) = Stored(s), Found(s) = {s} \X Stored(s)
  PROVE  \E gone \in 0 .. cleared[s], tail \in {<<>>} \cup {<<m>> : m \in Message} :
           History(s) = SubSeq(acked[s], gone + 1, Len(acked[s])) \o tail
<1> DEFINE len == Len(acked[s])
<1>1. PICK base \in Nat, gone \in 0 .. cleared[s] : From(s, base, gone)
  BY DEF Chronicle
<1>2. /\ acked[s] \in Seq(Message) /\ len \in Nat
      /\ gone \in Nat /\ gone <= len
  <2>1. acked[s] \in Seq(Message) /\ cleared[s] \in Nat /\ cleared[s] <= Len(acked[s])
    BY DEF ChatTypeOK
  <2>2. QED
    BY <1>1, <2>1
<1>3. \A i \in 1 .. len : acked[s][i] \in Message
  BY <1>2, ElementOfSeq
<1> DEFINE lo == base + gone
           top == base + len
<1>4. /\ NextTurn(s) = top
      /\ \A i \in Stored(s) : lo <= i
      /\ \A i \in Turn : lo <= i /\ i < top => turn[s][i] = acked[s][i - base + 1]
  BY <1>1 DEF From
<1>5. lo \in Nat /\ top \in Nat /\ lo <= top /\ top - lo = len - gone
  BY <1>1, <1>2
<1>6. ASSUME NEW i \in lo .. top - 1
      PROVE  i \in Turn /\ turn[s][i] = acked[s][i - base + 1] /\ i \in Stored(s)
  <2>1. i \in Nat /\ lo <= i /\ i < top
    BY <1>5
  <2>2. i \in Turn
    <3>1. counter[s] # None /\ top = counter[s] + 1
      <4>1. top # 0
        BY <1>5, <2>1
      <4>2. QED
        BY <1>4, <4>1 DEF NextTurn
    <3>2. counter[s] \in 0 .. MaxTurn
      BY <3>1 DEF ChatTypeOK, Turn
    <3>3. QED
      BY <1>5, <2>1, <3>1, <3>2, ChatConstants DEF Turn
  <2>3. turn[s][i] = acked[s][i - base + 1]
    BY <1>4, <2>1, <2>2
  <2>4. i - base + 1 \in 1 .. len
    BY <1>1, <1>2, <2>1
  <2>5. turn[s][i] # None
    BY <1>3, <2>3, <2>4, ChatConstants
  <2>6. QED
    BY <2>2, <2>3, <2>5 DEF Stored
<1>7. \A i \in Stored(s) : i \in lo .. top
  <2>1. \A i \in Stored(s) : lo <= i /\ i <= top
    BY <1>4 DEF SessionInv, InTurn
  <2>2. QED
    BY <1>5, <2>1, IndexesNat
<1>8. \A i \in Stored(s) : turn[s][i] \in Message
  BY DEF ChatTypeOK, Stored
<1> DEFINE left == SubSeq(acked[s], gone + 1, len)
<1>9. /\ left \in Seq(Message) /\ Len(left) = len - gone
      /\ \A k \in 1 .. len - gone : left[k] = acked[s][gone + k]
  <2>1. \A i \in gone + 1 .. len : acked[s][i] \in Message
    BY <1>2, <1>3
  <2>2. /\ left \in Seq(Message)
        /\ Len(left) = IF gone + 1 <= len THEN len - (gone + 1) + 1 ELSE 0
        /\ \A k \in 1 .. len - (gone + 1) + 1 : left[k] = acked[s][gone + 1 + k - 1]
    <3> HIDE DEF len
    <3>1. gone + 1 \in Int /\ len \in Int
      BY <1>2
    <3>2. QED
      BY <2>1, <3>1, SubSeqProperties
  <2> HIDE DEF left, len
  <2>3. QED
    BY <1>2, <2>2
<1>10. \A k \in 1 .. len - gone : turn[s][lo + k - 1] = left[k]
  <2>1. ASSUME NEW k \in 1 .. len - gone
        PROVE  turn[s][lo + k - 1] = left[k]
    <3>1. lo + k - 1 \in lo .. top - 1 /\ (lo + k - 1) - base + 1 = gone + k
      <4> HIDE DEF left, len
      <4> QED
        BY <1>1, <1>2
    <3> HIDE DEF left, len, lo, top
    <3>2. turn[s][lo + k - 1] = acked[s][(lo + k - 1) - base + 1]
      BY <1>6, <3>1
    <3>3. QED
      BY <1>9, <3>1, <3>2
  <2>2. QED
    BY <2>1
<1> HIDE DEF left, len, lo, top
<1>11. CASE top \notin Stored(s)
  <2>1. Stored(s) = lo .. (lo + (len - gone) - 1)
    <3>1. \A i \in Stored(s) : i \in lo .. top - 1
      BY <1>5, <1>7, <1>11
    <3>2. lo + (len - gone) - 1 = top - 1
      BY <1>2, <1>5
    <3>3. QED
      BY <1>6, <3>1, <3>2
  <2>2. len - gone \in Nat
    BY <1>2
  <2>3. History(s) = [k \in 1 .. len - gone |-> turn[s][lo + k - 1]]
    BY <1>5, <2>1, <2>2, HistoryOfInterval
  <2>4. History(s) = [k \in 1 .. len - gone |-> left[k]]
    BY <1>10, <2>3
  <2>5. left = [k \in 1 .. len - gone |-> left[k]]
    BY <1>9
  <2>6. left \o <<>> = left
    BY <1>9, ConcatEmptySeq
  <2>7. History(s) = left \o <<>>
    BY <2>4, <2>5, <2>6
  <2>8. QED
    BY <2>7 DEF left, len
<1>12. CASE top \in Stored(s)
  <2>1. PICK m \in Message : turn[s][top] = m
    BY <1>8, <1>12
  <2>2. Stored(s) = lo .. (lo + (len - gone + 1) - 1)
    <3>1. ASSUME NEW i \in lo .. top
          PROVE  i \in Stored(s)
      <4>1. i = top \/ i \in lo .. top - 1
        BY <1>5
      <4>2. QED
        BY <1>6, <1>12, <4>1
    <3>2. lo + (len - gone + 1) - 1 = top
      BY <1>2, <1>5
    <3>3. QED
      BY <1>7, <3>1, <3>2
  <2>3. len - gone + 1 \in Nat
    BY <1>2
  <2>4. History(s) = [k \in 1 .. len - gone + 1 |-> turn[s][lo + k - 1]]
    BY <1>5, <2>2, <2>3, HistoryOfInterval
  <2>5. /\ Append(left, m) \in Seq(Message)
        /\ Len(Append(left, m)) = len - gone + 1
        /\ \A k \in 1 .. len - gone : Append(left, m)[k] = left[k]
        /\ Append(left, m)[len - gone + 1] = m
    BY <1>9, AppendProperties
  <2>6. ASSUME NEW k \in 1 .. len - gone + 1
        PROVE  turn[s][lo + k - 1] = Append(left, m)[k]
    <3>1. CASE k = len - gone + 1
      <4>1. lo + k - 1 = top
        BY <1>2, <1>5, <3>1
      <4>2. QED
        BY <2>1, <2>5, <3>1, <4>1
    <3>2. CASE k # len - gone + 1
      <4>1. k \in 1 .. len - gone
        BY <1>2, <3>2
      <4>2. QED
        BY <1>10, <2>5, <4>1
    <3>3. QED
      BY <3>1, <3>2
  <2>7. History(s) = [k \in 1 .. len - gone + 1 |-> Append(left, m)[k]]
    BY <2>4, <2>6
  <2>8. Append(left, m) = [k \in 1 .. len - gone + 1 |-> Append(left, m)[k]]
    <3> DEFINE longer == Append(left, m)
    <3>1. longer \in Seq(Message) /\ Len(longer) = len - gone + 1
      BY <2>5
    <3> HIDE DEF longer
    <3>2. longer = [k \in 1 .. len - gone + 1 |-> longer[k]]
      BY <3>1
    <3>3. QED
      BY <3>2 DEF longer
  <2>9. Append(left, m) = left \o <<m>>
    BY <1>9, AppendIsConcat
  <2>10. History(s) = left \o <<m>>
    BY <2>7, <2>8, <2>9
  <2>11. QED
    BY <2>10 DEF left, len
<1>13. QED
  BY <1>11, <1>12

LEMMA ChatInvHistory ==
  ASSUME ChatInv, HistoryInv
  PROVE  HistoryKeepsAcked
<1>1. ASSUME NEW s \in Undisturbed
      PROVE  \E gone \in 0 .. cleared[s], tail \in {<<>>} \cup {<<m>> : m \in Message} :
               History(s) = SubSeq(acked[s], gone + 1, Len(acked[s])) \o tail
  <2>1. /\ s \in Session \ (raced \cup torn \cup refused)
        /\ \A r \in Covers(s) \ {s} : Stored(r) = {}
    BY DEF Undisturbed
  <2>2. Found(s) = {s} \X Stored(s)
    BY <2>1, ChatConstants DEF Found
  <2>3. Chronicle(s) /\ ChatTypeOK
    BY <2>1 DEF ChatInv, HistoryInv
  <2>4. Taken(s) = Stored(s) /\ SessionInv(s) /\ s \notin raced
    BY <2>1, AllTaken
  <2>5. QED
    BY <2>1, <2>2, <2>3, <2>4, ChronicleKeeps
<1>2. QED
  BY <1>1 DEF HistoryKeepsAcked

-----------------------------------------------------------------------------
(* The vector store.                                                       *)

Adding(t) == vector[t].op \notin {"idle", "fetch"}

(* An id is taken and its vector is not stored.                            *)
Holding(t) == vector[t].op \in {"bump", "index", "put vector"}

(* What holds however threads share ids.                                   *)
CallsTracked ==
  /\ \A t \in Thread :
       /\ Adding(t) => vector[t].doc \in chunks \cup chunkless
       /\ vector[t].op = "put vector" => vector[t].id \in index
       /\ ~up => vector[t] = NoCall
  /\ ~up => index = {}

(* A put that has returned, whatever it said.                              *)
Settled(t) ==
  \/ vec[vector[t].id] = vector[t].doc
  \/ <<vector[t].id, vector[t].doc>> \in unstored

(* The counter is ahead of every stored id, and the ids that adds under    *)
(* way hold are their own.                                                 *)
IdsApart ==
  /\ up => \A i \in StoredIds : i < idCounter
  /\ \A t, u \in Thread : Holding(t) /\ Holding(u) /\ vector[t].id = vector[u].id => t = u
  /\ \A t \in Thread :
       /\ vector[t].op = "bump" => vector[t].id = idCounter
       /\ vector[t].op \in {"index", "put vector"} =>
            vector[t].id < idCounter /\ vec[vector[t].id] = None
       /\ vector[t].op \in {"read counter", "put counter"} =>
            Settled(t)

(* What a search owes is stored, and found or still to be fetched.         *)
SearchesTracked ==
  \A t \in Thread :
    vector[t].op = "fetch" =>
      /\ \A one \in vector[t].owed :
           vec[one[1]] = one[2] /\ (one[1] \in vector[t].matches \/ one \in vector[t].found)
      /\ \A hit \in vector[t].found : vec[hit[1]] = hit[2]

VectorInv ==
  /\ VectorTypeOK
  /\ chunks \subseteq Doc /\ chunkless \subseteq Doc
  /\ up \in BOOLEAN
  /\ CallsTracked
  /\ ~shared => IdsApart /\ SearchesTracked
  /\ VectorsKept

-----------------------------------------------------------------------------
(* One thread goes on to call c, the others stay where they are.           *)
LEMMA CallReplaced ==
  ASSUME VectorTypeOK, NEW t \in Thread, NEW c \in VectorCall,
         vector' = [vector EXCEPT ![t] = c]
  PROVE  /\ vector' \in [Thread -> VectorCall]
         /\ vector'[t] = c
         /\ \A u \in Thread \ {t} : vector'[u] = vector[u]
BY DEF VectorTypeOK

(* The fields of a call.                                                   *)
LEMMA CallFields ==
  ASSUME NEW c \in VectorCall
  PROVE  /\ c.doc \in Doc \cup {None}
         /\ c.id \in VectorId
         /\ c.count \in Nat
         /\ c.matches \subseteq VectorId
         /\ c.found \subseteq VectorId \X Doc
         /\ c.owed \subseteq VectorId \X Doc
BY DEF VectorCall

LEMMA NoCallFields ==
  /\ NoCall \in VectorCall /\ NoCall.op = "idle"
  /\ NoCall.matches = {} /\ NoCall.found = {} /\ NoCall.owed = {}
BY VectorConstants DEF NoCall, VectorCall, VectorId

(* A thread that is in a call runs in a process; ids are numbers.          *)
LEMMA CallsRun ==
  ASSUME VectorInv
  PROVE  /\ VectorId \subseteq Nat
         /\ \A u \in Thread :
              /\ vector[u] \in VectorCall
              /\ vector[u].id \in VectorId
              /\ vector[u].op # "idle" => up
<1>1. VectorId \subseteq Nat
  BY VectorConstants DEF VectorId
<1>2. SUFFICES ASSUME NEW u \in Thread
               PROVE  /\ vector[u] \in VectorCall
                      /\ vector[u].id \in VectorId
                      /\ vector[u].op # "idle" => up
  BY <1>1
<1>3. vector[u] \in VectorCall
  BY DEF VectorInv, VectorTypeOK
<1>4. vector[u].op # "idle" => up
  BY NoCallFields DEF VectorInv, CallsTracked
<1>5. QED
  BY <1>3, <1>4, CallFields

(* A step that overwrites no vector, of a thread that is not searching     *)
(* after it, leaves the searches as they were.                             *)
LEMMA SearchesUntouched ==
  ASSUME VectorTypeOK, SearchesTracked, NEW t \in Thread,
         \A u \in Thread \ {t} : vector'[u] = vector[u],
         vector'[t].op # "fetch",
         \A i \in StoredIds : vec'[i] = vec[i]
  PROVE  SearchesTracked'
<1> SUFFICES ASSUME NEW u \in Thread, vector'[u].op = "fetch"
             PROVE  /\ \A one \in vector'[u].owed :
                         /\ vec'[one[1]] = one[2]
                         /\ one[1] \in vector'[u].matches \/ one \in vector'[u].found
                    /\ \A hit \in vector'[u].found : vec'[hit[1]] = hit[2]
  BY DEF SearchesTracked
<1>1. u # t /\ vector'[u] = vector[u]
  OBVIOUS
<1>2. vector[u].owed \subseteq VectorId \X Doc /\ vector[u].found \subseteq VectorId \X Doc
  BY CallFields DEF VectorTypeOK
<1>3. \A one \in VectorId \X Doc : vec[one[1]] = one[2] => vec'[one[1]] = one[2]
  BY VectorConstants DEF StoredIds
<1>4. QED
  BY <1>1, <1>2, <1>3 DEF SearchesTracked

(* The same of what is tracked of the calls under way.                     *)
LEMMA CallsUntouched ==
  ASSUME VectorInv, NEW t \in Thread, up, UNCHANGED up,
         \A u \in Thread \ {t} : vector'[u] = vector[u],
         chunks \subseteq chunks', chunkless \subseteq chunkless', index \subseteq index',
         vector'[t].op \notin {"idle", "fetch"} => vector'[t].doc \in chunks' \cup chunkless',
         vector'[t].op = "put vector" => vector'[t].id \in index'
  PROVE  CallsTracked'
<1>1. SUFFICES ASSUME NEW u \in Thread \ {t}
               PROVE  /\ Adding(u)' => vector'[u].doc \in chunks' \cup chunkless'
                      /\ vector'[u].op = "put vector" => vector'[u].id \in index'
  <2>1. up'
    OBVIOUS
  <2>2. \A u \in Thread : /\ Adding(u)' => vector'[u].doc \in chunks' \cup chunkless'
                       /\ vector'[u].op = "put vector" => vector'[u].id \in index'
    BY <1>1 DEF Adding
  <2>3. QED
    BY <2>1, <2>2 DEF CallsTracked, Adding
<1>2. vector'[u] = vector[u]
  OBVIOUS
<1>3. QED
  BY <1>2 DEF VectorInv, CallsTracked, Adding

(* A step that stores nothing and leaves the counter: the thread goes on   *)
(* with its id, or has none.                                               *)
LEMMA IdsUntouched ==
  ASSUME IdsApart, NEW t \in Thread, UNCHANGED <<vec, unstored, idCounter, up>>,
         \A u \in Thread \ {t} : vector'[u] = vector[u],
         \/ vector'[t].op \in {"idle", "take", "fetch"}
         \/ /\ vector'[t].id = vector[t].id /\ vector'[t].doc = vector[t].doc
            /\ \/ vector[t].op = "index" /\ vector'[t].op = "put vector"
               \/ vector[t].op = "read counter" /\ vector'[t].op = "put counter"
  PROVE  IdsApart'
<1>1. \A u \in Thread : Holding(u)' => Holding(u) /\ vector'[u].id = vector[u].id
  <2>1. SUFFICES ASSUME NEW u \in Thread, Holding(u)'
                 PROVE  Holding(u) /\ vector'[u].id = vector[u].id
    OBVIOUS
  <2>2. CASE u = t
    BY <2>1, <2>2 DEF Holding
  <2>3. CASE u # t
    BY <2>1, <2>3 DEF Holding
  <2>4. QED
    BY <2>2, <2>3
<1>2. \A u, w \in Thread : Holding(u)' /\ Holding(w)' /\ vector'[u].id = vector'[w].id => u = w
  BY <1>1 DEF IdsApart, Settled
<1>3. \A u \in Thread :
        /\ vector'[u].op = "bump" => vector'[u].id = idCounter'
        /\ vector'[u].op \in {"index", "put vector"} =>
             vector'[u].id < idCounter' /\ vec'[vector'[u].id] = None
        /\ vector'[u].op \in {"read counter", "put counter"} =>
             Settled(u)'
  <2>1. SUFFICES ASSUME NEW u \in Thread
                 PROVE  /\ vector'[u].op = "bump" => vector'[u].id = idCounter
                        /\ vector'[u].op \in {"index", "put vector"} =>
                             vector'[u].id < idCounter /\ vec[vector'[u].id] = None
                        /\ vector'[u].op \in {"read counter", "put counter"} =>
                             Settled(u)'
    OBVIOUS
  <2>2. CASE u = t
    BY <2>2 DEF IdsApart, Settled
  <2>3. CASE u # t
    BY <2>3 DEF IdsApart, Settled
  <2>4. QED
    BY <2>2, <2>3
<1>4. QED
  BY <1>2, <1>3 DEF IdsApart, Settled, StoredIds

(* A step that stores nothing, in neither place.                           *)
LEMMA StoresUntouched ==
  ASSUME VectorsKept, NEW t \in Thread, UNCHANGED <<vec, index, added, up, unstored>>,
         chunks \subseteq chunks', chunkless \subseteq chunkless', shared => shared',
         \A u \in Thread \ {t} : vector'[u] = vector[u],
         vector[t].op # "put vector"
  PROVE  VectorsKept'
<1>1. \A i \in index \ StoredIds :
        \/ \E u \in Thread : vector'[u].op = "put vector" /\ vector'[u].id = i
        \/ \E d \in Doc : <<i, d>> \in unstored
  BY DEF VectorsKept
<1>2. QED
  BY <1>1 DEF VectorsKept, StoredIds

-----------------------------------------------------------------------------
(* One lemma for each step of a call.                                      *)

LEMMA TakeKeeps ==
  ASSUME VectorInv, NEW t \in Thread, Take(t), UNCHANGED <<chunks, chunkless, up>>
  PROVE  VectorInv'
<1> DEFINE c == [vector[t] EXCEPT !.op = "bump", !.id = idCounter]
<1> USE DEF vectorStore
<1>1. /\ VectorTypeOK /\ vector[t] \in VectorCall /\ vector[t].op = "take" /\ up
      /\ idCounter \in VectorId
  BY CallsRun DEF Take, VectorInv
<1>2. c \in VectorCall
  BY <1>1 DEF VectorCall
<1>3. /\ c.op = "bump" /\ c.id = idCounter
      /\ c.doc = vector[t].doc /\ c.matches = vector[t].matches
  BY <1>1 DEF VectorCall
<1>4. vector' = [vector EXCEPT ![t] = c]
  BY <1>1 DEF Take, VectorTypeOK
<1> HIDE DEF c
<1>5. /\ vector' \in [Thread -> VectorCall]
      /\ vector'[t] = c
      /\ \A u \in Thread \ {t} : vector'[u] = vector[u]
  BY <1>1, <1>2, <1>4, CallReplaced
<1>6. VectorTypeOK'
  BY <1>1, <1>3, <1>5 DEF Take, VectorTypeOK
<1>7. CallsTracked'
  <2>1. vector[t].doc \in chunks \cup chunkless
    BY <1>1 DEF VectorInv, CallsTracked, Adding
  <2>2. index \subseteq index' /\ chunks \subseteq chunks' /\ chunkless \subseteq chunkless'
    BY DEF Take
  <2>3. QED
    BY <1>1, <1>3, <1>5, <2>1, <2>2, CallsUntouched
<1>8. ~shared' => IdsApart'
  <2> SUFFICES ASSUME ~shared' PROVE IdsApart'
    OBVIOUS
  <2>1. IdsApart /\ \A u \in Thread : vector[u].op # "bump"
    BY DEF Take, VectorInv
  <2>2. \A u \in Thread : Holding(u) => vector[u].id # idCounter
    <3>1. idCounter \in Nat
      BY <1>1 DEF VectorTypeOK
    <3>2. ASSUME NEW u \in Thread, Holding(u)
          PROVE  vector[u].id < idCounter
      BY <2>1, <3>2 DEF Holding, IdsApart, Settled
    <3>3. QED
      BY <3>1, <3>2
  <2>3. \A u, w \in Thread : Holding(u)' /\ Holding(w)' /\ vector'[u].id = vector'[w].id => u = w
    <3>1. SUFFICES ASSUME NEW u \in Thread, NEW w \in Thread, u # w, Holding(u)', Holding(w)'
                   PROVE  vector'[u].id # vector'[w].id
      OBVIOUS
    <3>2. CASE u = t
      BY <1>3, <1>5, <2>2, <3>1, <3>2 DEF Holding
    <3>3. CASE w = t
      BY <1>3, <1>5, <2>2, <3>1, <3>3 DEF Holding
    <3>4. CASE u # t /\ w # t
      BY <1>5, <2>1, <3>1, <3>4 DEF Holding, IdsApart, Settled
    <3>5. QED
      BY <3>2, <3>3, <3>4
  <2>4. \A u \in Thread :
          /\ vector'[u].op = "bump" => vector'[u].id = idCounter'
          /\ vector'[u].op \in {"index", "put vector"} =>
               vector'[u].id < idCounter' /\ vec'[vector'[u].id] = None
          /\ vector'[u].op \in {"read counter", "put counter"} =>
               Settled(u)'
    BY <1>3, <1>5, <2>1 DEF IdsApart, Settled, Take
  <2>5. QED
    BY <1>1, <2>1, <2>3, <2>4 DEF Take, IdsApart, Settled, StoredIds
<1>9. ~shared' => SearchesTracked'
  BY <1>1, <1>3, <1>5, SearchesUntouched DEF Take, VectorInv
<1>10. VectorsKept'
  BY <1>1, <1>3, <1>5, StoresUntouched DEF Take, VectorInv
<1>11. QED
  BY <1>1, <1>6, <1>7, <1>8, <1>9, <1>10 DEF Take, VectorInv

LEMMA BumpKeeps ==
  ASSUME VectorInv, NEW t \in Thread, Bump(t), UNCHANGED <<chunks, chunkless, up>>
  PROVE  VectorInv'
<1> DEFINE c == [vector[t] EXCEPT !.op = "index"]
<1> USE DEF vectorStore
<1>1. /\ VectorTypeOK /\ vector[t] \in VectorCall /\ vector[t].op = "bump" /\ up
  BY CallsRun DEF Bump, VectorInv
<1>2. c \in VectorCall
  BY <1>1 DEF VectorCall
<1>3. /\ c.op = "index" /\ c.id = vector[t].id /\ c.doc = vector[t].doc
      /\ c.matches = vector[t].matches
  BY <1>1 DEF VectorCall
<1>4. vector' = [vector EXCEPT ![t] = c]
  BY <1>1 DEF Bump, VectorTypeOK
<1> HIDE DEF c
<1>5. /\ vector' \in [Thread -> VectorCall]
      /\ vector'[t] = c
      /\ \A u \in Thread \ {t} : vector'[u] = vector[u]
  BY <1>1, <1>2, <1>4, CallReplaced
<1>6. VectorTypeOK'
  BY <1>1, <1>3, <1>5 DEF Bump, VectorTypeOK
<1>7. CallsTracked'
  <2>1. vector[t].doc \in chunks \cup chunkless
    BY <1>1 DEF VectorInv, CallsTracked, Adding
  <2>2. index \subseteq index' /\ chunks \subseteq chunks' /\ chunkless \subseteq chunkless'
    BY DEF Bump
  <2>3. QED
    BY <1>1, <1>3, <1>5, <2>1, <2>2, CallsUntouched
<1>8. ~shared' => IdsApart'
  <2> SUFFICES ASSUME ~shared' PROVE IdsApart'
    OBVIOUS
  <2>1. IdsApart /\ idCounter \in Nat /\ idCounter' = idCounter + 1
    BY <1>1 DEF Bump, VectorInv, VectorTypeOK
  <2>2. vector[t].id = idCounter /\ idCounter \in VectorId /\ StoredIds \subseteq Nat
    BY <1>1, <2>1, CallsRun DEF IdsApart, Settled, StoredIds
  <2>3. \A i \in StoredIds : i < idCounter
    BY <1>1, <2>1 DEF IdsApart, Settled
  <2>4. vec[idCounter] = None
    <3>1. idCounter \notin StoredIds
      BY <2>1, <2>3
    <3>2. QED
      BY <2>2, <3>1 DEF StoredIds
  <2>5. \A u \in Thread \ {t} : vector[u].op # "bump"
    BY <1>1, <2>1, <2>2 DEF IdsApart, Settled, Holding
  <2>6. \A u \in Thread : Holding(u)' => Holding(u) /\ vector'[u].id = vector[u].id
    <3>1. ASSUME NEW u \in Thread, Holding(u)'
          PROVE  Holding(u) /\ vector'[u].id = vector[u].id
      BY <1>1, <1>3, <1>5, <3>1 DEF Holding
    <3>2. QED
      BY <3>1
  <2>7. \A u, w \in Thread : Holding(u)' /\ Holding(w)' /\ vector'[u].id = vector'[w].id => u = w
    BY <2>1, <2>6 DEF IdsApart, Settled
  <2>8. ASSUME NEW u \in Thread
        PROVE  /\ vector'[u].op # "bump"
               /\ vector'[u].op \in {"index", "put vector"} =>
                    vector'[u].id < idCounter' /\ vec[vector'[u].id] = None
               /\ vector'[u].op \in {"read counter", "put counter"} =>
                    Settled(u)'
    <3>1. CASE u = t
      <4>1. idCounter < idCounter'
        BY <2>1
      <4>2. vector'[u].op = "index" /\ vector'[u].id = idCounter
        BY <1>3, <1>5, <2>2, <3>1
      <4>3. QED
        BY <2>4, <4>1, <4>2
    <3>2. CASE u # t
      <4>1. vector'[u] = vector[u] /\ vector[u].id \in Nat /\ vector[u].op # "bump"
        BY <1>5, <2>5, <3>2, CallsRun
      <4>2. vector[u].id < idCounter => vector[u].id < idCounter'
        BY <2>1, <4>1
      <4>3. vec' = vec /\ unstored' = unstored
        BY DEF Bump
      <4>4. QED
        BY <2>1, <4>1, <4>2, <4>3 DEF IdsApart, Settled
    <3>3. QED
      BY <3>1, <3>2
  <2>9. \A i \in StoredIds : i < idCounter'
    <3>1. ASSUME NEW i \in StoredIds
          PROVE  i < idCounter'
      <4>1. i \in Nat /\ i < idCounter
        BY <2>2, <2>3
      <4>2. QED
        BY <2>1, <4>1
    <3>2. QED
      BY <3>1
  <2>10. QED
    BY <2>7, <2>8, <2>9 DEF Bump, IdsApart, Settled, StoredIds
<1>9. ~shared' => SearchesTracked'
  BY <1>1, <1>3, <1>5, SearchesUntouched DEF Bump, VectorInv
<1>10. VectorsKept'
  BY <1>1, <1>3, <1>5, StoresUntouched DEF Bump, VectorInv
<1>11. QED
  BY <1>1, <1>6, <1>7, <1>8, <1>9, <1>10 DEF Bump, VectorInv

LEMMA AddToIndexKeeps ==
  ASSUME VectorInv, NEW t \in Thread, AddToIndex(t), UNCHANGED <<chunks, chunkless, up>>
  PROVE  VectorInv'
<1> DEFINE c == [vector[t] EXCEPT !.op = "put vector"]
<1> USE DEF vectorStore
<1>1. /\ VectorTypeOK /\ vector[t] \in VectorCall /\ vector[t].op = "index" /\ up
  BY CallsRun DEF AddToIndex, VectorInv
<1>2. c \in VectorCall
  BY <1>1 DEF VectorCall
<1>3. /\ c.op = "put vector" /\ c.id = vector[t].id /\ c.doc = vector[t].doc
      /\ c.matches = vector[t].matches
  BY <1>1 DEF VectorCall
<1>4. vector' = [vector EXCEPT ![t] = c]
  BY <1>1 DEF AddToIndex, VectorTypeOK
<1> HIDE DEF c
<1>5. /\ vector' \in [Thread -> VectorCall]
      /\ vector'[t] = c
      /\ \A u \in Thread \ {t} : vector'[u] = vector[u]
  BY <1>1, <1>2, <1>4, CallReplaced
<1>6. VectorTypeOK'
  BY <1>1, <1>3, <1>5, CallsRun DEF AddToIndex, VectorInv, VectorTypeOK
<1>7. CallsTracked'
  <2>1. vector[t].doc \in chunks \cup chunkless
    BY <1>1 DEF VectorInv, CallsTracked, Adding
  <2>2. index \subseteq index' /\ vector[t].id \in index'
    BY DEF AddToIndex
  <2>3. QED
    BY <1>1, <1>3, <1>5, <2>1, <2>2, CallsUntouched
<1>8. ~shared' => IdsApart'
  BY <1>1, <1>3, <1>5, IdsUntouched DEF AddToIndex, VectorInv
<1>9. ~shared' => SearchesTracked'
  BY <1>1, <1>3, <1>5, SearchesUntouched DEF AddToIndex, VectorInv
<1>10. VectorsKept'
  <2>1. ASSUME NEW i \in index' \ StoredIds', \A d \in Doc : <<i, d>> \notin unstored
        PROVE  \E u \in Thread : vector'[u].op = "put vector" /\ vector'[u].id = i
    <3>1. CASE i = c.id
      BY <1>3, <1>5, <3>1
    <3>2. CASE i # c.id
      <4>1. PICK u \in Thread : vector[u].op = "put vector" /\ vector[u].id = i
        BY <1>3, <2>1, <3>2 DEF AddToIndex, VectorInv, VectorsKept, StoredIds
      <4>2. vector'[u] = vector[u]
        BY <1>1, <1>5, <4>1
      <4>3. QED
        BY <4>1, <4>2
    <3>3. QED
      BY <3>1, <3>2
  <2>2. QED
    BY <2>1 DEF AddToIndex, VectorInv, VectorsKept, StoredIds
<1>11. QED
  BY <1>1, <1>6, <1>7, <1>8, <1>9, <1>10 DEF AddToIndex, VectorInv

LEMMA PutVectorKeeps ==
  ASSUME VectorInv, NEW t \in Thread, PutVector(t), UNCHANGED <<chunks, chunkless, up>>
  PROVE  VectorInv'
<1> DEFINE c == [vector[t] EXCEPT !.op = "read counter"]
<1> USE DEF vectorStore
<1>1. /\ VectorTypeOK /\ vector[t] \in VectorCall /\ vector[t].op = "put vector" /\ up
  BY CallsRun DEF PutVector, VectorInv
<1>2. c \in VectorCall
  BY <1>1 DEF VectorCall
<1>3. /\ c.op = "read counter" /\ c.id = vector[t].id /\ c.doc = vector[t].doc
      /\ c.matches = vector[t].matches
  BY <1>1 DEF VectorCall
<1>4. vector' = [vector EXCEPT ![t] = c]
  BY <1>1 DEF PutVector, VectorTypeOK
<1> HIDE DEF c
<1>5. /\ vector' \in [Thread -> VectorCall]
      /\ vector'[t] = c
      /\ \A u \in Thread \ {t} : vector'[u] = vector[u]
  BY <1>1, <1>2, <1>4, CallReplaced
<1>6. /\ vec' = [vec EXCEPT ![vector[t].id] = vector[t].doc]
       /\ vector[t].id \in VectorId /\ vector[t].doc \in Doc \cap (chunks \cup chunkless)
       /\ vector[t].id \in index
       /\ vecCounter' = vecCounter /\ index' = index /\ idCounter' = idCounter
       /\ added' = added /\ UNCHANGED <<chunks, chunkless, unstored, shared, up>>
  BY <1>1, CallsRun DEF PutVector, VectorInv, CallsTracked, Adding
<1>7. ~shared => vec[vector[t].id] = None
  BY <1>1 DEF VectorInv, IdsApart, Settled
<1>8. /\ vec' \in [VectorId -> Doc \cup {None}]
       /\ vec'[vector[t].id] = vector[t].doc
       /\ \A i \in VectorId : i # vector[t].id => vec'[i] = vec[i]
  <2>1. vec \in [VectorId -> Doc \cup {None}]
    BY <1>1 DEF VectorTypeOK
  <2>2. QED
    BY <1>6, <2>1
<1>9. StoredIds' = StoredIds \cup {vector[t].id}
  <2>1. vector[t].doc # None
    BY <1>6, VectorConstants
  <2>2. QED
    BY <1>6, <1>8, <2>1 DEF StoredIds
<1>10. index' = index /\ idCounter' = idCounter
  BY <1>6
<1>11. ~shared => \A i \in StoredIds : vec'[i] = vec[i]
  BY <1>7, <1>8 DEF StoredIds
<1>12. VectorTypeOK'
  <2>1. \A u \in Thread : vector'[u].matches \subseteq index
    BY <1>1, <1>3, <1>5 DEF VectorTypeOK
  <2>2. QED
    BY <1>1, <1>5, <1>8, <2>1 DEF PutVector, VectorTypeOK
<1>13. CallsTracked'
  BY <1>1, <1>3, <1>5, <1>6, CallsUntouched
<1>14. ~shared' => IdsApart'
  <2> SUFFICES ASSUME ~shared' PROVE IdsApart'
    OBVIOUS
  <2>1. IdsApart /\ vec[vector[t].id] = None
    BY <1>6, <1>7 DEF VectorInv
  <2>2. \A u \in Thread : Holding(u)' => Holding(u) /\ vector'[u].id = vector[u].id
    <3>1. ASSUME NEW u \in Thread, Holding(u)'
          PROVE  Holding(u) /\ vector'[u].id = vector[u].id
      BY <1>1, <1>3, <1>5, <3>1 DEF Holding
    <3>2. QED
      BY <3>1
  <2>3. \A u, w \in Thread : Holding(u)' /\ Holding(w)' /\ vector'[u].id = vector'[w].id => u = w
    BY <2>1, <2>2 DEF IdsApart, Settled
  <2>4. ASSUME NEW u \in Thread
        PROVE  /\ vector'[u].op = "bump" => vector'[u].id = idCounter'
               /\ vector'[u].op \in {"index", "put vector"} =>
                    vector'[u].id < idCounter' /\ vec'[vector'[u].id] = None
               /\ vector'[u].op \in {"read counter", "put counter"} =>
                    Settled(u)'
    <3>1. CASE u = t
      BY <1>1, <1>3, <1>5, <1>8, <3>1 DEF Settled
    <3>2. CASE u # t
      <4>1. vector'[u] = vector[u] /\ vector[u].id \in VectorId
        BY <1>5, <3>2, CallsRun
      <4>2. CASE Holding(u)
        <5>1. vector[u].id # vector[t].id
          BY <1>1, <2>1, <3>2, <4>2 DEF IdsApart, Settled, Holding
        <5>2. QED
          BY <1>6, <1>8, <2>1, <4>1, <4>2, <5>1 DEF IdsApart, Settled, Holding
      <4>3. CASE vector[u].op \in {"read counter", "put counter"}
        <5>1. Settled(u)
          BY <2>1, <4>3 DEF IdsApart
        <5>2. vector[u].doc # None
          BY <4>3, VectorConstants DEF VectorInv, CallsTracked, Adding
        <5>3. vec[vector[u].id] = vector[u].doc => vector[u].id # vector[t].id
          BY <2>1, <5>2
        <5>4. QED
          BY <1>6, <1>8, <4>1, <4>3, <5>1, <5>3 DEF Settled
      <4>4. QED
        BY <4>1, <4>2, <4>3 DEF Holding
    <3>3. QED
      BY <3>1, <3>2
  <2>5. \A i \in StoredIds' : i < idCounter'
    <3>1. vector[t].id < idCounter /\ \A i \in StoredIds : i < idCounter
      BY <1>1, <2>1 DEF IdsApart, Settled
    <3>2. QED
      BY <1>9, <1>10, <3>1
  <2>6. QED
    BY <2>3, <2>4, <2>5 DEF IdsApart, Settled
<1>15. ~shared' => SearchesTracked'
  BY <1>1, <1>3, <1>5, <1>6, <1>11, SearchesUntouched DEF VectorInv
<1>16. VectorsKept'
  <2>1. VectorsKept
    BY DEF VectorInv
  <2>2. ~shared' => \A one \in added' \ unstored' : vec'[one[1]] = one[2]
    <3>1. ASSUME ~shared, NEW one \in added \ unstored
          PROVE  vec'[one[1]] = one[2]
      <4>1. one \in VectorId \X Doc /\ vec[one[1]] = one[2]
        BY <1>1, <2>1, <3>1 DEF VectorTypeOK, VectorsKept
      <4>2. one[1] \in StoredIds
        BY <4>1, VectorConstants DEF StoredIds
      <4>3. QED
        BY <1>11, <3>1, <4>1, <4>2
    <3>2. QED
      BY <1>6, <3>1
  <2>3. \A i \in StoredIds' : vec'[i] \in chunks' \cup chunkless'
    <3>1. ASSUME NEW i \in StoredIds'
          PROVE  vec'[i] \in chunks' \cup chunkless'
      <4>1. CASE i = vector[t].id
        BY <1>6, <1>8, <4>1
      <4>2. CASE i # vector[t].id
        <5>1. i \in StoredIds /\ i \in VectorId
          BY <1>9, <3>1, <4>2 DEF StoredIds
        <5>2. vec'[i] = vec[i] /\ vec[i] \in chunks \cup chunkless
          BY <1>8, <2>1, <4>2, <5>1 DEF VectorsKept
        <5>3. QED
          BY <1>6, <5>2
      <4>3. QED
        BY <4>1, <4>2
    <3>2. QED
      BY <3>1
  <2>4. up' => StoredIds' \subseteq index'
    <3>1. StoredIds \subseteq index
      BY <1>1, <2>1 DEF VectorsKept
    <3>2. QED
      <4>1. vector[t].id \in index
        BY <1>6
      <4>2. QED
        BY <1>9, <1>10, <3>1, <4>1
  <2>5. ASSUME NEW i \in index' \ StoredIds', \A d \in Doc : <<i, d>> \notin unstored
        PROVE  \E u \in Thread : vector'[u].op = "put vector" /\ vector'[u].id = i
    <3>1. i \in index \ StoredIds /\ i # vector[t].id
      BY <1>9, <1>10, <2>5
    <3>2. PICK u \in Thread : vector[u].op = "put vector" /\ vector[u].id = i
      BY <2>1, <2>5, <3>1 DEF VectorsKept
    <3>3. vector'[u] = vector[u]
      BY <1>5, <3>1, <3>2
    <3>4. QED
      BY <3>2, <3>3
  <2>6. QED
    BY <1>6, <2>2, <2>3, <2>4, <2>5 DEF VectorsKept
<1>17. QED
  BY <1>1, <1>12, <1>13, <1>14, <1>15, <1>16 DEF PutVector, VectorInv

(* The vector is not stored, and the operation goes on.                    *)
LEMMA PutVectorRefusedKeeps ==
  ASSUME VectorInv, NEW t \in Thread, PutVectorRefused(t), UNCHANGED <<chunks, chunkless, up>>
  PROVE  VectorInv'
<1> DEFINE c == [vector[t] EXCEPT !.op = "read counter"]
<1> USE DEF vectorStore
<1>1. /\ VectorTypeOK /\ vector[t] \in VectorCall /\ vector[t].op = "put vector" /\ up
  BY CallsRun DEF PutVectorRefused, VectorInv
<1>2. c \in VectorCall
  BY <1>1 DEF VectorCall
<1>3. /\ c.op = "read counter" /\ c.id = vector[t].id /\ c.doc = vector[t].doc
      /\ c.matches = vector[t].matches
  BY <1>1 DEF VectorCall
<1>4. vector' = [vector EXCEPT ![t] = c]
  BY <1>1 DEF PutVectorRefused, VectorTypeOK
<1> HIDE DEF c
<1>5. /\ vector' \in [Thread -> VectorCall]
      /\ vector'[t] = c
      /\ \A u \in Thread \ {t} : vector'[u] = vector[u]
  BY <1>1, <1>2, <1>4, CallReplaced
<1>6. /\ unstored' = unstored \cup {<<vector[t].id, vector[t].doc>>}
      /\ UNCHANGED <<vec, vecCounter, index, idCounter, added, shared>>
  BY DEF PutVectorRefused
<1>7. vector[t].id \in VectorId /\ vector[t].doc \in Doc
  BY <1>1, CallsRun DEF VectorInv, CallsTracked, Adding
<1>8. VectorTypeOK'
  <2>1. <<vector[t].id, vector[t].doc>> \in VectorId \X Doc
    BY <1>7
  <2>2. QED
    BY <1>1, <1>3, <1>5, <1>6, <2>1 DEF VectorTypeOK
<1>9. CallsTracked'
  <2>1. vector[t].doc \in chunks \cup chunkless
    BY <1>1 DEF VectorInv, CallsTracked, Adding
  <2>2. index \subseteq index' /\ chunks \subseteq chunks' /\ chunkless \subseteq chunkless'
    BY <1>6
  <2>3. QED
    BY <1>1, <1>3, <1>5, <2>1, <2>2, CallsUntouched
<1>10. ~shared' => IdsApart'
  <2> SUFFICES ASSUME ~shared' PROVE IdsApart'
    OBVIOUS
  <2>1. IdsApart
    BY <1>6 DEF VectorInv
  <2>2. \A u \in Thread : Holding(u)' => Holding(u) /\ vector'[u].id = vector[u].id
    <3>1. ASSUME NEW u \in Thread, Holding(u)'
          PROVE  Holding(u) /\ vector'[u].id = vector[u].id
      BY <1>3, <1>5, <3>1 DEF Holding
    <3>2. QED
      BY <3>1
  <2>3. \A u, w \in Thread : Holding(u)' /\ Holding(w)' /\ vector'[u].id = vector'[w].id => u = w
    BY <2>1, <2>2 DEF IdsApart
  <2>4. ASSUME NEW u \in Thread
        PROVE  /\ vector'[u].op = "bump" => vector'[u].id = idCounter'
               /\ vector'[u].op \in {"index", "put vector"} =>
                    vector'[u].id < idCounter' /\ vec'[vector'[u].id] = None
               /\ vector'[u].op \in {"read counter", "put counter"} => Settled(u)'
    <3>1. CASE u = t
      BY <1>3, <1>5, <1>6, <3>1 DEF Settled
    <3>2. CASE u # t
      BY <1>5, <1>6, <2>1, <3>2 DEF IdsApart, Settled
    <3>3. QED
      BY <3>1, <3>2
  <2>5. QED
    BY <1>6, <2>1, <2>3, <2>4 DEF IdsApart, StoredIds
<1>11. ~shared' => SearchesTracked'
  BY <1>1, <1>3, <1>5, <1>6, SearchesUntouched DEF VectorInv
<1>12. VectorsKept'
  <2>1. VectorsKept
    BY DEF VectorInv
  <2>2. ASSUME NEW i \in index \ StoredIds
        PROVE  \/ \E u \in Thread : vector'[u].op = "put vector" /\ vector'[u].id = i
               \/ \E d \in Doc : <<i, d>> \in unstored'
    <3>1. CASE i = vector[t].id
      BY <1>6, <1>7, <3>1
    <3>2. CASE i # vector[t].id
      BY <1>5, <1>6, <2>1, <2>2, <3>2 DEF VectorsKept
    <3>3. QED
      BY <3>1, <3>2
  <2>3. QED
    BY <1>6, <2>1, <2>2 DEF VectorsKept, StoredIds
<1>13. QED
  BY <1>1, <1>8, <1>9, <1>10, <1>11, <1>12 DEF VectorInv

LEMMA ReadCounterKeeps ==
  ASSUME VectorInv, NEW t \in Thread, ReadCounter(t), UNCHANGED <<chunks, chunkless, up>>
  PROVE  VectorInv'
<1> DEFINE c == [vector[t] EXCEPT !.op = "put counter", !.count = idCounter]
<1> USE DEF vectorStore
<1>1. /\ VectorTypeOK /\ vector[t] \in VectorCall /\ vector[t].op = "read counter" /\ up
  BY CallsRun DEF ReadCounter, VectorInv
<1>2. c \in VectorCall
  BY <1>1 DEF VectorCall, VectorTypeOK
<1>3. /\ c.op = "put counter" /\ c.id = vector[t].id /\ c.doc = vector[t].doc
      /\ c.matches = vector[t].matches
  BY <1>1 DEF VectorCall
<1>4. vector' = [vector EXCEPT ![t] = c]
  BY <1>1 DEF ReadCounter, VectorTypeOK
<1> HIDE DEF c
<1>5. /\ vector' \in [Thread -> VectorCall]
      /\ vector'[t] = c
      /\ \A u \in Thread \ {t} : vector'[u] = vector[u]
  BY <1>1, <1>2, <1>4, CallReplaced
<1>6. VectorTypeOK'
  BY <1>1, <1>3, <1>5 DEF ReadCounter, VectorTypeOK
<1>7. CallsTracked'
  <2>1. vector[t].doc \in chunks \cup chunkless
    BY <1>1 DEF VectorInv, CallsTracked, Adding
  <2>2. index \subseteq index' /\ chunks \subseteq chunks' /\ chunkless \subseteq chunkless'
    BY DEF ReadCounter
  <2>3. QED
    BY <1>1, <1>3, <1>5, <2>1, <2>2, CallsUntouched
<1>8. ~shared' => IdsApart'
  BY <1>1, <1>3, <1>5, IdsUntouched DEF ReadCounter, VectorInv
<1>9. ~shared' => SearchesTracked'
  BY <1>1, <1>3, <1>5, SearchesUntouched DEF ReadCounter, VectorInv
<1>10. VectorsKept'
  BY <1>1, <1>3, <1>5, StoresUntouched DEF ReadCounter, VectorInv
<1>11. QED
  BY <1>1, <1>6, <1>7, <1>8, <1>9, <1>10 DEF ReadCounter, VectorInv

LEMMA PutVectorCounterKeeps ==
  ASSUME VectorInv, NEW t \in Thread,
         PutVectorCounter(t) \/ PutVectorCounterRefused(t), UNCHANGED <<chunks, chunkless, up>>
  PROVE  VectorInv'
<1> DEFINE c == NoCall
<1> USE DEF vectorStore
<1>1. /\ VectorTypeOK /\ vector[t] \in VectorCall /\ vector[t].op = "put counter" /\ up
  BY CallsRun DEF PutVectorCounter, PutVectorCounterRefused, EndAdd, VectorInv
<1>2. c \in VectorCall
  BY NoCallFields
<1>3. /\ c.op = "idle" /\ c.matches = {}
  BY <1>1, NoCallFields DEF VectorCall
<1>4. vector' = [vector EXCEPT ![t] = c]
  BY <1>1 DEF PutVectorCounter, PutVectorCounterRefused, EndAdd, VectorTypeOK
<1> HIDE DEF c
<1>5. /\ vector' \in [Thread -> VectorCall]
      /\ vector'[t] = c
      /\ \A u \in Thread \ {t} : vector'[u] = vector[u]
  BY <1>1, <1>2, <1>4, CallReplaced
<1>6. VectorTypeOK'
  <2>1. vector[t].id \in VectorId /\ vector[t].doc \in Doc /\ vector[t].count \in Nat
    BY <1>1, CallFields, CallsRun DEF VectorInv, CallsTracked, Adding
  <2>2. added' \subseteq VectorId \X Doc
    <3>1. <<vector[t].id, vector[t].doc>> \in VectorId \X Doc
      BY <2>1
    <3>2. added \subseteq VectorId \X Doc
      BY <1>1 DEF VectorTypeOK
    <3>3. QED
      BY <3>1, <3>2 DEF PutVectorCounter, PutVectorCounterRefused, EndAdd
  <2>3. QED
    BY <1>1, <1>3, <1>5, <2>1, <2>2 DEF PutVectorCounter, PutVectorCounterRefused, EndAdd, VectorTypeOK
<1>7. CallsTracked'
  <2>1. index \subseteq index' /\ chunks \subseteq chunks' /\ chunkless \subseteq chunkless'
    BY DEF PutVectorCounter, PutVectorCounterRefused, EndAdd
  <2>2. QED
    BY <1>1, <1>3, <1>5, <2>1, CallsUntouched
<1>8. ~shared' => IdsApart'
  BY <1>1, <1>3, <1>5, IdsUntouched DEF PutVectorCounter, PutVectorCounterRefused, EndAdd, VectorInv
<1>9. ~shared' => SearchesTracked'
  BY <1>1, <1>3, <1>5, SearchesUntouched DEF PutVectorCounter, PutVectorCounterRefused, EndAdd, VectorInv
<1>10. VectorsKept'
  <2>1. VectorsKept
    BY DEF VectorInv
  <2>2. ~shared => Settled(t)
    BY <1>1 DEF VectorInv, IdsApart
  <2>3. \A one \in added' : one \in added \/ one = <<vector[t].id, vector[t].doc>>
    BY DEF PutVectorCounter, PutVectorCounterRefused, EndAdd
  <2>4. ~shared' => \A one \in added' \ unstored' : vec'[one[1]] = one[2]
    <3>1. ASSUME ~shared, NEW one \in added' \ unstored
          PROVE  vec[one[1]] = one[2]
      <4>1. CASE one \in added
        BY <2>1, <3>1, <4>1 DEF VectorsKept
      <4>2. CASE one = <<vector[t].id, vector[t].doc>>
        BY <2>2, <3>1, <4>2 DEF Settled
      <4>3. QED
        BY <2>3, <4>1, <4>2
    <3>2. vec' = vec /\ unstored' = unstored /\ shared' = shared
      BY DEF PutVectorCounter, PutVectorCounterRefused, EndAdd
    <3>3. QED
      BY <3>1, <3>2
  <2>5. ASSUME NEW i \in index \ StoredIds, \A d \in Doc : <<i, d>> \notin unstored
        PROVE  \E u \in Thread : vector'[u].op = "put vector" /\ vector'[u].id = i
    <3>1. PICK u \in Thread : vector[u].op = "put vector" /\ vector[u].id = i
      BY <2>1, <2>5 DEF VectorsKept
    <3>2. vector'[u] = vector[u]
      BY <1>1, <1>5, <3>1
    <3>3. QED
      BY <3>1, <3>2
  <2>6. QED
    BY <2>1, <2>4, <2>5 DEF PutVectorCounter, PutVectorCounterRefused, EndAdd, VectorsKept, StoredIds
<1>11. QED
  BY <1>1, <1>6, <1>7, <1>8, <1>9, <1>10 DEF PutVectorCounter, PutVectorCounterRefused, EndAdd, VectorInv

LEMMA EndSearchKeeps ==
  ASSUME VectorInv, NEW t \in Thread, EndSearch(t), UNCHANGED <<chunks, chunkless, up>>
  PROVE  VectorInv'
<1> DEFINE c == NoCall
<1> USE DEF vectorStore
<1>1. /\ VectorTypeOK /\ vector[t] \in VectorCall /\ vector[t].op = "fetch" /\ up
  BY CallsRun DEF EndSearch, VectorInv
<1>2. c \in VectorCall
  BY NoCallFields
<1>3. /\ c.op = "idle" /\ c.matches = {}
  BY <1>1, NoCallFields DEF VectorCall
<1>4. vector' = [vector EXCEPT ![t] = c]
  BY <1>1 DEF EndSearch, VectorTypeOK
<1> HIDE DEF c
<1>5. /\ vector' \in [Thread -> VectorCall]
      /\ vector'[t] = c
      /\ \A u \in Thread \ {t} : vector'[u] = vector[u]
  BY <1>1, <1>2, <1>4, CallReplaced
<1>6. VectorTypeOK'
  BY <1>1, <1>3, <1>5 DEF EndSearch, VectorTypeOK
<1>7. CallsTracked'
  <2>1. index \subseteq index' /\ chunks \subseteq chunks' /\ chunkless \subseteq chunkless'
    BY DEF EndSearch
  <2>2. QED
    BY <1>1, <1>3, <1>5, <2>1, CallsUntouched
<1>8. ~shared' => IdsApart'
  BY <1>1, <1>3, <1>5, IdsUntouched DEF EndSearch, VectorInv
<1>9. ~shared' => SearchesTracked'
  BY <1>1, <1>3, <1>5, SearchesUntouched DEF EndSearch, VectorInv
<1>10. VectorsKept'
  BY <1>1, <1>3, <1>5, StoresUntouched DEF EndSearch, VectorInv
<1>11. QED
  BY <1>1, <1>6, <1>7, <1>8, <1>9, <1>10 DEF EndSearch, VectorInv

LEMMA FetchKeeps ==
  ASSUME VectorInv, NEW t \in Thread, Fetch(t), UNCHANGED <<chunks, chunkless, up>>
  PROVE  VectorInv'
<1> USE DEF vectorStore
<1>1. PICK i \in vector[t].matches :
        vector' = [vector EXCEPT
                     ![t].matches = @ \ {i},
                     ![t].found = IF vec[i] = None THEN @ ELSE @ \cup {<<i, vec[i]>>}]
  BY DEF Fetch
<1> DEFINE c == [vector[t] EXCEPT
                   !.matches = @ \ {i},
                   !.found = IF vec[i] = None THEN @ ELSE @ \cup {<<i, vec[i]>>}]
<1>2. /\ VectorTypeOK /\ vector[t] \in VectorCall /\ vector[t].op = "fetch" /\ up
      /\ i \in VectorId /\ vec[i] \in Doc \cup {None}
  BY CallsRun, CallFields DEF Fetch, VectorInv, VectorTypeOK
<1>3. c \in VectorCall
  <2>1. vec[i] # None => <<i, vec[i]>> \in VectorId \X Doc
    BY <1>2
  <2>2. QED
    BY <1>2, <2>1 DEF VectorCall
<1>4. /\ c.op = "fetch" /\ c.matches = vector[t].matches \ {i} /\ c.owed = vector[t].owed
      /\ c.found = IF vec[i] = None THEN vector[t].found
                                    ELSE vector[t].found \cup {<<i, vec[i]>>}
  BY <1>2 DEF VectorCall
<1>5. vector' = [vector EXCEPT ![t] = c]
  BY <1>1, <1>2 DEF VectorTypeOK
<1> HIDE DEF c
<1>6. /\ vector' \in [Thread -> VectorCall]
      /\ vector'[t] = c
      /\ \A u \in Thread \ {t} : vector'[u] = vector[u]
  BY <1>2, <1>3, <1>5, CallReplaced
<1>7. VectorTypeOK'
  BY <1>2, <1>4, <1>6 DEF Fetch, VectorTypeOK
<1>8. CallsTracked'
  <2>1. index \subseteq index' /\ chunks \subseteq chunks' /\ chunkless \subseteq chunkless'
    BY DEF Fetch
  <2>2. QED
    BY <1>2, <1>4, <1>6, <2>1, CallsUntouched
<1>9. ~shared' => IdsApart'
  BY <1>2, <1>4, <1>6, IdsUntouched DEF Fetch, VectorInv
<1>10. ~shared' => SearchesTracked'
  <2>1. SUFFICES ASSUME ~shared, NEW u \in Thread, vector'[u].op = "fetch"
                 PROVE  /\ \A one \in vector'[u].owed :
                             /\ vec[one[1]] = one[2]
                             /\ one[1] \in vector'[u].matches \/ one \in vector'[u].found
                        /\ \A hit \in vector'[u].found : vec[hit[1]] = hit[2]
    BY DEF Fetch, SearchesTracked
  <2>2. SearchesTracked
    BY <2>1 DEF VectorInv
  <2>3. CASE u # t
    BY <1>6, <2>1, <2>2, <2>3 DEF SearchesTracked
  <2>4. CASE u = t
    <3>1. ASSUME NEW one \in c.owed
          PROVE  /\ vec[one[1]] = one[2]
                 /\ one[1] \in c.matches \/ one \in c.found
      <4>1. /\ vec[one[1]] = one[2]
            /\ one[1] \in vector[t].matches \/ one \in vector[t].found
        BY <1>2, <1>4, <2>2, <3>1 DEF SearchesTracked
      <4>2. one \in VectorId \X Doc
        BY <1>3, <3>1, CallFields
      <4>3. one = <<one[1], one[2]>> /\ one[2] # None
        BY <4>2, VectorConstants
      <4>4. one[1] = i => one \in c.found
        BY <1>4, <4>1, <4>3
      <4>5. QED
        BY <1>4, <4>1, <4>4
    <3>2. ASSUME NEW hit \in c.found
          PROVE  vec[hit[1]] = hit[2]
      <4>1. CASE hit \in vector[t].found
        BY <1>2, <2>2, <4>1 DEF SearchesTracked
      <4>2. CASE hit = <<i, vec[i]>>
        BY <4>2
      <4>3. QED
        BY <1>4, <3>2, <4>1, <4>2
    <3>3. QED
      BY <1>6, <2>4, <3>1, <3>2
  <2>5. QED
    BY <2>3, <2>4
<1>11. VectorsKept'
  BY <1>2, <1>4, <1>6, StoresUntouched DEF Fetch, VectorInv
<1>12. QED
  BY <1>2, <1>7, <1>8, <1>9, <1>10, <1>11 DEF Fetch, VectorInv

-----------------------------------------------------------------------------
(* The steps of MemoryManager.                                             *)

LEMMA RememberKeeps ==
  ASSUME VectorInv, NEW t \in Thread, NEW d \in Doc, Remember(t, d) \/ RememberRefused(t, d)
  PROVE  VectorInv'
<1> DEFINE c == [NoCall EXCEPT !.op = "take", !.doc = d]
<1>1. /\ VectorTypeOK /\ vector[t] = NoCall /\ up /\ UNCHANGED up
      /\ UNCHANGED <<vec, vecCounter, index, idCounter, added, unstored, shared>>
      /\ chunks \subseteq chunks' /\ chunkless \subseteq chunkless'
      /\ chunks' \cup chunkless' = chunks \cup chunkless \cup {d}
  BY DEF Remember, RememberRefused, AddDocument, Free, Vectors, vectorStore, VectorInv
<1>2. c \in VectorCall /\ c.op = "take" /\ c.doc = d /\ c.matches = {}
  BY NoCallFields DEF VectorCall
<1>3. vector' = [vector EXCEPT ![t] = c]
  BY DEF Remember, RememberRefused, AddDocument, BeginAdd
<1> HIDE DEF c
<1>4. /\ vector' \in [Thread -> VectorCall]
      /\ vector'[t] = c
      /\ \A u \in Thread \ {t} : vector'[u] = vector[u]
  BY <1>1, <1>2, <1>3, CallReplaced
<1>5. VectorTypeOK'
  BY <1>1, <1>2, <1>4 DEF VectorTypeOK
<1>6. CallsTracked'
  BY <1>1, <1>2, <1>4, CallsUntouched
<1>7. ~shared' => IdsApart'
  BY <1>1, <1>2, <1>4, IdsUntouched DEF VectorInv
<1>8. ~shared' => SearchesTracked'
  BY <1>1, <1>2, <1>4, SearchesUntouched DEF VectorInv
<1>9. VectorsKept'
  BY <1>1, <1>2, <1>4, NoCallFields, StoresUntouched DEF VectorInv
<1>10. chunks' \subseteq Doc /\ chunkless' \subseteq Doc
  BY <1>1 DEF VectorInv
<1>11. QED
  BY <1>1, <1>5, <1>6, <1>7, <1>8, <1>9, <1>10 DEF VectorInv

LEMMA RecallKeeps ==
  ASSUME VectorInv, NEW t \in Thread, Recall(t)
  PROVE  VectorInv'
<1> DEFINE c == [NoCall EXCEPT !.op = "fetch", !.matches = index, !.owed = added \ unstored]
<1>1. /\ VectorTypeOK /\ vector[t] = NoCall /\ up
      /\ UNCHANGED <<vec, vecCounter, index, idCounter, added, unstored, shared, chunks, chunkless, up>>
  BY DEF Recall, Free, Vectors, vectorStore, VectorInv
<1>2. c \in VectorCall /\ c.op = "fetch" /\ c.matches = index /\ c.owed = added \ unstored /\ c.found = {}
  BY <1>1, NoCallFields DEF VectorCall, VectorTypeOK
<1>3. vector' = [vector EXCEPT ![t] = c]
  BY DEF Recall, BeginSearch
<1> HIDE DEF c
<1>4. /\ vector' \in [Thread -> VectorCall]
      /\ vector'[t] = c
      /\ \A u \in Thread \ {t} : vector'[u] = vector[u]
  BY <1>1, <1>2, <1>3, CallReplaced
<1>5. VectorTypeOK'
  BY <1>1, <1>2, <1>4 DEF VectorTypeOK
<1>6. CallsTracked'
  BY <1>1, <1>2, <1>4, CallsUntouched
<1>7. ~shared' => IdsApart'
  BY <1>1, <1>2, <1>4, IdsUntouched DEF VectorInv
<1>8. ~shared' => SearchesTracked'
  <2>1. SUFFICES ASSUME ~shared, NEW u \in Thread, vector'[u].op = "fetch"
                 PROVE  /\ \A one \in vector'[u].owed :
                             /\ vec[one[1]] = one[2]
                             /\ one[1] \in vector'[u].matches \/ one \in vector'[u].found
                        /\ \A hit \in vector'[u].found : vec[hit[1]] = hit[2]
    BY <1>1 DEF SearchesTracked
  <2>2. CASE u # t
    BY <1>4, <2>1, <2>2 DEF VectorInv, SearchesTracked
  <2>3. CASE u = t
    <3>1. ASSUME NEW one \in added \ unstored
          PROVE  vec[one[1]] = one[2] /\ one[1] \in index
      <4>1. one[1] \in VectorId /\ one[2] \in Doc
        BY <1>1 DEF VectorTypeOK
      <4>2. vec[one[1]] = one[2] /\ StoredIds \subseteq index
        BY <1>1, <2>1 DEF VectorInv, VectorsKept
      <4>3. one[2] # None
        BY <4>1, VectorConstants
      <4>4. QED
        BY <4>1, <4>2, <4>3 DEF StoredIds
    <3>2. QED
      BY <1>2, <1>4, <2>3, <3>1
  <2>4. QED
    BY <2>2, <2>3
<1>9. VectorsKept'
  BY <1>1, <1>2, <1>4, NoCallFields, StoresUntouched DEF VectorInv
<1>10. QED
  BY <1>1, <1>5, <1>6, <1>7, <1>8, <1>9 DEF VectorInv

LEMMA CrashKeeps ==
  ASSUME VectorInv, Crash
  PROVE  VectorInv'
<1>1. /\ VectorTypeOK /\ up' = FALSE /\ index' = {} /\ idCounter' = 0
      /\ vector' = [t \in Thread |-> NoCall]
      /\ UNCHANGED <<vec, vecCounter, added, unstored, shared, chunks, chunkless>>
  BY DEF Crash, CrashVectors, vectorStore, VectorInv
<1>2. \A t \in Thread : vector'[t] = NoCall
  BY <1>1
<1>3. VectorTypeOK'
  BY <1>1, <1>2, NoCallFields DEF VectorTypeOK
<1>4. CallsTracked' /\ IdsApart' /\ SearchesTracked'
  BY <1>1, <1>2, NoCallFields DEF CallsTracked, IdsApart, Settled, SearchesTracked, Adding, Holding
<1>5. VectorsKept'
  BY <1>1 DEF VectorInv, VectorsKept, StoredIds
<1>6. QED
  BY <1>1, <1>3, <1>4, <1>5 DEF VectorInv

(* The counter that Open takes is ahead of every id found.                 *)
LEMMA RestoredAhead ==
  ASSUME VectorTypeOK
  PROVE  RestoredCounter \in Nat /\ \A i \in StoredIds : i < RestoredCounter
<1>1. NextId \in Nat /\ \A i \in StoredIds : i < NextId
  <2>1. CASE StoredIds = {}
    BY <2>1 DEF NextId
  <2>2. CASE StoredIds # {}
    <3>1. StoredIds \in SUBSET (0 .. MaxVector) /\ MaxVector \in Nat
      BY VectorConstants DEF StoredIds, VectorId
    <3>2. Max(StoredIds) \in StoredIds /\ \A i \in StoredIds : i <= Max(StoredIds)
      BY <2>2, <3>1, MaxProperty
    <3>3. NextId = Max(StoredIds) + 1
      BY <2>2 DEF NextId
    <3>4. Max(StoredIds) \in Nat /\ \A i \in StoredIds : i \in Nat
      <4>1. \A i \in 0 .. MaxVector : i \in Nat
        OBVIOUS
      <4>2. QED
        BY <3>1, <3>2, <4>1
    <3>5. ASSUME NEW i \in StoredIds
          PROVE  i < Max(StoredIds) + 1
      BY <3>2, <3>4
    <3>6. QED
      BY <3>3, <3>4, <3>5
  <2>3. QED
    BY <2>1, <2>2
<1>2. StoredIds \subseteq Nat
  BY VectorConstants DEF StoredIds, VectorId
<1>3. vecCounter \in Nat \cup {None}
  BY DEF VectorTypeOK
<1>4. CASE vecCounter = None \/ NextId > vecCounter
  BY <1>1, <1>4 DEF RestoredCounter
<1>5. CASE ~ (vecCounter = None \/ NextId > vecCounter)
  <2>1. RestoredCounter = vecCounter /\ vecCounter \in Nat /\ NextId <= vecCounter
    BY <1>1, <1>3, <1>5 DEF RestoredCounter
  <2>2. ASSUME NEW i \in StoredIds
        PROVE  i < vecCounter
    <3>1. i \in Nat /\ i < NextId
      BY <1>1, <1>2
    <3>2. QED
      BY <1>1, <2>1, <3>1
  <2>3. QED
    BY <2>1, <2>2
<1>6. QED
  BY <1>4, <1>5

LEMMA OpenKeeps ==
  ASSUME VectorInv, Open
  PROVE  VectorInv'
<1>1. /\ VectorTypeOK /\ up' = TRUE /\ index' = StoredIds /\ idCounter' = RestoredCounter
      /\ UNCHANGED <<vec, vecCounter, vector, added, unstored, shared, chunks, chunkless>>
  BY DEF Open, RehydrateIndex, vectorStore, VectorInv
<1>2. \A t \in Thread : vector'[t] = NoCall
  BY <1>1 DEF Open, VectorInv, CallsTracked
<1>3. StoredIds' = StoredIds /\ StoredIds \subseteq VectorId
  BY <1>1 DEF StoredIds
<1>4. VectorTypeOK'
  BY <1>1, <1>2, <1>3, NoCallFields, RestoredAhead DEF VectorTypeOK
<1>5. CallsTracked' /\ SearchesTracked'
  BY <1>1, <1>2, NoCallFields DEF CallsTracked, SearchesTracked, Adding
<1>6. IdsApart'
  <2>1. \A i \in StoredIds' : i < idCounter'
    BY <1>1, <1>3, RestoredAhead
  <2>2. QED
    BY <1>2, <2>1, NoCallFields DEF IdsApart, Settled, Holding
<1>7. VectorsKept'
  BY <1>1, <1>3 DEF VectorInv, VectorsKept
<1>8. QED
  BY <1>1, <1>4, <1>5, <1>6, <1>7 DEF VectorInv

LEMMA InitVectorInv ==
  Init => VectorInv
<1>1. SUFFICES ASSUME Init PROVE VectorInv
  OBVIOUS
<1>2. /\ vec = [i \in VectorId |-> None] /\ vecCounter = None /\ index = {} /\ idCounter = 0
      /\ vector = [t \in Thread |-> NoCall] /\ added = {} /\ unstored = {}
      /\ shared = FALSE /\ up = FALSE /\ chunks = {} /\ chunkless = {}
  BY <1>1 DEF Init, InitVectors
<1>3. StoredIds = {} /\ \A t \in Thread : vector[t] = NoCall
  BY <1>2 DEF StoredIds
<1>4. VectorTypeOK
  BY <1>2, <1>3, NoCallFields DEF VectorTypeOK
<1>5. CallsTracked /\ IdsApart /\ SearchesTracked
  BY <1>2, <1>3, NoCallFields DEF CallsTracked, IdsApart, Settled, SearchesTracked, Adding, Holding
<1>6. VectorsKept
  BY <1>2, <1>3 DEF VectorsKept
<1>7. QED
  BY <1>2, <1>4, <1>5, <1>6 DEF VectorInv

(* A step of the conversations alone changes none of this.                 *)
LEMMA VectorsUnchanged ==
  ASSUME VectorInv, UNCHANGED <<vectorVars, up, chunks, chunkless>>
  PROVE  VectorInv'
BY DEF vectorVars, vectorStore, VectorInv, VectorTypeOK, CallsTracked, IdsApart, Settled,
       SearchesTracked, VectorsKept, StoredIds, Adding, Holding

-----------------------------------------------------------------------------
(* Both over one engine.                                                   *)

(* The part of the state that only MemoryManager has.                      *)
OwnInv ==
  /\ begun \subseteq Message \cup Doc
  /\ crashes \in 0 .. MaxCrashes
  /\ refusals \in 0 .. MaxRefused
  /\ \A t \in Thread : chat[t] = Idle \/ vector[t] = NoCall

IInv == ChatInv /\ HistoryInv /\ VectorInv /\ OwnInv

LEMMA InitIInv ==
  Init => IInv
<1>1. SUFFICES ASSUME Init PROVE IInv
  OBVIOUS
<1>2. ChatInv /\ HistoryInv /\ VectorInv
  BY <1>1, InitChatInv, InitHistoryInv, InitVectorInv DEF Init
<1>3. OwnInv
  BY <1>1, MemoryBounds DEF Init, InitChat, OwnInv
<1>4. QED
  BY <1>2, <1>3 DEF IInv

(* A call refused is one more, within the bound.                           *)
LEMMA RefuseBounded ==
  ASSUME IInv, Refuse
  PROVE  refusals' \in 0 .. MaxRefused
BY MemoryBounds DEF IInv, OwnInv, Refuse

(* A step of a session.                                                    *)
LEMMA ChatStepKeeps ==
  ASSUME IInv, NEW t \in Thread, ChatStep(t) \/ ChatRefusal(t), UNCHANGED begun, Chat,
         refusals' \in 0 .. MaxRefused
  PROVE  IInv'
<1>1. ChatInv' /\ HistoryInv'
  <2>1. CASE ChatStep(t)
    BY <2>1, PutTurnKeeps, PutCounterKeeps, DeleteTurnKeeps, EndClearKeeps,
       PutTurnTold, PutCounterTold, DeleteTurnTold, EndClearTold DEF ChatStep, IInv
  <2>2. CASE ChatRefusal(t)
    BY <2>2, PutTurnKeeps, PutCounterRefusedKeeps, DeleteTurnRefusedKeeps, EndClearKeeps,
       PutTurnTold, PutCounterRefusedTold, DeleteTurnRefusedTold, EndClearTold
       DEF ChatRefusal, IInv
  <2>3. QED
    BY <2>1, <2>2
<1>2. VectorInv'
  BY VectorsUnchanged DEF Chat, IInv
<1>3. vector[t] = NoCall /\ UNCHANGED vector
  BY IdleFields DEF IInv, OwnInv, ChatStep, PutTurn, PutCounter, DeleteTurn, DeleteCounter,
     ChatRefusal, PutTurnRefused, PutCounterRefused, DeleteTurnRefused, DeleteCounterRefused,
     EndClear, Chat, vectorVars
<1>4. \A u \in Thread \ {t} : chat'[u] = chat[u]
  BY DEF IInv, ChatInv, ChatTypeOK, ChatStep, PutTurn, PutCounter, DeleteTurn, DeleteCounter,
     ChatRefusal, PutTurnRefused, PutCounterRefused, DeleteTurnRefused, DeleteCounterRefused,
     EndClear
<1>5. OwnInv'
  BY <1>3, <1>4 DEF IInv, OwnInv, Chat
<1>6. QED
  BY <1>1, <1>2, <1>5 DEF IInv

LEMMA AddChatTurnKeeps ==
  ASSUME IInv, NEW t \in Thread, NEW s \in Session, NEW m \in Message, AddChatTurn(t, s, m)
  PROVE  IInv'
<1>1. ChatInv' /\ HistoryInv'
  BY BeginAppendKeeps, BeginAppendTold DEF AddChatTurn, IInv
<1>2. VectorInv'
  BY VectorsUnchanged DEF AddChatTurn, Chat, IInv
<1>3. vector[t] = NoCall /\ UNCHANGED <<vector, crashes, refusals>> /\ begun' = begun \cup {m}
  BY DEF AddChatTurn, Free, Chat, vectorVars, Use
<1>4. \A u \in Thread \ {t} : chat'[u] = chat[u]
  BY DEF IInv, ChatInv, ChatTypeOK, AddChatTurn, BeginAppend
<1>5. OwnInv'
  BY <1>3, <1>4 DEF IInv, OwnInv
<1>6. QED
  BY <1>1, <1>2, <1>5 DEF IInv

LEMMA ClearSessionKeeps ==
  ASSUME IInv, NEW t \in Thread, NEW s \in Session, ClearSession(t, s)
  PROVE  IInv'
<1>1. ChatInv' /\ HistoryInv'
  BY BeginClearKeeps, BeginClearTold DEF ClearSession, IInv
<1>2. VectorInv'
  BY VectorsUnchanged DEF ClearSession, Chat, IInv
<1>3. vector[t] = NoCall /\ UNCHANGED <<vector, crashes, begun, refusals>>
  BY DEF ClearSession, Free, Chat, vectorVars
<1>4. \A u \in Thread \ {t} : chat'[u] = chat[u]
  BY DEF IInv, ChatInv, ChatTypeOK, ClearSession, BeginClear
<1>5. OwnInv'
  BY <1>3, <1>4 DEF IInv, OwnInv
<1>6. QED
  BY <1>1, <1>2, <1>5 DEF IInv

(* A step of the vectors.                                                  *)
LEMMA VectorStepKeeps ==
  ASSUME IInv, NEW t \in Thread, VectorStep(t) \/ VectorRefusal(t),
         UNCHANGED <<chunks, chunkless, begun>>, Vectors, refusals' \in 0 .. MaxRefused
  PROVE  IInv'
<1>1. VectorInv'
  <2>1. UNCHANGED <<chunks, chunkless, up>>
    BY DEF Vectors
  <2>2. CASE VectorStep(t)
    BY <2>1, <2>2, TakeKeeps, BumpKeeps, AddToIndexKeeps, PutVectorKeeps, ReadCounterKeeps,
       PutVectorCounterKeeps, FetchKeeps, EndSearchKeeps DEF VectorStep, IInv
  <2>3. CASE VectorRefusal(t)
    BY <2>1, <2>3, PutVectorRefusedKeeps, PutVectorCounterKeeps DEF VectorRefusal, IInv
  <2>4. QED
    BY <2>2, <2>3
<1>2. ChatInv' /\ HistoryInv'
  BY ChatUnchanged, HistoryUnchanged DEF Vectors, IInv
<1>3. chat[t] = Idle /\ UNCHANGED chat
  BY NoCallFields DEF IInv, OwnInv, VectorStep, Take, Bump, AddToIndex, PutVector, ReadCounter,
     PutVectorCounter, Fetch, EndSearch, VectorRefusal, PutVectorRefused,
     PutVectorCounterRefused, EndAdd, Vectors, chatVars
<1>4. \A u \in Thread \ {t} : vector'[u] = vector[u]
  BY DEF IInv, VectorInv, VectorTypeOK, VectorStep, Take, Bump, AddToIndex, PutVector, ReadCounter,
     PutVectorCounter, Fetch, EndSearch, VectorRefusal, PutVectorRefused,
     PutVectorCounterRefused, EndAdd
<1>5. OwnInv'
  BY <1>3, <1>4 DEF IInv, OwnInv, Vectors
<1>6. QED
  BY <1>1, <1>2, <1>5 DEF IInv

LEMMA BeginVectorKeeps ==
  ASSUME IInv, NEW t \in Thread,
         (\E d \in Doc : Remember(t, d) \/ RememberRefused(t, d)) \/ Recall(t)
  PROVE  IInv'
<1>1. VectorInv'
  BY RememberKeeps, RecallKeeps DEF IInv
<1>2. /\ chat[t] = Idle /\ UNCHANGED <<chatVars, chat, crashes>>
      /\ begun' = begun \/ \E d \in Doc : begun' = begun \cup {d}
  BY DEF Remember, RememberRefused, AddDocument, Recall, Free, Use, Vectors, chatVars
<1>3. ChatInv' /\ HistoryInv'
  BY <1>2, ChatUnchanged, HistoryUnchanged DEF IInv
<1>4. \A u \in Thread \ {t} : vector'[u] = vector[u]
  BY DEF IInv, VectorInv, VectorTypeOK, Remember, RememberRefused, AddDocument, Recall, BeginAdd,
     BeginSearch
<1>5. refusals' \in 0 .. MaxRefused
  BY RefuseBounded DEF Remember, RememberRefused, Recall, IInv, OwnInv
<1>6. OwnInv'
  BY <1>2, <1>4, <1>5 DEF IInv, OwnInv
<1>7. QED
  BY <1>1, <1>3, <1>6 DEF IInv

LEMMA RestartKeeps ==
  ASSUME IInv, Crash \/ Open
  PROVE  IInv'
<1>1. VectorInv'
  BY CrashKeeps, OpenKeeps DEF IInv
<1>2. CASE Crash
  <2>1. ChatInv' /\ HistoryInv'
    BY <1>2, CrashChatKeeps, CrashChatTold DEF IInv, Crash
  <2>2. crashes' \in 0 .. MaxCrashes /\ UNCHANGED <<begun, refusals>>
    BY <1>2, MemoryBounds DEF IInv, OwnInv, Crash
  <2>3. \A t \in Thread : chat'[t] = Idle
    BY <1>2 DEF Crash, CrashChat
  <2>4. QED
    BY <1>1, <2>1, <2>2, <2>3 DEF IInv, OwnInv
<1>3. CASE Open
  <2>1. UNCHANGED <<chatVars, chat, vector, begun, crashes, refusals>>
    BY <1>3 DEF Open, RehydrateIndex, chatVars
  <2>2. ChatInv' /\ HistoryInv' /\ OwnInv'
    BY <2>1, ChatUnchanged, HistoryUnchanged DEF IInv, OwnInv
  <2>3. QED
    BY <1>1, <2>2 DEF IInv
<1>4. QED
  BY <1>2, <1>3

LEMMA NextIInv ==
  IInv /\ [Next]_memoryVars => IInv'
<1>1. SUFFICES ASSUME IInv, [Next]_memoryVars PROVE IInv'
  OBVIOUS
<1>2. CASE UNCHANGED memoryVars
  <2>1. UNCHANGED <<chatVars, chat, vectorVars, vector, up, chunks, chunkless, begun, crashes, refusals>>
    BY <1>2 DEF memoryVars, chatVars, vectorVars
  <2>2. ChatInv' /\ HistoryInv' /\ VectorInv' /\ OwnInv'
    BY <1>1, <2>1, ChatUnchanged, HistoryUnchanged, VectorsUnchanged DEF IInv, OwnInv
  <2>3. QED
    BY <2>2 DEF IInv
<1>3. CASE Next
  <2>1. ASSUME NEW t \in Thread, ChatStep(t) /\ UNCHANGED <<begun, refusals>> /\ Chat
        PROVE  IInv'
    BY <1>1, <2>1, ChatStepKeeps DEF IInv, OwnInv
  <2>2. ASSUME NEW t \in Thread, ChatRefusal(t) /\ Refuse /\ UNCHANGED begun /\ Chat
        PROVE  IInv'
    BY <1>1, <2>2, ChatStepKeeps, RefuseBounded
  <2>3. ASSUME NEW t \in Thread, VectorStep(t), UNCHANGED <<chunks, chunkless, begun, refusals>>,
               Vectors
        PROVE  IInv'
    BY <1>1, <2>3, VectorStepKeeps DEF IInv, OwnInv
  <2>4. ASSUME NEW t \in Thread, VectorRefusal(t), Refuse,
               UNCHANGED <<chunks, chunkless, begun>>, Vectors
        PROVE  IInv'
    BY <1>1, <2>4, VectorStepKeeps, RefuseBounded
  <2>5. QED
    BY <1>1, <1>3, <2>1, <2>2, <2>3, <2>4, AddChatTurnKeeps, ClearSessionKeeps,
       BeginVectorKeeps, RestartKeeps DEF Next
<1>4. QED
  BY <1>1, <1>2, <1>3
-----------------------------------------------------------------------------
(* A step overwrites no stored vector, unless two threads share an id.     *)
LEMMA StepImmutable ==
  ASSUME IInv, Next, ~shared'
  PROVE  \A i \in StoredIds : vec'[i] = vec[i]
<1>1. CASE UNCHANGED vec
  BY <1>1
<1>2. ASSUME NEW t \in Thread, PutVector(t)
      PROVE  \A i \in StoredIds : vec'[i] = vec[i]
  <2>1. /\ vec \in [VectorId -> Doc \cup {None}]
        /\ vec' = [vec EXCEPT ![vector[t].id] = vector[t].doc]
        /\ vector[t].op = "put vector" /\ ~shared
    BY <1>2 DEF IInv, VectorInv, VectorTypeOK, PutVector
  <2>2. vec[vector[t].id] = None
    BY <2>1 DEF IInv, VectorInv, IdsApart, Settled
  <2>3. QED
    BY <2>1, <2>2 DEF StoredIds
<1>3. \/ UNCHANGED vec
      \/ \E t \in Thread : PutVector(t)
  BY DEF Next, AddChatTurn, ClearSession, Remember, RememberRefused, AddDocument, Recall, Chat,
     VectorStep, Take, Bump, AddToIndex, ReadCounter, PutVectorCounter, Fetch, EndSearch,
     VectorRefusal, PutVectorRefused, PutVectorCounterRefused, EndAdd, Crash, CrashVectors, Open,
     RehydrateIndex, vectorVars, vectorStore
<1>4. QED
  BY <1>1, <1>2, <1>3

LEMMA IInvConsequences ==
  IInv => MemoryTypeOK /\ VectorsKept /\ SearchFindsAdded /\ TurnsContiguous /\ HistoryKeepsAcked
<1>1. SUFFICES ASSUME IInv
               PROVE  /\ MemoryTypeOK /\ VectorsKept /\ SearchFindsAdded
                      /\ TurnsContiguous /\ HistoryKeepsAcked
  OBVIOUS
<1>2. MemoryTypeOK /\ VectorsKept
  BY <1>1 DEF IInv, OwnInv, ChatInv, VectorInv, MemoryTypeOK
<1>3. TurnsContiguous /\ HistoryKeepsAcked
  BY <1>1, ChatInvContiguous, ChatInvHistory DEF IInv
<1>4. ASSUME NEW t \in Thread, vector[t].op = "fetch", vector[t].matches = {}, ~shared
      PROVE  /\ vector[t].owed \subseteq vector[t].found
             /\ \A hit \in vector[t].found : vec[hit[1]] = hit[2]
  BY <1>1, <1>4 DEF IInv, VectorInv, SearchesTracked
<1>5. QED
  BY <1>2, <1>3, <1>4 DEF SearchFindsAdded

LEMMA MemoryInvariant ==
  Spec => []IInv
<1>1. QED
  BY InitIInv, NextIInv, PTL DEF Spec

-----------------------------------------------------------------------------
(* Every variable keeps its type, a thread is in one operation at a time,  *)
(* and no clear has set out to delete more than was acknowledged.          *)
THEOREM MemoryTypeCorrect ==
  Spec => []MemoryTypeOK
<1>1. QED
  BY MemoryInvariant, IInvConsequences, PTL

(* VectorStore.add and its constructor: while no two threads share an id,  *)
(* no step overwrites a stored vector, whatever the order of the counter   *)
(* writes, whichever of them the engine refused and wherever the process   *)
(* ended.                                                                  *)
THEOREM VectorsImmutable ==
  Spec => StoredVectorsImmutable
<1>1. IInv /\ [Next]_memoryVars =>
        [~shared' => \A i \in StoredIds : vec'[i] = vec[i]]_vectorVars
  <2>1. SUFFICES ASSUME IInv, [Next]_memoryVars, vectorVars' # vectorVars, ~shared'
                 PROVE  \A i \in StoredIds : vec'[i] = vec[i]
    OBVIOUS
  <2>2. Next
    BY <2>1 DEF memoryVars
  <2>3. QED
    BY <2>1, <2>2, StepImmutable
<1>2. QED
  BY <1>1, MemoryInvariant, PTL DEF Spec, StoredVectorsImmutable

(* remember: what it has returned is stored and indexed, with its chunk,   *)
(* through every interleaving, crash and start, except the vectors and the *)
(* chunks whose put the engine refused, of which remember does not tell.   *)
THEOREM RememberedKept ==
  Spec => []VectorsKept
<1>1. QED
  BY MemoryInvariant, IInvConsequences, PTL

(* VectorStore.search finds every vector whose add had returned before it  *)
(* began, unless the engine had refused to store it, however adds go on    *)
(* while it fetches.                                                       *)
THEOREM SearchComplete ==
  Spec => []SearchFindsAdded
<1>1. QED
  BY MemoryInvariant, IInvConsequences, PTL

(* append_message and clear_session, for any number of sessions and        *)
(* threads and whatever the engine refuses: an index between two turns is  *)
(* free only if the message of that index was refused, and the counter is  *)
(* not beyond the last index given, in sessions no clear has torn.         *)
THEOREM NoTurnMissing ==
  Spec => []TurnsContiguous
<1>1. QED
  BY MemoryInvariant, IInvConsequences, PTL

(* append_message, clear_session and get_history, in a session on which no *)
(* two operations overlapped, of which the engine refused no message and   *)
(* no counter, and whose prefix finds no other session: all that the scan  *)
(* finds is every acknowledged message in order, less the oldest when a    *)
(* clear was cut short, and at most one more that was never acknowledged,  *)
(* wherever the process ended and although a counter was not deleted.      *)
THEOREM HistoryKept ==
  Spec => []HistoryKeepsAcked
<1>1. QED
  BY MemoryInvariant, IInvConsequences, PTL
=============================================================================
