----------------------------- MODULE SyncProofs -----------------------------
(***************************************************************************)
(* Theorems about SyncRoom, for any ids, clients and bounds, and about     *)
(* SyncSession: what a client's state vector means, for any number of      *)
(* clients, updates, lost connections and restarts.                        *)
(***************************************************************************)
EXTENDS SyncSession, SequenceTheorems, FiniteSetTheorems, TLAPS

----------------------------------------------------------------------------
(* Typing.                                                                 *)

\* Highest is the largest counter of a client in the rows, or 0.
LEMMA HighestType ==
  ASSUME NEW s \in Seq(Updates), NEW c \in Clients, NEW n \in 0..MaxCounter,
         \A i \in 1..Len(s) : s[i].client = c => s[i].counter <= n,
         n > 0 => \E i \in 1..Len(s) : s[i].client = c /\ s[i].counter = n
  PROVE  Highest(s, c) = n
  <1> DEFINE P(k) ==
        /\ \A i \in 1..Len(s) : s[i].client = c => s[i].counter <= k
        /\ k > 0 => \E i \in 1..Len(s) : s[i].client = c /\ s[i].counter = k
  <1>1. P(n)
    OBVIOUS
  <1>2. ASSUME NEW k \in 0..MaxCounter, P(k) PROVE k = n
    <2>1. n \in Nat /\ k \in Nat
      BY RoomConstants
    <2>3. k <= n
      <3>1. CASE k = 0
        BY <2>1, <3>1
      <3>2. CASE k > 0
        <4>1. PICK i \in 1..Len(s) : s[i].client = c /\ s[i].counter = k
          BY <1>2, <3>2
        <4>2. QED
          BY <4>1
      <3>3. QED
        BY <2>1, <3>1, <3>2
    <2>4. n <= k
      <3>1. CASE n = 0
        BY <2>1, <3>1
      <3>2. CASE n > 0
        <4>1. PICK i \in 1..Len(s) : s[i].client = c /\ s[i].counter = n
          BY <3>2
        <4>2. QED
          BY <1>2, <4>1
      <3>3. QED
        BY <2>1, <3>1, <3>2
    <2>5. QED
      BY <2>1, <2>3, <2>4
  <1>3. Highest(s, c) = CHOOSE k \in 0..MaxCounter : P(k)
    BY DEF Highest
  <1>4. QED
    BY <1>1, <1>2, <1>3

\* A sequence of updates has a sequence of ids, entry by entry.
LEMMA IdsOfType ==
  ASSUME NEW s \in Seq(Updates)
  PROVE  /\ IdsOf(s) \in Seq(Ids)
         /\ Len(IdsOf(s)) = Len(s)
         /\ \A i \in 1..Len(s) : IdsOf(s)[i] = s[i].id
  <1>1. \A i \in 1..Len(s) : s[i].id \in Ids
    <2>1. \A u \in Updates : u.id \in Ids
      BY DEF Updates
    <2>2. QED
      BY <2>1
  <1>2. IdsOf(s) \in [1..Len(s) -> Ids]
    BY <1>1 DEF IdsOf
  <1>3. Len(s) \in Nat
    OBVIOUS
  <1>4. IdsOf(s) \in Seq(Ids)
    BY <1>2, <1>3, SeqDef, Zenon
  <1>5. DOMAIN IdsOf(s) = 1..Len(s)
    BY DEF IdsOf
  <1>6. Len(IdsOf(s)) = Len(s)
    BY <1>3, <1>4, <1>5, LenProperties
  <1>7. QED
    BY <1>4, <1>6 DEF IdsOf

\* n is the largest counter of client c in s, or 0.
TopOf(s, c, n) ==
  /\ \A i \in 1..Len(s) : s[i].client = c => s[i].counter <= n
  /\ n > 0 => \E i \in 1..Len(s) : s[i].client = c /\ s[i].counter = n

Topped(s) == \A c \in Clients : \E n \in 0..MaxCounter : TopOf(s, c, n)

\* One more update moves the largest counter of its client at most.
LEMMA TopOfAppend ==
  ASSUME NEW s \in Seq(Updates), NEW u \in Updates, NEW c \in Clients,
         NEW n \in 0..MaxCounter, TopOf(s, c, n)
  PROVE  TopOf(Append(s, u), c, IF u.client = c /\ u.counter > n THEN u.counter ELSE n)
  <1> DEFINE t == Append(s, u)
             m == IF u.client = c /\ u.counter > n THEN u.counter ELSE n
  <1>1. /\ Len(t) = Len(s) + 1 /\ Len(s) \in Nat /\ t[Len(t)] = u
        /\ \A i \in 1..Len(s) : t[i] = s[i]
    OBVIOUS
  <1>2. n \in Nat /\ u.counter \in Nat /\ \A i \in 1..Len(s) : s[i].counter \in Nat
    <2>1. \A v \in Updates : v.counter \in Nat
      BY RoomConstants DEF Updates
    <2>2. QED
      BY <2>1, RoomConstants
  <1>3. m \in Nat /\ n <= m /\ (u.client = c => u.counter <= m)
    BY <1>2
  <1>4. ASSUME NEW i \in 1..Len(t), t[i].client = c PROVE t[i].counter <= m
    <2>1. CASE i = Len(t)
      BY <1>1, <1>3, <1>4, <2>1
    <2>2. CASE i \in 1..Len(s)
      <3>1. s[i].counter <= n
        BY <1>1, <1>4, <2>2 DEF TopOf
      <3>2. QED
        BY <1>1, <1>2, <1>3, <2>2, <3>1
    <2>3. QED
      BY <1>1, <2>1, <2>2
  <1>5. ASSUME m > 0 PROVE \E i \in 1..Len(t) : t[i].client = c /\ t[i].counter = m
    <2>1. CASE u.client = c /\ u.counter > n
      <3>1. t[Len(t)].client = c /\ t[Len(t)].counter = m /\ Len(t) \in 1..Len(t)
        BY <1>1, <2>1
      <3>2. QED
        BY <3>1
    <2>2. CASE ~(u.client = c /\ u.counter > n)
      <3>1. PICK i \in 1..Len(s) : s[i].client = c /\ s[i].counter = n
        BY <1>5, <2>2 DEF TopOf
      <3>2. t[i].client = c /\ t[i].counter = m /\ i \in 1..Len(t)
        BY <1>1, <2>2, <3>1
      <3>3. QED
        BY <3>2
    <2>3. QED
      BY <2>1, <2>2
  <1>6. QED
    BY <1>4, <1>5 DEF TopOf

\* So a sequence that has largest counters keeps having them.
LEMMA ToppedAppend ==
  ASSUME NEW s \in Seq(Updates), NEW u \in Updates, Topped(s)
  PROVE  Topped(Append(s, u))
  <1>1. SUFFICES ASSUME NEW c \in Clients
                 PROVE  \E n \in 0..MaxCounter : TopOf(Append(s, u), c, n)
    BY DEF Topped
  <1>2. PICK n \in 0..MaxCounter : TopOf(s, c, n)
    BY DEF Topped
  <1>3. u.counter \in 0..MaxCounter
    BY RoomConstants DEF Updates
  <1>4. TopOf(Append(s, u), c, IF u.client = c /\ u.counter > n THEN u.counter ELSE n)
    BY <1>2, TopOfAppend
  <1>5. (IF u.client = c /\ u.counter > n THEN u.counter ELSE n) \in 0..MaxCounter
    BY <1>3
  <1>6. QED
    BY <1>4, <1>5

\* Every step of the room, also one whose broadcast throws.
RoomNext ==
  \/ Receive \/ EndOfChunk \/ Restart
  \/ \E u \in Updates : WriteFails(u) \/ \E emits \in BOOLEAN : Remember(u, emits)

TypeInv == TypeOK /\ Topped(log)

\* #remember keeps the types of what it touches.
LEMMA ResumeType ==
  ASSUME TypeInv, NEW u \in Updates, Resume(u)
  PROVE  /\ updates' \in Seq(Updates) /\ pending' \in Seq(Updates)
         /\ vector' \in [Clients -> Nat] /\ taken' \in 0..Burst
         /\ Insert(u) \in Seq(Updates) /\ Topped(Insert(u))
         /\ u.id \in Ids
  <1> USE DEF TypeInv, TypeOK
  <1>1. u.counter \in Nat /\ u.client \in Clients /\ u.id \in Ids
    BY RoomConstants DEF Updates
  <1>2. updates' \in Seq(Updates) /\ pending' \in Seq(Updates)
    BY DEF Resume
  <1>3. vector' \in [Clients -> Nat]
    BY <1>1 DEF Resume
  <1>4. taken' \in 0..Burst
    BY RoomConstants DEF Resume
  <1>5. Insert(u) \in {log, Append(log, u)}
    BY DEF Insert
  <1>6. Insert(u) \in Seq(Updates)
    <2>1. log \in Seq(Updates) /\ Append(log, u) \in Seq(Updates)
      OBVIOUS
    <2>2. QED
      BY <1>5, <2>1, Zenon
  <1>7. Topped(Insert(u))
    <2>1. Topped(log) /\ Topped(Append(log, u))
      BY ToppedAppend
    <2>2. CASE Insert(u) = log
      BY <2>1, <2>2
    <2>3. CASE Insert(u) = Append(log, u)
      BY <2>1, <2>3
    <2>4. QED
      BY <1>5, <2>2, <2>3
  <1>8. QED
    BY <1>1, <1>2, <1>3, <1>4, <1>6, <1>7

\* A room just opened on an empty table is well typed.
LEMMA TypeInvInit == Init => TypeInv
  <1> SUFFICES ASSUME Init PROVE TypeInv
    OBVIOUS
  <1>1. TypeOK
    BY RoomConstants DEF Init, TypeOK
  <1>2. ASSUME NEW c \in Clients PROVE TopOf(log, c, 0)
    BY DEF Init, TopOf
  <1>3. 0 \in 0..MaxCounter
    BY RoomConstants
  <1>4. QED
    BY <1>1, <1>2, <1>3 DEF TypeInv, Topped

\* Every step of a room keeps its types and the agreement of each vector entry with the rows.
LEMMA TypeInvStep == TypeInv /\ [RoomNext]_roomVars => TypeInv'
  <1> SUFFICES ASSUME TypeInv, [RoomNext]_roomVars PROVE TypeInv'
    OBVIOUS
  <1>u. \A v \in Updates : v.id \in Ids
    BY DEF Updates
  <1>f. ASSUME NEW u \in Updates, Frame(u)
        PROVE  /\ taken' \in 0..Burst /\ issued' \in [Ids -> Updates \cup {None}]
               /\ updates' \in Seq(Updates) /\ vector' \in [Clients -> Nat]
               /\ log' = log /\ unwritten' \in SUBSET Ids
               /\ failures' \in Nat /\ restarts' \in Nat
    BY <1>f, <1>u, RoomConstants DEF TypeInv, TypeOK, Frame
  <1>t. ASSUME log' = log PROVE Topped(log)'
    BY <1>t DEF TypeInv, Topped, TopOf
  <1>1. ASSUME NEW u \in Updates, Replay(u) PROVE TypeInv'
    <2>1. answered' \in SUBSET Ids
      BY <1>1, <1>u DEF TypeInv, TypeOK, Replay, Duplicates
    <2>2. QED
      <3>1. Frame(u) /\ pending' = pending /\ calls' = calls
        BY <1>1 DEF Replay
      <3>2. QED
        BY <1>f, <1>t, <2>1, <3>1 DEF TypeInv, TypeOK
  <1>2. ASSUME NEW u \in Updates, Admit(u) PROVE TypeInv'
    <2>1. Frame(u) /\ answered' = answered
      BY <1>2 DEF Admit
    <2>2. pending' \in Seq(Updates) /\ calls' \in Seq(Ids)
      BY <1>2, <1>u DEF TypeInv, TypeOK, Admit
    <2>3. QED
      BY <1>f, <1>t, <2>1, <2>2 DEF TypeInv, TypeOK
  <1>3. ASSUME NEW u \in Updates, Reject(u) PROVE TypeInv'
    <2>1. Frame(u) /\ pending' = pending /\ calls' = calls /\ answered' = answered
      BY <1>3 DEF Reject
    <2>2. QED
      BY <1>f, <1>t, <2>1 DEF TypeInv, TypeOK
  <1>4. ASSUME EndOfChunk PROVE TypeInv'
    BY <1>4, <1>t, RoomConstants DEF TypeInv, TypeOK, EndOfChunk
  <1>5. ASSUME Restart PROVE TypeInv'
    <2>1. ASSUME NEW c \in Clients PROVE Highest(log, c) \in Nat
      <3>1. PICK n \in 0..MaxCounter : TopOf(log, c, n)
        BY DEF TypeInv, Topped
      <3>2. Highest(log, c) = n
        BY <3>1, HighestType DEF TopOf, TypeInv, TypeOK
      <3>3. QED
        BY <3>2, RoomConstants
    <2>2. vector' \in [Clients -> Nat]
      BY <1>5, <2>1 DEF Restart
    <2>3. calls' \in Seq(Ids)
      BY <1>5, IdsOfType DEF TypeInv, TypeOK, Restart
    <2>4. Topped(log)'
      BY <1>5 DEF TypeInv, Restart, Topped, TopOf
    <2>5. QED
      BY <1>5, <2>2, <2>3, <2>4, RoomConstants DEF TypeInv, TypeOK, Restart
  <1>6. ASSUME NEW u \in Updates, WriteFails(u) PROVE TypeInv'
    <2>1. Resume(u) /\ log' = log
      BY <1>6 DEF WriteFails
    <2>2. Topped(log)'
      BY <2>1 DEF TypeInv, Topped, TopOf
    <2>3. QED
      BY <1>6, <2>1, <2>2, ResumeType DEF TypeInv, TypeOK, WriteFails
  <1>7. ASSUME NEW u \in Updates, NEW emits \in BOOLEAN, Remember(u, emits) PROVE TypeInv'
    <2>1. Resume(u) /\ log' = Insert(u)
      BY <1>7 DEF Remember
    <2>2. log' \in Seq(Updates) /\ Topped(log')
      BY <2>1, ResumeType
    <2>3. answered' \in SUBSET Ids
      BY <1>7, <1>u DEF TypeInv, TypeOK, Remember
    <2>4. QED
      BY <1>7, <2>1, <2>2, <2>3, ResumeType DEF TypeInv, TypeOK, Remember, Topped
  <1>8. CASE UNCHANGED roomVars
    BY <1>8, <1>t DEF TypeInv, TypeOK, roomVars
  <1>9. QED
    BY <1>1, <1>2, <1>3, <1>4, <1>5, <1>6, <1>7, <1>8 DEF RoomNext, Receive

\* Every step of the room alone is a step of RoomNext.
LEMMA NextIsRoomNext == [Next]_roomVars => [RoomNext]_roomVars
  <1>1. TRUE \in BOOLEAN
    OBVIOUS
  <1>2. QED
    BY <1>1 DEF Next, RoomNext

\* Memory, the calls at the await and the rows hold updates of clients the room can
\* number, throughout retries, failures and restarts.
THEOREM RoomTypeCorrect == Spec => []TypeOK
  <1>1. Spec => []TypeInv
    BY TypeInvInit, TypeInvStep, NextIsRoomNext, PTL DEF Spec
  <1>2. TypeInv => TypeOK
    BY DEF TypeInv
  <1>3. QED
    BY <1>1, <1>2, PTL

----------------------------------------------------------------------------
(* The order of the store.                                                 *)

\* StoreOrder, entry by entry: k lists the ids of s and then those of t.
Ordered(k, s, t) ==
  /\ Len(k) = Len(s) + Len(t)
  /\ \A i \in 1..Len(s) : k[i] = s[i].id
  /\ \A i \in 1..Len(t) : k[Len(s) + i] = t[i].id

\* Queueing a frame that continues the frames of its client keeps the queue ordered.
LEMMA OrderedPush ==
  ASSUME NEW k \in Seq(Ids), NEW s \in Seq(Updates), NEW t \in Seq(Updates),
         NEW u \in Updates, u.id \in Ids, Ordered(k, s, t)
  PROVE  Ordered(Append(k, u.id), s, Append(t, u))
  <1> DEFINE m == Append(k, u.id)
             v == Append(t, u)
  <1>1. /\ Len(k) \in Nat /\ Len(s) \in Nat /\ Len(t) \in Nat
        /\ Len(m) = Len(k) + 1 /\ m[Len(k) + 1] = u.id
        /\ \A i \in 1..Len(k) : m[i] = k[i]
        /\ Len(v) = Len(t) + 1 /\ v[Len(t) + 1] = u
        /\ \A i \in 1..Len(t) : v[i] = t[i]
    OBVIOUS
  <1> HIDE DEF m, v
  <1>2. Len(m) = Len(s) + Len(v)
    BY <1>1 DEF Ordered
  <1>3. ASSUME NEW i \in 1..Len(s) PROVE m[i] = s[i].id
    BY <1>1 DEF Ordered
  <1>4. ASSUME NEW i \in 1..Len(v) PROVE m[Len(s) + i] = v[i].id
    <2>1. CASE i = Len(t) + 1
      BY <1>1, <2>1 DEF Ordered
    <2>2. CASE i \in 1..Len(t)
      <3>1. Len(s) + i \in 1..Len(k)
        BY <1>1, <2>2 DEF Ordered
      <3>2. QED
        BY <1>1, <2>2, <3>1 DEF Ordered
    <2>3. QED
      BY <1>1, <2>1, <2>2
  <1>5. Ordered(m, s, v)
    BY <1>2, <1>3, <1>4 DEF Ordered
  <1>6. QED
    BY <1>5 DEF m, v

\* Taking the first frame off an ordered queue leaves an ordered queue.
LEMMA OrderedShift ==
  ASSUME NEW k \in Seq(Ids), NEW s \in Seq(Updates), NEW t \in Seq(Updates),
         t # <<>>, Ordered(k, s, t)
  PROVE  Ordered(k, Append(s, Head(t)), Tail(t))
  <1> DEFINE r == Append(s, Head(t))
             v == Tail(t)
  <1>1. /\ Len(s) \in Nat /\ Len(t) \in Nat \ {0}
        /\ Len(r) = Len(s) + 1 /\ r[Len(s) + 1] = t[1]
        /\ \A i \in 1..Len(s) : r[i] = s[i]
        /\ Len(v) = Len(t) - 1
        /\ \A i \in 1..Len(v) : v[i] = t[i + 1]
    OBVIOUS
  <1> HIDE DEF r, v
  <1>2. Len(k) = Len(r) + Len(v)
    BY <1>1 DEF Ordered
  <1>3. ASSUME NEW i \in 1..Len(r) PROVE k[i] = r[i].id
    <2>1. CASE i \in 1..Len(s)
      BY <1>1, <2>1 DEF Ordered
    <2>2. CASE i = Len(s) + 1
      BY <1>1, <2>2 DEF Ordered
    <2>3. QED
      BY <1>1, <2>1, <2>2
  <1>4. ASSUME NEW i \in 1..Len(v) PROVE k[Len(r) + i] = v[i].id
    <2>1. i + 1 \in 1..Len(t) /\ Len(r) + i = Len(s) + (i + 1)
      BY <1>1
    <2>2. QED
      BY <1>1, <2>1 DEF Ordered
  <1>5. Ordered(k, r, v)
    BY <1>2, <1>3, <1>4 DEF Ordered
  <1>6. QED
    BY <1>5 DEF r, v

\* Ordered says what StoreOrder says with sequence operators.
LEMMA OrderedConcat ==
  ASSUME NEW k \in Seq(Ids), NEW s \in Seq(Updates), NEW t \in Seq(Updates),
         Ordered(k, s, t)
  PROVE  k = IdsOf(s) \o IdsOf(t)
  <1>1. /\ IdsOf(s) \in Seq(Ids) /\ Len(IdsOf(s)) = Len(s)
        /\ IdsOf(t) \in Seq(Ids) /\ Len(IdsOf(t)) = Len(t)
        /\ \A i \in 1..Len(s) : IdsOf(s)[i] = s[i].id
        /\ \A i \in 1..Len(t) : IdsOf(t)[i] = t[i].id
    BY IdsOfType
  <1> DEFINE a == IdsOf(s)
             b == IdsOf(t)
  <1> HIDE DEF a, b
  <1>2. /\ a \in Seq(Ids) /\ b \in Seq(Ids) /\ Len(a) = Len(s) /\ Len(b) = Len(t)
        /\ \A i \in 1..Len(s) : a[i] = s[i].id
        /\ \A i \in 1..Len(t) : b[i] = t[i].id
    BY <1>1 DEF a, b
  <1>3. /\ a \o b \in Seq(Ids) /\ Len(a \o b) = Len(a) + Len(b)
        /\ \A i \in 1..(Len(a) + Len(b)) :
             (a \o b)[i] = IF i <= Len(a) THEN a[i] ELSE b[i - Len(a)]
    BY <1>2, ConcatProperties
  <1>4. ASSUME NEW i \in 1..Len(k) PROVE k[i] = (a \o b)[i]
    <2>1. CASE i <= Len(s)
      BY <1>2, <1>3, <2>1 DEF Ordered
    <2>2. CASE ~(i <= Len(s))
      <3>1. i - Len(s) \in 1..Len(t) /\ i = Len(s) + (i - Len(s))
        BY <2>2 DEF Ordered
      <3>2. k[i] = t[i - Len(s)].id
        BY <3>1 DEF Ordered
      <3>3. QED
        BY <1>2, <1>3, <2>2, <3>1, <3>2 DEF Ordered
    <2>3. QED
      BY <2>1, <2>2
  <1>5. Len(k) = Len(a \o b)
    BY <1>2, <1>3 DEF Ordered
  <1>6. k = a \o b
    BY <1>3, <1>4, <1>5, SeqEqual
  <1>7. QED
    BY <1>6 DEF a, b

OrderInv == Ordered(calls, updates, pending)

\* Every step of a room keeps its queued frames in the order of their counters.
LEMMA OrderInvStep == TypeInv /\ OrderInv /\ [RoomNext]_roomVars => OrderInv'
  <1> SUFFICES ASSUME TypeInv, OrderInv, [RoomNext]_roomVars PROVE OrderInv'
    OBVIOUS
  <1>t. updates \in Seq(Updates) /\ pending \in Seq(Updates) /\ calls \in Seq(Ids)
        /\ log \in Seq(Updates)
    BY DEF TypeInv, TypeOK
  <1>1. ASSUME UNCHANGED <<updates, pending, calls>> PROVE OrderInv'
    BY <1>1 DEF OrderInv, Ordered
  <1>2. ASSUME NEW u \in Updates, Admit(u) PROVE OrderInv'
    <2>1. /\ updates' = updates /\ pending' = Append(pending, u) /\ calls' = Append(calls, u.id)
      BY <1>2 DEF Admit, Frame
    <2>2. u.id \in Ids
      BY DEF Updates
    <2>3. Ordered(Append(calls, u.id), updates, Append(pending, u))
      BY <1>t, <2>2, OrderedPush DEF OrderInv
    <2>4. QED
      BY <2>1, <2>3 DEF OrderInv
  <1>3. ASSUME NEW u \in Updates, Resume(u), calls' = calls PROVE OrderInv'
    <2>1. /\ updates' = Append(updates, Head(pending)) /\ pending' = Tail(pending)
          /\ pending # <<>>
      BY <1>3 DEF Resume
    <2>2. Ordered(calls, Append(updates, Head(pending)), Tail(pending))
      BY <1>t, <2>1, OrderedShift DEF OrderInv
    <2>3. QED
      BY <1>3, <2>1, <2>2 DEF OrderInv
  <1>4. ASSUME Restart PROVE OrderInv'
    <2>1. updates' = log /\ pending' = <<>> /\ calls' = IdsOf(log)
      BY <1>4 DEF Restart
    <2>2. Len(IdsOf(log)) = Len(log) /\ \A i \in 1..Len(log) : IdsOf(log)[i] = log[i].id
      BY <1>t, IdsOfType
    <2>3. Ordered(IdsOf(log), log, <<>>)
      BY <1>t, <2>2 DEF Ordered
    <2>4. QED
      BY <2>1, <2>3 DEF OrderInv
  <1>5. QED
    BY <1>1, <1>2, <1>3, <1>4
       DEF RoomNext, Receive, Replay, Reject, Frame, EndOfChunk, WriteFails, Remember, roomVars

\* The room lists the updates in the order in which the store took them, followed by
\* those still at the await: for any burst of overlapping calls, failed writes and
\* restarts, #remember neither drops nor reorders what the store took.
THEOREM StoreOrderHolds == Spec => []StoreOrder
  <1>1. Init => OrderInv
    BY DEF Init, OrderInv, Ordered
  <1>2. TypeInv /\ OrderInv => StoreOrder
    BY OrderedConcat DEF StoreOrder, OrderInv, TypeInv, TypeOK
  <1>3. Spec => [](TypeInv /\ OrderInv)
    BY <1>1, TypeInvInit, TypeInvStep, OrderInvStep, NextIsRoomNext, PTL DEF Spec
  <1>4. QED
    BY <1>2, <1>3, PTL

----------------------------------------------------------------------------
(* The promise of UpdateLog.                                               *)

\* While calls do not overlap and rows are written: the rows are what memory holds,
\* vector has the largest counters, and the call at the await is still admissible.
SerialInv ==
  /\ failures = 0
  /\ log = updates
  /\ \A c \in Clients : vector[c] \in 0..MaxCounter /\ TopOf(updates, c, vector[c])
  /\ RememberedOnce
  /\ pending # <<>> => taken = 1
  /\ Len(pending) <= 1
  /\ \A i \in 1..Len(pending) : Admissible(pending[i])

\* So the one call that resumes is new, has the next counter, and gets its row.
LEMMA SerialResume ==
  ASSUME TypeInv, SerialInv, NEW u \in Updates, Resume(u)
  PROVE  /\ pending' = <<>>
         /\ ~Remembered(u.id) /\ u.counter = vector[u.client] + 1
         /\ updates' = Append(updates, u) /\ Insert(u) = Append(log, u)
         /\ vector' = [vector EXCEPT ![u.client] = u.counter]
  <1>1. /\ pending \in Seq(Updates) /\ updates \in Seq(Updates) /\ vector \in [Clients -> Nat]
        /\ u.client \in Clients /\ u.counter \in Nat
    <2>1. \A v \in Updates : v.client \in Clients /\ v.counter \in Nat
      BY RoomConstants DEF Updates
    <2>2. QED
      BY <2>1 DEF TypeInv, TypeOK
  <1>2. Len(pending) = 1 /\ u = pending[1] /\ pending' = Tail(pending)
    <2>1. Len(pending) <= 1 /\ pending # <<>> /\ u = Head(pending) /\ pending' = Tail(pending)
      BY DEF Resume, SerialInv
    <2>2. pending \in Seq(Updates)
      BY <1>1
    <2>3. Len(pending) \in Nat /\ Len(pending) # 0
      BY <2>1, <2>2, EmptySeq
    <2>4. Len(pending) = 1
      <3>1. \A n \in Nat : n <= 1 /\ n # 0 => n = 1
        OBVIOUS
      <3>2. QED
        BY <2>1, <2>3, <3>1, Zenon
    <2>5. Head(pending) = pending[1]
      BY <2>2, <2>4
    <2>6. QED
      BY <2>1, <2>4, <2>5
  <1>3. pending' = <<>>
    BY <1>1, <1>2
  <1>4. ~Remembered(u.id) /\ u.counter = vector[u.client] + 1
    BY <1>2 DEF SerialInv, Admissible, Expected
  <1>5. \A i \in 1..Len(log) : log[i].id # u.id
    BY <1>4 DEF SerialInv, Remembered
  <1>6. ASSUME NEW i \in 1..Len(log), log[i].client = u.client
        PROVE  log[i].counter # u.counter
    <2>1. log[i].counter <= vector[u.client] /\ vector[u.client] \in Nat
      BY <1>1, <1>6 DEF SerialInv, TopOf
    <2>2. log[i].counter \in Nat
      <3>1. log[i] \in Updates
        BY DEF TypeInv, TypeOK
      <3>2. \A v \in Updates : v.counter \in Nat
        BY RoomConstants DEF Updates
      <3>3. QED
        BY <3>1, <3>2
    <2>3. QED
      BY <1>4, <2>1, <2>2
  <1>7. Insert(u) = Append(log, u)
    BY <1>5, <1>6 DEF Insert
  <1>8. vector' = [vector EXCEPT ![u.client] = u.counter]
    <2>1. u.counter > vector[u.client]
      BY <1>1, <1>4
    <2>2. QED
      BY <2>1 DEF Resume
  <1>9. QED
    BY <1>3, <1>4, <1>7, <1>8 DEF Resume

\* With one update in a chunk and no failed write, every step keeps the rows equal to memory.
LEMMA SerialInvStep ==
  ASSUME Burst = 1, MaxFailures = 0
  PROVE  TypeInv /\ SerialInv /\ [RoomNext]_roomVars => SerialInv'
  <1> SUFFICES ASSUME TypeInv, SerialInv, [RoomNext]_roomVars PROVE SerialInv'
    OBVIOUS
  <1>t. /\ updates \in Seq(Updates) /\ pending \in Seq(Updates) /\ log \in Seq(Updates)
        /\ taken \in 0..1 /\ vector \in [Clients -> Nat]
    BY DEF TypeInv, TypeOK
  <1>s. ASSUME UNCHANGED <<updates, vector, log, failures>>,
               pending' # <<>> => taken' = 1, Len(pending') <= 1,
               \A i \in 1..Len(pending') : Admissible(pending'[i])
        PROVE  SerialInv'
    BY <1>s DEF SerialInv, RememberedOnce, TopOf, Admissible, Remembered, Expected
  <1>f. ASSUME NEW u \in Updates, Frame(u)
        PROVE  pending = <<>> /\ taken' = 1 /\ UNCHANGED <<updates, vector, log, failures>>
    BY <1>f, <1>t DEF Frame, SerialInv
  <1>1. ASSUME NEW u \in Updates, Replay(u) \/ Reject(u) PROVE SerialInv'
    <2>1. Frame(u) /\ pending' = pending
      BY <1>1 DEF Replay, Reject
    <2>2. QED
      BY <1>f, <1>s, <2>1
  <1>2. ASSUME NEW u \in Updates, Admit(u) PROVE SerialInv'
    <2>1. Frame(u) /\ Admissible(u) /\ pending' = Append(pending, u)
      BY <1>2 DEF Admit
    <2>2. pending = <<>> /\ taken' = 1
      BY <1>f, <2>1
    <2>3. Len(pending') = 1 /\ pending'[1] = u
      BY <1>t, <2>1, <2>2
    <2>4. QED
      BY <1>f, <1>s, <2>1, <2>2, <2>3
  <1>3. ASSUME EndOfChunk PROVE SerialInv'
    <2>1. UNCHANGED <<updates, vector, log, failures>> /\ pending = <<>> /\ pending' = <<>>
      BY <1>3 DEF EndOfChunk
    <2>2. QED
      BY <1>s, <2>1
  <1>4. ASSUME Restart PROVE SerialInv'
    <2>1. \A c \in Clients : Highest(log, c) = vector[c]
      BY <1>t, HighestType DEF SerialInv, TopOf
    <2>2. vector' = vector
      BY <1>4, <1>t, <2>1 DEF Restart
    <2>3. UNCHANGED <<updates, vector, log, failures>> /\ pending' = <<>>
      BY <1>4, <2>2 DEF Restart, SerialInv
    <2>4. QED
      BY <1>s, <2>3
  <1>5. ASSUME NEW u \in Updates, WriteFails(u) PROVE SerialInv'
    BY <1>5 DEF WriteFails, SerialInv
  <1>6. ASSUME NEW u \in Updates, NEW emits \in BOOLEAN, Remember(u, emits) PROVE SerialInv'
    <2>1. Resume(u) /\ log' = Insert(u) /\ failures' = failures
      BY <1>6 DEF Remember
    <2>2. /\ pending' = <<>> /\ updates' = Append(updates, u) /\ log' = updates'
          /\ vector' = [vector EXCEPT ![u.client] = u.counter]
          /\ ~Remembered(u.id) /\ u.counter = vector[u.client] + 1
      BY <2>1, SerialResume DEF SerialInv
    <2>3. u.client \in Clients /\ u.counter \in 1..MaxCounter /\ MaxCounter \in Nat
      BY RoomConstants DEF Updates
    <2>4. ASSUME NEW c \in Clients
          PROVE  vector'[c] \in 0..MaxCounter /\ TopOf(updates', c, vector'[c])
      <3>1. vector[c] \in 0..MaxCounter /\ TopOf(updates, c, vector[c])
        BY DEF SerialInv
      <3>2. vector'[c] = IF u.client = c /\ u.counter > vector[c] THEN u.counter ELSE vector[c]
        BY <1>t, <2>2, <2>3
      <3>3. TopOf(Append(updates, u), c, vector'[c])
        BY <1>t, <3>1, <3>2, TopOfAppend
      <3>4. QED
        BY <2>2, <2>3, <3>1, <3>2, <3>3
    <2>5. RememberedOnce'
      <3>1. /\ Len(updates') = Len(updates) + 1 /\ updates'[Len(updates) + 1] = u
            /\ Len(updates) \in Nat
            /\ \A i \in 1..Len(updates) : updates'[i] = updates[i]
        BY <1>t, <2>2
      <3>2. \A i \in 1..Len(updates) : updates[i].id # u.id
        BY <2>2 DEF Remembered
      <3>3. QED
        BY <3>1, <3>2 DEF SerialInv, RememberedOnce
    <2>6. QED
      BY <2>1, <2>2, <2>4, <2>5 DEF SerialInv
  <1>7. CASE UNCHANGED roomVars
    <2>1. UNCHANGED <<updates, vector, log, failures, pending, taken>>
      BY <1>7 DEF roomVars
    <2>2. /\ pending' # <<>> => taken' = 1
          /\ Len(pending') <= 1
          /\ \A i \in 1..Len(pending') : Admissible(pending'[i])
      BY <2>1 DEF SerialInv
    <2>3. QED
      BY <1>s, <2>1, <2>2
  <1>8. QED
    BY <1>1, <1>2, <1>3, <1>4, <1>5, <1>6, <1>7 DEF RoomNext, Receive

\* A room just opened on an empty table has equal, empty memory and rows.
LEMMA SerialInvInit == Init => SerialInv
  BY RoomConstants DEF Init, SerialInv, TopOf, RememberedOnce

\* The only step of the room that changes what it promises about is #remember, and it
\* appends the next update of its client.
LEMMA PromiseStep ==
  ASSUME Burst = 1, MaxFailures = 0
  PROVE  TypeInv /\ SerialInv /\ SerialInv' /\ [RoomNext]_roomVars
           => [Promise!Next]_<<updates, vector>>
  <1> SUFFICES ASSUME TypeInv, SerialInv, SerialInv', [RoomNext]_roomVars
               PROVE  [Promise!Next]_<<updates, vector>>
    OBVIOUS
  <1>1. ASSUME NEW u \in Updates, Resume(u) PROVE Promise!Next
    <2>1. /\ u.id \in Ids /\ u.client \in Clients
          /\ u = [id |-> u.id, client |-> u.client, counter |-> u.counter]
      BY DEF Updates
    <2>2. /\ updates' = Append(updates, u) /\ u.counter = vector[u.client] + 1
          /\ vector' = [vector EXCEPT ![u.client] = u.counter] /\ ~Remembered(u.id)
      BY <1>1, SerialResume
    <2>3. Promise!AppendUpdate(u.id, u.client)
      BY <2>1, <2>2 DEF Promise!AppendUpdate, Remembered
    <2>4. QED
      BY <2>1, <2>3 DEF Promise!Next
  <1>2. ASSUME Restart PROVE UNCHANGED <<updates, vector>>
    <2>1. ASSUME NEW c \in Clients PROVE Highest(log, c) = vector[c]
      <3>1. log \in Seq(Updates) /\ vector[c] \in 0..MaxCounter
        BY DEF SerialInv, TypeInv, TypeOK
      <3>2. TopOf(log, c, vector[c])
        BY DEF SerialInv
      <3>3. QED
        BY <3>1, <3>2, HighestType DEF TopOf
    <2>2. QED
      BY <1>2, <2>1 DEF Restart, SerialInv, TypeInv, TypeOK
  <1>3. QED
    BY <1>1, <1>2
       DEF RoomNext, Receive, Frame, Replay, Admit, Reject, EndOfChunk, WriteFails,
           Remember, roomVars

\* A room whose calls do not overlap and whose rows are written implements UpdateLog:
\* whatever is retried, repeated, sent out of order or interrupted by a restart, it is
\* an append-only log in which no id occurs twice and each client counts 1, 2, 3, ...
THEOREM RoomKeepsPromise ==
  ASSUME Burst = 1, MaxFailures = 0
  PROVE  Spec => PromiseKept
  <1>1. Init => Promise!Init
    BY DEF Init, Promise!Init
  <1>2. Spec => [](TypeInv /\ SerialInv)
    <2>1. TypeInv /\ SerialInv /\ [Next]_roomVars => (TypeInv /\ SerialInv)'
      BY TypeInvStep, SerialInvStep, NextIsRoomNext
    <2>2. QED
      BY <2>1, TypeInvInit, SerialInvInit, PTL DEF Spec
  <1>3. TypeInv /\ SerialInv /\ (TypeInv /\ SerialInv)' /\ [Next]_roomVars
          => [Promise!Next]_<<updates, vector>>
    BY PromiseStep, NextIsRoomNext
  <1>4. QED
    BY <1>1, <1>2, <1>3, PTL DEF Spec, PromiseKept, Promise!Spec

----------------------------------------------------------------------------
(* Answered updates and their rows.                                        *)

\* The sequence s holds updates their ids stand for.
Issues(f, s) == \A i \in 1..Len(s) : f[s[i].id] = s[i]

\* Rowed, of the rows l.
RowIn(l, u) ==
  \E i \in 1..Len(l) : /\ l[i].client = u.client /\ l[i].counter = u.counter
                       /\ Burst = 1 => l[i].id = u.id

\* While calls do not overlap, the call at the await has the next counter of its client, and
\* no row has a counter beyond the vector.
AloneInv ==
  /\ \A i \in 1..Len(log) : log[i].counter <= vector[log[i].client]
  /\ pending # <<>> => taken = 1
  /\ Len(pending) <= 1
  /\ \A i \in 1..Len(pending) : pending[i].counter = vector[pending[i].client] + 1

\* What is remembered has its row or was refused one, and so has what was answered.
DurableInv ==
  /\ Issues(issued, updates) /\ Issues(issued, pending) /\ Issues(issued, log)
  /\ \A i \in 1..Len(updates) : updates[i].id \in unwritten \/ RowIn(log, updates[i])
  /\ \A id \in answered : issued[id] # None /\ (id \in unwritten \/ RowIn(log, issued[id]))
  /\ Burst = 1 => AloneInv

\* A row more takes no row away, and is the row of its update.
LEMMA RowStays ==
  ASSUME NEW l \in Seq(Updates), NEW u \in Updates
  PROVE  /\ RowIn(Append(l, u), u)
         /\ \A v : RowIn(l, v) => RowIn(Append(l, u), v)
  <1> DEFINE m == Append(l, u)
  <1>1. /\ Len(m) = Len(l) + 1 /\ Len(l) \in Nat /\ m[Len(m)] = u /\ Len(m) \in 1..Len(m)
        /\ \A i \in 1..Len(l) : m[i] = l[i] /\ i \in 1..Len(m)
    OBVIOUS
  <1>2. RowIn(m, u)
    BY <1>1 DEF RowIn
  <1>3. ASSUME NEW v, RowIn(l, v) PROVE RowIn(m, v)
    BY <1>1, <1>3 DEF RowIn
  <1>4. QED
    BY <1>2, <1>3

\* One more update of its id, and the sequence still holds updates their ids stand for.
LEMMA IssuesAppend ==
  ASSUME NEW s \in Seq(Updates), NEW u \in Updates, NEW f, Issues(f, s), f[u.id] = u
  PROVE  Issues(f, Append(s, u))
  <1>1. /\ Len(Append(s, u)) = Len(s) + 1 /\ Len(s) \in Nat /\ Append(s, u)[Len(s) + 1] = u
        /\ \A i \in 1..Len(s) : Append(s, u)[i] = s[i]
    OBVIOUS
  <1>2. QED
    BY <1>1 DEF Issues

\* An id that stands for an update goes on standing for it.
LEMMA IssuesStay ==
  ASSUME NEW s \in Seq(Updates), NEW f, NEW g, Issues(f, s),
         \A id \in Ids : f[id] # None => g[id] = f[id]
  PROVE  Issues(g, s)
  <1>1. \A u \in Updates : u # None /\ u.id \in Ids
    BY RoomConstants DEF Updates
  <1>2. ASSUME NEW i \in 1..Len(s) PROVE g[s[i].id] = s[i]
    <2>1. s[i] \in Updates /\ f[s[i].id] = s[i]
      BY DEF Issues
    <2>2. QED
      BY <1>1, <2>1
  <1>3. QED
    BY <1>2 DEF Issues

\* A step that adds no row and remembers nothing keeps the invariant if what it answers was
\* remembered before.
LEMMA DurableFrame ==
  ASSUME TypeInv, DurableInv, UNCHANGED <<updates, vector, log, unwritten>>,
         \A id \in Ids : issued[id] # None => issued'[id] = issued[id],
         Issues(issued', pending'), Burst = 1 => AloneInv',
         \A id \in answered' : id \in answered \/ \E i \in 1..Len(updates) : updates[i].id = id
  PROVE  DurableInv'
  <1>n. /\ \A u \in Updates : u # None /\ u.id \in Ids
        /\ updates \in Seq(Updates) /\ log \in Seq(Updates) /\ answered \in SUBSET Ids
    BY RoomConstants DEF TypeInv, TypeOK, Updates
  <1>1. Issues(issued', updates') /\ Issues(issued', log')
    BY <1>n, IssuesStay DEF DurableInv
  <1>2. ASSUME NEW id \in answered'
        PROVE  issued'[id] # None /\ (id \in unwritten' \/ RowIn(log', issued'[id]))
    <2>1. CASE id \in answered
      BY <1>n, <2>1 DEF DurableInv
    <2>2. ASSUME NEW i \in 1..Len(updates), updates[i].id = id
          PROVE  issued'[id] # None /\ (id \in unwritten' \/ RowIn(log', issued'[id]))
      <3>1. updates[i] \in Updates /\ issued'[id] = updates[i]
        BY <1>n, <1>1, <2>2 DEF Issues
      <3>2. QED
        BY <1>n, <2>2, <3>1 DEF DurableInv
    <2>3. QED
      BY <1>2, <2>1, <2>2
  <1>3. QED
    BY <1>1, <1>2 DEF DurableInv

\* INSERT OR IGNORE leaves a row for the update it is given.
LEMMA InsertRows ==
  ASSUME TypeInv, DurableInv, NEW u \in Updates, Resume(u)
  PROVE  RowIn(Insert(u), u) /\ (Insert(u) = log \/ Insert(u) = Append(log, u))
  <1>t. /\ log \in Seq(Updates) /\ pending \in Seq(Updates) /\ vector \in [Clients -> Nat]
        /\ u.counter \in Nat /\ u.client \in Clients
    BY RoomConstants DEF TypeInv, TypeOK, Updates
  <1>p. u = pending[1] /\ 1 \in 1..Len(pending)
    BY <1>t DEF Resume
  <1>u. issued[u.id] = u
    BY <1>p DEF DurableInv, Issues
  <1>1. ASSUME NEW i \in 1..Len(log), log[i].id = u.id PROVE RowIn(log, u)
    <2>1. log[i] = u
      BY <1>u, <1>1 DEF DurableInv, Issues
    <2>2. QED
      BY <2>1 DEF RowIn
  <1>2. ASSUME NEW i \in 1..Len(log), log[i].client = u.client, log[i].counter = u.counter
        PROVE  RowIn(log, u)
    <2>1. ASSUME Burst = 1 PROVE FALSE
      <3>1. u.counter = vector[u.client] + 1
        BY <1>p, <2>1 DEF DurableInv, AloneInv
      <3>2. u.counter <= vector[u.client]
        BY <1>2, <2>1 DEF DurableInv, AloneInv
      <3>3. vector[u.client] \in Nat
        BY <1>t
      <3>4. QED
        BY <3>1, <3>2, <3>3
    <2>2. QED
      BY <1>2, <2>1 DEF RowIn
  <1>3. QED
    BY <1>t, <1>1, <1>2, RowStays DEF Insert

\* While calls do not overlap, taking an update from the await keeps AloneInv.
LEMMA AloneResume ==
  ASSUME TypeInv, AloneInv, NEW u \in Updates, Resume(u), log' = log \/ log' = Append(log, u)
  PROVE  AloneInv'
  <1>t. /\ log \in Seq(Updates) /\ pending \in Seq(Updates) /\ vector \in [Clients -> Nat]
        /\ u.counter \in Nat /\ u.client \in Clients
        /\ \A v \in Updates : v.client \in Clients /\ v.counter \in Nat
    BY RoomConstants DEF TypeInv, TypeOK, Updates
  <1>1. pending' = <<>>
    BY <1>t DEF Resume, AloneInv
  <1>2. /\ \A c \in Clients : vector[c] \in Nat /\ vector'[c] \in Nat /\ vector[c] <= vector'[c]
        /\ u.counter <= vector'[u.client]
    BY <1>t DEF Resume
  <1>3. \A i \in 1..Len(log) : log[i].counter <= vector'[log[i].client]
    <2> SUFFICES ASSUME NEW i \in 1..Len(log) PROVE log[i].counter <= vector'[log[i].client]
      OBVIOUS
    <2>1. log[i] \in Updates /\ log[i].counter <= vector[log[i].client]
      BY <1>t DEF AloneInv
    <2>2. log[i].client \in Clients /\ log[i].counter \in Nat
      BY <1>t, <2>1
    <2>3. QED
      BY <1>2, <2>1, <2>2
  <1>4. \A i \in 1..Len(log') : log'[i].counter <= vector'[log'[i].client]
    <2>1. CASE log' = log
      BY <1>3, <2>1
    <2>2. CASE log' = Append(log, u)
      <3>1. /\ Len(log') = Len(log) + 1 /\ log'[Len(log) + 1] = u
            /\ Len(log) \in Nat /\ \A i \in 1..Len(log) : log'[i] = log[i]
        BY <1>t, <2>2
      <3>2. QED
        BY <1>2, <1>3, <3>1
    <2>3. QED
      BY <2>1, <2>2
  <1>5. QED
    BY <1>1, <1>4 DEF AloneInv

\* Memory takes one update more, whose row is there or was refused.
LEMMA DurableResume ==
  ASSUME TypeInv, DurableInv, NEW u \in Updates, Resume(u), issued' = issued,
         log' = log \/ log' = Append(log, u),
         u.id \in unwritten' \/ RowIn(log', u),
         \A id \in unwritten : id # u.id => id \in unwritten',
         answered' \subseteq answered \cup {u.id}
  PROVE  DurableInv'
  <1>t. /\ log \in Seq(Updates) /\ pending \in Seq(Updates) /\ updates \in Seq(Updates) /\ u # None
    BY RoomConstants DEF TypeInv, TypeOK
  <1>p. u = pending[1] /\ 1 \in 1..Len(pending) /\ pending' = Tail(pending)
    BY <1>t DEF Resume
  <1>u. issued[u.id] = u
    BY <1>p DEF DurableInv, Issues
  <1>1. Issues(issued', updates')
    BY <1>t, <1>u, IssuesAppend DEF DurableInv, Resume
  <1>2. Issues(issued', pending')
    <2>1. /\ Len(pending') = Len(pending) - 1 /\ Len(pending) \in Nat
          /\ \A i \in 1..Len(pending') : pending'[i] = pending[i + 1] /\ i + 1 \in 1..Len(pending)
      BY <1>t, <1>p
    <2>2. QED
      BY <2>1 DEF DurableInv, Issues
  <1>3. Issues(issued', log')
    BY <1>t, <1>u, IssuesAppend DEF DurableInv
  <1>4. ASSUME NEW id, id \in unwritten \/ RowIn(log, issued[id])
        PROVE  id \in unwritten' \/ RowIn(log', issued[id])
    <2>1. CASE id = u.id
      BY <1>u, <2>1
    <2>2. CASE id # u.id
      BY <1>t, <1>4, <2>2, RowStays
    <2>3. QED
      BY <2>1, <2>2
  <1>5. ASSUME NEW i \in 1..Len(updates')
        PROVE  updates'[i].id \in unwritten' \/ RowIn(log', updates'[i])
    <2>1. /\ Len(updates') = Len(updates) + 1 /\ updates'[Len(updates) + 1] = u
          /\ Len(updates) \in Nat /\ \A j \in 1..Len(updates) : updates'[j] = updates[j]
      BY <1>t DEF Resume
    <2>2. CASE i = Len(updates) + 1
      BY <2>1, <2>2
    <2>3. CASE i \in 1..Len(updates)
      <3>1. updates'[i] = updates[i] /\ issued[updates[i].id] = updates[i]
        BY <2>1, <2>3 DEF DurableInv, Issues
      <3>2. updates[i].id \in unwritten \/ RowIn(log, updates[i])
        BY <2>3 DEF DurableInv
      <3>3. QED
        BY <1>4, <3>1, <3>2
    <2>4. QED
      BY <1>5, <2>1, <2>2, <2>3
  <1>6. ASSUME NEW id \in answered'
        PROVE  issued'[id] # None /\ (id \in unwritten' \/ RowIn(log', issued'[id]))
    <2>1. CASE id \in answered
      BY <1>4, <2>1 DEF DurableInv
    <2>2. CASE id = u.id
      BY <1>t, <1>u, <2>2
    <2>3. QED
      BY <1>6, <2>1, <2>2
  <1>7. Burst = 1 => AloneInv'
    BY AloneResume DEF DurableInv
  <1>8. QED
    BY <1>1, <1>2, <1>3, <1>5, <1>6, <1>7 DEF DurableInv

\* A new process remembers the rows.
LEMMA DurableRestart == TypeInv /\ DurableInv /\ Restart => DurableInv'
  <1> SUFFICES ASSUME TypeInv, DurableInv, Restart PROVE DurableInv'
    OBVIOUS
  <1>t. log \in Seq(Updates) /\ \A v \in Updates : v.client \in Clients /\ v.counter \in Nat
    BY RoomConstants DEF TypeInv, TypeOK, Updates
  <1>1. /\ updates' = log /\ log' = log /\ pending' = <<>> /\ issued' = issued
        /\ answered' = answered /\ unwritten' = unwritten
        /\ vector' = [c \in Clients |-> Highest(log, c)]
    BY DEF Restart
  <1>2. \A i \in 1..Len(log) : RowIn(log, log[i])
    BY DEF RowIn
  <1>3. ASSUME NEW i \in 1..Len(log) PROVE log[i].counter <= vector'[log[i].client]
    <2>1. log[i].client \in Clients
      BY <1>t
    <2>2. PICK n \in 0..MaxCounter : TopOf(log, log[i].client, n)
      BY <2>1 DEF TypeInv, Topped
    <2>3. Highest(log, log[i].client) = n
      BY <1>t, <2>1, <2>2, HighestType DEF TopOf
    <2>4. QED
      BY <1>1, <2>1, <2>2, <2>3 DEF TopOf
  <1>4. AloneInv'
    BY <1>1, <1>3 DEF AloneInv
  <1>5. Issues(issued', pending')
    BY <1>1 DEF Issues
  <1>6. QED
    BY <1>1, <1>2, <1>4, <1>5 DEF DurableInv

\* A frame keeps what the ids stand for, and while calls do not overlap it finds none pending.
LEMMA DurableTaken ==
  ASSUME TypeInv, DurableInv, NEW u \in Updates, Frame(u)
  PROVE  /\ UNCHANGED <<updates, vector, log, unwritten>>
         /\ issued'[u.id] = u /\ u.id \in Ids /\ taken' = taken + 1
         /\ \A id \in Ids : issued[id] # None => issued'[id] = issued[id]
         /\ Burst = 1 => pending = <<>> /\ taken' = 1
  <1>t. u.id \in Ids /\ issued \in [Ids -> Updates \cup {None}] /\ taken \in 0..Burst
    BY DEF TypeInv, TypeOK, Updates
  <1>1. \A id \in Ids : issued[id] # None => issued'[id] = issued[id]
    BY <1>t DEF Frame
  <1>2. ASSUME Burst = 1 PROVE pending = <<>> /\ taken' = 1
    <2>1. taken = 0
      BY <1>t, <1>2 DEF Frame
    <2>2. pending = <<>>
      BY <1>2, <2>1 DEF DurableInv, AloneInv
    <2>3. QED
      BY <2>1, <2>2 DEF Frame
  <1>3. QED
    BY <1>t, <1>1, <1>2 DEF Frame

\* Every step of the room keeps what is known of answers and rows.
LEMMA DurableStep == TypeInv /\ DurableInv /\ [RoomNext]_roomVars => DurableInv'
  <1> SUFFICES ASSUME TypeInv, DurableInv, [RoomNext]_roomVars PROVE DurableInv'
    OBVIOUS
  <1>t. /\ pending \in Seq(Updates) /\ updates \in Seq(Updates)
        /\ issued \in [Ids -> Updates \cup {None}]
    BY DEF TypeInv, TypeOK
  <1>1. ASSUME NEW u \in Updates, Replay(u) \/ Reject(u) PROVE DurableInv'
    <2>1. Frame(u) /\ pending' = pending
      BY <1>1 DEF Replay, Reject
    <2>2. Issues(issued', pending')
      BY <1>t, <2>1, DurableTaken, IssuesStay DEF DurableInv
    <2>3. Burst = 1 => AloneInv'
      BY <2>1, DurableTaken DEF DurableInv, AloneInv
    <2>4. \A id \in answered' : id \in answered \/ \E i \in 1..Len(updates) : updates[i].id = id
      BY <1>1 DEF Replay, Reject, Remembered, Duplicates
    <2>5. QED
      BY <2>1, <2>2, <2>3, <2>4, DurableTaken, DurableFrame
  <1>2. ASSUME NEW u \in Updates, Admit(u) PROVE DurableInv'
    <2>1. /\ Frame(u) /\ u.counter = vector[u.client] + 1 /\ pending' = Append(pending, u)
          /\ answered' = answered
      BY <1>2 DEF Admit, Admissible, Expected
    <2>2. Issues(issued', pending')
      BY <1>t, <2>1, DurableTaken, IssuesStay, IssuesAppend DEF DurableInv
    <2>3. ASSUME Burst = 1 PROVE AloneInv'
      <3>1. pending = <<>> /\ taken' = 1 /\ UNCHANGED <<vector, log>>
        BY <2>1, <2>3, DurableTaken
      <3>2. Len(pending') = 1 /\ pending'[1] = u
        BY <1>t, <2>1, <3>1
      <3>3. QED
        BY <2>1, <2>3, <3>1, <3>2 DEF DurableInv, AloneInv
    <2>4. QED
      BY <2>1, <2>2, <2>3, DurableTaken, DurableFrame
  <1>3. ASSUME EndOfChunk PROVE DurableInv'
    <2>1. /\ UNCHANGED <<updates, vector, log, unwritten, issued, pending, answered>>
          /\ pending = <<>>
      BY <1>3 DEF EndOfChunk
    <2>2. Burst = 1 => AloneInv'
      BY <2>1 DEF DurableInv, AloneInv
    <2>3. Issues(issued', pending')
      BY <2>1 DEF DurableInv
    <2>4. QED
      BY <2>1, <2>2, <2>3, DurableFrame
  <1>4. CASE Restart
    BY <1>4, DurableRestart
  <1>5. ASSUME NEW u \in Updates, WriteFails(u) PROVE DurableInv'
    <2>1. /\ Resume(u) /\ issued' = issued /\ log' = log /\ answered' = answered
          /\ unwritten' = unwritten \cup {u.id}
      BY <1>5 DEF WriteFails
    <2>2. QED
      BY <2>1, DurableResume
  <1>6. ASSUME NEW u \in Updates, NEW emits \in BOOLEAN, Remember(u, emits) PROVE DurableInv'
    <2>1. /\ Resume(u) /\ issued' = issued /\ log' = Insert(u)
          /\ answered' \subseteq answered \cup {u.id} /\ unwritten' = unwritten \ {u.id}
      BY <1>6 DEF Remember
    <2>2. RowIn(log', u) /\ (log' = log \/ log' = Append(log, u))
      BY <2>1, InsertRows
    <2>3. QED
      BY <2>1, <2>2, DurableResume
  <1>7. CASE UNCHANGED roomVars
    <2>1. UNCHANGED <<updates, vector, log, unwritten, issued, pending, answered, taken>>
      BY <1>7 DEF roomVars
    <2>2. (Burst = 1 => AloneInv') /\ Issues(issued', pending')
      BY <2>1 DEF DurableInv, AloneInv
    <2>3. QED
      BY <2>1, <2>2, DurableFrame
  <1>8. QED
    BY <1>1, <1>2, <1>3, <1>4, <1>5, <1>6, <1>7 DEF RoomNext, Receive

\* An answered update whose row the database did not refuse has its row, whatever is retried,
\* repeated, overlaps, fails or is interrupted by a restart; the row has its id, too, if calls
\* do not overlap.
THEOREM AnswersAreDurable == Spec => []AnsweredIsDurable
  <1>1. Init => DurableInv
    BY RoomConstants DEF Init, DurableInv, AloneInv, Issues
  <1>2. TypeInv /\ DurableInv /\ [Next]_roomVars => (TypeInv /\ DurableInv)'
    BY TypeInvStep, DurableStep, NextIsRoomNext
  <1>3. DurableInv => AnsweredIsDurable
    BY DEF DurableInv, AnsweredIsDurable, Rowed, RowIn
  <1>4. QED
    BY <1>1, <1>2, <1>3, TypeInvInit, PTL DEF Spec

----------------------------------------------------------------------------
(* Gaps.                                                                   *)

\* The updates s have one of client c with counter k.
Has(s, c, k) == \E i \in 1..Len(s) : s[i].client = c /\ s[i].counter = k

\* The counters of client c are 1, ..., n.
Counts(s, c, n) == \A k \in Nat : Has(s, c, k) <=> k \in 1..n

\* Counts says what Numbered says with a set.
LEMMA CountsNumbered ==
  ASSUME NEW s \in Seq(Updates), NEW c \in Clients, NEW n \in Nat, Counts(s, c, n)
  PROVE  Numbered(s, c, n)
  <1> DEFINE mine == {s[i].counter : i \in {j \in 1..Len(s) : s[j].client = c}}
  <1>1. \A i \in 1..Len(s) : s[i].counter \in Nat
    <2>1. \A v \in Updates : v.counter \in Nat
      BY RoomConstants DEF Updates
    <2>2. QED
      BY <2>1
  <1>2. \A k : k \in mine <=> Has(s, c, k)
    BY DEF Has
  <1>3. \A k : Has(s, c, k) => k \in Nat
    BY <1>1 DEF Has
  <1>4. \A k : k \in mine <=> k \in 1..n
    BY <1>2, <1>3 DEF Counts
  <1>5. QED
    BY <1>4 DEF Numbered

\* One more update, whose counter leaves no gap.
LEMMA CountsAppend ==
  ASSUME NEW s \in Seq(Updates), NEW u \in Updates, NEW c \in Clients, NEW n \in Nat,
         Counts(s, c, n), u.client = c => u.counter <= n + 1
  PROVE  Counts(Append(s, u), c, IF u.client = c /\ u.counter > n THEN u.counter ELSE n)
  <1> DEFINE t == Append(s, u)
             m == IF u.client = c /\ u.counter > n THEN u.counter ELSE n
  <1>1. /\ Len(t) = Len(s) + 1 /\ Len(s) \in Nat /\ t[Len(s) + 1] = u
        /\ \A i \in 1..Len(s) : t[i] = s[i]
    OBVIOUS
  <1>2. u.counter \in Nat \ {0}
    BY RoomConstants DEF Updates
  <1> HIDE DEF t
  <1>3. \A k : Has(t, c, k) <=> Has(s, c, k) \/ (u.client = c /\ u.counter = k)
    BY <1>1 DEF Has
  <1>4. ASSUME NEW k \in Nat PROVE Has(t, c, k) <=> k \in 1..m
    BY <1>2, <1>3 DEF Counts
  <1>5. QED
    BY <1>4 DEF Counts, t

\* Each id stands for one update; no call at the await is more than one ahead of the
\* vector; and memory and rows have the counters up to the vector, memory until a restart
\* after a failed write and the rows until that write.
GapInv ==
  /\ \A i \in 1..Len(pending) : /\ issued[pending[i].id] = pending[i]
                                /\ pending[i].counter <= vector[pending[i].client] + 1
  /\ \A i \in 1..Len(log) : issued[log[i].id] = log[i]
  /\ failures = 0 \/ restarts = 0 => \A c \in Clients : Counts(updates, c, vector[c])
  /\ failures = 0 => \A c \in Clients : Counts(log, c, vector[c])

\* What #remember does to the counters.
LEMMA GapResume ==
  ASSUME TypeInv, GapInv, NEW u \in Updates, Resume(u), UNCHANGED issued
  PROVE  /\ \A i \in 1..Len(pending') : /\ issued'[pending'[i].id] = pending'[i]
                                        /\ pending'[i].counter <= vector'[pending'[i].client] + 1
         /\ issued[u.id] = u /\ u.client \in Clients
         /\ \A c \in Clients : /\ vector[c] \in Nat
                               /\ u.client = c => u.counter <= vector[c] + 1
                               /\ vector'[c] = IF u.client = c /\ u.counter > vector[c]
                                                 THEN u.counter ELSE vector[c]
  <1>1. /\ pending \in Seq(Updates) /\ vector \in [Clients -> Nat]
        /\ u.client \in Clients /\ u.counter \in Nat
        /\ \A v \in Updates : v.client \in Clients /\ v.counter \in Nat
    BY RoomConstants DEF TypeInv, TypeOK, Updates
  <1>2. /\ Len(pending) \in Nat \ {0} /\ u = pending[1]
        /\ pending' \in Seq(Updates)
        /\ Len(pending') = Len(pending) - 1
        /\ \A i \in 1..Len(pending') : pending'[i] = pending[i + 1]
    BY <1>1, EmptySeq DEF Resume
  <1>3. \A c \in Clients : vector'[c] = IF u.client = c /\ u.counter > vector[c]
                                          THEN u.counter ELSE vector[c]
    BY <1>1 DEF Resume
  <1>4. \A c \in Clients : vector[c] \in Nat /\ vector'[c] \in Nat /\ vector[c] <= vector'[c]
    BY <1>1, <1>3
  <1>5. issued[u.id] = u /\ u.counter <= vector[u.client] + 1
    BY <1>2 DEF GapInv
  <1>6. ASSUME NEW i \in 1..Len(pending')
        PROVE  /\ issued'[pending'[i].id] = pending'[i]
               /\ pending'[i].counter <= vector'[pending'[i].client] + 1
    <2>1. i + 1 \in 1..Len(pending) /\ pending'[i] = pending[i + 1] /\ pending'[i] \in Updates
      BY <1>2
    <2>2. /\ issued[pending'[i].id] = pending'[i]
          /\ pending'[i].counter <= vector[pending'[i].client] + 1
      BY <2>1 DEF GapInv
    <2>3. pending'[i].client \in Clients /\ pending'[i].counter \in Nat
      BY <1>1, <2>1
    <2>4. QED
      BY <1>4, <2>2, <2>3
  <1>7. QED
    BY <1>1, <1>3, <1>4, <1>5, <1>6

\* Memory keeps counting through #remember, and the rows when the row is written.
LEMMA GapRemember ==
  ASSUME TypeInv, GapInv, NEW u \in Updates, Resume(u), UNCHANGED issued
  PROVE  /\ failures = 0 \/ restarts = 0 => \A c \in Clients : Counts(updates', c, vector'[c])
         /\ failures = 0 => \A c \in Clients : Counts(Insert(u), c, vector'[c])
         /\ \A i \in 1..Len(Insert(u)) : issued[Insert(u)[i].id] = Insert(u)[i]
  <1>1. /\ updates \in Seq(Updates) /\ log \in Seq(Updates) /\ updates' = Append(updates, u)
    BY DEF TypeInv, TypeOK, Resume
  <1>2. /\ issued[u.id] = u /\ u.client \in Clients
        /\ \A c \in Clients : /\ vector[c] \in Nat
                              /\ u.client = c => u.counter <= vector[c] + 1
                              /\ vector'[c] = IF u.client = c /\ u.counter > vector[c]
                                                THEN u.counter ELSE vector[c]
    BY GapResume
  <1>3. ASSUME failures = 0 \/ restarts = 0, NEW c \in Clients
        PROVE  Counts(updates', c, vector'[c])
    <2>1. Counts(updates, c, vector[c])
      BY <1>3 DEF GapInv
    <2>2. Counts(Append(updates, u), c, vector'[c])
      BY <1>1, <1>2, <2>1, CountsAppend
    <2>3. QED
      BY <1>1, <2>2
  <1>4. CASE Insert(u) = Append(log, u)
    <2>1. ASSUME failures = 0, NEW c \in Clients PROVE Counts(Insert(u), c, vector'[c])
      <3>1. Counts(log, c, vector[c])
        BY <2>1 DEF GapInv
      <3>2. Counts(Append(log, u), c, vector'[c])
        BY <1>1, <1>2, <3>1, CountsAppend
      <3>3. QED
        BY <1>4, <3>2
    <2> DEFINE rows == Insert(u)
    <2>2. /\ Len(rows) = Len(log) + 1 /\ Len(log) \in Nat /\ rows[Len(log) + 1] = u
          /\ \A i \in 1..Len(log) : rows[i] = log[i]
      BY <1>1, <1>4
    <2> HIDE DEF rows
    <2>3. \A i \in 1..Len(rows) : issued[rows[i].id] = rows[i]
      BY <1>2, <2>2 DEF GapInv
    <2>4. QED
      BY <1>3, <2>1, <2>3 DEF rows
  <1>5. CASE \E i \in 1..Len(log) :
               log[i].id = u.id \/ (log[i].client = u.client /\ log[i].counter = u.counter)
    <2>1. Insert(u) = log
      BY <1>5 DEF Insert
    <2>2. Has(log, u.client, u.counter)
      BY <1>2, <1>5 DEF GapInv, Has
    <2>3. ASSUME failures = 0, NEW c \in Clients PROVE Counts(log, c, vector'[c])
      <3>1. Counts(log, c, vector[c])
        BY <2>3 DEF GapInv
      <3>2. u.counter \in Nat
        BY RoomConstants DEF Updates
      <3>3. u.client = c => u.counter \in 1..vector[c]
        BY <2>2, <3>1, <3>2 DEF Counts
      <3>4. vector'[c] = vector[c]
        BY <1>2, <3>2, <3>3
      <3>5. QED
        BY <3>1, <3>4
    <2>4. QED
      BY <1>3, <2>1, <2>3 DEF GapInv
  <1>6. QED
    BY <1>4, <1>5 DEF Insert

\* Every step of a room keeps the counters without gaps.
LEMMA GapInvStep == TypeInv /\ GapInv /\ [RoomNext]_roomVars => GapInv'
  <1> SUFFICES ASSUME TypeInv, GapInv, [RoomNext]_roomVars PROVE GapInv'
    OBVIOUS
  <1>t. /\ updates \in Seq(Updates) /\ pending \in Seq(Updates) /\ log \in Seq(Updates)
        /\ vector \in [Clients -> Nat] /\ issued \in [Ids -> Updates \cup {None}]
        /\ \A v \in Updates : v.id \in Ids /\ v.client \in Clients /\ v.counter \in Nat
    BY RoomConstants DEF TypeInv, TypeOK, Updates
  <1>f. ASSUME NEW u \in Updates, Frame(u), NEW e \in Updates, issued[e.id] = e
        PROVE  issued'[e.id] = e
    BY <1>f, <1>t, RoomConstants DEF Frame
  <1>1. ASSUME NEW u \in Updates, Frame(u),
               \A i \in 1..Len(pending') :
                 /\ issued'[pending'[i].id] = pending'[i]
                 /\ pending'[i].counter <= vector[pending'[i].client] + 1
        PROVE  GapInv'
    <2>1. UNCHANGED <<updates, vector, log, failures, restarts>>
      BY <1>1 DEF Frame
    <2>2. \A i \in 1..Len(log) : log[i] \in Updates /\ issued[log[i].id] = log[i]
      BY <1>t DEF GapInv
    <2>3. \A i \in 1..Len(log) : issued'[log[i].id] = log[i]
      BY <1>1, <1>f, <2>2
    <2>4. QED
      BY <1>1, <2>1, <2>3 DEF GapInv
  <1>w. ASSUME NEW u \in Updates, Frame(u), NEW i \in 1..Len(pending)
        PROVE  /\ issued'[pending[i].id] = pending[i]
               /\ pending[i].counter <= vector[pending[i].client] + 1
    <2>1. /\ pending[i] \in Updates /\ issued[pending[i].id] = pending[i]
          /\ pending[i].counter <= vector[pending[i].client] + 1
      BY <1>t DEF GapInv
    <2>2. QED
      BY <1>w, <1>f, <2>1
  <1>2. ASSUME NEW u \in Updates, Replay(u) \/ Reject(u) PROVE GapInv'
    <2>1. Frame(u) /\ pending' = pending
      BY <1>2 DEF Replay, Reject
    <2>2. QED
      BY <1>1, <1>w, <2>1
  <1>3. ASSUME NEW u \in Updates, Admit(u) PROVE GapInv'
    <2>1. Frame(u) /\ Admissible(u) /\ pending' = Append(pending, u)
      BY <1>3 DEF Admit
    <2>2. /\ Len(pending') = Len(pending) + 1 /\ Len(pending) \in Nat
          /\ pending'[Len(pending) + 1] = u
          /\ \A i \in 1..Len(pending) : pending'[i] = pending[i]
      BY <1>t, <2>1
    <2>3. issued'[u.id] = u /\ u.counter <= vector[u.client] + 1
      BY <1>t, <2>1 DEF Frame, Admissible, Expected
    <2>4. \A i \in 1..Len(pending') :
            /\ issued'[pending'[i].id] = pending'[i]
            /\ pending'[i].counter <= vector[pending'[i].client] + 1
      BY <1>w, <2>1, <2>2, <2>3
    <2>5. QED
      BY <1>1, <2>1, <2>4
  <1>4. ASSUME UNCHANGED <<updates, vector, log, failures, restarts, pending, issued>>
        PROVE  GapInv'
    BY <1>4 DEF GapInv, Counts, Has
  <1>5. ASSUME Restart PROVE GapInv'
    <2>1. /\ updates' = log /\ pending' = <<>> /\ log' = log /\ issued' = issued
          /\ failures' = failures /\ restarts' = restarts + 1 /\ restarts \in Nat
          /\ vector' = [c \in Clients |-> Highest(log, c)]
      BY <1>5 DEF Restart, TypeInv, TypeOK
    <2>2. ASSUME failures = 0, NEW c \in Clients PROVE vector'[c] = vector[c]
      <3>1. Counts(log, c, vector[c]) /\ vector[c] \in Nat
        BY <1>t, <2>2 DEF GapInv
      <3>2. \A i \in 1..Len(log) : log[i].counter \in 1..MaxCounter
        <4>1. \A v \in Updates : v.counter \in 1..MaxCounter
          BY DEF Updates
        <4>2. QED
          BY <1>t, <4>1
      <3>3. \A i \in 1..Len(log) : log[i].client = c => log[i].counter <= vector[c]
        <4>1. ASSUME NEW i \in 1..Len(log), log[i].client = c PROVE log[i].counter <= vector[c]
          <5>1. Has(log, c, log[i].counter) /\ log[i].counter \in Nat
            BY <3>2, <4>1, RoomConstants DEF Has
          <5>2. QED
            BY <3>1, <5>1 DEF Counts
        <4>2. QED
          BY <4>1
      <3>4. vector[c] > 0 => \E i \in 1..Len(log) : log[i].client = c /\ log[i].counter = vector[c]
        <4>1. vector[c] > 0 => vector[c] \in 1..vector[c]
          BY <3>1
        <4>2. QED
          BY <3>1, <4>1 DEF Counts, Has
      <3>5. vector[c] \in 0..MaxCounter
        BY <3>1, <3>2, <3>4, RoomConstants
      <3>6. Highest(log, c) = vector[c]
        BY <1>t, <3>3, <3>4, <3>5, HighestType
      <3>7. QED
        BY <2>1, <3>6
    <2>3. ~(failures' = 0) => ~(failures' = 0 \/ restarts' = 0)
      BY <2>1
    <2>4. ASSUME failures' = 0, NEW c \in Clients
          PROVE  Counts(updates', c, vector'[c]) /\ Counts(log', c, vector'[c])
      BY <2>1, <2>2, <2>4 DEF GapInv
    <2>5. QED
      BY <2>1, <2>3, <2>4 DEF GapInv
  <1>6. ASSUME NEW u \in Updates, WriteFails(u) PROVE GapInv'
    <2>1. /\ Resume(u) /\ failures' = failures + 1 /\ failures \in Nat
          /\ log' = log /\ issued' = issued /\ restarts' = restarts
      BY <1>6 DEF WriteFails, TypeInv, TypeOK
    <2>2. restarts = 0 => \A c \in Clients : Counts(updates', c, vector'[c])
      BY <2>1, GapRemember
    <2>3. \A i \in 1..Len(pending') : /\ issued'[pending'[i].id] = pending'[i]
                                      /\ pending'[i].counter <= vector'[pending'[i].client] + 1
      BY <2>1, GapResume
    <2>4. failures' # 0
      BY <2>1
    <2>5. QED
      BY <2>1, <2>2, <2>3, <2>4 DEF GapInv
  <1>7. ASSUME NEW u \in Updates, NEW emits \in BOOLEAN, Remember(u, emits) PROVE GapInv'
    <2>1. /\ Resume(u) /\ log' = Insert(u) /\ issued' = issued
          /\ failures' = failures /\ restarts' = restarts
      BY <1>7 DEF Remember
    <2>2. \A i \in 1..Len(pending') : /\ issued'[pending'[i].id] = pending'[i]
                                      /\ pending'[i].counter <= vector'[pending'[i].client] + 1
      BY <2>1, GapResume
    <2>3. /\ failures = 0 \/ restarts = 0 => \A c \in Clients : Counts(updates', c, vector'[c])
          /\ failures = 0 => \A c \in Clients : Counts(log', c, vector'[c])
          /\ \A i \in 1..Len(log') : issued'[log'[i].id] = log'[i]
      BY <2>1, GapRemember
    <2>4. QED
      BY <2>1, <2>2, <2>3 DEF GapInv
  <1>8. QED
    BY <1>2, <1>3, <1>4, <1>5, <1>6, <1>7 DEF RoomNext, Receive, EndOfChunk, roomVars

\* The counters of a client have no gaps, for any burst of frames whose calls overlap,
\* whatever is sent again or out of order: although the check of a counter reads a vector
\* that other calls are about to move.  Only a restart after a failed write of a row may
\* leave one.
THEOREM NoGapsHold == Spec => []NoGaps
  <1>1. Init => GapInv
    <2> SUFFICES ASSUME Init PROVE GapInv
      OBVIOUS
    <2>1. updates = <<>> /\ log = <<>> /\ pending = <<>> /\ vector = [c \in Clients |-> 0]
      BY DEF Init
    <2>2. ASSUME NEW c \in Clients PROVE Counts(<<>>, c, 0)
      BY DEF Counts, Has
    <2>3. QED
      BY <2>1, <2>2 DEF GapInv
  <1>2. TypeInv /\ GapInv => NoGaps
    <2>1. ASSUME TypeInv, GapInv, failures = 0 \/ restarts = 0, NEW c \in Clients
          PROVE  Numbered(updates, c, vector[c])
      <3>1. updates \in Seq(Updates) /\ vector[c] \in Nat /\ Counts(updates, c, vector[c])
        BY <2>1 DEF TypeInv, TypeOK, GapInv
      <3>2. QED
        BY <3>1, CountsNumbered
    <2>2. QED
      BY <2>1 DEF NoGaps
  <1>3. TypeInv /\ GapInv /\ [Next]_roomVars => GapInv'
    BY GapInvStep, NextIsRoomNext
  <1>4. TypeInv /\ [Next]_roomVars => TypeInv'
    BY TypeInvStep, NextIsRoomNext
  <1>5. QED
    BY <1>1, <1>2, <1>3, <1>4, TypeInvInit, PTL DEF Spec

----------------------------------------------------------------------------
(* The inductive invariant, for one client.                                *)

\* Frame k of w is, or follows, one the client will take.
Taken(ph, w, k) == ph = "ready" \/ \E a \in 1..k : w[a].type = "hello_ack"

\* The update with this id is with the client, or in a frame up to n it will take.
Given(ph, w, r, n, id) ==
  id \in r \/ \E k \in 1..n : Taken(ph, w, k) /\ id \in w[k].ids

\* A client in phase ph, with hello h under way, frames w under way, vector v and
\* updates r, of a room with updates s and vector vec.
PeerOK(ph, h, w, v, r, s, vec) ==
  /\ \A c \in Clients : v[c] <= vec[c]
  /\ \A i \in 1..Len(s) : s[i].counter <= v[s[i].client] => s[i].id \in r
  /\ ph = "down" => ~h /\ w = <<>>
  /\ ph = "ready" => ~h /\ \A k \in 1..Len(w) : w[k].type = "update"
  /\ h => \A k \in 1..Len(w) : w[k].type = "update"
  /\ \A k \in 1..Len(w) :
       w[k].type # "error" => \A c \in Clients : w[k].covers[c] <= vec[c]
  /\ \A a, k \in 1..Len(w) : a < k /\ w[a].type = "hello_ack" => w[k].type = "update"
  \* a session that takes frames lacks nothing, up to the frames under way
  /\ \A n \in 1..Len(w) : Taken(ph, w, n) =>
       \A i \in 1..Len(s) :
         s[i].counter <= w[n].covers[s[i].client] => Given(ph, w, r, n, s[i].id)
  /\ Taken(ph, w, Len(w)) => \A i \in 1..Len(s) : Given(ph, w, r, Len(w), s[i].id)

\* The room's side of it: vector bounds the counters.
RoomOK(s, vec) == \A i \in 1..Len(s) : s[i].counter <= vec[s[i].client]

\* Frames have the fields they are read for, updates have clients and counters.
LEMMA FrameFields ==
  /\ \A f \in Frames : f.type # "error" => f.ids \in SUBSET Ids /\ f.covers \in Vectors
  /\ \A f \in Frames : f.type \in {"update", "hello_ack", "error"}
  /\ \A u \in Updates : u.id \in Ids /\ u.client \in Clients /\ u.counter \in Nat
  /\ "update" # "hello_ack" /\ "update" # "error" /\ "hello_ack" # "error"
  BY RoomConstants DEF Frames, Updates

\* A broadcast of the next update of a client reaches a connected peer.
LEMMA PeerBroadcast ==
  ASSUME NEW ph \in {"open", "ready"}, NEW h \in BOOLEAN, NEW w \in Seq(Frames),
         NEW v \in Vectors, NEW r \in SUBSET Ids, NEW s \in Seq(Updates), NEW vec \in Vectors,
         PeerOK(ph, h, w, v, r, s, vec), RoomOK(s, vec),
         NEW u \in Updates, u.counter = vec[u.client] + 1,
         NEW next \in Vectors, next = [vec EXCEPT ![u.client] = u.counter]
  PROVE  PeerOK(ph, h, Append(w, [type |-> "update", ids |-> {u.id}, covers |-> next]),
                v, r, Append(s, u), next)
  <1> DEFINE f == [type |-> "update", ids |-> {u.id}, covers |-> next]
             x == Append(w, f)
             t == Append(s, u)
  <1>1. /\ f \in Frames /\ f.type = "update" /\ f.ids = {u.id} /\ f.covers = next
        /\ u.id \in Ids /\ u.client \in Clients /\ u.counter \in Nat
    BY FrameFields DEF Frames
  <1> HIDE DEF f
  <1>2. /\ Len(w) \in Nat /\ Len(x) = Len(w) + 1 /\ x[Len(w) + 1] = f
        /\ \A k \in 1..Len(w) : x[k] = w[k] /\ w[k] \in Frames
    BY <1>1
  <1>3. /\ Len(s) \in Nat /\ Len(t) = Len(s) + 1 /\ t[Len(s) + 1] = u
        /\ \A i \in 1..Len(s) : t[i] = s[i] /\ s[i] \in Updates
    OBVIOUS
  <1> HIDE DEF x, t
  <1>4. \A c \in Clients : vec[c] \in Nat /\ next[c] \in Nat /\ v[c] \in Nat /\ vec[c] <= next[c]
    BY <1>1 DEF Vectors
  <1>5. \A k \in 1..Len(w) : Taken(ph, x, k) <=> Taken(ph, w, k)
    <2>1. SUFFICES ASSUME NEW k \in 1..Len(w) PROVE Taken(ph, x, k) <=> Taken(ph, w, k)
      OBVIOUS
    <2>2. \A a \in 1..k : a \in 1..Len(w)
      BY <1>2
    <2>3. \A a \in 1..k : x[a] = w[a]
      BY <1>2, <2>2
    <2>4. QED
      BY <2>3 DEF Taken
  <1>6. \A k \in 1..Len(w) : w[k].type # "error" =>
          \A c \in Clients : w[k].covers[c] \in Nat /\ w[k].covers[c] <= vec[c]
    BY <1>2, FrameFields DEF PeerOK, Vectors
  <1>7. \A c \in Clients : v[c] <= next[c]
    BY <1>4 DEF PeerOK
  <1>8. ASSUME NEW i \in 1..Len(t), t[i].counter <= v[t[i].client] PROVE t[i].id \in r
    <2>1. CASE i \in 1..Len(s)
      BY <1>3, <1>8, <2>1 DEF PeerOK
    <2>2. CASE i = Len(s) + 1
      <3>1. v[u.client] \in Nat /\ vec[u.client] \in Nat /\ v[u.client] <= vec[u.client]
        BY <1>1, <1>4 DEF PeerOK
      <3>2. QED
        BY <1>3, <1>8, <2>2, <3>1
    <2>3. QED
      BY <1>3, <2>1, <2>2
  <1>9. /\ ph = "ready" => ~h /\ \A k \in 1..Len(x) : x[k].type = "update"
        /\ h => \A k \in 1..Len(x) : x[k].type = "update"
        /\ \A a, k \in 1..Len(x) : a < k /\ x[a].type = "hello_ack" => x[k].type = "update"
    <2>1. ASSUME NEW k \in 1..Len(x)
          PROVE  (k \in 1..Len(w) /\ x[k] = w[k]) \/ x[k].type = "update"
      BY <1>1, <1>2
    <2>2. ASSUME NEW a \in 1..Len(x), NEW k \in 1..Len(x), a < k
          PROVE  a \in 1..Len(w) /\ x[a] = w[a]
      BY <1>2, <2>2
    <2>3. /\ ph = "ready" => ~h /\ \A k \in 1..Len(w) : w[k].type = "update"
          /\ h => \A k \in 1..Len(w) : w[k].type = "update"
          /\ \A a, k \in 1..Len(w) : a < k /\ w[a].type = "hello_ack" => w[k].type = "update"
      BY DEF PeerOK
    <2>4. QED
      BY <2>1, <2>2, <2>3, FrameFields
  <1>10. ASSUME NEW k \in 1..Len(x), x[k].type # "error", NEW c \in Clients
         PROVE  x[k].covers[c] <= next[c]
    <2>1. CASE k \in 1..Len(w)
      <3>1. x[k] = w[k] /\ w[k].type # "error"
        BY <1>2, <1>10, <2>1
      <3>2. w[k].covers[c] \in Nat /\ w[k].covers[c] <= vec[c]
        BY <1>6, <2>1, <3>1
      <3>3. vec[c] \in Nat /\ next[c] \in Nat /\ vec[c] <= next[c]
        BY <1>4
      <3>4. w[k].covers[c] <= next[c]
        BY <3>2, <3>3
      <3>5. QED
        BY <3>1, <3>4
    <2>2. CASE k = Len(w) + 1
      <3>1. x[k].covers = next
        BY <1>1, <1>2, <2>2
      <3>2. next[c] \in Nat
        BY <1>4
      <3>3. QED
        BY <3>1, <3>2
    <2>3. QED
      BY <1>2, <2>1, <2>2
  \* what was given stays given
  <1>11. ASSUME NEW n \in 0..Len(w), NEW m \in n..Len(x), NEW id, Given(ph, w, r, n, id)
         PROVE  Given(ph, x, r, m, id)
    <2>1. CASE id \in r
      BY <2>1 DEF Given
    <2>2. CASE \E k \in 1..n : Taken(ph, w, k) /\ id \in w[k].ids
      <3>1. PICK k \in 1..n : Taken(ph, w, k) /\ id \in w[k].ids
        BY <2>2
      <3>2. k \in 1..Len(w) /\ k \in 1..m
        BY <1>2
      <3>3. QED
        BY <1>2, <1>5, <3>1, <3>2 DEF Given
    <2>3. QED
      BY <1>11, <2>1, <2>2 DEF Given
  <1>12. ASSUME Taken(ph, x, Len(x)), NEW i \in 1..Len(t)
         PROVE  Given(ph, x, r, Len(x), t[i].id)
    <2>1. CASE i = Len(s) + 1
      <3>1. u.id \in x[Len(x)].ids /\ Len(x) \in 1..Len(x)
        BY <1>1, <1>2
      <3>2. QED
        BY <1>3, <1>12, <2>1, <3>1 DEF Given
    <2>2. CASE i \in 1..Len(s)
      <3>1. Taken(ph, w, Len(w))
        <4>1. CASE ph = "ready"
          BY <4>1 DEF Taken
        <4>2. CASE ph # "ready"
          <5>1. PICK a \in 1..Len(x) : x[a].type = "hello_ack"
            BY <1>12, <4>2 DEF Taken
          <5>2. a \in 1..Len(w)
            BY <1>1, <1>2, <5>1, FrameFields
          <5>3. QED
            BY <1>2, <5>1, <5>2 DEF Taken
        <4>3. QED
          BY <4>1, <4>2
      <3>2. Given(ph, w, r, Len(w), s[i].id)
        BY <2>2, <3>1 DEF PeerOK
      <3>3. Len(w) \in 0..Len(w) /\ Len(x) \in Len(w)..Len(x)
        BY <1>2
      <3>4. QED
        BY <1>3, <1>11, <2>2, <3>2, <3>3
    <2>3. QED
      BY <1>3, <2>1, <2>2
  <1>13. ASSUME NEW n \in 1..Len(x), Taken(ph, x, n), NEW i \in 1..Len(t),
                t[i].counter <= x[n].covers[t[i].client]
         PROVE  Given(ph, x, r, n, t[i].id)
    <2>1. CASE n = Len(x)
      BY <1>12, <1>13, <2>1
    <2>2. CASE n \in 1..Len(w) /\ i \in 1..Len(s)
      <3>1. Given(ph, w, r, n, s[i].id)
        BY <1>2, <1>3, <1>5, <1>13, <2>2 DEF PeerOK
      <3>2. n \in 0..Len(w) /\ n \in n..Len(x)
        BY <1>2, <2>2
      <3>3. QED
        BY <1>3, <1>11, <2>2, <3>1, <3>2
    <2>3. CASE n \in 1..Len(w) /\ i = Len(s) + 1
      <3>1. w[n].type # "error"
        <4>1. CASE ph = "ready"
          BY <2>3, <4>1, FrameFields DEF PeerOK
        <4>2. CASE ph # "ready"
          <5>1. PICK a \in 1..n : x[a].type = "hello_ack"
            BY <1>13, <4>2 DEF Taken
          <5>2. a \in 1..Len(w) /\ (a = n \/ a < n)
            BY <1>2, <2>3
          <5>3. QED
            BY <1>2, <2>3, <5>1, <5>2, FrameFields DEF PeerOK
        <4>3. QED
          BY <4>1, <4>2
      <3>2. w[n].covers[u.client] \in Nat /\ w[n].covers[u.client] <= vec[u.client]
        BY <1>1, <1>6, <2>3, <3>1
      <3>3. QED
        BY <1>1, <1>2, <1>3, <1>4, <1>13, <2>3, <3>2
    <2>4. QED
      BY <1>2, <1>3, <2>1, <2>2, <2>3
  <1>14. PeerOK(ph, h, x, v, r, t, next)
    <2>1. ph # "down"
      OBVIOUS
    <2>2. QED
      BY <1>7, <1>8, <1>9, <1>10, <1>12, <1>13, <2>1 DEF PeerOK
  <1>15. QED
    BY <1>14 DEF x, t, f

\* The hub's answer to hello closes the gap: what the client's vector does not cover is
\* in it, what it covers the client has.
LEMMA PeerHello ==
  ASSUME NEW w \in Seq(Frames), NEW v \in Vectors, NEW r \in SUBSET Ids,
         NEW s \in Seq(Updates), NEW vec \in Vectors,
         PeerOK("open", TRUE, w, v, r, s, vec), RoomOK(s, vec),
         NEW f \in Frames,
         \/ f.type = "error"
         \/ /\ f.type = "hello_ack" /\ f.covers = vec
            /\ \A i \in 1..Len(s) : s[i].counter > v[s[i].client] => s[i].id \in f.ids
  PROVE  PeerOK("open", FALSE, Append(w, f), v, r, s, vec)
  <1> DEFINE x == Append(w, f)
  <1>1. /\ Len(w) \in Nat /\ Len(x) = Len(w) + 1 /\ x[Len(w) + 1] = f
        /\ \A k \in 1..Len(w) : x[k] = w[k] /\ w[k] \in Frames
    OBVIOUS
  <1> HIDE DEF x
  <1>2. \A k \in 1..Len(w) : w[k].type # "hello_ack"
    BY FrameFields DEF PeerOK
  <1>3. ASSUME NEW n \in 1..Len(x), Taken("open", x, n)
        PROVE  n = Len(x) /\ f.type = "hello_ack"
    <2>1. PICK a \in 1..n : x[a].type = "hello_ack"
      BY <1>3 DEF Taken
    <2>2. ~(a \in 1..Len(w))
      BY <1>1, <1>2, <2>1
    <2>3. a = Len(x)
      BY <1>1, <2>2
    <2>4. QED
      BY <1>1, <2>1, <2>3
  <1>4. ASSUME Taken("open", x, Len(x)), NEW i \in 1..Len(s)
        PROVE  Given("open", x, r, Len(x), s[i].id)
    <2>1. Len(x) \in 1..Len(x) /\ x[Len(x)] = f
      BY <1>1
    <2>2. f.type = "hello_ack"
      BY <1>3, <1>4, <2>1
    <2>3. CASE s[i].counter <= v[s[i].client]
      BY <2>3 DEF PeerOK, Given
    <2>4. CASE ~(s[i].counter <= v[s[i].client])
      <3>1. s[i] \in Updates
        OBVIOUS
      <3>2. s[i].counter \in Nat /\ v[s[i].client] \in Nat
        BY <3>1, FrameFields DEF Vectors
      <3>3. s[i].counter > v[s[i].client]
        BY <2>4, <3>2
      <3>4. s[i].id \in f.ids
        BY <2>2, <3>3, FrameFields
      <3>5. QED
        BY <1>4, <2>1, <3>4 DEF Given
    <2>5. QED
      BY <2>3, <2>4
  <1>5. ASSUME NEW k \in 1..Len(x), x[k].type # "error", NEW c \in Clients
        PROVE  x[k].covers[c] <= vec[c]
    <2>1. CASE k \in 1..Len(w)
      BY <1>1, <1>5, <2>1 DEF PeerOK
    <2>2. CASE k = Len(w) + 1
      <3>1. x[k] = f /\ f.covers = vec /\ vec[c] \in Nat
        BY <1>1, <1>5, <2>2 DEF Vectors
      <3>2. QED
        BY <3>1
    <2>3. QED
      BY <1>1, <2>1, <2>2
  <1>6. ASSUME NEW a \in 1..Len(x), NEW k \in 1..Len(x), a < k, x[a].type = "hello_ack"
        PROVE  x[k].type = "update"
    <2>1. a \in 1..Len(w)
      BY <1>1, <1>6
    <2>2. QED
      BY <1>1, <1>2, <1>6, <2>1
  <1>7. ASSUME NEW n \in 1..Len(x), Taken("open", x, n), NEW i \in 1..Len(s)
        PROVE  Given("open", x, r, n, s[i].id)
    BY <1>3, <1>4, <1>7
  <1>8. /\ \A c \in Clients : v[c] <= vec[c]
        /\ \A i \in 1..Len(s) : s[i].counter <= v[s[i].client] => s[i].id \in r
    BY DEF PeerOK
  <1>9. PeerOK("open", FALSE, x, v, r, s, vec)
    BY <1>4, <1>5, <1>6, <1>7, <1>8 DEF PeerOK
  <1>10. QED
    BY <1>9 DEF x

\* Taking the first frame off the wire, or leaving it, moves the others one place.
LEMMA PeerTail ==
  ASSUME NEW w \in Seq(Frames), w # <<>>
  PROVE  /\ Len(w) \in Nat \ {0} /\ Len(Tail(w)) = Len(w) - 1 /\ Tail(w) \in Seq(Frames)
         /\ Head(w) = w[1] /\ w[1] \in Frames
         /\ \A k \in 1..Len(Tail(w)) : /\ k + 1 \in 1..Len(w)
                                      /\ Tail(w)[k] = w[k + 1] /\ w[k + 1] \in Frames
  <1>1. Len(w) \in Nat \ {0} /\ Len(Tail(w)) = Len(w) - 1 /\ Tail(w) \in Seq(Frames)
    BY EmptySeq, HeadTailProperties
  <1>2. \A k \in 1..Len(Tail(w)) : Tail(w)[k] = w[k + 1]
    BY HeadTailProperties
  <1>3. \A k \in 1..Len(Tail(w)) : k + 1 \in 1..Len(w)
    BY <1>1
  <1>4. \A k \in 1..Len(w) : w[k] \in Frames
    BY ElementOfSeq
  <1>5. Head(w) = w[1]
    BY HeadTailProperties
  <1>6. QED
    BY <1>1, <1>2, <1>3, <1>4, <1>5

\* Taking hello_ack, or an update once connected, gives the client what its merged
\* vector covers.
LEMMA PeerTake ==
  ASSUME NEW ph \in {"open", "ready"}, NEW h \in BOOLEAN, NEW w \in Seq(Frames), w # <<>>,
         NEW v \in Vectors, NEW r \in SUBSET Ids, NEW s \in Seq(Updates), NEW vec \in Vectors,
         PeerOK(ph, h, w, v, r, s, vec),
         Head(w).type = IF ph = "open" THEN "hello_ack" ELSE "update"
  PROVE  PeerOK("ready", h, Tail(w), MergeVectors(v, Head(w).covers), r \cup Head(w).ids,
                s, vec)
  <1> DEFINE x == Tail(w)
             f == Head(w)
             nv == MergeVectors(v, f.covers)
             nr == r \cup f.ids
  <1>1. /\ Len(w) \in Nat \ {0} /\ Len(x) = Len(w) - 1 /\ f = w[1] /\ f \in Frames
        /\ \A k \in 1..Len(x) : k + 1 \in 1..Len(w) /\ x[k] = w[k + 1] /\ w[k + 1] \in Frames
    BY PeerTail
  <1> HIDE DEF x, f
  <1>2. f.type # "error" /\ f.covers \in Vectors /\ (ph = "open" => f.type = "hello_ack")
    BY <1>1, FrameFields DEF f
  <1>3. ~h
    <2>1. CASE ph = "ready"
      BY <2>1 DEF PeerOK
    <2>2. CASE ph = "open"
      <3>1. w[1].type = "hello_ack" /\ 1 \in 1..Len(w)
        BY <1>1, <1>2, <2>2
      <3>2. QED
        BY <3>1 DEF PeerOK
    <2>3. QED
      BY <2>1, <2>2
  <1>4. \A n \in 1..Len(w) : Taken(ph, w, n)
    <2>1. CASE ph = "ready"
      BY <2>1 DEF Taken
    <2>2. CASE ph = "open"
      <3>1. w[1].type = "hello_ack"
        BY <1>1, <1>2, <2>2
      <3>2. \A n \in 1..Len(w) : 1 \in 1..n
        OBVIOUS
      <3>3. QED
        BY <3>1, <3>2 DEF Taken
    <2>3. QED
      BY <2>1, <2>2
  <1>5. \A k \in 1..Len(x) : x[k].type = "update"
    <2>1. CASE ph = "ready"
      BY <1>1, <2>1 DEF PeerOK
    <2>2. CASE ph = "open"
      <3>1. w[1].type = "hello_ack" /\ 1 \in 1..Len(w)
        BY <1>1, <1>2, <2>2
      <3>2. \A k \in 1..Len(x) : 1 < k + 1
        BY <1>1
      <3>3. QED
        BY <1>1, <3>1, <3>2 DEF PeerOK
    <2>3. QED
      BY <2>1, <2>2
  <1>6. ASSUME NEW c \in Clients
        PROVE  /\ nv[c] = IF f.covers[c] > v[c] THEN f.covers[c] ELSE v[c]
               /\ nv[c] <= vec[c]
    <2>1. nv[c] = IF f.covers[c] > v[c] THEN f.covers[c] ELSE v[c]
      BY DEF MergeVectors
    <2>2. v[c] <= vec[c] /\ f.covers[c] <= vec[c]
      <3>1. w[1].type # "error" /\ 1 \in 1..Len(w)
        BY <1>1, <1>2
      <3>2. QED
        BY <1>1, <3>1 DEF PeerOK
    <2> HIDE DEF nv
    <2>3. QED
      BY <2>1, <2>2
  <1>7. ASSUME NEW i \in 1..Len(s), s[i].counter <= nv[s[i].client] PROVE s[i].id \in nr
    <2>1. s[i].client \in Clients
      <3>1. s[i] \in Updates
        OBVIOUS
      <3>2. QED
        BY <3>1, FrameFields
    <2>2. nv[s[i].client] = v[s[i].client] \/ nv[s[i].client] = f.covers[s[i].client]
      BY <1>6, <2>1
    <2> HIDE DEF nv
    <2>3. CASE s[i].counter <= v[s[i].client]
      BY <2>3 DEF PeerOK
    <2>4. CASE s[i].counter <= f.covers[s[i].client]
      <3>1. 1 \in 1..Len(w) /\ Taken(ph, w, 1)
        BY <1>1, <1>4
      <3>2. Given(ph, w, r, 1, s[i].id)
        BY <1>1, <2>4, <3>1 DEF PeerOK
      <3>3. \A k \in 1..1 : k = 1
        OBVIOUS
      <3>4. QED
        BY <1>1, <3>2, <3>3 DEF Given
    <2>5. QED
      BY <1>7, <2>2, <2>3, <2>4
  <1>8. ASSUME NEW n \in 0..Len(x), NEW id, Given(ph, w, r, n + 1, id)
        PROVE  Given("ready", x, nr, n, id)
    <2>1. CASE id \in nr
      BY <2>1 DEF Given
    <2>2. CASE id \notin nr
      <3>1. PICK k \in 1..(n + 1) : id \in w[k].ids
        BY <1>8, <2>2 DEF Given
      <3>2. k # 1
        BY <1>1, <2>2, <3>1
      <3>3. k - 1 \in 1..n /\ k - 1 \in 1..Len(x) /\ (k - 1) + 1 = k
        BY <1>1, <3>1, <3>2
      <3>4. x[k - 1] = w[k]
        BY <1>1, <3>3
      <3>5. QED
        BY <3>1, <3>3, <3>4 DEF Given, Taken
    <2>3. QED
      BY <2>1, <2>2
  <1>9. ASSUME NEW i \in 1..Len(s) PROVE Given("ready", x, nr, Len(x), s[i].id)
    <2>1. Len(w) \in 1..Len(w) /\ Len(x) \in 0..Len(x) /\ Len(x) + 1 = Len(w)
      BY <1>1
    <2>2. Given(ph, w, r, Len(w), s[i].id)
      BY <1>4, <2>1 DEF PeerOK
    <2>3. QED
      BY <1>8, <2>1, <2>2
  <1>10. ASSUME NEW n \in 1..Len(x), NEW i \in 1..Len(s),
                s[i].counter <= x[n].covers[s[i].client]
         PROVE  Given("ready", x, nr, n, s[i].id)
    <2>1. n + 1 \in 1..Len(w) /\ x[n] = w[n + 1] /\ n \in 0..Len(x)
      BY <1>1
    <2>2. Given(ph, w, r, n + 1, s[i].id)
      BY <1>4, <1>10, <2>1 DEF PeerOK
    <2>3. QED
      BY <1>8, <2>1, <2>2
  <1>11. ASSUME NEW k \in 1..Len(x), NEW c \in Clients PROVE x[k].covers[c] <= vec[c]
    <2>1. k + 1 \in 1..Len(w) /\ x[k] = w[k + 1] /\ w[k + 1].type # "error"
      BY <1>1, <1>5, FrameFields
    <2>2. QED
      BY <2>1 DEF PeerOK
  <1> HIDE DEF nv, nr
  <1>12. PeerOK("ready", h, x, nv, nr, s, vec)
    BY <1>3, <1>5, <1>6, <1>7, <1>9, <1>10, <1>11 DEF PeerOK
  <1>13. QED
    BY <1>12 DEF x, f, nv, nr

\* A broadcast that comes before hello_ack is left aside without harm.
LEMMA PeerSkip ==
  ASSUME NEW h \in BOOLEAN, NEW w \in Seq(Frames), w # <<>>,
         NEW v \in Vectors, NEW r \in SUBSET Ids, NEW s \in Seq(Updates), NEW vec \in Vectors,
         PeerOK("open", h, w, v, r, s, vec), Head(w).type = "update"
  PROVE  PeerOK("open", h, Tail(w), v, r, s, vec)
  <1> DEFINE x == Tail(w)
  <1>1. /\ Len(w) \in Nat \ {0} /\ Len(x) = Len(w) - 1 /\ Head(w) = w[1]
        /\ \A k \in 1..Len(x) : k + 1 \in 1..Len(w) /\ x[k] = w[k + 1] /\ w[k + 1] \in Frames
    BY PeerTail
  <1> HIDE DEF x
  <1>2. w[1].type # "hello_ack"
    BY <1>1, FrameFields
  <1>3. ASSUME NEW n \in 0..Len(x) PROVE Taken("open", x, n) <=> Taken("open", w, n + 1)
    <2>1. ASSUME Taken("open", x, n) PROVE Taken("open", w, n + 1)
      <3>1. PICK a \in 1..n : x[a].type = "hello_ack"
        BY <2>1 DEF Taken
      <3>2. a \in 1..Len(x) /\ a + 1 \in 1..(n + 1)
        BY <1>1
      <3>3. w[a + 1].type = "hello_ack"
        BY <1>1, <3>1, <3>2
      <3>4. QED
        BY <3>2, <3>3 DEF Taken
    <2>2. ASSUME Taken("open", w, n + 1) PROVE Taken("open", x, n)
      <3>1. PICK a \in 1..(n + 1) : w[a].type = "hello_ack"
        BY <2>2 DEF Taken
      <3>2. a # 1
        BY <1>2, <3>1
      <3>3. a - 1 \in 1..n /\ a - 1 \in 1..Len(x) /\ (a - 1) + 1 = a
        BY <1>1, <3>1, <3>2
      <3>4. x[a - 1].type = "hello_ack"
        BY <1>1, <3>1, <3>3
      <3>5. QED
        BY <3>3, <3>4 DEF Taken
    <2>3. QED
      BY <2>1, <2>2
  <1>4. ASSUME NEW n \in 0..Len(x), NEW id, Given("open", w, r, n + 1, id)
        PROVE  Given("open", x, r, n, id)
    <2>1. CASE id \in r
      BY <2>1 DEF Given
    <2>2. CASE id \notin r
      <3>1. PICK k \in 1..(n + 1) : Taken("open", w, k) /\ id \in w[k].ids
        BY <1>4, <2>2 DEF Given
      <3>2. k # 1
        <4>1. SUFFICES ASSUME k = 1 PROVE FALSE
          OBVIOUS
        <4>2. PICK a \in 1..1 : w[a].type = "hello_ack"
          BY <3>1, <4>1 DEF Taken
        <4>3. a = 1
          BY <4>2
        <4>4. QED
          BY <1>2, <4>2, <4>3
      <3>3. k - 1 \in 1..n /\ k - 1 \in 0..Len(x) /\ k - 1 \in 1..Len(x) /\ (k - 1) + 1 = k
        BY <1>1, <3>1, <3>2
      <3>4. Taken("open", x, k - 1) /\ x[k - 1] = w[k]
        BY <1>1, <1>3, <3>1, <3>3
      <3>5. QED
        BY <3>1, <3>3, <3>4 DEF Given
    <2>3. QED
      BY <2>1, <2>2
  <1>5. ASSUME Taken("open", x, Len(x)), NEW i \in 1..Len(s)
        PROVE  Given("open", x, r, Len(x), s[i].id)
    <2>1. Len(x) \in 0..Len(x) /\ Len(x) + 1 = Len(w)
      BY <1>1
    <2>2. Taken("open", w, Len(w))
      BY <1>3, <1>5, <2>1
    <2>3. QED
      BY <1>4, <2>1, <2>2 DEF PeerOK
  <1>6. ASSUME NEW n \in 1..Len(x), Taken("open", x, n), NEW i \in 1..Len(s),
               s[i].counter <= x[n].covers[s[i].client]
        PROVE  Given("open", x, r, n, s[i].id)
    <2>1. n + 1 \in 1..Len(w) /\ x[n] = w[n + 1] /\ n \in 0..Len(x)
      BY <1>1
    <2>2. Taken("open", w, n + 1)
      BY <1>3, <1>6, <2>1
    <2>3. Given("open", w, r, n + 1, s[i].id)
      BY <1>6, <2>1, <2>2 DEF PeerOK
    <2>4. QED
      BY <1>4, <2>1, <2>3
  <1>7. /\ h => \A k \in 1..Len(x) : x[k].type = "update"
        /\ \A k \in 1..Len(x) :
             x[k].type # "error" => \A c \in Clients : x[k].covers[c] <= vec[c]
    BY <1>1 DEF PeerOK
  <1>8. ASSUME NEW a \in 1..Len(x), NEW k \in 1..Len(x), a < k, x[a].type = "hello_ack"
        PROVE  x[k].type = "update"
    <2>1. a + 1 \in 1..Len(w) /\ k + 1 \in 1..Len(w) /\ a + 1 < k + 1
      BY <1>1, <1>8
    <2>2. QED
      BY <1>1, <1>8, <2>1 DEF PeerOK
  <1>9. PeerOK("open", h, x, v, r, s, vec)
    BY <1>5, <1>6, <1>7, <1>8 DEF PeerOK
  <1>10. QED
    BY <1>9 DEF x
\* A client that loses its connection keeps its vector and its updates.
LEMMA PeerLost ==
  ASSUME NEW ph, NEW h, NEW w, NEW v, NEW r, NEW s \in Seq(Updates), NEW vec,
         PeerOK(ph, h, w, v, r, s, vec)
  PROVE  PeerOK("down", FALSE, <<>>, v, r, s, vec)
  <1>1. ~Taken("down", <<>>, 0)
    BY DEF Taken
  <1>2. Len(<<>>) = 0 /\ 1..0 = {}
    OBVIOUS
  <1>3. QED
    BY <1>1, <1>2, Zenon DEF PeerOK

\* A client that connects has nothing under way but its hello.
LEMMA PeerConnect ==
  ASSUME NEW h, NEW w, NEW v, NEW r, NEW s \in Seq(Updates), NEW vec,
         PeerOK("down", h, w, v, r, s, vec)
  PROVE  PeerOK("open", TRUE, w, v, r, s, vec)
  <1>1. w = <<>>
    BY DEF PeerOK
  <1>2. ~Taken("open", <<>>, 0)
    BY DEF Taken
  <1>3. Len(<<>>) = 0 /\ 1..0 = {}
    OBVIOUS
  <1>4. PeerOK("open", TRUE, <<>>, v, r, s, vec)
    BY <1>2, <1>3, FrameFields DEF PeerOK
  <1>5. QED
    BY <1>1, <1>4

\* What the room remembers while a client is away is above the client's vector.
LEMMA PeerAway ==
  ASSUME NEW h \in BOOLEAN, NEW w, NEW v \in Vectors, NEW r, NEW s \in Seq(Updates),
         NEW vec \in Vectors,
         PeerOK("down", h, w, v, r, s, vec),
         NEW u \in Updates, u.counter = vec[u.client] + 1,
         NEW next \in Vectors, next = [vec EXCEPT ![u.client] = u.counter]
  PROVE  PeerOK("down", h, w, v, r, Append(s, u), next)
  <1> DEFINE t == Append(s, u)
  <1>1. /\ Len(s) \in Nat /\ Len(t) = Len(s) + 1 /\ t[Len(s) + 1] = u
        /\ \A i \in 1..Len(s) : t[i] = s[i] /\ s[i] \in Updates
    OBVIOUS
  <1> HIDE DEF t
  <1>2. u.client \in Clients /\ u.counter \in Nat
    BY FrameFields
  <1>3. \A c \in Clients : vec[c] \in Nat /\ next[c] \in Nat /\ v[c] \in Nat /\ vec[c] <= next[c]
    BY <1>2 DEF Vectors
  <1>4. \A c \in Clients : v[c] <= vec[c] /\ v[c] <= next[c]
    BY <1>3 DEF PeerOK
  <1>5. ASSUME NEW i \in 1..Len(t), t[i].counter <= v[t[i].client] PROVE t[i].id \in r
    <2>1. CASE i \in 1..Len(s)
      BY <1>1, <1>5, <2>1 DEF PeerOK
    <2>2. CASE i = Len(s) + 1
      <3>1. v[u.client] \in Nat /\ vec[u.client] \in Nat /\ v[u.client] <= vec[u.client]
        BY <1>2, <1>3, <1>4
      <3>2. QED
        BY <1>1, <1>2, <1>5, <2>2, <3>1
    <2>3. QED
      BY <1>1, <2>1, <2>2
  <1>6. w = <<>> /\ h = FALSE
    BY DEF PeerOK
  <1>7. ~Taken("down", <<>>, 0)
    BY DEF Taken
  <1>8. Len(<<>>) = 0 /\ 1..0 = {}
    OBVIOUS
  <1>9. PeerOK("down", FALSE, <<>>, v, r, t, next)
    BY <1>4, <1>5, <1>7, <1>8, Zenon DEF PeerOK
  <1>10. QED
    BY <1>6, <1>9 DEF t
----------------------------------------------------------------------------
(* The invariant of the session.                                           *)

RoomInv == TypeInv /\ SerialInv

PeersOK ==
  \A p \in Peers : PeerOK(phase[p], hello[p], wire[p], sv[p], received[p], updates, vector)

SessionInv == RoomInv /\ SessionTypeOK /\ PeersOK

\* The room half of a session is a room.
LEMMA SessionRoom ==
  ASSUME Burst = 1, MaxFailures = 0
  PROVE  RoomInv /\ [SessionNext]_vars => RoomInv'
  <1>1. [SessionNext]_vars => [RoomNext]_roomVars
    <2>1. ASSUME NEW u \in Updates,
                 NEW fits, fits = (FitsFrame({u.id}) \/ Recipients = {}), Remember(u, fits)
          PROVE  RoomNext
      <3>1. fits \in BOOLEAN
        BY <2>1
      <3>2. QED
        BY <2>1, <3>1 DEF RoomNext
    <2>2. Broadcast => RoomNext
      BY <2>1 DEF Broadcast
    <2>3. ServerRestart => RoomNext
      BY DEF ServerRestart, RoomNext
    <2>4. RoomStep => RoomNext
      BY DEF RoomStep, RoomNext
    <2>5. \A p \in Peers : Connect(p) \/ Hello(p) \/ Deliver(p) \/ Drop(p) => UNCHANGED roomVars
      BY DEF Connect, Hello, Deliver, Drop
    <2>6. UNCHANGED vars => UNCHANGED roomVars
      BY DEF vars
    <2>7. QED
      BY <2>2, <2>3, <2>4, <2>5, <2>6 DEF SessionNext
  <1>2. QED
    BY <1>1, TypeInvStep, SerialInvStep DEF RoomInv

\* With no peer connected, the claims about connected peers hold.
LEMMA SessionInvInit == SessionInit => SessionInv
  <1> SUFFICES ASSUME SessionInit PROVE SessionInv
    OBVIOUS
  <1>1. RoomInv
    BY TypeInvInit, SerialInvInit DEF SessionInit, RoomInv
  <1>2. SessionTypeOK
    BY DEF SessionInit, SessionTypeOK, Vectors
  <1>3. ASSUME NEW p \in Peers
        PROVE  PeerOK("down", FALSE, <<>>, sv[p], received[p], updates, vector)
    <2>1. updates = <<>> /\ \A c \in Clients : sv[p][c] <= vector[c]
      BY DEF SessionInit, Init
    <2>2. ~Taken("down", <<>>, 0)
      BY DEF Taken
    <2>3. Len(<<>>) = 0 /\ 1..0 = {}
      OBVIOUS
    <2>4. QED
      BY <2>1, <2>2, <2>3, Zenon DEF PeerOK
  <1>4. QED
    BY <1>1, <1>2, <1>3 DEF SessionInv, PeersOK, SessionInit

\* What the hub sends has the form of a frame, and hello_ack carries what diff() finds.
LEMMA AckFrame ==
  ASSUME SessionTypeOK, TypeInv, NEW p \in Peers
  PROVE  /\ HelloAck(p) \in Frames
         /\ \/ HelloAck(p).type = "error"
            \/ /\ HelloAck(p).type = "hello_ack" /\ HelloAck(p).covers = vector
               /\ \A i \in 1..Len(updates) :
                    updates[i].counter > sv[p][updates[i].client]
                      => updates[i].id \in HelloAck(p).ids
  <1>1. vector \in Vectors
    BY DEF TypeInv, TypeOK, Vectors
  <1>2. Missing(sv[p]) \in SUBSET Ids
    <2>1. \A i \in 1..Len(updates) : updates[i] \in Updates
      BY DEF TypeInv, TypeOK
    <2>2. QED
      BY <2>1, FrameFields DEF Missing
  <1>3. \A i \in 1..Len(updates) :
          updates[i].counter > sv[p][updates[i].client] => updates[i].id \in Missing(sv[p])
    BY DEF Missing
  <1>4. CASE FitsFrame(Missing(sv[p]))
    <2>1. HelloAck(p) = [type |-> "hello_ack", ids |-> Missing(sv[p]), covers |-> vector]
      BY <1>4 DEF HelloAck
    <2>2. HelloAck(p) \in Frames
      BY <1>1, <1>2, <2>1 DEF Frames
    <2>3. QED
      BY <1>3, <2>1, <2>2
  <1>5. CASE ~FitsFrame(Missing(sv[p]))
    <2>1. HelloAck(p) = [type |-> "error"]
      BY <1>5 DEF HelloAck
    <2>2. QED
      BY <2>1 DEF Frames
  <1>6. QED
    BY <1>4, <1>5

\* A step of one client leaves the others as they are.
LEMMA PeersStep ==
  ASSUME PeersOK, UNCHANGED roomVars, NEW p \in Peers,
         PeerOK(phase'[p], hello'[p], wire'[p], sv'[p], received'[p], updates, vector),
         \A q \in Peers \ {p} : /\ phase'[q] = phase[q] /\ hello'[q] = hello[q]
                               /\ wire'[q] = wire[q] /\ sv'[q] = sv[q]
                               /\ received'[q] = received[q]
  PROVE  PeersOK'
  <1>1. updates' = updates /\ vector' = vector
    BY DEF roomVars
  <1>2. ASSUME NEW q \in Peers
        PROVE  PeerOK(phase'[q], hello'[q], wire'[q], sv'[q], received'[q], updates, vector)
    <2>1. CASE q = p
      BY <2>1
    <2>2. CASE q # p
      <3>1. PeerOK(phase[q], hello[q], wire[q], sv[q], received[q], updates, vector)
        BY DEF PeersOK
      <3>2. QED
        BY <2>2, <3>1
    <2>3. QED
      BY <2>1, <2>2
  <1>3. QED
    BY <1>1, <1>2 DEF PeersOK
\* An empty socket buffer holds frames only.
LEMMA EmptyFrames == <<>> \in Seq(Frames)
  OBVIOUS

\* Frames taken, or left aside, keep the types of what a client holds.
LEMMA DeliverType ==
  ASSUME SessionTypeOK, NEW p \in Peers, Deliver(p)
  PROVE  SessionTypeOK'
  <1>1. /\ phase[p] \in {"open", "ready"} /\ wire[p] \in Seq(Frames) /\ wire[p] # <<>>
        /\ sv[p] \in Vectors /\ received[p] \in SUBSET Ids
    BY DEF Deliver, SessionTypeOK
  <1>2. Head(wire[p]) \in Frames /\ Tail(wire[p]) \in Seq(Frames)
    BY <1>1, PeerTail
  <1>3. ASSUME Accepts(p, Head(wire[p]))
        PROVE  /\ Head(wire[p]).ids \in SUBSET Ids
               /\ MergeVectors(sv[p], Head(wire[p]).covers) \in Vectors
    <2>1. Head(wire[p]).type # "error"
      BY <1>1, <1>3, FrameFields DEF Accepts
    <2>2. Head(wire[p]).ids \in SUBSET Ids /\ Head(wire[p]).covers \in Vectors
      BY <1>2, <2>1, FrameFields
    <2>3. QED
      BY <1>1, <2>2 DEF MergeVectors, Vectors
  <1>4. CASE Accepts(p, Head(wire[p]))
    <2>1. /\ phase' = [phase EXCEPT ![p] = IF Head(wire[p]).type = "hello_ack" THEN "ready" ELSE @]
          /\ sv' = [sv EXCEPT ![p] = MergeVectors(@, Head(wire[p]).covers)]
          /\ received' = [received EXCEPT ![p] = @ \cup Head(wire[p]).ids]
          /\ wire' = [wire EXCEPT ![p] = Tail(@)]
          /\ hello' = hello /\ drops' = drops
      BY <1>4 DEF Deliver
    <2>2. QED
      BY <1>1, <1>2, <1>3, <1>4, <2>1 DEF SessionTypeOK
  <1>5. CASE ~Accepts(p, Head(wire[p]))
    <2>1. /\ phase' \in {phase, [phase EXCEPT ![p] = "down"]}
          /\ wire' \in {[wire EXCEPT ![p] = <<>>], [wire EXCEPT ![p] = Tail(@)]}
          /\ UNCHANGED <<sv, received, hello, drops>>
      BY <1>5 DEF Deliver
    <2>2. wire' \in [Peers -> Seq(Frames)]
      BY <1>2, <2>1, EmptyFrames DEF SessionTypeOK
    <2>3. phase' \in [Peers -> {"down", "open", "ready"}]
      BY <2>1 DEF SessionTypeOK
    <2>4. QED
      BY <2>1, <2>2, <2>3 DEF SessionTypeOK
  <1>6. QED
    BY <1>4, <1>5

\* Every step of the session keeps its types.
LEMMA SessionTypeStep ==
  ASSUME TypeInv, SessionTypeOK, SessionNext
  PROVE  SessionTypeOK'
  <1>1. ASSUME NEW p \in Peers, Connect(p) \/ Drop(p) PROVE SessionTypeOK'
    <2>1. wire' \in {wire, [wire EXCEPT ![p] = <<>>]} /\ UNCHANGED <<sv, received>>
      BY <1>1 DEF Connect, Drop
    <2>2. wire' \in [Peers -> Seq(Frames)]
      BY <2>1, EmptyFrames DEF SessionTypeOK
    <2>3. phase' \in [Peers -> {"down", "open", "ready"}] /\ hello' \in [Peers -> BOOLEAN]
      BY <1>1 DEF SessionTypeOK, Connect, Drop
    <2>4. drops' \in Nat
      BY <1>1 DEF SessionTypeOK, Connect, Drop
    <2>5. QED
      BY <2>1, <2>2, <2>3, <2>4 DEF SessionTypeOK
  <1>2. ASSUME NEW p \in Peers, Hello(p) PROVE SessionTypeOK'
    <2>1. HelloAck(p) \in Frames
      BY AckFrame
    <2>2. wire' \in [Peers -> Seq(Frames)]
      BY <1>2, <2>1 DEF SessionTypeOK, Hello
    <2>3. QED
      BY <1>2, <2>2 DEF SessionTypeOK, Hello
  <1>3. ASSUME NEW p \in Peers, Deliver(p) PROVE SessionTypeOK'
    BY <1>3, DeliverType
  <1>4. ASSUME Broadcast PROVE SessionTypeOK'
    <2>1. PICK u \in Updates :
            LET fits == FitsFrame({u.id}) \/ Recipients = {}
                frame == [type |-> "update", ids |-> {u.id}, covers |-> vector']
            IN  /\ Remember(u, fits)
                /\ wire' = [p \in Peers |-> IF p \in Recipients /\ fits
                                             THEN Append(wire[p], frame) ELSE wire[p]]
                /\ UNCHANGED <<phase, hello, sv, received, drops>>
      BY <1>4 DEF Broadcast
    <2> DEFINE fits == FitsFrame({u.id}) \/ Recipients = {}
               frame == [type |-> "update", ids |-> {u.id}, covers |-> vector']
    <2>2. vector' \in Vectors
      BY <2>1, ResumeType DEF Remember, Vectors
    <2>3. frame \in Frames
      BY <2>2, FrameFields DEF Frames
    <2>4. ASSUME NEW p \in Peers
          PROVE  Append(wire[p], frame) \in Seq(Frames) /\ wire[p] \in Seq(Frames)
      <3>1. wire[p] \in Seq(Frames)
        BY DEF SessionTypeOK
      <3> HIDE DEF frame
      <3>2. QED
        BY <2>3, <3>1
    <2>5. wire' = [p \in Peers |-> IF p \in Recipients /\ fits
                                     THEN Append(wire[p], frame) ELSE wire[p]]
      BY <2>1
    <2> HIDE DEF frame, fits
    <2>6. wire' \in [Peers -> Seq(Frames)]
      BY <2>4, <2>5
    <2>7. QED
      BY <2>1, <2>6 DEF SessionTypeOK
  <1>5. ASSUME ServerRestart PROVE SessionTypeOK'
    BY <1>5 DEF SessionTypeOK, ServerRestart
  <1>6. ASSUME RoomStep PROVE SessionTypeOK'
    BY <1>6 DEF SessionTypeOK, RoomStep, sessionVars
  <1>7. QED
    BY <1>1, <1>2, <1>3, <1>4, <1>5, <1>6 DEF SessionNext

\* A frame the client takes, leaves aside, or fails on.
LEMMA DeliverPeers ==
  ASSUME SessionInv, NEW p \in Peers, Deliver(p)
  PROVE  PeersOK'
  <1>1. /\ phase[p] \in {"open", "ready"} /\ hello[p] \in BOOLEAN
        /\ wire[p] \in Seq(Frames) /\ wire[p] # <<>>
        /\ sv[p] \in Vectors /\ received[p] \in SUBSET Ids
        /\ updates \in Seq(Updates) /\ vector \in Vectors
    BY DEF SessionInv, SessionTypeOK, RoomInv, TypeInv, TypeOK, Vectors, Deliver
  <1>2. PeerOK(phase[p], hello[p], wire[p], sv[p], received[p], updates, vector)
    BY DEF SessionInv, PeersOK
  <1>3. /\ phase \in [Peers -> {"down", "open", "ready"}] /\ DOMAIN wire = Peers
        /\ DOMAIN sv = Peers /\ DOMAIN received = Peers /\ hello' = hello
        /\ UNCHANGED roomVars
    BY DEF SessionInv, SessionTypeOK, Deliver
  <1> DEFINE f == Head(wire[p])
  <1>4. /\ f \in Frames /\ f.type \in {"update", "hello_ack", "error"}
        /\ phase[p] = "ready" => f.type = "update"
    <2>1. Len(wire[p]) \in Nat \ {0} /\ f = wire[p][1] /\ wire[p][1] \in Frames
      BY <1>1, PeerTail
    <2>2. 1 \in 1..Len(wire[p])
      BY <2>1
    <2>3. QED
      BY <1>2, <2>1, <2>2, FrameFields DEF PeerOK
  <1>5. CASE Accepts(p, f)
    <2>1. f.type = IF phase[p] = "open" THEN "hello_ack" ELSE "update"
      BY <1>1, <1>5 DEF Accepts
    <2>2. PeerOK("ready", hello[p], Tail(wire[p]), MergeVectors(sv[p], f.covers),
                 received[p] \cup f.ids, updates, vector)
      BY <1>1, <1>2, <2>1, PeerTake
    <2>3. /\ phase' = [phase EXCEPT ![p] = IF f.type = "hello_ack" THEN "ready" ELSE @]
          /\ sv' = [sv EXCEPT ![p] = MergeVectors(@, f.covers)]
          /\ received' = [received EXCEPT ![p] = @ \cup f.ids]
          /\ wire' = [wire EXCEPT ![p] = Tail(@)]
      BY <1>5 DEF Deliver
    <2>4. phase'[p] = "ready"
      BY <1>1, <1>3, <2>1, <2>3, FrameFields
    <2>5. PeerOK(phase'[p], hello'[p], wire'[p], sv'[p], received'[p], updates, vector)
      BY <1>3, <2>2, <2>3, <2>4
    <2>6. QED
      BY <1>3, <2>3, <2>5, PeersStep DEF SessionInv
  <1>6. CASE ~Accepts(p, f) /\ f.type = "error"
    <2>1. phase[p] = "open"
      BY <1>1, <1>4, <1>6, FrameFields
    <2>2. /\ phase' = [phase EXCEPT ![p] = "down"] /\ wire' = [wire EXCEPT ![p] = <<>>]
          /\ sv' = sv /\ received' = received
      BY <1>6, <2>1 DEF Deliver
    <2>3. hello[p] = FALSE
      <3>1. f = wire[p][1] /\ 1 \in 1..Len(wire[p])
        BY <1>1, PeerTail
      <3>2. hello[p] => f.type = "update"
        BY <1>2, <3>1 DEF PeerOK
      <3>3. ~hello[p]
        BY <1>6, <3>2, FrameFields
      <3>4. QED
        BY <1>1, <3>3
    <2>4. PeerOK("down", FALSE, <<>>, sv[p], received[p], updates, vector)
      BY <1>1, <1>2, PeerLost
    <2>5. PeerOK(phase'[p], hello'[p], wire'[p], sv'[p], received'[p], updates, vector)
      BY <1>3, <2>2, <2>3, <2>4
    <2>6. QED
      BY <1>3, <2>2, <2>5, PeersStep DEF SessionInv
  <1>7. CASE ~Accepts(p, f) /\ f.type # "error"
    <2>1. phase[p] = "open" /\ f.type = "update"
      <3>1. phase[p] = "open"
        BY <1>1, <1>4, <1>7 DEF Accepts
      <3>2. f.type # "hello_ack"
        BY <1>7, <3>1 DEF Accepts
      <3>3. QED
        BY <1>4, <1>7, <3>1, <3>2
    <2>2. PeerOK("open", hello[p], Tail(wire[p]), sv[p], received[p], updates, vector)
      BY <1>1, <1>2, <2>1, PeerSkip
    <2>3. wire' = [wire EXCEPT ![p] = Tail(@)] /\ UNCHANGED <<phase, sv, received>>
      BY <1>7 DEF Deliver
    <2>4. PeerOK(phase'[p], hello'[p], wire'[p], sv'[p], received'[p], updates, vector)
      BY <1>3, <2>1, <2>2, <2>3
    <2>5. QED
      BY <1>3, <2>3, <2>4, PeersStep DEF SessionInv
  <1>8. QED
    BY <1>5, <1>6, <1>7
\* Connecting, being acknowledged, losing the connection.
LEMMA ConnectPeers ==
  ASSUME SessionInv, NEW p \in Peers, Connect(p) \/ Hello(p) \/ Drop(p)
  PROVE  PeersOK'
  <1>1. /\ hello[p] \in BOOLEAN /\ phase[p] \in {"down", "open", "ready"}
        /\ wire[p] \in Seq(Frames) /\ sv[p] \in Vectors /\ received[p] \in SUBSET Ids
        /\ updates \in Seq(Updates) /\ vector \in Vectors
        /\ DOMAIN phase = Peers /\ DOMAIN wire = Peers /\ DOMAIN hello = Peers
    BY DEF SessionInv, SessionTypeOK, RoomInv, TypeInv, TypeOK, Vectors
  <1>2. PeerOK(phase[p], hello[p], wire[p], sv[p], received[p], updates, vector)
    BY DEF SessionInv, PeersOK
  <1>3. UNCHANGED <<roomVars, sv, received>>
    BY DEF Connect, Hello, Drop
  <1>4. CASE Connect(p)
    <2>1. PeerOK("open", TRUE, wire[p], sv[p], received[p], updates, vector)
      BY <1>1, <1>2, <1>4, PeerConnect DEF Connect
    <2>2. QED
      BY <1>1, <1>3, <1>4, <2>1, PeersStep DEF SessionInv, Connect
  <1>5. CASE Hello(p)
    <2>1. hello[p] = TRUE /\ phase[p] = "open"
      BY <1>1, <1>2, <1>5 DEF Hello, PeerOK
    <2>2. RoomOK(updates, vector)
      <3>1. \A c \in Clients : TopOf(updates, c, vector[c])
        BY DEF SessionInv, RoomInv, SerialInv
      <3>2. \A i \in 1..Len(updates) : updates[i].client \in Clients
        <4>1. \A i \in 1..Len(updates) : updates[i] \in Updates
          BY <1>1
        <4>2. QED
          BY <4>1, FrameFields
      <3>3. QED
        BY <3>1, <3>2 DEF RoomOK, TopOf
    <2>3. PeerOK("open", FALSE, Append(wire[p], HelloAck(p)), sv[p], received[p], updates, vector)
      <3>1. PeerOK("open", TRUE, wire[p], sv[p], received[p], updates, vector)
        BY <1>2, <2>1
      <3>2. /\ HelloAck(p) \in Frames
            /\ \/ HelloAck(p).type = "error"
               \/ /\ HelloAck(p).type = "hello_ack" /\ HelloAck(p).covers = vector
                  /\ \A i \in 1..Len(updates) :
                       updates[i].counter > sv[p][updates[i].client]
                         => updates[i].id \in HelloAck(p).ids
        BY AckFrame DEF SessionInv, RoomInv
      <3>3. QED
        BY <1>1, <2>2, <3>1, <3>2, PeerHello
    <2>4. /\ hello' = [hello EXCEPT ![p] = FALSE] /\ phase' = phase
          /\ wire' = [wire EXCEPT ![p] = Append(@, HelloAck(p))]
      BY <1>5 DEF Hello
    <2>5. PeerOK(phase'[p], hello'[p], wire'[p], sv'[p], received'[p], updates, vector)
      BY <1>1, <1>3, <2>1, <2>3, <2>4
    <2>6. \A q \in Peers \ {p} : hello'[q] = hello[q] /\ wire'[q] = wire[q]
      BY <1>1, <2>4
    <2>7. PeersOK /\ UNCHANGED roomVars
      BY <1>3 DEF SessionInv
    <2>8. QED
      BY <1>3, <2>4, <2>5, <2>6, <2>7, PeersStep
  <1>6. CASE Drop(p)
    <2>1. PeerOK("down", FALSE, <<>>, sv[p], received[p], updates, vector)
      BY <1>1, <1>2, PeerLost
    <2>2. QED
      BY <1>1, <1>3, <1>6, <2>1, PeersStep DEF SessionInv, Drop
  <1>7. QED
    BY <1>4, <1>5, <1>6

\* An update remembered and broadcast reaches the clients that are connected; the others
\* lack it, and their vectors say so.
LEMMA BroadcastPeers ==
  ASSUME SessionInv, Large = {}, FrameLimit # 0, Broadcast
  PROVE  PeersOK'
  <1>1. PICK u \in Updates :
          LET fits == FitsFrame({u.id}) \/ Recipients = {}
              frame == [type |-> "update", ids |-> {u.id}, covers |-> vector']
          IN  /\ Remember(u, fits)
              /\ wire' = [p \in Peers |-> IF p \in Recipients /\ fits
                                           THEN Append(wire[p], frame) ELSE wire[p]]
              /\ UNCHANGED <<phase, hello, sv, received, drops>>
    BY DEF Broadcast
  <1>2. FitsFrame({u.id})
    <2>1. Cardinality({u.id}) = 1
      BY FS_Singleton
    <2>2. FrameLimit \in Nat /\ FrameLimit >= 1
      BY SessionConstants
    <2>3. QED
      BY <2>1, <2>2 DEF FitsFrame
  <1> DEFINE frame == [type |-> "update", ids |-> {u.id}, covers |-> vector']
  <1>3. /\ wire' = [p \in Peers |-> IF p \in Recipients
                                     THEN Append(wire[p], frame) ELSE wire[p]]
        /\ UNCHANGED <<phase, hello, sv, received, drops>>
    BY <1>1, <1>2
  <1>4. Resume(u)
    BY <1>1 DEF Remember
  <1>5. /\ updates' = Append(updates, u) /\ u.counter = vector[u.client] + 1
        /\ vector' = [vector EXCEPT ![u.client] = u.counter]
    BY <1>4, SerialResume DEF SessionInv, RoomInv
  <1>6. vector' \in Vectors
    BY <1>4, ResumeType DEF Vectors, SessionInv, RoomInv
  <1>7. updates \in Seq(Updates) /\ vector \in Vectors
    BY DEF SessionInv, RoomInv, TypeInv, TypeOK, Vectors
  <1>8. RoomOK(updates, vector)
    <2>1. \A c \in Clients : TopOf(updates, c, vector[c])
      BY DEF SessionInv, RoomInv, SerialInv
    <2>2. \A i \in 1..Len(updates) : updates[i].client \in Clients
      <3>1. \A i \in 1..Len(updates) : updates[i] \in Updates
        BY <1>7
      <3>2. QED
        BY <3>1, FrameFields
    <2>3. QED
      BY <2>1, <2>2 DEF RoomOK, TopOf
  <1>9. ASSUME NEW p \in Peers
        PROVE  PeerOK(phase[p], hello[p], wire'[p], sv[p], received[p], updates', vector')
    <2>1. PeerOK(phase[p], hello[p], wire[p], sv[p], received[p], updates, vector)
      BY DEF SessionInv, PeersOK
    <2>2. /\ hello[p] \in BOOLEAN /\ phase[p] \in {"down", "open", "ready"}
          /\ wire[p] \in Seq(Frames) /\ sv[p] \in Vectors /\ received[p] \in SUBSET Ids
      BY DEF SessionInv, SessionTypeOK
    <2>3. CASE phase[p] = "down"
      <3>1. p \notin Recipients
        BY <2>3 DEF Recipients
      <3>2. wire'[p] = wire[p]
        BY <1>3, <3>1
      <3>3. PeerOK("down", hello[p], wire[p], sv[p], received[p], Append(updates, u), vector')
        BY <1>5, <1>6, <1>7, <2>1, <2>2, <2>3, PeerAway
      <3>4. QED
        BY <1>5, <2>3, <3>2, <3>3
    <2>4. CASE phase[p] # "down"
      <3>1. p \in Recipients
        BY <2>4 DEF Recipients
      <3>2. wire'[p] = Append(wire[p], frame)
        BY <1>3, <3>1
      <3>3. phase[p] \in {"open", "ready"}
        BY <2>2, <2>4
      <3>4. PeerOK(phase[p], hello[p], Append(wire[p], frame), sv[p], received[p],
                   Append(updates, u), vector')
        BY <1>5, <1>6, <1>7, <1>8, <2>1, <2>2, <3>3, PeerBroadcast
      <3>5. QED
        BY <1>5, <3>2, <3>4
    <2>5. QED
      BY <2>3, <2>4
  <1>10. QED
    BY <1>3, <1>9 DEF PeersOK

\* A new process has the updates and the vector of the old one.
LEMMA RestartPeers ==
  ASSUME SessionInv, ServerRestart
  PROVE  PeersOK'
  <1>1. updates' = updates /\ vector' = vector
    <2>t. updates \in Seq(Updates) /\ log = updates
          /\ \A c \in Clients : vector[c] \in 0..MaxCounter /\ TopOf(updates, c, vector[c])
      BY DEF SessionInv, RoomInv, SerialInv, TypeInv, TypeOK
    <2>1. \A c \in Clients : Highest(log, c) = vector[c]
      BY <2>t, HighestType DEF TopOf
    <2>2. QED
      BY <2>1 DEF ServerRestart, Restart, SessionInv, RoomInv, SerialInv, TypeInv, TypeOK
  <1>2. ASSUME NEW p \in Peers
        PROVE  PeerOK("down", FALSE, <<>>, sv[p], received[p], updates, vector)
    <2>1. PeerOK(phase[p], hello[p], wire[p], sv[p], received[p], updates, vector)
      BY DEF SessionInv, PeersOK
    <2>2. updates \in Seq(Updates)
      BY DEF SessionInv, RoomInv, TypeInv, TypeOK
    <2>3. QED
      BY <2>1, <2>2, PeerLost
  <1>3. ASSUME NEW p \in Peers
        PROVE  /\ phase'[p] = "down" /\ hello'[p] = FALSE /\ wire'[p] = <<>>
               /\ sv'[p] = sv[p] /\ received'[p] = received[p]
    BY DEF ServerRestart
  <1>4. QED
    BY <1>1, <1>2, <1>3 DEF PeersOK

\* Every step of the session keeps the agreement of the peers, their sockets and the room.
LEMMA SessionInvStep ==
  ASSUME Burst = 1, MaxFailures = 0, Large = {}, FrameLimit # 0
  PROVE  SessionInv /\ [SessionNext]_vars => SessionInv'
  <1> SUFFICES ASSUME SessionInv, [SessionNext]_vars PROVE SessionInv'
    OBVIOUS
  <1>1. RoomInv'
    BY SessionRoom DEF SessionInv
  <1>2. CASE SessionNext
    <2>1. SessionTypeOK'
      BY <1>2, SessionTypeStep DEF SessionInv, RoomInv
    <2>2. ASSUME RoomStep PROVE PeersOK'
      <3>1. ASSUME NEW u \in Updates PROVE ~WriteFails(u)
        BY DEF WriteFails, SessionInv, RoomInv, SerialInv
      <3>2. updates' = updates /\ vector' = vector
        BY <2>2, <3>1 DEF RoomStep, Receive, Replay, Admit, Reject, Frame, EndOfChunk
      <3>3. UNCHANGED sessionVars
        BY <2>2 DEF RoomStep
      <3>4. QED
        BY <3>2, <3>3 DEF SessionInv, PeersOK, sessionVars
    <2>3. PeersOK'
      BY <1>2, <2>2, ConnectPeers, DeliverPeers, BroadcastPeers, RestartPeers DEF SessionNext
    <2>4. QED
      BY <1>1, <2>1, <2>3 DEF SessionInv
  <1>3. CASE UNCHANGED vars
    <2>1. UNCHANGED <<phase, hello, wire, sv, received, drops, updates, vector>>
      BY <1>3 DEF vars, sessionVars, roomVars
    <2>2. QED
      BY <1>1, <2>1 DEF SessionInv, PeersOK, SessionTypeOK
  <1>4. QED
    BY <1>2, <1>3

----------------------------------------------------------------------------
(* Theorems.                                                               *)

\* For any number of clients, updates, lost connections and restarts: as long as calls
\* do not overlap, rows are written and updates fit a frame, an update the client's
\* vector covers has been received by the client, so the difference the hub computes
\* from that vector leaves nothing out.
THEOREM VectorsMeanReceived ==
  ASSUME Burst = 1, MaxFailures = 0, Large = {}, FrameLimit # 0
  PROVE  SessionSpec => []VectorMeansReceived
  <1>1. SessionInv => VectorMeansReceived
    BY DEF SessionInv, PeersOK, PeerOK, VectorMeansReceived
  <1>2. SessionInv /\ [SessionNext]_vars => SessionInv'
    BY SessionInvStep
  <1>3. QED
    BY <1>1, <1>2, SessionInvInit, PTL DEF SessionSpec

\* Under the same assumptions a connected client with nothing under way has every update
\* of the room, even if the hub cannot always send it the difference (hello_ack too
\* large): then it is not connected.
THEOREM ConnectedPeersAgree ==
  ASSUME Burst = 1, MaxFailures = 0, Large = {}, FrameLimit # 0
  PROVE  SessionSpec => []QuietPeersAgree
  <1>1. ASSUME SessionInv, NEW p \in Peers, phase[p] = "ready", wire[p] = <<>>,
               NEW i \in 1..Len(updates)
        PROVE  updates[i].id \in received[p]
    <2>1. PeerOK("ready", hello[p], <<>>, sv[p], received[p], updates, vector)
      BY <1>1 DEF SessionInv, PeersOK
    <2>2. Len(<<>>) = 0 /\ 1..0 = {}
      OBVIOUS
    <2>3. Taken("ready", <<>>, Len(<<>>))
      BY DEF Taken
    <2>4. Given("ready", <<>>, received[p], Len(<<>>), updates[i].id)
      BY <2>1, <2>3 DEF PeerOK
    <2>5. QED
      BY <2>2, <2>4 DEF Given
  <1>2. SessionInv => QuietPeersAgree
    BY <1>1 DEF QuietPeersAgree
  <1>3. SessionInv /\ [SessionNext]_vars => SessionInv'
    BY SessionInvStep
  <1>4. QED
    BY <1>2, <1>3, SessionInvInit, PTL DEF SessionSpec
=============================================================================
