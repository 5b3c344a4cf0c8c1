--------------------------- MODULE ConnectionProofs ---------------------------
(***************************************************************************)
(* Proofs about LongnetSession, with the timing wheel it is composed with, *)
(* and about ClientBinding, for every set of connections, goroutines,      *)
(* workers and requests, every number of slots, delay and capacity.        *)
(***************************************************************************)
EXTENDS ClientBinding, FiniteSetTheorems, SequenceTheorems, TLAPS

(* Where the heartbeat of a connection can be, kind by kind *)

Listed(bk, id) == {p \in Slots \X Nat : p[2] \in DOMAIN bk[p[1]] /\ bk[p[1]][p[2]].id = id}
Queued(q, id)  == {i \in DOMAIN q : q[i] = id}
Working(jb, id) == {w \in Workers : jb[w] = id}
Adding(fr, id) == {g \in Goroutines : fr[g].pc = "addPush" /\ fr[g].id = id}

AtMostOne(S) == \A x, y \in S : x = y

Single(L, C, W, A) ==
  /\ AtMostOne(L) /\ AtMostOne(C) /\ AtMostOne(W) /\ AtMostOne(A)
  /\ L # {} => C = {} /\ W = {} /\ A = {}
  /\ C # {} => W = {} /\ A = {}
  /\ W # {} => A = {}

None(L, C, W, A) == L = {} /\ C = {} /\ W = {} /\ A = {}

NoBeat(id)  == None(Listed(bucket, id), Queued(consumer, id), Working(job, id), Adding(frame, id))
OneBeat(id) == Single(Listed(bucket, id), Queued(consumer, id), Working(job, id), Adding(frame, id))

-----------------------------------------------------------------------------
(* Lists *)

\* new is q without its element at i.
Dropped(q, new, i) ==
  /\ i \in 1..Len(q)
  /\ Len(new) = Len(q) - 1
  /\ \A j \in 1..Len(new) : new[j] = IF j < i THEN q[j] ELSE q[j + 1]

\* The head of a list is dropped by Tail: a fired element, a received task.
LEMMA TailDrops ==
  ASSUME NEW S, NEW q \in Seq(S), q # <<>>
  PROVE  Tail(q) \in Seq(S) /\ Dropped(q, Tail(q), 1) /\ Head(q) = q[1] /\ Head(q) \in S
  <1>1. Len(q) \in Nat /\ Len(q) > 0
    BY EmptySeq, LenProperties
  <1>2. /\ Tail(q) \in Seq(S) /\ Len(Tail(q)) = Len(q) - 1
        /\ \A i \in 1..Len(Tail(q)) : Tail(q)[i] = q[i + 1]
    BY HeadTailProperties
  <1>3. QED
    BY <1>1, <1>2 DEF Dropped

\* list.Remove drops the element at one place and moves the ones behind it up.
LEMMA RemoveAtDrops ==
  ASSUME NEW S, NEW q \in Seq(S), NEW i \in 1..Len(q)
  PROVE  RemoveAt(q, i) \in Seq(S) /\ Dropped(q, RemoveAt(q, i), i)
  <1> DEFINE a == SubSeq(q, 1, i - 1)
             b == SubSeq(q, i + 1, Len(q))
  <1>1. Len(q) \in Nat /\ \A j \in 1..Len(q) : q[j] \in S
    BY LenProperties, ElementOfSeq
  <1>2. a \in Seq(S) /\ Len(a) = i - 1 /\ \A j \in 1..(i - 1) : a[j] = q[j]
    <2>1. /\ a \in Seq(S) /\ Len(a) = IF 1 <= i - 1 THEN i - 1 - 1 + 1 ELSE 0
          /\ \A j \in 1..(i - 1 - 1 + 1) : a[j] = q[1 + j - 1]
      BY <1>1, SubSeqProperties
    <2>2. QED
      BY <2>1
  <1>3. b \in Seq(S) /\ Len(b) = Len(q) - i /\ \A j \in 1..(Len(q) - i) : b[j] = q[i + j]
    <2>1. /\ b \in Seq(S) /\ Len(b) = IF i + 1 <= Len(q) THEN Len(q) - (i + 1) + 1 ELSE 0
          /\ \A j \in 1..(Len(q) - (i + 1) + 1) : b[j] = q[i + 1 + j - 1]
      BY <1>1, SubSeqProperties
    <2>2. QED
      BY <1>1, <2>1
  <1>4. RemoveAt(q, i) = a \o b
    BY DEF RemoveAt
  <1> HIDE DEF a, b
  <1>5. /\ a \o b \in Seq(S) /\ Len(a \o b) = Len(a) + Len(b)
        /\ \A j \in 1..(Len(a) + Len(b)) : (a \o b)[j] = IF j <= Len(a) THEN a[j] ELSE b[j - Len(a)]
    BY <1>2, <1>3, ConcatProperties
  <1>6. ASSUME NEW j \in 1..(Len(q) - 1)
        PROVE  (a \o b)[j] = IF j < i THEN q[j] ELSE q[j + 1]
    <2>1. CASE j < i
      BY <1>1, <1>2, <1>3, <1>5, <2>1
    <2>2. CASE j >= i
      <3> DEFINE k == j - Len(a)
      <3>1. k \in 1..(Len(q) - i) /\ i + k = j + 1 /\ ~(j < i)
        BY <1>1, <1>2, <2>2
      <3>2. (a \o b)[j] = b[k]
        BY <1>1, <1>2, <1>3, <1>5, <2>2
      <3> HIDE DEF k
      <3>3. b[k] = q[i + k]
        BY <1>3, <3>1
      <3>4. QED
        BY <3>1, <3>2, <3>3
    <2>3. j < i \/ j >= i
      BY <1>1
    <2>4. QED
      BY <2>1, <2>2, <2>3, Zenon
  <1>7. Len(a \o b) = Len(q) - 1
    BY <1>1, <1>2, <1>3, <1>5
  <1>8. QED
    BY <1>4, <1>5, <1>6, <1>7 DEF Dropped

Buckets == [Slots -> Seq(Element)]

\* Dropping an element takes away the place of its id and moves the others.
LEMMA ListedDrop ==
  ASSUME NEW bk \in Buckets, NEW new \in Buckets, NEW s \in Slots, NEW i \in Nat,
         Dropped(bk[s], new[s], i), \A t \in Slots \ {s} : new[t] = bk[t], NEW id
  PROVE  /\ AtMostOne(Listed(bk, id)) => AtMostOne(Listed(new, id))
         /\ Listed(bk, id) = {} => Listed(new, id) = {}
         /\ bk[s][i].id # id /\ Listed(bk, id) # {} => Listed(new, id) # {}
         /\ bk[s][i].id = id => Listed(bk, id) # {}
         /\ bk[s][i].id = id /\ AtMostOne(Listed(bk, id)) => Listed(new, id) = {}
  <1> DEFINE Before(p) == <<p[1], IF p[1] = s /\ p[2] >= i THEN p[2] + 1 ELSE p[2]>>
             New(p) == <<p[1], IF p[1] = s /\ p[2] > i THEN p[2] - 1 ELSE p[2]>>
  <1>1. \A t \in Slots : /\ DOMAIN bk[t] = 1..Len(bk[t]) /\ Len(bk[t]) \in Nat
                         /\ DOMAIN new[t] = 1..Len(new[t]) /\ Len(new[t]) \in Nat
    BY LenProperties DEF Buckets
  <1>2. i \in 1..Len(bk[s]) /\ Len(new[s]) = Len(bk[s]) - 1 /\ i \in Nat
    BY <1>1 DEF Dropped
  <1>3. ASSUME NEW p \in Listed(new, id)
        PROVE  Before(p) \in Listed(bk, id) /\ Before(p) # <<s, i>>
    <2>1. p \in Slots \X Nat /\ p[2] \in DOMAIN new[p[1]] /\ new[p[1]][p[2]].id = id
      BY DEF Listed
    <2>2. CASE p[1] # s
      BY <1>1, <2>1, <2>2 DEF Listed
    <2>3. CASE p[1] = s
      <3>1. p[2] \in 1..Len(new[s]) /\ new[s][p[2]].id = id
        BY <1>1, <2>1, <2>3
      <3>2. new[s][p[2]] = IF p[2] < i THEN bk[s][p[2]] ELSE bk[s][p[2] + 1]
        BY <3>1 DEF Dropped
      <3>3. CASE p[2] < i
        BY <1>1, <1>2, <2>1, <2>3, <3>1, <3>2, <3>3 DEF Listed
      <3>4. CASE p[2] >= i
        <4>1. p[2] + 1 \in 1..Len(bk[s]) /\ p[2] + 1 # i
          BY <1>1, <1>2, <3>1, <3>4
        <4>2. bk[s][p[2] + 1].id = id
          BY <1>2, <2>1, <3>1, <3>2, <3>4
        <4>3. Before(p) = <<s, p[2] + 1>>
          BY <2>3, <3>4
        <4>4. <<s, p[2] + 1>> \in Listed(bk, id)
          BY <1>1, <4>1, <4>2 DEF Listed
        <4>5. QED
          BY <4>1, <4>3, <4>4
      <3>5. QED
        BY <1>2, <2>1, <3>3, <3>4
    <2>4. QED
      BY <2>2, <2>3
  <1>4. ASSUME NEW p \in Listed(bk, id), p # <<s, i>>
        PROVE  New(p) \in Listed(new, id)
    <2>1. p \in Slots \X Nat /\ p[2] \in DOMAIN bk[p[1]] /\ bk[p[1]][p[2]].id = id
      BY DEF Listed
    <2>2. CASE p[1] # s
      BY <1>1, <2>1, <2>2 DEF Listed
    <2>3. CASE p[1] = s
      <3>1. p[2] \in 1..Len(bk[s]) /\ bk[s][p[2]].id = id /\ p[2] # i
        BY <1>1, <1>4, <2>1, <2>3
      <3>2. CASE p[2] < i
        <4>1. p[2] \in 1..Len(new[s])
          BY <1>1, <1>2, <3>1, <3>2
        <4>2. new[s][p[2]] = bk[s][p[2]]
          BY <3>2, <4>1 DEF Dropped
        <4>3. QED
          BY <1>1, <1>2, <2>1, <2>3, <3>1, <3>2, <4>1, <4>2 DEF Listed
      <3>3. CASE p[2] > i
        <4> DEFINE k == p[2] - 1
        <4>1. k \in 1..Len(new[s]) /\ ~(k < i) /\ k + 1 = p[2] /\ k \in Nat
          BY <1>1, <1>2, <3>1, <3>3
        <4>2. New(p) = <<s, k>>
          BY <2>3, <3>3
        <4> HIDE DEF k
        <4>3. new[s][k] = bk[s][p[2]]
          BY <4>1 DEF Dropped
        <4>4. <<s, k>> \in Listed(new, id)
          BY <1>1, <3>1, <4>1, <4>3 DEF Listed
        <4>5. QED
          BY <4>2, <4>4
      <3>4. QED
        BY <1>1, <1>2, <3>1, <3>2, <3>3
    <2>4. QED
      BY <2>2, <2>3
  <1>5. ASSUME NEW p \in Listed(new, id), NEW r \in Listed(new, id), Before(p) = Before(r)
        PROVE  p = r
    <2>1. p \in Slots \X Nat /\ r \in Slots \X Nat
      BY DEF Listed
    <2>2. p[1] = r[1]
      BY <1>5
    <2>3. p[2] = r[2]
      BY <1>2, <1>5, <2>1, <2>2
    <2>4. QED
      BY <2>1, <2>2, <2>3
  <1> HIDE DEF Before, New
  <1>6. AtMostOne(Listed(bk, id)) => AtMostOne(Listed(new, id))
    BY <1>3, <1>5 DEF AtMostOne
  <1>7. Listed(bk, id) = {} => Listed(new, id) = {}
    BY <1>3
  <1>8. bk[s][i].id = id => <<s, i>> \in Listed(bk, id)
    BY <1>1, <1>2 DEF Listed
  <1>9. bk[s][i].id # id => <<s, i>> \notin Listed(bk, id)
    BY DEF Listed
  <1>10. QED
    BY <1>3, <1>4, <1>6, <1>7, <1>8, <1>9 DEF AtMostOne

\* An element added at the end takes one more place, of its own id.
LEMMA ListedAppend ==
  ASSUME NEW bk \in Buckets, NEW s \in Slots, NEW e \in Element, NEW id,
         NEW new, new[s] = Append(bk[s], e), \A t \in Slots \ {s} : new[t] = bk[t]
  PROVE  /\ e.id # id => Listed(new, id) = Listed(bk, id)
         /\ e.id = id /\ Listed(bk, id) = {}
              => AtMostOne(Listed(new, id)) /\ Listed(new, id) # {}
  <1> DEFINE q == Append(bk[s], e)
             n == Len(bk[s])
  <1>1. \A t \in Slots : DOMAIN bk[t] = 1..Len(bk[t]) /\ Len(bk[t]) \in Nat
    BY LenProperties DEF Buckets
  <1>2. /\ q \in Seq(Element) /\ Len(q) = n + 1
        /\ \A j \in 1..n : q[j] = bk[s][j]
        /\ q[n + 1] = e
    BY AppendProperties DEF Buckets
  <1>3. DOMAIN q = 1..(n + 1)
    BY <1>2, LenProperties
  <1>4. new[s] = q /\ \A t \in Slots \ {s} : new[t] = bk[t]
    OBVIOUS
  <1> HIDE DEF q, n
  <1>5. n \in Nat /\ DOMAIN bk[s] = 1..n
    BY <1>1 DEF n
  <1>6. ASSUME NEW p \in Slots \X Nat, p # <<s, n + 1>>
        PROVE  p \in Listed(new, id) <=> p \in Listed(bk, id)
    <2>1. CASE p[1] # s
      BY <1>4, <2>1 DEF Listed
    <2>2. CASE p[1] = s
      <3>1. p[2] # n + 1
        BY <1>6, <2>2
      <3>2. p[2] \in DOMAIN q <=> p[2] \in DOMAIN bk[s]
        BY <1>3, <1>5, <3>1
      <3>3. p[2] \in DOMAIN bk[s] => q[p[2]] = bk[s][p[2]]
        BY <1>2, <1>5
      <3>4. QED
        BY <1>4, <2>2, <3>2, <3>3 DEF Listed
    <2>3. QED
      BY <2>1, <2>2
  <1>7. <<s, n + 1>> \in Listed(new, id) <=> e.id = id
    BY <1>2, <1>3, <1>4, <1>5 DEF Listed
  <1>8. <<s, n + 1>> \notin Listed(bk, id)
    BY <1>5 DEF Listed
  <1>9. \A b : Listed(b, id) \subseteq Slots \X Nat
    BY DEF Listed
  <1>10. ASSUME e.id # id PROVE Listed(new, id) = Listed(bk, id)
    <2>1. Listed(new, id) \subseteq Listed(bk, id)
      BY <1>6, <1>7, <1>9, <1>10
    <2>2. Listed(bk, id) \subseteq Listed(new, id)
      BY <1>6, <1>8, <1>9
    <2>3. QED
      BY <2>1, <2>2
  <1>11. e.id = id /\ Listed(bk, id) = {} => Listed(new, id) = {<<s, n + 1>>}
    BY <1>6, <1>7, <1>9
  <1>12. QED
    BY <1>10, <1>11 DEF AtMostOne

\* The channel, when its head is received.
LEMMA QueuedTail ==
  ASSUME NEW S, NEW q \in Seq(S), q # <<>>, NEW id
  PROVE  /\ AtMostOne(Queued(q, id)) => AtMostOne(Queued(Tail(q), id))
         /\ Queued(q, id) = {} => Queued(Tail(q), id) = {}
         /\ Head(q) # id /\ Queued(q, id) # {} => Queued(Tail(q), id) # {}
         /\ Head(q) = id => Queued(q, id) # {}
         /\ Head(q) = id /\ AtMostOne(Queued(q, id)) => Queued(Tail(q), id) = {}
  <1>1. /\ Len(q) \in Nat /\ DOMAIN q = 1..Len(q) /\ Len(q) > 0
        /\ DOMAIN Tail(q) = 1..(Len(q) - 1) /\ Head(q) = q[1]
        /\ \A j \in 1..(Len(q) - 1) : Tail(q)[j] = q[j + 1]
    <2>1. Tail(q) \in Seq(S) /\ Dropped(q, Tail(q), 1) /\ Head(q) = q[1]
      BY TailDrops
    <2>2. Len(q) \in Nat /\ DOMAIN q = 1..Len(q) /\ DOMAIN Tail(q) = 1..Len(Tail(q))
      BY <2>1, LenProperties
    <2>3. QED
      BY <2>1, <2>2 DEF Dropped
  <1>2. ASSUME NEW j \in Queued(Tail(q), id) PROVE j \in Nat /\ j + 1 \in Queued(q, id) /\ j + 1 # 1
    BY <1>1 DEF Queued
  <1>3. ASSUME NEW j \in Queued(q, id), j # 1 PROVE j - 1 \in Queued(Tail(q), id)
    BY <1>1, <1>3 DEF Queued
  <1>4. 1 \in Queued(q, id) <=> Head(q) = id
    BY <1>1 DEF Queued
  <1>5. AtMostOne(Queued(q, id)) => AtMostOne(Queued(Tail(q), id))
    <2> SUFFICES ASSUME AtMostOne(Queued(q, id)), NEW i \in Queued(Tail(q), id),
                        NEW j \in Queued(Tail(q), id)
                 PROVE  i = j
      BY DEF AtMostOne
    <2>1. i \in Nat /\ j \in Nat /\ i + 1 = j + 1
      BY <1>2 DEF AtMostOne
    <2>2. QED
      BY <2>1
  <1>6. QED
    BY <1>2, <1>3, <1>4, <1>5 DEF AtMostOne

\* The channel, when a fired task is sent.
LEMMA QueuedAppend ==
  ASSUME NEW S, NEW q \in Seq(S), NEW e \in S, NEW id
  PROVE  /\ e # id => Queued(Append(q, e), id) = Queued(q, id)
         /\ e = id /\ Queued(q, id) = {}
              => AtMostOne(Queued(Append(q, e), id)) /\ Queued(Append(q, e), id) # {}
  <1> DEFINE new == Append(q, e)
  <1>1. Len(q) \in Nat /\ DOMAIN q = 1..Len(q)
    BY LenProperties
  <1>2. /\ new \in Seq(S) /\ Len(new) = Len(q) + 1
        /\ \A i \in 1..Len(q) : new[i] = q[i]
        /\ new[Len(q) + 1] = e
    BY AppendProperties
  <1>3. DOMAIN new = 1..(Len(q) + 1)
    BY <1>2, LenProperties
  <1> HIDE DEF new
  <1>4. \A i : i # Len(q) + 1 => (i \in Queued(new, id) <=> i \in Queued(q, id))
    BY <1>1, <1>2, <1>3 DEF Queued
  <1>5. Len(q) + 1 \in Queued(new, id) <=> e = id
    BY <1>1, <1>2, <1>3 DEF Queued
  <1>6. Len(q) + 1 \notin Queued(q, id)
    BY <1>1 DEF Queued
  <1>7. /\ e # id => Queued(new, id) = Queued(q, id)
        /\ e = id /\ Queued(q, id) = {} => AtMostOne(Queued(new, id)) /\ Queued(new, id) # {}
    BY <1>4, <1>5, <1>6, SMTT(30) DEF AtMostOne
  <1>8. QED
    BY <1>7 DEF new

-----------------------------------------------------------------------------
(* The inductive invariant *)

\* The map believes of an id only elements of that id, and a slot that is
\* sending has something to send.
WheelOK ==
  /\ \A id \in Ids : globalTasks[id] # NoTask => globalTasks[id].element.id = id
  /\ \A s \in Slots : running[s] = "sending" => bucket[s] # <<>>

Own(id) == {Openers[id], Readers[id]}

\* Who can be inside AddTask or Cancel, and for which connection.
FrameOK(g) ==
  /\ frame[g].pc = "addPush" =>
       g \in Workers \/ \E id \in Ids : g = Openers[id] /\ frame[g].id = id /\ stage[g] = "inserting"
  /\ frame[g].pc \in {"cancelRemove", "cancelForget"} =>
       \E id \in Ids : g \in Own(id) /\ frame[g].id = id /\ stage[g] = "cancelling"
  /\ frame[g].pc = "cancelRemove" => frame[g].old.element.id = frame[g].id

\* What the stages of a connection's goroutines say about its session.
StageOK(id) ==
  /\ stage[Openers[id]] \in {"none", "accepted"} => id \notin sessions /\ NoBeat(id)
  /\ stage[Openers[id]] \in {"none", "accepted", "inserting"} =>
       id \notin closed /\ stage[Readers[id]] = "none"
  /\ stage[Openers[id]] \notin {"none", "accepted"} /\ id \notin closed => id \in sessions
  /\ stage[Openers[id]] = "inserting" =>
       frame[Openers[id]].pc = "addPush" /\ frame[Openers[id]].id = id
  /\ \A g \in Own(id) : stage[g] = "cancelling" => id \in sessions \cap closed
  /\ ~(stage[Openers[id]] = "cancelling" /\ stage[Readers[id]] = "cancelling")

\* The heartbeat of a connection is in one place, and in some place while the
\* connection is open.
BeatOK(id) == OneBeat(id) /\ (id \in sessions \ closed => ~NoBeat(id))

CountOK == IsFiniteSet(sessions) /\ currConnNum = Cardinality(sessions)

IInv ==
  /\ TypeOK /\ WheelOK /\ CountOK
  /\ \A g \in Goroutines : FrameOK(g)
  /\ \A id \in Ids : StageOK(id) /\ BeatOK(id)

Assumptions == WheelAssumption /\ SessionAssumption

Owners == Range(Openers) \cup Range(Readers)

\* The goroutines of the connections are told apart.
LEMMA OwnersApart ==
  ASSUME SessionAssumption, NEW i \in Ids, NEW j \in Ids
  PROVE  /\ Openers[i] \in Goroutines \cap Owners /\ Readers[i] \in Goroutines \cap Owners
         /\ Openers[i] \notin Workers /\ Readers[i] \notin Workers
         /\ Openers[i] # Readers[j]
         /\ i # j => Openers[i] # Openers[j] /\ Readers[i] # Readers[j]
  BY DEF SessionAssumption, Owners, Range

\* A slot is a remainder.
LEMMA ModSlots ==
  ASSUME WheelAssumption, NEW p \in Nat
  PROVE  p % NumSlots \in Slots
  BY DEF WheelAssumption, Slots

\* A connection whose session, stages and frames stay keeps what they say.
LEMMA StageStays ==
  ASSUME NEW id \in Ids, StageOK(id),
         stage'[Openers[id]] = stage[Openers[id]], stage'[Readers[id]] = stage[Readers[id]],
         frame'[Openers[id]] = frame[Openers[id]],
         id \in sessions' <=> id \in sessions, id \in closed' <=> id \in closed,
         NoBeat(id) => NoBeat(id)'
  PROVE  StageOK(id)'
  BY DEF StageOK, Own

\* A goroutine of a connection that stays where it is; a worker has no stage.
LEMMA FrameStays ==
  ASSUME SessionAssumption, NEW g \in Goroutines, FrameOK(g), frame'[g] = frame[g],
         g \in Owners => stage'[g] = stage[g]
  PROVE  FrameOK(g)'
  <1>1. \A id \in Ids : Openers[id] \in Owners /\ Readers[id] \in Owners
    BY OwnersApart
  <1>2. QED
    BY <1>1 DEF FrameOK, Own

\* A connection whose heartbeat is neither lost nor doubled, and that has not opened.
LEMMA BeatStays ==
  ASSUME NEW id \in Ids, BeatOK(id), OneBeat(id)', NoBeat(id)' => NoBeat(id),
         id \in sessions' \ closed' => id \in sessions \ closed
  PROVE  BeatOK(id)'
  BY DEF BeatOK

\* A step that moves no heartbeat.
LEMMA NoBeatMoves ==
  ASSUME NEW id, UNCHANGED <<bucket, consumer, job>>, Adding(frame', id) = Adding(frame, id)
  PROVE  (NoBeat(id)' <=> NoBeat(id)) /\ (OneBeat(id)' <=> OneBeat(id))
  BY DEF NoBeat, OneBeat, Listed, Queued, Working

\* Who is adding, when one frame changes.
LEMMA AddingAfter ==
  ASSUME NEW fr, NEW g \in Goroutines, NEW id, NEW new,
         \A h \in Goroutines \ {g} : new[h] = fr[h]
  PROVE  /\ new[g].pc = "addPush" /\ new[g].id = id => Adding(new, id) = Adding(fr, id) \cup {g}
         /\ ~(new[g].pc = "addPush" /\ new[g].id = id) => Adding(new, id) = Adding(fr, id) \ {g}
  BY DEF Adding

-----------------------------------------------------------------------------
(* The wheel's operations *)

\* AddTask finds no older element of a connection without a heartbeat in a list.
LEMMA AddTaskEffect ==
  ASSUME TypeOK, WheelOK, WheelAssumption, NEW g \in Goroutines, NEW id \in Ids, AddTask(g, id),
         Listed(bucket, id) = {}
  PROVE  /\ bucket' = bucket /\ consumer' = consumer /\ WheelTypeOK' /\ WheelOK'
         /\ frame'[g].pc = "addPush" /\ frame'[g].id = id
         /\ \A h \in Goroutines \ {g} : frame'[h] = frame[h]
         /\ Adding(frame', id) = Adding(frame, id) \cup {g}
         /\ \A j \in Ids \ {id} : Adding(frame', j) = Adding(frame, j)
  <1> DEFINE f == [pc |-> "addPush", id |-> id, slot |-> (currentPos + DelayTicks) % NumSlots]
  <1>0. WheelTypeOK /\ bucket \in Buckets /\ frame \in [Goroutines -> Frame] /\ DOMAIN frame = Goroutines
    BY DEF TypeOK, WheelTypeOK, Buckets
  <1>1. f \in Frame /\ f.pc = "addPush" /\ f.id = id
    <2>1. currentPos + DelayTicks \in Nat
      BY <1>0 DEF WheelTypeOK, Slots, WheelAssumption
    <2>2. (currentPos + DelayTicks) % NumSlots \in Slots
      BY <2>1, ModSlots
    <2>3. QED
      BY <2>2 DEF Frame
  <1>2. frame' = [frame EXCEPT ![g] = f] /\ frame[g] = Outside
    BY DEF AddTask
  <1>3. bucket' = bucket
    <2> DEFINE old == globalTasks[id]
    <2>1. CASE old = NoTask
      BY <2>1 DEF AddTask
    <2>2. CASE old # NoTask
      <3>1. old \in TaskElement /\ old.element.id = id
        BY <1>0, <2>2 DEF WheelTypeOK, WheelOK
      <3>2. old.slotIdx \in Slots
        BY <3>1 DEF TaskElement
      <3>3. DOMAIN bucket[old.slotIdx] \subseteq Nat
        BY <1>0, <3>2, LenProperties DEF Buckets
      <3>4. ASSUME NEW k \in DOMAIN bucket[old.slotIdx], bucket[old.slotIdx][k] = old.element
            PROVE  FALSE
        <4>1. <<old.slotIdx, k>> \in Listed(bucket, id)
          BY <3>1, <3>2, <3>3, <3>4 DEF Listed
        <4>2. QED
          BY <4>1
      <3>5. old.element \notin Range(bucket[old.slotIdx])
        BY <3>4 DEF Range
      <3>6. Without(old.slotIdx, old.element) = bucket[old.slotIdx]
        BY <3>5 DEF Without
      <3>7. bucket' = [bucket EXCEPT ![old.slotIdx] = Without(old.slotIdx, old.element)]
        BY <2>2 DEF AddTask
      <3>8. QED
        BY <1>0, <3>2, <3>6, <3>7 DEF Buckets
    <2>3. QED
      BY <2>1, <2>2
  <1>4. UNCHANGED <<currentPos, running, globalTasks, consumer>>
    BY DEF AddTask
  <1> HIDE DEF f
  <1>5. WheelTypeOK' /\ WheelOK'
    BY <1>0, <1>1, <1>2, <1>3, <1>4 DEF WheelTypeOK, WheelOK
  <1>6. frame[g].pc # "addPush"
    BY <1>2 DEF Outside
  <1>a. frame'[g] = f /\ \A h \in Goroutines \ {g} : frame'[h] = frame[h]
    BY <1>0, <1>2
  <1>7. Adding(frame', id) = Adding(frame, id) \cup {g}
    BY <1>1, <1>a, AddingAfter
  <1>8. ASSUME NEW j \in Ids \ {id} PROVE Adding(frame', j) = Adding(frame, j)
    <2>1. Adding(frame', j) = Adding(frame, j) \ {g}
      BY <1>1, <1>a, AddingAfter
    <2>2. g \notin Adding(frame, j)
      BY <1>6 DEF Adding
    <2>3. QED
      BY <2>1, <2>2
  <1>9. QED
    BY <1>1, <1>3, <1>4, <1>5, <1>a, <1>7, <1>8

\* There is always a new element: at most two of an id are referred to when
\* one is made, the one the map still knows and the one a close is removing.
LEMMA FreshIsNew ==
  ASSUME Assumptions, IInv, NEW id \in Ids, Listed(bucket, id) = {}
  PROVE  FreshElement(id) \in Element /\ FreshElement(id).id = id
  <1> DEFINE E(t) == [id |-> id, token |-> t]
             Cancels(g) == frame[g].pc = "cancelRemove" /\ frame[g].id = id
  <1>0. /\ WheelTypeOK /\ WheelOK /\ bucket \in Buckets /\ frame \in [Goroutines -> Frame]
        /\ \A g \in Goroutines : FrameOK(g)
        /\ StageOK(id)
    BY DEF IInv, TypeOK, WheelTypeOK, Buckets
  <1>1. ASSUME NEW t \in Tokens, E(t) \in Referenced
        PROVE  \/ globalTasks[id] # NoTask /\ globalTasks[id].element = E(t)
               \/ \E g \in Goroutines : Cancels(g) /\ frame[g].old.element = E(t)
    <2>1. ASSUME NEW s \in Slots, E(t) \in Range(bucket[s]) PROVE FALSE
      <3>1. PICK k \in DOMAIN bucket[s] : bucket[s][k] = E(t)
        BY <2>1 DEF Range
      <3>2. k \in Nat
        BY <1>0, LenProperties DEF Buckets
      <3>3. <<s, k>> \in Listed(bucket, id)
        BY <3>1, <3>2 DEF Listed
      <3>4. QED
        BY <3>3
    <2>2. ASSUME NEW i \in Ids, globalTasks[i] # NoTask, globalTasks[i].element = E(t)
          PROVE  i = id
      BY <1>0, <2>2 DEF WheelOK
    <2>3. ASSUME NEW g \in Goroutines, frame[g].pc = "cancelRemove", frame[g].old.element = E(t)
          PROVE  Cancels(g)
      BY <1>0, <2>3 DEF FrameOK
    <2>4. \/ \E s \in Slots : E(t) \in Range(bucket[s])
          \/ \E i \in Ids : globalTasks[i] # NoTask /\ globalTasks[i].element = E(t)
          \/ \E g \in Goroutines : frame[g].pc = "cancelRemove" /\ frame[g].old.element = E(t)
      BY <1>1, Zenon DEF Referenced
    <2> HIDE DEF E, Cancels
    <2>5. QED
      BY <2>1, <2>2, <2>3, <2>4
  <1>2. ASSUME NEW g \in Goroutines, NEW h \in Goroutines, Cancels(g), Cancels(h)
        PROVE  g = h
    <2>1. /\ g \in Own(id) /\ stage[g] = "cancelling"
          /\ h \in Own(id) /\ stage[h] = "cancelling"
      BY <1>0, <1>2 DEF FrameOK
    <2>2. QED
      BY <1>0, <2>1 DEF StageOK, Own
  <1>3. \E t \in Tokens : E(t) \notin Referenced
    <2>1. PICK a \in Tokens, b \in Tokens, c \in Tokens : a # b /\ a # c /\ b # c
      BY DEF Assumptions, WheelAssumption
    <2>2. E(a) # E(b) /\ E(a) # E(c) /\ E(b) # E(c)
      BY <2>1
    <2> HIDE DEF E, Cancels
    <2>3. SUFFICES ASSUME E(a) \in Referenced, E(b) \in Referenced, E(c) \in Referenced
                   PROVE  FALSE
      OBVIOUS
    <2>4. QED
      BY <1>1, <1>2, <2>2, <2>3
  <1>4. (CHOOSE t \in Tokens : E(t) \notin Referenced) \in Tokens
    BY <1>3
  <1>5. QED
    BY <1>4 DEF FreshElement, Element

\* AddTask's second half moves a heartbeat into a list.
LEMMA PushEffect ==
  ASSUME Assumptions, IInv, NEW g \in Goroutines, AddTaskPush(g), UNCHANGED job
  PROVE  /\ frame[g].id \in Ids
         /\ WheelTypeOK' /\ WheelOK'
         /\ frame'[g] = Outside /\ \A h \in Goroutines \ {g} : frame'[h] = frame[h]
         /\ \A j \in Ids : OneBeat(j)' /\ (NoBeat(j)' <=> NoBeat(j))
  <1> DEFINE id == frame[g].id
             s == frame[g].slot
             e == FreshElement(id)
  <1>0. /\ WheelTypeOK /\ WheelOK /\ bucket \in Buckets /\ frame \in [Goroutines -> Frame]
        /\ DOMAIN frame = Goroutines
        /\ \A j \in Ids : OneBeat(j)
    BY DEF IInv, TypeOK, WheelTypeOK, Buckets, BeatOK
  <1>1. frame[g].pc = "addPush" /\ id \in Ids /\ s \in Slots
    BY <1>0 DEF AddTaskPush, Frame, Outside
  <1>2. g \in Adding(frame, id)
    BY <1>1 DEF Adding
  <1>3. /\ Listed(bucket, id) = {} /\ Queued(consumer, id) = {} /\ Working(job, id) = {}
        /\ \A h \in Adding(frame, id) : h = g
    BY <1>0, <1>1, <1>2 DEF OneBeat, Single, AtMostOne
  <1>4. e \in Element /\ e.id = id
    BY <1>1, <1>3, FreshIsNew
  <1> HIDE DEF e, s, id
  <1>5. /\ bucket' = [bucket EXCEPT ![s] = Append(@, e)]
        /\ globalTasks' = [globalTasks EXCEPT ![id] = [slotIdx |-> s, element |-> e]]
        /\ frame' = [frame EXCEPT ![g] = Outside]
        /\ Unlocked(s)
        /\ UNCHANGED <<currentPos, running, consumer>>
    BY <1>4 DEF AddTaskPush, e, s, id
  <1>6. bucket' \in Buckets /\ Append(bucket[s], e) \in Seq(Element) /\ Append(bucket[s], e) # <<>>
    BY <1>0, <1>1, <1>4, <1>5, AppendProperties DEF Buckets
  <1>b. bucket'[s] = Append(bucket[s], e) /\ \A t \in Slots \ {s} : bucket'[t] = bucket[t]
    BY <1>0, <1>1, <1>5 DEF Buckets
  <1>7. [slotIdx |-> s, element |-> e] \in TaskElement /\ [slotIdx |-> s, element |-> e] # NoTask
    BY <1>1, <1>4 DEF TaskElement, NoTask, Slots, Assumptions, WheelAssumption
  <1>8. WheelTypeOK'
    BY <1>0, <1>5, <1>6, <1>7 DEF WheelTypeOK, Buckets, Frame
  <1>9. WheelOK'
    <2>1. \A j \in Ids : globalTasks'[j] # NoTask => globalTasks'[j].element.id = j
      BY <1>0, <1>4, <1>5 DEF WheelOK, WheelTypeOK
    <2>2. \A t \in Slots : running'[t] = "sending" => bucket'[t] # <<>>
      BY <1>0, <1>1, <1>5, <1>6 DEF WheelOK, WheelTypeOK, Buckets
    <2>3. QED
      BY <2>1, <2>2 DEF WheelOK
  <1>10. frame'[g] = Outside /\ \A h \in Goroutines \ {g} : frame'[h] = frame[h]
    BY <1>0, <1>5
  <1>11. \A j : Adding(frame', j) = Adding(frame, j) \ {g}
    BY <1>10, AddingAfter DEF Outside
  <1>12. ASSUME NEW j \in Ids
         PROVE  OneBeat(j)' /\ (NoBeat(j)' <=> NoBeat(j))
    <2>1. Queued(consumer', j) = Queued(consumer, j) /\ Working(job', j) = Working(job, j)
      BY <1>5
    <2>2. CASE j = id
      <3>1. AtMostOne(Listed(bucket', j)) /\ Listed(bucket', j) # {}
        BY <1>0, <1>1, <1>3, <1>4, <1>b, <2>2, ListedAppend
      <3>2. Adding(frame', j) = {}
        BY <1>3, <1>11, <2>2
      <3>3. QED
        BY <1>2, <1>3, <2>1, <2>2, <3>1, <3>2 DEF OneBeat, NoBeat, Single, None, AtMostOne
    <2>3. CASE j # id
      <3>1. Listed(bucket', j) = Listed(bucket, j)
        BY <1>0, <1>1, <1>4, <1>b, <2>3, ListedAppend
      <3>2. g \notin Adding(frame, j)
        BY <2>3 DEF Adding, id
      <3>3. Adding(frame', j) = Adding(frame, j)
        BY <1>11, <3>2
      <3>4. QED
        BY <1>0, <2>1, <3>1, <3>3 DEF OneBeat, NoBeat
    <2>4. QED
      BY <2>2, <2>3
  <1>13. QED
    BY <1>1, <1>8, <1>9, <1>10, <1>12 DEF id

\* Cancel removes the heartbeat of its own connection, if it is still in a list.
LEMMA CancelRemoveEffect ==
  ASSUME Assumptions, IInv, NEW g \in Goroutines, CancelRemove(g), UNCHANGED job
  PROVE  /\ frame[g].id \in Ids /\ frame[g].pc = "cancelRemove"
         /\ WheelTypeOK' /\ WheelOK'
         /\ frame'[g].pc = "cancelForget" /\ frame'[g].id = frame[g].id
         /\ \A h \in Goroutines \ {g} : frame'[h] = frame[h]
         /\ \A j \in Ids : /\ OneBeat(j)' /\ (NoBeat(j) => NoBeat(j)')
                           /\ j # frame[g].id => (NoBeat(j)' => NoBeat(j))
  <1> DEFINE id == frame[g].id
             t == frame[g].old.slotIdx
             e == frame[g].old.element
             f == [pc |-> "cancelForget", id |-> id]
  <1>0. /\ WheelTypeOK /\ WheelOK /\ bucket \in Buckets /\ frame \in [Goroutines -> Frame]
        /\ FrameOK(g)
        /\ \A j \in Ids : OneBeat(j)
    BY DEF IInv, TypeOK, WheelTypeOK, Buckets, BeatOK
  <1>1. /\ frame[g].pc = "cancelRemove" /\ id \in Ids /\ t \in Slots /\ e \in Element
        /\ f \in Frame /\ f.pc = "cancelForget" /\ f.id = id
    BY <1>0 DEF CancelRemove, Frame, Outside, TaskElement
  <1>2. e.id = id
    BY <1>0, <1>1 DEF FrameOK
  <1>3. /\ Unlocked(t) /\ bucket' = [bucket EXCEPT ![t] = Without(t, e)]
        /\ frame' = [frame EXCEPT ![g] = f]
        /\ UNCHANGED <<currentPos, running, globalTasks, consumer>>
    BY DEF CancelRemove
  <1> HIDE DEF e, t, id, f
  <1>4. frame'[g] = f /\ \A h \in Goroutines \ {g} : frame'[h] = frame[h]
    BY <1>0, <1>3
  <1>5. ASSUME NEW j \in Ids
        PROVE  Adding(frame', j) = Adding(frame, j)
    <2>1. g \notin Adding(frame, j)
      BY <1>1 DEF Adding
    <2>2. ~(frame'[g].pc = "addPush" /\ frame'[g].id = j)
      BY <1>1, <1>4
    <2>3. Adding(frame', j) = Adding(frame, j) \ {g}
      BY <1>4, <2>2, AddingAfter
    <2>4. QED
      BY <2>1, <2>3
  <1>6. /\ \A j : Queued(consumer', j) = Queued(consumer, j) /\ Working(job', j) = Working(job, j)
        /\ \A j \in Ids : Single(Listed(bucket, j), Queued(consumer, j), Working(job, j), Adding(frame, j))
    BY <1>0, <1>3 DEF OneBeat
  <1>7. CASE e \notin Range(bucket[t])
    <2>1. bucket' = bucket
      BY <1>0, <1>1, <1>3, <1>7 DEF Without, Buckets
    <2>2. WheelTypeOK' /\ WheelOK'
      BY <1>0, <1>1, <1>3, <2>1 DEF WheelTypeOK, WheelOK
    <2>3. QED
      BY <1>1, <1>4, <1>5, <1>6, <2>1, <2>2 DEF OneBeat, NoBeat, id
  <1>8. CASE e \in Range(bucket[t])
    <2> DEFINE i == CHOOSE k \in DOMAIN bucket[t] : bucket[t][k] = e
               new == RemoveAt(bucket[t], i)
    <2>1. i \in DOMAIN bucket[t] /\ bucket[t][i] = e
      BY <1>8 DEF Range
    <2>2. bucket[t] \in Seq(Element) /\ i \in 1..Len(bucket[t])
      BY <1>0, <1>1, <2>1, LenProperties DEF Buckets
    <2>3. bucket' = [bucket EXCEPT ![t] = new]
      BY <1>3, <1>8 DEF Without
    <2> HIDE DEF i
    <2>4. new \in Seq(Element) /\ Dropped(bucket[t], new, i)
      BY <2>2, RemoveAtDrops
    <2> HIDE DEF new
    <2>5. /\ bucket' \in Buckets /\ bucket'[t] = new
          /\ \A u \in Slots \ {t} : bucket'[u] = bucket[u]
      BY <1>0, <1>1, <2>3, <2>4 DEF Buckets
    <2>6. WheelTypeOK'
      BY <1>0, <1>1, <1>3, <2>5 DEF WheelTypeOK, Buckets
    <2>7. WheelOK'
      BY <1>0, <1>3, <2>5 DEF WheelOK, Unlocked
    <2>8. ASSUME NEW j \in Ids
          PROVE  /\ OneBeat(j)' /\ (NoBeat(j) => NoBeat(j)')
                 /\ j # id => (NoBeat(j)' => NoBeat(j))
      <3>1. /\ AtMostOne(Listed(bucket, j)) => AtMostOne(Listed(bucket', j))
            /\ Listed(bucket, j) = {} => Listed(bucket', j) = {}
            /\ bucket[t][i].id # j /\ Listed(bucket, j) # {} => Listed(bucket', j) # {}
        <4>1. /\ Dropped(bucket[t], bucket'[t], i) /\ bucket' \in Buckets /\ i \in Nat
              /\ bucket \in Buckets /\ t \in Slots
              /\ \A u \in Slots \ {t} : bucket'[u] = bucket[u]
          BY <1>0, <1>1, <2>2, <2>4, <2>5, LenProperties
        <4>2. PICK u, k : u = t /\ k = i
          OBVIOUS
        <4>3. /\ Dropped(bucket[u], bucket'[u], k) /\ bucket' \in Buckets /\ k \in Nat
              /\ bucket \in Buckets /\ u \in Slots
              /\ \A v \in Slots \ {u} : bucket'[v] = bucket[v]
          BY <4>1, <4>2
        <4>4. /\ AtMostOne(Listed(bucket, j)) => AtMostOne(Listed(bucket', j))
              /\ Listed(bucket, j) = {} => Listed(bucket', j) = {}
              /\ bucket[u][k].id # j /\ Listed(bucket, j) # {} => Listed(bucket', j) # {}
          BY <4>3, ListedDrop
        <4>5. QED
          BY <4>2, <4>4
      <3>2. j # id => bucket[t][i].id # j
        BY <1>2, <2>1
      <3>3. QED
        BY <1>5, <1>6, <3>1, <3>2 DEF OneBeat, NoBeat, Single, None
    <2>9. QED
      BY <1>1, <1>4, <2>6, <2>7, <2>8 DEF id
  <1>9. QED
    BY <1>7, <1>8

\* A slot that comes due moves its heartbeats to the channel, one by one.
LEMMA ExecuteEffect ==
  ASSUME Assumptions, IInv, NEW s \in Slots, Execute(s), UNCHANGED job
  PROVE  /\ WheelTypeOK' /\ WheelOK' /\ frame' = frame
         /\ \A j \in Ids : OneBeat(j)' /\ (NoBeat(j)' <=> NoBeat(j))
  <1>0. /\ WheelTypeOK /\ WheelOK /\ bucket \in Buckets /\ bucket[s] \in Seq(Element)
        /\ \A j \in Ids : OneBeat(j)
    BY DEF IInv, TypeOK, WheelTypeOK, Buckets, BeatOK
  <1>1. ASSUME NEW list \in Seq(Element), ExecuteNext(s, list), UNCHANGED <<currentPos, frame>>,
               consumer' \in Seq(Ids), Len(consumer') <= Capacity
        PROVE  /\ WheelTypeOK' /\ WheelOK' /\ bucket' \in Buckets
               /\ bucket'[s] = list /\ \A t \in Slots \ {s} : bucket'[t] = bucket[t]
    <2>1. /\ bucket' \in Buckets
          /\ bucket'[s] = list /\ \A t \in Slots \ {s} : bucket'[t] = bucket[t]
      BY <1>0, <1>1 DEF ExecuteNext, Buckets
    <2>2. running' = [running EXCEPT ![s] = IF list = <<>> THEN "no" ELSE "sending"]
      BY <1>1 DEF ExecuteNext
    <2>3. globalTasks' \in [Ids -> TaskElement \cup {NoTask}]
      BY <1>0, <1>1 DEF ExecuteNext, WheelTypeOK
    <2>4. WheelTypeOK'
      BY <1>0, <1>1, <2>1, <2>2, <2>3 DEF WheelTypeOK, Buckets
    <2>5. \A id \in Ids : globalTasks'[id] = globalTasks[id] \/ globalTasks'[id] = NoTask
      BY <1>0, <1>1 DEF ExecuteNext, WheelTypeOK
    <2>6. WheelOK'
      BY <1>0, <2>1, <2>2, <2>5 DEF WheelOK, WheelTypeOK
    <2>7. QED
      BY <2>1, <2>4, <2>6
  <1>2. CASE ExecuteLock(s)
    <2>1. /\ ExecuteNext(s, bucket[s]) /\ UNCHANGED <<currentPos, frame, consumer>>
          /\ consumer' \in Seq(Ids) /\ Len(consumer') <= Capacity
      BY <1>0, <1>2 DEF ExecuteLock, WheelTypeOK
    <2>2. /\ WheelTypeOK' /\ WheelOK' /\ bucket' \in Buckets
          /\ bucket'[s] = bucket[s] /\ \A t \in Slots \ {s} : bucket'[t] = bucket[t]
      BY <1>0, <1>1, <2>1
    <2>3. bucket' = bucket
      BY <1>0, <2>2 DEF Buckets
    <2>4. QED
      BY <1>0, <2>1, <2>2, <2>3 DEF OneBeat, NoBeat
  <1>3. CASE ExecuteSend(s)
    <2> DEFINE e == Head(bucket[s])
    <2>1. bucket[s] # <<>>
      BY <1>0, <1>3 DEF ExecuteSend, WheelOK
    <2>2. /\ Tail(bucket[s]) \in Seq(Element) /\ Dropped(bucket[s], Tail(bucket[s]), 1)
          /\ e = bucket[s][1] /\ e \in Element
      BY <1>0, <2>1, TailDrops
    <2>3. e.id \in Ids /\ consumer \in Seq(Ids) /\ Len(consumer) < Capacity
      BY <1>0, <1>3, <2>2 DEF Element, WheelTypeOK, ExecuteSend
    <2>4. consumer' = Append(consumer, e.id) /\ UNCHANGED <<currentPos, frame>>
      BY <1>3 DEF ExecuteSend
    <2>5. consumer' \in Seq(Ids) /\ Len(consumer') <= Capacity
      <3>1. Capacity \in Nat /\ Len(consumer) \in Nat
        BY <2>3, LenProperties DEF Assumptions, WheelAssumption
      <3>2. QED
        BY <2>3, <2>4, <3>1, AppendProperties
    <2>6. /\ WheelTypeOK' /\ WheelOK' /\ bucket' \in Buckets
          /\ bucket'[s] = Tail(bucket[s]) /\ \A t \in Slots \ {s} : bucket'[t] = bucket[t]
      BY <1>1, <1>3, <2>2, <2>4, <2>5 DEF ExecuteSend
    <2> HIDE DEF e
    <2>7. ASSUME NEW j \in Ids
          PROVE  OneBeat(j)' /\ (NoBeat(j)' <=> NoBeat(j))
      <3>1. /\ AtMostOne(Listed(bucket, j)) => AtMostOne(Listed(bucket', j))
            /\ Listed(bucket, j) = {} => Listed(bucket', j) = {}
            /\ e.id # j /\ Listed(bucket, j) # {} => Listed(bucket', j) # {}
            /\ e.id = j => Listed(bucket, j) # {}
            /\ e.id = j /\ AtMostOne(Listed(bucket, j)) => Listed(bucket', j) = {}
        <4>1. PICK k \in Nat : k = 1
          OBVIOUS
        <4>2. Dropped(bucket[s], bucket'[s], k) /\ e.id = bucket[s][k].id
          BY <2>2, <2>6, <4>1
        <4>3. /\ AtMostOne(Listed(bucket, j)) => AtMostOne(Listed(bucket', j))
              /\ Listed(bucket, j) = {} => Listed(bucket', j) = {}
              /\ bucket[s][k].id # j /\ Listed(bucket, j) # {} => Listed(bucket', j) # {}
              /\ bucket[s][k].id = j => Listed(bucket, j) # {}
              /\ bucket[s][k].id = j /\ AtMostOne(Listed(bucket, j)) => Listed(bucket', j) = {}
          BY <1>0, <2>6, <4>2, ListedDrop
        <4>4. QED
          BY <4>2, <4>3
      <3>2. /\ e.id # j => Queued(consumer', j) = Queued(consumer, j)
            /\ e.id = j /\ Queued(consumer, j) = {}
                 => AtMostOne(Queued(consumer', j)) /\ Queued(consumer', j) # {}
        BY <2>3, <2>4, QueuedAppend
      <3>3. Working(job', j) = Working(job, j) /\ Adding(frame', j) = Adding(frame, j)
        BY <2>4
      <3>4. Single(Listed(bucket, j), Queued(consumer, j), Working(job, j), Adding(frame, j))
        BY <1>0 DEF OneBeat
      <3>5. QED
        BY <3>1, <3>2, <3>3, <3>4 DEF OneBeat, NoBeat, Single, None
    <2>8. QED
      BY <2>4, <2>6, <2>7
  <1>4. QED
    BY <1>2, <1>3 DEF Execute

\* A worker takes the heartbeat of an open connection over; that of a closed
\* one ends here.
LEMMA FiredEffect ==
  ASSUME Assumptions, IInv, NEW w \in Workers, Fired(w)
  PROVE  /\ WheelTypeOK' /\ WheelOK' /\ frame' = frame
         /\ job' \in [Workers -> Ids \cup {NoJob}]
         /\ \A j \in Ids : /\ OneBeat(j)' /\ (NoBeat(j) => NoBeat(j)')
                           /\ j \in sessions \ closed => (NoBeat(j)' => NoBeat(j))
  <1> DEFINE id == Head(consumer)
             Open == id \in sessions \ closed
  <1>0. /\ WheelTypeOK /\ WheelOK /\ consumer \in Seq(Ids) /\ Len(consumer) <= Capacity
        /\ job \in [Workers -> Ids \cup {NoJob}]
        /\ \A j \in Ids : OneBeat(j)
        /\ Capacity \in Nat /\ NoJob \notin Ids
    BY DEF IInv, TypeOK, WheelTypeOK, BeatOK, Assumptions, WheelAssumption, SessionAssumption
  <1>1. /\ consumer # <<>> /\ consumer' = Tail(consumer) /\ job[w] = NoJob
        /\ UNCHANGED <<currentPos, bucket, running, globalTasks, frame>>
        /\ job' = IF Open THEN [job EXCEPT ![w] = id] ELSE job
    BY DEF Fired, Receive
  <1>2. /\ Tail(consumer) \in Seq(Ids) /\ id \in Ids
        /\ Len(Tail(consumer)) = Len(consumer) - 1 /\ Len(consumer) \in Nat
    BY <1>0, <1>1, TailDrops, LenProperties DEF Dropped
  <1> HIDE DEF id
  <1>3. WheelTypeOK' /\ WheelOK'
    BY <1>0, <1>1, <1>2 DEF WheelTypeOK, WheelOK
  <1>4. job' \in [Workers -> Ids \cup {NoJob}]
    BY <1>0, <1>1, <1>2
  <1>5. ASSUME NEW j \in Ids
        PROVE  /\ OneBeat(j)' /\ (NoBeat(j) => NoBeat(j)')
               /\ j \in sessions \ closed => (NoBeat(j)' => NoBeat(j))
    <2>1. /\ AtMostOne(Queued(consumer, j)) => AtMostOne(Queued(consumer', j))
          /\ Queued(consumer, j) = {} => Queued(consumer', j) = {}
          /\ id # j /\ Queued(consumer, j) # {} => Queued(consumer', j) # {}
          /\ id = j => Queued(consumer, j) # {}
          /\ id = j /\ AtMostOne(Queued(consumer, j)) => Queued(consumer', j) = {}
      BY <1>0, <1>1, QueuedTail DEF id
    <2>2. /\ j # id \/ ~Open => Working(job', j) = Working(job, j)
          /\ j = id /\ Open => Working(job', j) = Working(job, j) \cup {w}
      <3>1. j # NoJob
        BY <1>0
      <3>2. QED
        BY <1>0, <1>1, <3>1 DEF Working
    <2>3. Listed(bucket', j) = Listed(bucket, j) /\ Adding(frame', j) = Adding(frame, j)
      BY <1>1
    <2>4. Single(Listed(bucket, j), Queued(consumer, j), Working(job, j), Adding(frame, j))
      BY <1>0 DEF OneBeat
    <2> HIDE DEF Open
    <2>5. CASE j # id
      BY <2>1, <2>2, <2>3, <2>4, <2>5 DEF OneBeat, NoBeat, Single, None
    <2>6. CASE j = id /\ Open
      BY <2>1, <2>2, <2>3, <2>4, <2>6 DEF OneBeat, NoBeat, Single, None, AtMostOne
    <2>7. CASE j = id /\ ~Open
      BY <2>1, <2>2, <2>3, <2>4, <2>7 DEF OneBeat, NoBeat, Single, None, AtMostOne, Open
    <2>8. QED
      BY <2>5, <2>6, <2>7
  <1>6. QED
    BY <1>1, <1>3, <1>4, <1>5

-----------------------------------------------------------------------------
(* The invariant is kept *)

\* A step of one connection leaves what the invariant says of the others.
LEMMA OthersStay ==
  ASSUME Assumptions, IInv, NEW id \in Ids,
         \A g \in Owners \ Own(id) : stage'[g] = stage[g],
         \A g \in Goroutines \ Own(id) : frame'[g] = frame[g],
         \A j \in Ids \ {id} : /\ j \in sessions' <=> j \in sessions
                               /\ j \in closed' <=> j \in closed
                               /\ OneBeat(j)' /\ (NoBeat(j)' <=> NoBeat(j))
  PROVE  /\ \A g \in Goroutines \ Own(id) : FrameOK(g)'
         /\ \A j \in Ids \ {id} : StageOK(j)' /\ BeatOK(j)'
  <1>0. SessionAssumption
    BY DEF Assumptions
  <1>1. ASSUME NEW g \in Goroutines \ Own(id)
        PROVE  FrameOK(g)'
    <2>1. FrameOK(g) /\ frame'[g] = frame[g] /\ (g \in Owners => stage'[g] = stage[g])
      BY DEF IInv
    <2>2. QED
      BY <1>0, <2>1, FrameStays
  <1>2. ASSUME NEW j \in Ids \ {id}
        PROVE  StageOK(j)' /\ BeatOK(j)'
    <2>1. /\ Openers[j] \in (Goroutines \cap Owners) \ Own(id)
          /\ Readers[j] \in (Goroutines \cap Owners) \ Own(id)
      BY <1>0, OwnersApart DEF Own
    <2>2. /\ stage'[Openers[j]] = stage[Openers[j]] /\ stage'[Readers[j]] = stage[Readers[j]]
          /\ frame'[Openers[j]] = frame[Openers[j]]
      BY <2>1
    <2>3. StageOK(j) /\ BeatOK(j)
      BY DEF IInv
    <2>4. StageOK(j)'
      BY <2>2, <2>3, StageStays
    <2>5. BeatOK(j)'
      BY <2>3, BeatStays
    <2>6. QED
      BY <2>4, <2>5
  <1>3. QED
    BY <1>1, <1>2

\* A step that changes no connection, unless a heartbeat of a closed one.
LEMMA AllStay ==
  ASSUME Assumptions, IInv, WheelTypeOK', WheelOK', job' \in [Workers -> Ids \cup {NoJob}],
         UNCHANGED <<stage, closed, sessions, userSession, currConnNum>>,
         \A g \in Goroutines : g \in Owners => frame'[g] = frame[g],
         \A g \in Goroutines : FrameOK(g)',
         \A j \in Ids : /\ OneBeat(j)' /\ (NoBeat(j) => NoBeat(j)')
                        /\ j \in sessions \ closed => (NoBeat(j)' => NoBeat(j))
  PROVE  IInv'
  <1>1. TypeOK' /\ CountOK'
    BY DEF IInv, TypeOK, CountOK
  <1>2. ASSUME NEW j \in Ids PROVE StageOK(j)' /\ BeatOK(j)'
    <2>1. frame'[Openers[j]] = frame[Openers[j]]
      BY OwnersApart DEF Assumptions
    <2>2. StageOK(j) /\ BeatOK(j)
      BY DEF IInv
    <2>a. /\ stage'[Openers[j]] = stage[Openers[j]] /\ stage'[Readers[j]] = stage[Readers[j]]
          /\ j \in sessions' <=> j \in sessions
          /\ j \in closed' <=> j \in closed
      OBVIOUS
    <2>b. /\ OneBeat(j)' /\ (NoBeat(j) => NoBeat(j)')
          /\ j \in sessions \ closed => (NoBeat(j)' => NoBeat(j))
      BY Zenon
    <2>3. StageOK(j)'
      BY <2>1, <2>2, <2>a, <2>b, StageStays
    <2>4. BeatOK(j)'
      BY <2>2, <2>a, <2>b, Zenon DEF BeatOK
    <2>5. QED
      BY <2>3, <2>4
  <1>3. QED
    BY <1>1, <1>2 DEF IInv

\* A connection is let in below MaxOpenConns: nothing but its stage changes.
LEMMA KeptByAccept ==
  ASSUME Assumptions, IInv, NEW id \in Ids, Accept(id)
  PROVE  IInv'
  <1> DEFINE o == Openers[id]
             r == Readers[id]
  <1>0. /\ TypeOK /\ WheelOK /\ CountOK /\ FrameOK(o) /\ FrameOK(r) /\ StageOK(id) /\ BeatOK(id)
        /\ SessionAssumption
        /\ o \in Goroutines \cap Owners /\ r \in Goroutines \cap Owners /\ o # r
        /\ o \notin Workers /\ r \notin Workers
    BY OwnersApart DEF IInv, Assumptions
  <1>1. /\ stage[o] = "none" /\ stage' = [stage EXCEPT ![o] = "accepted"]
        /\ UNCHANGED <<wheelVars, closed, sessions, userSession, currConnNum, job>>
    BY DEF Accept, Goto
  <1>2. stage \in [Owners -> Stages]
    BY <1>0 DEF TypeOK, Owners
  <1>3. stage'[o] = "accepted" /\ \A g \in Owners \ {o} : stage'[g] = stage[g]
    BY <1>0, <1>1, <1>2
  <1>4. TypeOK' /\ WheelOK' /\ CountOK'
    BY <1>0, <1>1 DEF TypeOK, WheelTypeOK, WheelOK, CountOK, wheelVars, Stages
  <1>5. \A j \in Ids : OneBeat(j)' /\ (NoBeat(j)' <=> NoBeat(j))
    BY <1>1, NoBeatMoves DEF IInv, BeatOK, wheelVars
  <1>6. /\ \A g \in Goroutines \ Own(id) : FrameOK(g)'
        /\ \A j \in Ids \ {id} : StageOK(j)' /\ BeatOK(j)'
    BY <1>1, <1>3, <1>5, OthersStay DEF wheelVars, Own
  <1>7. FrameOK(o)'
    BY <1>0, <1>1 DEF FrameOK, wheelVars
  <1>8. FrameOK(r)'
    BY <1>0, <1>1, <1>3, FrameStays DEF wheelVars
  <1>9. StageOK(id)'
    BY <1>0, <1>1, <1>3, <1>5 DEF StageOK, Own
  <1>10. BeatOK(id)'
    BY <1>0, <1>1, <1>5 DEF BeatOK
  <1>11. QED
    BY <1>4, <1>6, <1>7, <1>8, <1>9, <1>10 DEF IInv, Own

\* Insert counts a connection that is in no place yet and begins its first AddTask.
LEMMA KeptByInsert ==
  ASSUME Assumptions, IInv, NEW id \in Ids, Insert(id)
  PROVE  IInv'
  <1> DEFINE o == Openers[id]
             r == Readers[id]
  <1>0. /\ TypeOK /\ WheelOK /\ CountOK /\ FrameOK(o) /\ FrameOK(r) /\ StageOK(id) /\ BeatOK(id)
        /\ WheelAssumption /\ SessionAssumption
        /\ o \in Goroutines \cap Owners /\ r \in Goroutines \cap Owners /\ o # r
        /\ o \notin Workers /\ r \notin Workers
    BY OwnersApart DEF IInv, Assumptions
  <1>1. /\ stage[o] = "accepted" /\ stage' = [stage EXCEPT ![o] = "inserting"]
        /\ AddTask(o, id)
        /\ sessions' = sessions \cup {id} /\ currConnNum' = currConnNum + 1
        /\ UNCHANGED <<closed, userSession, job>>
    BY DEF Insert, Goto
  <1>2. stage \in [Owners -> Stages]
    BY <1>0 DEF TypeOK, Owners
  <1>3. stage'[o] = "inserting" /\ \A g \in Owners \ {o} : stage'[g] = stage[g]
    BY <1>0, <1>1, <1>2
  <1>4. id \notin sessions /\ id \notin closed /\ NoBeat(id) /\ stage[r] = "none"
    BY <1>0, <1>1 DEF StageOK
  <1>5. /\ bucket' = bucket /\ consumer' = consumer /\ WheelTypeOK' /\ WheelOK'
        /\ frame'[o].pc = "addPush" /\ frame'[o].id = id
        /\ \A h \in Goroutines \ {o} : frame'[h] = frame[h]
        /\ Adding(frame', id) = Adding(frame, id) \cup {o}
        /\ \A j \in Ids \ {id} : Adding(frame', j) = Adding(frame, j)
    BY <1>0, <1>1, <1>4, AddTaskEffect DEF NoBeat, None
  <1>6. TypeOK'
    <2>1. stage' \in [Owners -> Stages]
      BY <1>1, <1>2 DEF Stages
    <2>2. QED
      BY <1>0, <1>1, <1>5, <2>1 DEF TypeOK, Owners
  <1>7. CountOK'
    BY <1>0, <1>1, <1>4, FS_AddElement DEF CountOK
  <1>8. \A j \in Ids \ {id} : OneBeat(j)' /\ (NoBeat(j)' <=> NoBeat(j))
    BY <1>1, <1>5, NoBeatMoves DEF IInv, BeatOK
  <1>9. OneBeat(id)' /\ ~(NoBeat(id)')
    <2>1. Adding(frame', id) = {o}
      BY <1>4, <1>5 DEF NoBeat, None
    <2>2. Listed(bucket', id) = {} /\ Queued(consumer', id) = {} /\ Working(job', id) = {}
      BY <1>1, <1>4, <1>5 DEF NoBeat, None
    <2>3. QED
      BY <2>1, <2>2 DEF OneBeat, NoBeat, Single, None, AtMostOne
  <1>10. /\ \A g \in Goroutines \ Own(id) : FrameOK(g)'
         /\ \A j \in Ids \ {id} : StageOK(j)' /\ BeatOK(j)'
    BY <1>1, <1>3, <1>5, <1>8, OthersStay DEF Own
  <1>11. FrameOK(o)'
    BY <1>3, <1>5 DEF FrameOK
  <1>12. FrameOK(r)'
    BY <1>0, <1>3, <1>5, FrameStays
  <1>13. StageOK(id)'
    BY <1>0, <1>1, <1>3, <1>4, <1>5 DEF StageOK, Own
  <1>14. BeatOK(id)'
    BY <1>9 DEF BeatOK
  <1>15. QED
    BY <1>5, <1>6, <1>7, <1>10, <1>11, <1>12, <1>13, <1>14 DEF IInv, Own

\* The first heartbeat goes from its opener into a list, and the reader starts.
LEMMA KeptByStartReader ==
  ASSUME Assumptions, IInv, NEW id \in Ids, StartReader(id)
  PROVE  IInv'
  <1> DEFINE o == Openers[id]
             r == Readers[id]
  <1>0. /\ TypeOK /\ WheelOK /\ CountOK /\ FrameOK(o) /\ FrameOK(r) /\ StageOK(id) /\ BeatOK(id)
        /\ SessionAssumption
        /\ o \in Goroutines \cap Owners /\ r \in Goroutines \cap Owners /\ o # r
        /\ o \notin Workers /\ r \notin Workers
        /\ \A i \in Ids : Openers[i] # r
    BY OwnersApart DEF IInv, Assumptions
  <1>1. /\ stage[o] = "inserting" /\ stage' = [stage EXCEPT ![o] = "opened", ![r] = "reading"]
        /\ AddTaskPush(o) /\ userSession' = userSession \cup {id}
        /\ UNCHANGED <<closed, sessions, currConnNum, job>>
    BY DEF StartReader
  <1>2. stage \in [Owners -> Stages]
    BY <1>0 DEF TypeOK, Owners
  <1>3. /\ stage'[o] = "opened" /\ stage'[r] = "reading"
        /\ \A g \in Owners \ {o, r} : stage'[g] = stage[g]
    BY <1>0, <1>1, <1>2
  <1>4. id \in sessions /\ id \notin closed /\ stage[r] = "none"
    BY <1>0, <1>1 DEF StageOK
  <1>5. /\ WheelTypeOK' /\ WheelOK'
        /\ frame'[o] = Outside /\ \A h \in Goroutines \ {o} : frame'[h] = frame[h]
        /\ \A j \in Ids : OneBeat(j)' /\ (NoBeat(j)' <=> NoBeat(j))
    BY <1>0, <1>1, PushEffect
  <1>6. TypeOK'
    <2>1. stage' \in [Owners -> Stages]
      BY <1>1, <1>2 DEF Stages
    <2>2. QED
      BY <1>0, <1>1, <1>5, <2>1 DEF TypeOK, Owners
  <1>7. CountOK'
    BY <1>0, <1>1 DEF CountOK
  <1>8. /\ \A g \in Goroutines \ Own(id) : FrameOK(g)'
        /\ \A j \in Ids \ {id} : StageOK(j)' /\ BeatOK(j)'
    BY <1>1, <1>3, <1>5, OthersStay DEF Own
  <1>9. FrameOK(o)'
    BY <1>5 DEF FrameOK, Outside
  <1>10. FrameOK(r)'
    <2>1. frame[r].pc \notin {"addPush", "cancelRemove", "cancelForget"}
      BY <1>0, <1>4 DEF FrameOK
    <2>2. QED
      BY <1>0, <1>5, <2>1 DEF FrameOK
  <1>11. StageOK(id)'
    BY <1>0, <1>1, <1>3, <1>4 DEF StageOK, Own
  <1>12. BeatOK(id)'
    BY <1>0, <1>1, <1>5 DEF BeatOK
  <1>13. QED
    BY <1>5, <1>6, <1>7, <1>8, <1>9, <1>10, <1>11, <1>12 DEF IInv, Own

\* Whoever closes a connection, with OnOpen or a read that fails.
LEMMA KeptByClose ==
  ASSUME Assumptions, IInv, NEW id \in Ids, NEW g \in Own(id), Close(g, id),
         stage[g] \in {"opened", "reading"}, stage[Openers[id]] \notin {"none", "accepted", "inserting"},
         UNCHANGED <<sessions, userSession, currConnNum, job>>
  PROVE  IInv'
  <1> DEFINE f == [pc |-> "cancelRemove", id |-> id, old |-> globalTasks[id]]
  <1>0. /\ TypeOK /\ WheelOK /\ CountOK /\ StageOK(id) /\ BeatOK(id)
        /\ \A h \in Own(id) : FrameOK(h) /\ h \in Goroutines \cap Owners
        /\ SessionAssumption
    BY OwnersApart DEF IInv, Assumptions, Own
  <1>1. stage \in [Owners -> Stages] /\ frame \in [Goroutines -> Frame] /\ WheelTypeOK
    BY <1>0 DEF TypeOK, WheelTypeOK, Owners
  <1>2. UNCHANGED <<currentPos, bucket, running, globalTasks, consumer>>
    BY DEF Close, Cancel, wheelVars
  <1>3. /\ stage'[g] \in {"done", "cancelling"} /\ stage' \in [Owners -> Stages]
        /\ \A h \in Owners \ {g} : stage'[h] = stage[h]
        /\ stage'[g] = "done" => id \in closed
        /\ stage'[g] = "cancelling" => id \notin closed
    BY <1>0, <1>1 DEF Close, Goto, Stages
  <1>4. closed' = closed \cup {id}
    BY DEF Close
  <1>5. \/ frame' = frame
        \/ /\ stage'[g] = "cancelling" /\ globalTasks[id] # NoTask
           /\ frame' = [frame EXCEPT ![g] = f]
    <2>1. CASE id \in closed
      BY <2>1 DEF Close, wheelVars
    <2>2. CASE id \notin closed
      <3>1. Cancel(g, id) /\ stage'[g] = "cancelling"
        BY <1>3, <2>2 DEF Close
      <3>2. QED
        BY <3>1 DEF Cancel
    <2>3. QED
      BY <2>1, <2>2
  <1>6. frame[g].pc \notin {"addPush", "cancelRemove", "cancelForget"}
    <2>1. stage[g] # "inserting" /\ stage[g] # "cancelling"
      OBVIOUS
    <2>2. g \notin Workers
      BY <1>0, OwnersApart DEF Own
    <2>3. QED
      BY <1>0, <2>1, <2>2 DEF FrameOK
  <1>7. /\ \A h \in Goroutines \ {g} : frame'[h] = frame[h]
        /\ frame'[g].pc # "addPush"
        /\ FrameOK(g)' /\ WheelTypeOK'
    <2>1. CASE frame' = frame
      BY <1>1, <1>2, <1>6, <2>1 DEF FrameOK, WheelTypeOK
    <2>2. CASE stage'[g] = "cancelling" /\ globalTasks[id] # NoTask /\ frame' = [frame EXCEPT ![g] = f]
      <3>1. globalTasks[id] \in TaskElement /\ globalTasks[id].element.id = id
        BY <1>0, <1>1, <2>2 DEF WheelTypeOK, WheelOK
      <3>2. f \in Frame /\ f.pc = "cancelRemove" /\ f.id = id /\ f.old.element.id = id
        BY <3>1 DEF Frame
      <3> HIDE DEF f
      <3>3. frame'[g] = f /\ frame' \in [Goroutines -> Frame] /\ \A h \in Goroutines \ {g} : frame'[h] = frame[h]
        BY <1>0, <1>1, <2>2, <3>2
      <3>4. FrameOK(g)'
        BY <2>2, <3>2, <3>3 DEF FrameOK, Own
      <3>5. WheelTypeOK'
        BY <1>1, <1>2, <3>3 DEF WheelTypeOK
      <3>6. QED
        BY <3>2, <3>3, <3>4, <3>5
    <2>3. QED
      BY <1>5, <2>1, <2>2
  <1>8. TypeOK' /\ WheelOK' /\ CountOK'
    BY <1>0, <1>2, <1>3, <1>4, <1>7 DEF TypeOK, WheelOK, CountOK, Owners
  <1>9. ASSUME NEW j \in Ids
        PROVE  OneBeat(j)' /\ (NoBeat(j)' <=> NoBeat(j))
    <2>1. Adding(frame', j) = Adding(frame, j) \ {g}
      BY <1>0, <1>7, AddingAfter
    <2>2. g \notin Adding(frame, j)
      BY <1>6 DEF Adding
    <2>3. Adding(frame', j) = Adding(frame, j)
      BY <2>1, <2>2
    <2>4. QED
      BY <1>2, <2>3, NoBeatMoves DEF IInv, BeatOK
  <1>10. /\ \A h \in Goroutines \ Own(id) : FrameOK(h)'
         /\ \A j \in Ids \ {id} : StageOK(j)' /\ BeatOK(j)'
    BY <1>3, <1>4, <1>7, <1>9, OthersStay
  <1>11. \A h \in Own(id) : FrameOK(h)'
    BY <1>0, <1>3, <1>7, FrameStays
  <1>12. StageOK(id)'
    <2>1. \A h \in Own(id) \ {g} : stage'[h] = stage[h]
      BY <1>0, <1>3
    <2>2. id \notin closed => id \in sessions
      BY <1>0 DEF StageOK
    <2>3. QED
      BY <1>0, <1>3, <1>4, <2>1, <2>2 DEF StageOK, Own
  <1>13. BeatOK(id)'
    BY <1>4, <1>9 DEF BeatOK
  <1>14. QED
    BY <1>8, <1>10, <1>11, <1>12, <1>13 DEF IInv

\* Delete takes away a session that is there: it is closed once, by one goroutine.
LEMMA KeptByDelete ==
  ASSUME Assumptions, IInv, NEW id \in Ids, NEW g \in Own(id), Delete(g, id)
  PROVE  IInv'
  <1>0. /\ TypeOK /\ WheelOK /\ CountOK /\ StageOK(id) /\ BeatOK(id)
        /\ \A h \in Own(id) : FrameOK(h) /\ h \in Goroutines \cap Owners
        /\ SessionAssumption /\ Openers[id] # Readers[id]
    BY OwnersApart DEF IInv, Assumptions, Own
  <1>1. stage \in [Owners -> Stages] /\ frame \in [Goroutines -> Frame] /\ WheelTypeOK
    BY <1>0 DEF TypeOK, WheelTypeOK, Owners
  <1>2. /\ stage[g] = "cancelling" /\ stage' = [stage EXCEPT ![g] = "done"]
        /\ sessions' = sessions \ {id} /\ currConnNum' = currConnNum - 1
        /\ userSession' = userSession \ {id}
        /\ UNCHANGED <<closed, job>>
    BY DEF Delete, Goto
  <1>3. /\ stage'[g] = "done" /\ stage' \in [Owners -> Stages]
        /\ \A h \in Owners \ {g} : stage'[h] = stage[h]
    BY <1>0, <1>1, <1>2 DEF Stages
  <1>4. id \in sessions \cap closed
    BY <1>0, <1>2 DEF StageOK
  <1>5. stage[Openers[id]] \notin {"none", "accepted", "inserting"}
    BY <1>0, <1>2 DEF StageOK, Own
  <1>6. /\ UNCHANGED <<currentPos, bucket, running, consumer>>
        /\ frame'[g] = Outside /\ frame' \in [Goroutines -> Frame]
        /\ \A h \in Goroutines \ {g} : frame'[h] = frame[h]
        /\ globalTasks' \in [Ids -> TaskElement \cup {NoTask}]
        /\ \A i \in Ids : globalTasks'[i] = globalTasks[i] \/ globalTasks'[i] = NoTask
        /\ frame[g].pc # "addPush"
    <2>1. CASE CancelForget(g)
      BY <1>0, <1>1, <2>1 DEF CancelForget, Frame, WheelTypeOK
    <2>2. CASE frame[g] = Outside /\ UNCHANGED wheelVars
      BY <1>0, <1>1, <2>2 DEF wheelVars, WheelTypeOK, Outside
    <2>3. QED
      BY <2>1, <2>2 DEF Delete
  <1>7. WheelTypeOK' /\ WheelOK'
    BY <1>0, <1>1, <1>6 DEF WheelTypeOK, WheelOK
  <1>8. TypeOK'
    <2>1. currConnNum' \in Int
      BY <1>0, <1>2 DEF TypeOK
    <2>2. QED
      BY <1>0, <1>2, <1>3, <1>7, <2>1 DEF TypeOK, Owners
  <1>9. CountOK'
    BY <1>0, <1>2, <1>4, FS_RemoveElement DEF CountOK
  <1>10. ASSUME NEW j \in Ids
         PROVE  OneBeat(j)' /\ (NoBeat(j)' <=> NoBeat(j))
    <2>0. ~(frame'[g].pc = "addPush" /\ frame'[g].id = j)
      BY <1>6 DEF Outside
    <2>1. Adding(frame', j) = Adding(frame, j) \ {g}
      BY <1>0, <1>6, <2>0, AddingAfter
    <2>2. g \notin Adding(frame, j)
      BY <1>6 DEF Adding
    <2>3. Adding(frame', j) = Adding(frame, j)
      BY <2>1, <2>2
    <2>4. QED
      BY <1>2, <1>6, <2>3, NoBeatMoves DEF IInv, BeatOK
  <1>11. /\ \A h \in Goroutines \ Own(id) : FrameOK(h)'
         /\ \A j \in Ids \ {id} : StageOK(j)' /\ BeatOK(j)'
    BY <1>2, <1>3, <1>6, <1>10, OthersStay
  <1>12. ASSUME NEW h \in Own(id) PROVE FrameOK(h)'
    <2>1. CASE h = g
      BY <1>6, <2>1 DEF FrameOK, Outside
    <2>2. CASE h # g
      BY <1>0, <1>3, <1>6, <2>2, FrameStays
    <2>3. QED
      BY <2>1, <2>2
  <1>13. StageOK(id)'
    <2>1. ASSUME NEW h \in Own(id) PROVE stage'[h] # "cancelling"
      <3>1. h # g => stage[h] # "cancelling"
        BY <1>0, <1>2 DEF StageOK, Own
      <3>2. QED
        BY <1>0, <1>3, <3>1
    <2>2. stage'[Openers[id]] \notin {"none", "accepted", "inserting"}
      BY <1>0, <1>3, <1>5 DEF Own
    <2>3. id \in closed'
      BY <1>2, <1>4
    <2>4. QED
      BY <2>1, <2>2, <2>3 DEF StageOK, Own
  <1>14. BeatOK(id)'
    BY <1>2, <1>10 DEF BeatOK
  <1>15. QED
    BY <1>8, <1>7, <1>9, <1>11, <1>12, <1>13, <1>14 DEF IInv

\* A worker takes a heartbeat from the channel.
LEMMA KeptByFired ==
  ASSUME Assumptions, IInv, NEW w \in Workers, Fired(w)
  PROVE  IInv'
  <1>1. /\ WheelTypeOK' /\ WheelOK' /\ frame' = frame
        /\ job' \in [Workers -> Ids \cup {NoJob}]
        /\ \A j \in Ids : /\ OneBeat(j)' /\ (NoBeat(j) => NoBeat(j)')
                          /\ j \in sessions \ closed => (NoBeat(j)' => NoBeat(j))
    BY FiredEffect
  <1>2. UNCHANGED <<stage, closed, sessions, userSession, currConnNum>>
    BY DEF Fired, connVars
  <1>3. \A g \in Goroutines : FrameOK(g)'
    BY <1>1, <1>2 DEF IInv, FrameOK
  <1>4. QED
    BY <1>1, <1>2, <1>3, AllStay

\* A worker begins to add the heartbeat it has in hand; no other place has it.
LEMMA KeptByInsertAgain ==
  ASSUME Assumptions, IInv, NEW w \in Workers, InsertAgain(w)
  PROVE  IInv'
  <1> DEFINE id == job[w]
  <1>0. /\ TypeOK /\ WheelOK /\ WheelAssumption /\ SessionAssumption
        /\ w \in Goroutines
        /\ \A j \in Ids : OneBeat(j)
    BY DEF IInv, Assumptions, BeatOK, SessionAssumption
  <1>1. /\ id \in Ids /\ AddTask(w, id) /\ job' = [job EXCEPT ![w] = NoJob]
        /\ UNCHANGED <<stage, closed, sessions, userSession, currConnNum>>
    BY <1>0 DEF InsertAgain, TypeOK, connVars
  <1>2. w \in Working(job, id)
    BY DEF Working
  <1>3. /\ Listed(bucket, id) = {} /\ Queued(consumer, id) = {} /\ Adding(frame, id) = {}
        /\ Working(job, id) = {w}
    BY <1>0, <1>1, <1>2 DEF OneBeat, Single, AtMostOne
  <1>4. /\ bucket' = bucket /\ consumer' = consumer /\ WheelTypeOK' /\ WheelOK'
        /\ frame'[w].pc = "addPush" /\ frame'[w].id = id
        /\ \A h \in Goroutines \ {w} : frame'[h] = frame[h]
        /\ Adding(frame', id) = Adding(frame, id) \cup {w}
        /\ \A j \in Ids \ {id} : Adding(frame', j) = Adding(frame, j)
    BY <1>0, <1>1, <1>3, AddTaskEffect
  <1>5. /\ job' \in [Workers -> Ids \cup {NoJob}]
        /\ Working(job', id) = {}
        /\ \A j \in Ids \ {id} : Working(job', j) = Working(job, j)
    <2>1. job \in [Workers -> Ids \cup {NoJob}] /\ NoJob \notin Ids
      BY <1>0 DEF TypeOK, SessionAssumption
    <2>2. job'[w] = NoJob /\ \A v \in Workers \ {w} : job'[v] = job[v]
      BY <1>1, <2>1
    <2>3. Working(job', id) = {}
      BY <1>1, <1>3, <2>1, <2>2 DEF Working
    <2>4. ASSUME NEW j \in Ids \ {id} PROVE Working(job', j) = Working(job, j)
      BY <2>1, <2>2 DEF Working
    <2>5. QED
      BY <1>1, <2>1, <2>3, <2>4
  <1> HIDE DEF id
  <1>6. ASSUME NEW j \in Ids
        PROVE  OneBeat(j)' /\ (NoBeat(j)' <=> NoBeat(j))
    <2>1. CASE j = id
      BY <1>3, <1>4, <1>5, <2>1 DEF OneBeat, NoBeat, Single, None, AtMostOne
    <2>2. CASE j # id
      BY <1>0, <1>4, <1>5, <2>2 DEF OneBeat, NoBeat
    <2>3. QED
      BY <2>1, <2>2
  <1>7. ASSUME NEW g \in Goroutines PROVE FrameOK(g)'
    <2>1. CASE g = w
      BY <1>4, <2>1 DEF FrameOK
    <2>2. CASE g # w
      BY <1>0, <1>1, <1>4, <2>2, FrameStays DEF IInv
    <2>3. QED
      BY <2>1, <2>2
  <1>8. \A g \in Goroutines : g \in Owners => frame'[g] = frame[g]
    <2>1. w \notin Owners
      BY <1>0 DEF SessionAssumption, Owners, Range
    <2>2. QED
      BY <1>4, <2>1
  <1>9. QED
    BY <1>1, <1>4, <1>5, <1>6, <1>7, <1>8, AllStay

\* The second halves of Cancel, for a closed connection only, and of a worker's AddTask.
LEMMA KeptByWheelCallStep ==
  ASSUME Assumptions, IInv, NEW g \in Goroutines, WheelCallStep(g)
  PROVE  IInv'
  <1>0. /\ TypeOK /\ SessionAssumption
        /\ UNCHANGED <<stage, closed, sessions, userSession, currConnNum, job>>
        /\ \A h \in Goroutines : FrameOK(h)
        /\ \A j \in Ids : StageOK(j) /\ BeatOK(j)
    BY DEF IInv, Assumptions, WheelCallStep, connVars
  <1>1. CASE CancelRemove(g)
    <2>1. /\ frame[g].id \in Ids /\ frame[g].pc = "cancelRemove"
          /\ WheelTypeOK' /\ WheelOK'
          /\ frame'[g].pc = "cancelForget" /\ frame'[g].id = frame[g].id
          /\ \A h \in Goroutines \ {g} : frame'[h] = frame[h]
          /\ \A j \in Ids : /\ OneBeat(j)' /\ (NoBeat(j) => NoBeat(j)')
                            /\ j # frame[g].id => (NoBeat(j)' => NoBeat(j))
      BY <1>0, <1>1, CancelRemoveEffect
    <2> DEFINE id == frame[g].id
    <2>2. g \in Own(id) /\ stage[g] = "cancelling" /\ id \in sessions \cap closed
      BY <1>0, <2>1 DEF FrameOK, StageOK
    <2>3. stage[Openers[id]] \notin {"none", "accepted", "inserting"}
      BY <1>0, <2>1, <2>2 DEF StageOK, Own
    <2> HIDE DEF id
    <2>4. FrameOK(g)'
      BY <1>0, <2>1 DEF FrameOK, Own
    <2>5. \A h \in Goroutines \ {g} : FrameOK(h)'
      BY <1>0, <2>1, FrameStays
    <2>6. TypeOK' /\ CountOK'
      BY <1>0, <2>1 DEF IInv, TypeOK, CountOK
    <2>7. ASSUME NEW j \in Ids PROVE StageOK(j)'
      <3>1. CASE Openers[j] = g
        <4>1. stage[Openers[j]] = "cancelling"
          BY <2>2, <3>1
        <4>2. QED
          BY <1>0, <4>1 DEF StageOK, Own
      <3>2. CASE Openers[j] # g
        <4>1. /\ frame'[Openers[j]] = frame[Openers[j]]
              /\ stage'[Openers[j]] = stage[Openers[j]] /\ stage'[Readers[j]] = stage[Readers[j]]
              /\ NoBeat(j) => NoBeat(j)'
          BY <1>0, <2>1, <3>2, OwnersApart
        <4>2. QED
          BY <1>0, <4>1, StageStays
      <3>3. QED
        BY <3>1, <3>2
    <2>8. ASSUME NEW j \in Ids PROVE BeatOK(j)'
      <3>1. CASE j = id
        <4>1. j \in closed'
          BY <1>0, <2>2, <3>1
        <4>2. QED
          BY <2>1, <4>1 DEF BeatOK
      <3>2. CASE j # id
        <4>1. OneBeat(j)' /\ (NoBeat(j)' => NoBeat(j)) /\ BeatOK(j)
          BY <1>0, <2>1, <3>2 DEF id
        <4>2. j \in sessions' \ closed' => j \in sessions \ closed
          BY <1>0
        <4>3. QED
          BY <4>1, <4>2, BeatStays
      <3>3. QED
        BY <3>1, <3>2
    <2>9. QED
      BY <2>1, <2>4, <2>5, <2>6, <2>7, <2>8 DEF IInv
  <1>2. CASE g \in Workers /\ AddTaskPush(g)
    <2>1. /\ WheelTypeOK' /\ WheelOK'
          /\ frame'[g] = Outside /\ \A h \in Goroutines \ {g} : frame'[h] = frame[h]
          /\ \A j \in Ids : OneBeat(j)' /\ (NoBeat(j)' <=> NoBeat(j))
      BY <1>0, <1>2, PushEffect
    <2>2. FrameOK(g)'
      BY <2>1 DEF FrameOK, Outside
    <2>3. \A h \in Goroutines \ {g} : FrameOK(h)'
      BY <1>0, <2>1, FrameStays
    <2>4. g \notin Owners
      BY <1>0, <1>2 DEF SessionAssumption, Owners, Range
    <2>5. job' \in [Workers -> Ids \cup {NoJob}]
      BY <1>0 DEF TypeOK
    <2>6. QED
      BY <1>0, <2>1, <2>2, <2>3, <2>4, <2>5, AllStay
  <1>3. QED
    BY <1>1, <1>2 DEF WheelCallStep

\* The hand moves, or a slot sends: the heartbeat is in the list or in the channel.
LEMMA KeptByWheelStep ==
  ASSUME Assumptions, IInv, WheelStep
  PROVE  IInv'
  <1>0. /\ TypeOK /\ WheelTypeOK /\ WheelOK
        /\ UNCHANGED <<stage, closed, sessions, userSession, currConnNum, job>>
        /\ \A j \in Ids : OneBeat(j)
        /\ WheelAssumption
    BY DEF IInv, TypeOK, WheelStep, connVars, BeatOK, Assumptions
  <1>1. /\ WheelTypeOK' /\ WheelOK' /\ frame' = frame
        /\ \A j \in Ids : OneBeat(j)' /\ (NoBeat(j)' <=> NoBeat(j))
    <2>1. CASE AdvanceAndRun
      <3>1. currentPos \in Nat /\ running \in [Slots -> {"no", "spawned", "sending"}]
        BY <1>0 DEF WheelTypeOK, Slots, WheelAssumption
      <3>2. (currentPos + 1) % NumSlots \in Slots
        BY <1>0, <3>1, ModSlots
      <3>3. /\ running' = [running EXCEPT ![currentPos] = "spawned"]
            /\ currentPos' = (currentPos + 1) % NumSlots
            /\ UNCHANGED <<bucket, globalTasks, consumer, frame>>
        BY <2>1 DEF AdvanceAndRun
      <3>4. running' \in [Slots -> {"no", "spawned", "sending"}]
        BY <3>1, <3>3
      <3>5. \A s \in Slots : running'[s] = "sending" => running[s] = "sending"
        BY <3>1, <3>3
      <3>6. WheelTypeOK' /\ WheelOK'
        BY <1>0, <3>2, <3>3, <3>4, <3>5 DEF WheelTypeOK, WheelOK
      <3>7. QED
        BY <1>0, <3>3, <3>6, NoBeatMoves
    <2>2. ASSUME NEW s \in Slots, Execute(s)
          PROVE  /\ WheelTypeOK' /\ WheelOK' /\ frame' = frame
                 /\ \A j \in Ids : OneBeat(j)' /\ (NoBeat(j)' <=> NoBeat(j))
      BY <1>0, <2>2, ExecuteEffect
    <2>3. QED
      BY <2>1, <2>2 DEF WheelStep
  <1>2. \A g \in Goroutines : FrameOK(g)'
    BY <1>0, <1>1 DEF IInv, FrameOK
  <1>3. job' \in [Workers -> Ids \cup {NoJob}]
    BY <1>0 DEF TypeOK
  <1>4. QED
    BY <1>0, <1>1, <1>2, <1>3, AllStay

\* The process dies: every connection that had come is closed, and the wheel of
\* the new process is empty.
LEMMA KeptByCrash ==
  ASSUME Assumptions, IInv, Crash
  PROVE  IInv'
  <1>0. /\ TypeOK /\ stage \in [Owners -> Stages] /\ WheelAssumption /\ SessionAssumption
        /\ DOMAIN stage = Owners
    BY DEF IInv, TypeOK, Owners, Assumptions
  <1> DEFINE Gone(g) == \E id \in Come : g \in {Openers[id], Readers[id]}
  <1>1. /\ closed' = closed \cup Come
        /\ sessions' = {} /\ userSession' = {} /\ currConnNum' = 0
        /\ job' = [w \in Workers |-> NoJob]
        /\ currentPos' = 0
        /\ bucket' = [s \in Slots |-> <<>>]
        /\ running' = [s \in Slots |-> "no"]
        /\ globalTasks' = [id \in Ids |-> NoTask]
        /\ consumer' = <<>>
        /\ frame' = [g \in Goroutines |-> Outside]
    BY DEF Crash
  <1>2. \A g \in Owners : stage'[g] = IF Gone(g) THEN "done" ELSE stage[g]
    BY <1>0 DEF Crash
  <1>3. stage' \in [Owners -> Stages]
    <2>1. stage' = [g \in Owners |-> IF Gone(g) THEN "done" ELSE stage[g]]
      BY <1>0 DEF Crash
    <2>2. \A g \in Owners : (IF Gone(g) THEN "done" ELSE stage[g]) \in Stages
      BY <1>0 DEF Stages
    <2> HIDE DEF Gone
    <2>3. QED
      BY <2>1, <2>2
  <1>4. WheelTypeOK'
    <2>1. 0 \in Slots /\ <<>> \in Seq(Element) /\ <<>> \in Seq(Ids) /\ Len(<<>>) = 0 /\ Capacity \in Nat
      BY <1>0, EmptySeq DEF Slots, WheelAssumption
    <2>2. QED
      BY <1>1, <2>1 DEF WheelTypeOK, Frame
  <1>5. TypeOK'
    <2>1. closed' \subseteq Ids
      BY <1>0, <1>1 DEF TypeOK, Come
    <2>2. QED
      BY <1>1, <1>3, <1>4, <2>1 DEF TypeOK, Owners
  <1>6. WheelOK'
    BY <1>1 DEF WheelOK
  <1>7. CountOK'
    BY <1>1, FS_EmptySet DEF CountOK
  <1>8. \A g \in Goroutines : FrameOK(g)'
    BY <1>1 DEF FrameOK, Outside
  <1>9. ASSUME NEW j \in Ids PROVE NoBeat(j)'
    <2>1. Listed(bucket', j) = {}
      BY <1>1 DEF Listed
    <2>2. Queued(consumer', j) = {}
      BY <1>1 DEF Queued
    <2>3. Working(job', j) = {}
      BY <1>0, <1>1 DEF Working, SessionAssumption
    <2>4. Adding(frame', j) = {}
      BY <1>1 DEF Adding, Outside
    <2>5. QED
      BY <2>1, <2>2, <2>3, <2>4 DEF NoBeat, None
  <1>10. ASSUME NEW j \in Ids PROVE StageOK(j)'
    <2>0. /\ Openers[j] \in Owners /\ Readers[j] \in Owners
          /\ \A i \in Ids : Openers[j] \in {Openers[i], Readers[i]} => i = j
          /\ \A i \in Ids : Readers[j] \in {Openers[i], Readers[i]} => i = j
      BY <1>0, OwnersApart
    <2>1. CASE j \in Come
      <3>1. stage'[Openers[j]] = "done" /\ stage'[Readers[j]] = "done" /\ j \in closed'
        BY <1>1, <1>2, <2>0, <2>1
      <3>2. QED
        BY <3>1 DEF StageOK, Own
    <2>2. CASE j \notin Come
      <3>1. stage[Openers[j]] = "none"
        BY <2>2 DEF Come
      <3>2. j \notin closed /\ stage[Readers[j]] = "none"
        BY <3>1 DEF IInv, StageOK
      <3>3. ~Gone(Openers[j]) /\ ~Gone(Readers[j])
        BY <2>0, <2>2 DEF Come
      <3>4. /\ stage'[Openers[j]] = "none" /\ stage'[Readers[j]] = "none"
            /\ j \notin closed' /\ j \notin sessions'
        BY <1>1, <1>2, <2>0, <2>2, <3>1, <3>2, <3>3
      <3>5. QED
        BY <1>9, <3>4 DEF StageOK, Own
    <2>3. QED
      BY <2>1, <2>2
  <1>11. ASSUME NEW j \in Ids PROVE BeatOK(j)'
    BY <1>1, <1>9 DEF BeatOK, OneBeat, NoBeat, Single, None, AtMostOne
  <1>12. QED
    BY <1>5, <1>6, <1>7, <1>8, <1>10, <1>11 DEF IInv

\* Nothing of the connections and the wheel changes.
LEMMA KeptByStutter ==
  ASSUME IInv, UNCHANGED vars
  PROVE  IInv'
  <1> USE DEF vars, wheelVars, connVars
  <1>1. TypeOK' /\ WheelOK' /\ CountOK'
    BY DEF IInv, TypeOK, WheelTypeOK, WheelOK, CountOK
  <1>2. \A g \in Goroutines : FrameOK(g)'
    BY DEF IInv, FrameOK
  <1>3. \A id \in Ids : StageOK(id)' /\ BeatOK(id)'
    <2>1. \A id \in Ids : (NoBeat(id)' <=> NoBeat(id)) /\ (OneBeat(id)' <=> OneBeat(id))
      BY NoBeatMoves
    <2>2. QED
      BY <2>1, StageStays, BeatStays DEF IInv, BeatOK
  <1>4. QED
    BY <1>1, <1>2, <1>3 DEF IInv

\* Init, of both specifications.
LEMMA InvariantHoldsFirst ==
  ASSUME Assumptions, Init
  PROVE  IInv
  <1>0. WheelAssumption /\ SessionAssumption
    BY DEF Assumptions
  <1>1. TypeOK
    <2>1. WheelTypeOK
      <3>1. 0 \in Slots /\ <<>> \in Seq(Element) /\ <<>> \in Seq(Ids) /\ Len(<<>>) = 0 /\ Capacity \in Nat
        BY <1>0, EmptySeq DEF Slots, WheelAssumption
      <3>2. QED
        BY <3>1 DEF Init, WheelInit, WheelTypeOK, Frame
    <2>2. QED
      BY <2>1 DEF Init, TypeOK, Stages
  <1>2. WheelOK
    BY DEF Init, WheelInit, WheelOK
  <1>3. CountOK
    BY FS_EmptySet DEF Init, CountOK
  <1>4. \A g \in Goroutines : FrameOK(g)
    BY DEF Init, WheelInit, FrameOK, Outside
  <1>5. ASSUME NEW j \in Ids PROVE NoBeat(j)
    <2>1. Listed(bucket, j) = {}
      BY DEF Init, WheelInit, Listed
    <2>2. Queued(consumer, j) = {}
      BY DEF Init, WheelInit, Queued
    <2>3. Working(job, j) = {}
      BY <1>0 DEF Init, Working, SessionAssumption
    <2>4. Adding(frame, j) = {}
      BY DEF Init, WheelInit, Adding, Outside
    <2>5. QED
      BY <2>1, <2>2, <2>3, <2>4 DEF NoBeat, None
  <1>6. ASSUME NEW j \in Ids PROVE StageOK(j) /\ BeatOK(j)
    <2>1. stage[Openers[j]] = "none" /\ stage[Readers[j]] = "none"
      BY <1>0, OwnersApart DEF Init, Owners
    <2>2. closed = {} /\ sessions = {}
      BY DEF Init
    <2>3. StageOK(j)
      BY <1>5, <2>1, <2>2 DEF StageOK, Own
    <2>4. BeatOK(j)
      BY <1>5, <2>2 DEF BeatOK, OneBeat, NoBeat, Single, None, AtMostOne
    <2>5. QED
      BY <2>3, <2>4
  <1>7. QED
    BY <1>1, <1>2, <1>3, <1>4, <1>6 DEF IInv

\* The opener closes its connection.
LEMMA KeptByOnOpenFails ==
  ASSUME Assumptions, IInv, NEW id \in Ids, OnOpenFails(id)
  PROVE  IInv'
  <1>1. /\ stage[Openers[id]] = "opened" /\ Close(Openers[id], id)
        /\ UNCHANGED <<sessions, userSession, currConnNum, job>>
        /\ Openers[id] \in Own(id)
    BY DEF OnOpenFails, Own
  <1>2. stage[Openers[id]] \notin {"none", "accepted", "inserting"}
    BY <1>1
  <1>3. QED
    BY <1>1, <1>2, KeptByClose

\* The reader closes its connection.
LEMMA KeptByReadFails ==
  ASSUME Assumptions, IInv, NEW id \in Ids, ReadFails(id)
  PROVE  IInv'
  <1>1. /\ stage[Readers[id]] = "reading" /\ Close(Readers[id], id)
        /\ UNCHANGED <<sessions, userSession, currConnNum, job>>
        /\ Readers[id] \in Own(id)
    BY DEF ReadFails, Own
  <1>2. stage[Openers[id]] \notin {"none", "accepted", "inserting"}
    BY <1>1 DEF IInv, StageOK
  <1>3. QED
    BY <1>1, <1>2, KeptByClose

\* The connections and the wheel, one lemma per action.
LEMMA KeptBySessionStep ==
  ASSUME Assumptions, IInv, SessionStep
  PROVE  IInv'
  <1>1. ASSUME NEW id \in Ids, Accept(id) \/ OpenerStep(id) \/ ReadFails(id) \/ Delete(Readers[id], id)
        PROVE  IInv'
    <2>1. Openers[id] \in Own(id) /\ Readers[id] \in Own(id)
      BY DEF Own
    <2>2. QED
      BY <1>1, <2>1, KeptByAccept, KeptByInsert, KeptByStartReader, KeptByReadFails, KeptByDelete
         DEF OpenerStep
  <1>2. ASSUME NEW w \in Workers, Fired(w) \/ InsertAgain(w)
        PROVE  IInv'
    BY <1>2, KeptByFired, KeptByInsertAgain
  <1>3. ASSUME NEW g \in Goroutines, WheelCallStep(g)
        PROVE  IInv'
    BY <1>3, KeptByWheelCallStep
  <1>4. QED
    BY <1>1, <1>2, <1>3, KeptByWheelStep DEF SessionStep

-----------------------------------------------------------------------------
(* The theorems *)

\* Connections, their goroutines and their heartbeats, whatever the schedule.
THEOREM ConnectionInvariant == Spec => []IInv
  <1> USE WheelAssumption, SessionAssumption DEF Assumptions
  <1>1. Init => IInv
    BY InvariantHoldsFirst
  <1>2. IInv /\ [Next]_vars => IInv'
    BY KeptBySessionStep, KeptByOnOpenFails, KeptByStutter DEF Next
  <1>3. QED
    BY <1>1, <1>2, PTL DEF Spec

\* The places of Heartbeats are those of Listed, Queued, Working and Adding.
LEMMA HeartbeatPlaces ==
  ASSUME TypeOK, NEW id
  PROVE  /\ \A h \in Heartbeats(id) :
              \/ \E p \in Listed(bucket, id) : h = <<"list", p>>
              \/ \E i \in Queued(consumer, id) : h = <<"channel", i>>
              \/ \E w \in Working(job, id) : h = <<"worker", w>>
              \/ \E g \in Adding(frame, id) : h = <<"adding", g>>
         /\ Heartbeats(id) = {} => NoBeat(id)
  <1>1. \A s \in Slots : DOMAIN bucket[s] \subseteq Nat
    BY LenProperties DEF TypeOK, WheelTypeOK
  <1>2. ASSUME NEW h \in Heartbeats(id)
        PROVE  \/ \E p \in Listed(bucket, id) : h = <<"list", p>>
               \/ \E i \in Queued(consumer, id) : h = <<"channel", i>>
               \/ \E w \in Working(job, id) : h = <<"worker", w>>
               \/ \E g \in Adding(frame, id) : h = <<"adding", g>>
    <2>1. \/ \E s \in Slots : h \in {<<"list", <<s, i>>>> : i \in {j \in DOMAIN bucket[s] : bucket[s][j].id = id}}
          \/ h \in {<<"channel", i>> : i \in Queued(consumer, id)}
          \/ h \in {<<"worker", w>> : w \in Working(job, id)}
          \/ h \in {<<"adding", g>> : g \in Adding(frame, id)}
      BY DEF Heartbeats, Queued, Working, Adding
    <2>2. ASSUME NEW s \in Slots, NEW i \in DOMAIN bucket[s], bucket[s][i].id = id, h = <<"list", <<s, i>>>>
          PROVE  \E p \in Listed(bucket, id) : h = <<"list", p>>
      <3>1. <<s, i>> \in Listed(bucket, id)
        BY <1>1, <2>2 DEF Listed
      <3>2. QED
        BY <2>2, <3>1
    <2>3. QED
      BY <2>1, <2>2
  <1>3. ASSUME Heartbeats(id) = {} PROVE NoBeat(id)
    <2>1. ASSUME NEW p \in Listed(bucket, id) PROVE FALSE
      <3>1. PICK s \in Slots : \E i \in DOMAIN bucket[s] : bucket[s][i].id = id
        BY DEF Listed
      <3>2. PICK i \in DOMAIN bucket[s] : bucket[s][i].id = id
        BY <3>1
      <3>3. <<"list", <<s, i>>>> \in Heartbeats(id)
        BY <3>2 DEF Heartbeats
      <3>4. QED
        BY <1>3, <3>3
    <2>2. ASSUME NEW i \in Queued(consumer, id) PROVE FALSE
      <3>1. <<"channel", i>> \in Heartbeats(id)
        BY DEF Heartbeats, Queued
      <3>2. QED
        BY <1>3, <3>1
    <2>3. ASSUME NEW w \in Working(job, id) PROVE FALSE
      <3>1. <<"worker", w>> \in Heartbeats(id)
        BY DEF Heartbeats, Working
      <3>2. QED
        BY <1>3, <3>1
    <2>4. ASSUME NEW g \in Adding(frame, id) PROVE FALSE
      <3>1. <<"adding", g>> \in Heartbeats(id)
        BY DEF Heartbeats, Adding
      <3>2. QED
        BY <1>3, <3>1
    <2>5. QED
      BY <2>1, <2>2, <2>3, <2>4 DEF NoBeat, None
  <1>4. QED
    BY <1>2, <1>3

\* At most one of them is occupied.
LEMMA HeartbeatsAtMostOne ==
  ASSUME TypeOK, NEW id, OneBeat(id)
  PROVE  Cardinality(Heartbeats(id)) <= 1
  <1>1. ASSUME NEW h \in Heartbeats(id), NEW k \in Heartbeats(id) PROVE h = k
    <2> DEFINE L(x) == \E p \in Listed(bucket, id) : x = <<"list", p>>
               C(x) == \E i \in Queued(consumer, id) : x = <<"channel", i>>
               W(x) == \E w \in Working(job, id) : x = <<"worker", w>>
               A(x) == \E g \in Adding(frame, id) : x = <<"adding", g>>
    <2>1. (L(h) \/ C(h) \/ W(h) \/ A(h)) /\ (L(k) \/ C(k) \/ W(k) \/ A(k))
      BY HeartbeatPlaces, Zenon
    <2>2. /\ L(h) /\ L(k) => h = k
          /\ C(h) /\ C(k) => h = k
          /\ W(h) /\ W(k) => h = k
          /\ A(h) /\ A(k) => h = k
      BY Zenon DEF OneBeat, Single, AtMostOne
    <2>3. \A x, y : /\ ~(L(x) /\ C(y)) /\ ~(L(x) /\ W(y)) /\ ~(L(x) /\ A(y))
                    /\ ~(C(x) /\ W(y)) /\ ~(C(x) /\ A(y)) /\ ~(W(x) /\ A(y))
      BY Zenon DEF OneBeat, Single
    <2> HIDE DEF L, C, W, A
    <2>4. QED
      BY <2>1, <2>2, <2>3
  <1>2. CASE Heartbeats(id) = {}
    BY <1>2, FS_EmptySet
  <1>3. CASE Heartbeats(id) # {}
    <2>1. PICK h \in Heartbeats(id) : Heartbeats(id) = {h}
      BY <1>1, <1>3
    <2>2. Cardinality({h}) = 1
      BY FS_Singleton
    <2>3. QED
      BY <2>1, <2>2
  <1>4. QED
    BY <1>2, <1>3

\* A connection never has two heartbeats under way: the callback, Insert and
\* the expiry of a slot hand the one heartbeat from place to place.
THEOREM OneHeartbeat == Spec => []OneHeartbeatPerConnection
  <1>1. IInv => OneHeartbeatPerConnection
    BY HeartbeatsAtMostOne DEF IInv, BeatOK, OneHeartbeatPerConnection
  <1>2. QED
    BY <1>1, ConnectionInvariant, PTL

\* No open connection drops out of the wheel.
THEOREM NoHeartbeatLost == Spec => []HeartbeatNeverLost
  <1>1. ASSUME IInv, NEW id \in sessions \ closed PROVE Heartbeats(id) # {}
    BY <1>1, HeartbeatPlaces DEF IInv, TypeOK, BeatOK
  <1>2. IInv => HeartbeatNeverLost
    BY <1>1 DEF HeartbeatNeverLost
  <1>3. QED
    BY <1>2, ConnectionInvariant, PTL

\* Manager.Insert and Manager.Delete count every connection once.
THEOREM ConnectionsCounted == Spec => []ConnNumCountsSessions
  <1>1. IInv => ConnNumCountsSessions
    BY DEF IInv, CountOK, ConnNumCountsSessions
  <1>2. QED
    BY <1>1, ConnectionInvariant, PTL

-----------------------------------------------------------------------------
(* The connections with their bindings, their failures and the crashes *)

BindOK ==
  /\ entry \in [Ids -> {"none", "fresh", "stale"}]
  /\ bound \subseteq Ids /\ unbound \subseteq Ids
  /\ query \in [Queries -> {NoQuery} \cup [at: {"prune"}, old: (SUBSET Ids) \ {{}}]]

\* The types of the hash and of the requests that read it.
LEMMA BindKept ==
  ASSUME IInv, BindOK, BindingNext \/ UNCHANGED allVars
  PROVE  BindOK'
  <1>1. CASE (SessionStep /\ UNCHANGED bindVars) \/ UNCHANGED allVars
    BY <1>1 DEF BindOK, bindVars, allVars
  <1>2. ASSUME NEW id \in Ids, Bind(id) \/ BindFails(id) \/ Ping(id) \/ UnBind(id) \/ Elapse(id)
        PROVE  BindOK'
    BY <1>2 DEF BindOK, Bind, BindFails, Ping, UnBind, Elapse
  <1>3. ASSUME NEW q \in Queries, IsOnlineRead(q) PROVE BindOK'
    <2>1. Old \in (SUBSET Ids) \ {{}}
      BY <1>3 DEF IsOnlineRead, Old
    <2>2. [at |-> "prune", old |-> Old] \in [at: {"prune"}, old: (SUBSET Ids) \ {{}}]
      BY <2>1
    <2>3. QED
      BY <1>3, <2>2 DEF BindOK, IsOnlineRead
  <1>4. ASSUME NEW q \in Queries, IsOnlinePrune(q) PROVE BindOK'
    BY <1>4 DEF BindOK, IsOnlinePrune
  <1>5. CASE Crash
    <2>1. Come \subseteq Ids
      BY DEF Come
    <2>2. QED
      BY <1>5, <2>1 DEF BindOK, Crash
  <1>6. QED
    BY <1>1, <1>2, <1>3, <1>4, <1>5 DEF BindingNext

\* What Redis answers and who asks does not touch connections; OnOpenFails and Crash do.
LEMMA BindingKeepsInvariant ==
  ASSUME Assumptions, IInv, BindingNext \/ UNCHANGED allVars
  PROVE  IInv'
  <1>1. ASSUME NEW id \in Ids, Bind(id) \/ Ping(id) \/ UnBind(id) \/ Elapse(id)
        PROVE  UNCHANGED vars
    BY <1>1 DEF Bind, Ping, UnBind, Elapse
  <1>2. ASSUME NEW q \in Queries, IsOnlineRead(q) \/ IsOnlinePrune(q)
        PROVE  UNCHANGED vars
    BY <1>2 DEF IsOnlineRead, IsOnlinePrune
  <1>3. ASSUME NEW id \in Ids, BindFails(id) PROVE IInv'
    BY <1>3, KeptByOnOpenFails DEF BindFails
  <1>4. UNCHANGED allVars => UNCHANGED vars
    BY DEF allVars
  <1>5. QED
    BY <1>1, <1>2, <1>3, <1>4, KeptBySessionStep, KeptByStutter, KeptByCrash DEF BindingNext

\* The same invariant when binding may fail and the process may die.
THEOREM BindingInvariant == BindingSpec => [](IInv /\ BindOK)
  <1> USE WheelAssumption, SessionAssumption DEF Assumptions
  <1>1. BindingInit => IInv /\ BindOK
    BY InvariantHoldsFirst DEF BindingInit, BindOK
  <1>2. IInv /\ BindOK /\ [BindingNext]_allVars => (IInv /\ BindOK)'
    BY BindKept, BindingKeepsInvariant
  <1>3. QED
    BY <1>1, <1>2, PTL DEF BindingSpec

\* Type correctness of connections, wheel, hash and requests.
THEOREM BindingTypes == BindingSpec => []BindingTypeOK
  <1>1. IInv /\ BindOK => BindingTypeOK
    BY DEF IInv, BindOK, BindingTypeOK
  <1>2. QED
    BY <1>1, BindingInvariant, PTL

\* A failed OnOpen or a restart neither doubles nor loses a heartbeat and leaves
\* the count of the connections right.
THEOREM BeatsSurviveRestarts ==
  BindingSpec => [](OneHeartbeatPerConnection /\ HeartbeatNeverLost /\ ConnNumCountsSessions)
  <1>1. ASSUME IInv, NEW id \in sessions \ closed PROVE Heartbeats(id) # {}
    BY <1>1, HeartbeatPlaces DEF IInv, TypeOK, BeatOK
  <1>2. IInv => OneHeartbeatPerConnection /\ HeartbeatNeverLost /\ ConnNumCountsSessions
    BY <1>1, HeartbeatsAtMostOne
       DEF IInv, BeatOK, CountOK, OneHeartbeatPerConnection, HeartbeatNeverLost, ConnNumCountsSessions
  <1>3. QED
    BY <1>2, BindingInvariant, PTL
=============================================================================
