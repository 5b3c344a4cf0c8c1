-------------------------- MODULE RedEnvelopeProofs --------------------------
(***************************************************************************)
(* Proofs about RedEnvelope for every set of envelopes, users and          *)
(* instances, and every amount and number of shares.                       *)
(***************************************************************************)
EXTENDS RedEnvelope, FiniteSetTheorems, SequenceTheorems, TLAPS

(* The cents of the shares *)

Sum(r) == Cardinality(Cents(r, 1)) - Cardinality(Cents(r, -1))

Counted(r) == IsFiniteSet(Cents(r, 1)) /\ IsFiniteSet(Cents(r, -1))

\* The cents of one share.
LEMMA CentsOfOne ==
  ASSUME NEW k, NEW a \in Int
  PROVE  /\ IsFiniteSet({k} \X (1..a))
         /\ Cardinality({k} \X (1..a)) = IF a > 0 THEN a ELSE 0
  <1>1. CASE a > 0
    <2> DEFINE size == IF 1 > a THEN 0 ELSE a - 1 + 1
    <2>1. size = a
      BY <1>1
    <2>a. 1 \in Int /\ a \in Int
      OBVIOUS
    <2>2. IsFiniteSet(1..a) /\ Cardinality(1..a) = size
      BY <2>a, FS_Interval, Zenon
    <2>3. IsFiniteSet({k}) /\ Cardinality({k}) = 1
      BY FS_Singleton
    <2> HIDE DEF size
    <2>4. IsFiniteSet({k} \X (1..a)) /\ Cardinality({k} \X (1..a)) = Cardinality({k}) * Cardinality(1..a)
      BY <2>2, <2>3, FS_Product, Zenon
    <2>5. Cardinality({k} \X (1..a)) = a
      BY <2>1, <2>2, <2>3, <2>4
    <2>6. QED
      BY <1>1, <2>4, <2>5
  <1>2. CASE a <= 0
    <2>1. {k} \X (1..a) = {}
      BY <1>2
    <2>2. QED
      BY <1>2, <2>1, FS_EmptySet
  <1>3. QED
    BY <1>1, <1>2

\* Shares that keep their amounts keep their cents.
LEMMA CentsSame ==
  ASSUME NEW r, NEW q, NEW sign, DOMAIN q = DOMAIN r, \A k \in DOMAIN r : q[k].amount = r[k].amount
  PROVE  Cents(q, sign) = Cents(r, sign)
  <1>1. \A k \in DOMAIN r : {k} \X (1..(sign * q[k].amount)) = {k} \X (1..(sign * r[k].amount))
    OBVIOUS
  <1>2. QED
    BY <1>1, Zenon DEF Cents

\* A new share adds its cents.
LEMMA CentsGrow ==
  ASSUME NEW r \in Seq(Receiver), NEW q, NEW sign \in {1, -1}, NEW a \in Int,
         DOMAIN q = 1..(Len(r) + 1), \A k \in 1..Len(r) : q[k].amount = r[k].amount,
         q[Len(r) + 1].amount = a, IsFiniteSet(Cents(r, sign))
  PROVE  /\ IsFiniteSet(Cents(q, sign))
         /\ Cardinality(Cents(q, sign)) = Cardinality(Cents(r, sign)) + (IF sign * a > 0 THEN sign * a ELSE 0)
  <1> DEFINE n == Len(r) + 1
             New == {n} \X (1..(sign * a))
  <1>1. Len(r) \in Nat /\ DOMAIN r = 1..Len(r)
    BY LenProperties
  <1>2. DOMAIN q = DOMAIN r \cup {n} /\ n \notin DOMAIN r
    BY <1>1
  <1>3. q[n].amount = a /\ \A k \in DOMAIN r : q[k].amount = r[k].amount
    BY <1>1
  <1>4. sign * a \in Int
    OBVIOUS
  <1> HIDE DEF n
  <1>5. \A k \in DOMAIN r : {k} \X (1..(sign * q[k].amount)) = {k} \X (1..(sign * r[k].amount))
    BY <1>3
  <1>6. {n} \X (1..(sign * q[n].amount)) = New
    BY <1>3
  <1> DEFINE F(k) == {k} \X (1..(sign * q[k].amount))
             G(k) == {k} \X (1..(sign * r[k].amount))
  <1>7. Cents(q, sign) = UNION {F(k) : k \in DOMAIN q} /\ Cents(r, sign) = UNION {G(k) : k \in DOMAIN r}
    BY DEF Cents
  <1>8. \A k, p : p \in G(k) => p[1] = k
    OBVIOUS
  <1>9. \A p : p \in New => p[1] = n
    OBVIOUS
  <1>10. (\A k \in DOMAIN r : F(k) = G(k)) /\ F(n) = New
    BY <1>5, <1>6
  <1> HIDE DEF F, G, New
  <1>11. Cents(q, sign) = Cents(r, sign) \cup New
    BY <1>2, <1>7, <1>10
  <1>12. Cents(r, sign) \cap New = {}
    BY <1>2, <1>7, <1>8, <1>9
  <1>13. IsFiniteSet(New) /\ Cardinality(New) = IF sign * a > 0 THEN sign * a ELSE 0
    BY <1>4, CentsOfOne DEF New
  <1>14. /\ IsFiniteSet(Cents(r, sign) \cup New)
         /\ Cardinality(Cents(r, sign) \cup New)
              = Cardinality(Cents(r, sign)) + Cardinality(New) - Cardinality(Cents(r, sign) \cap New)
    BY <1>13, FS_Union
  <1>15. Cardinality(Cents(r, sign) \cap New) = 0
    BY <1>12, FS_EmptySet
  <1>16. Cardinality(Cents(r, sign)) \in Nat /\ Cardinality(New) \in Nat
    BY <1>13, FS_CardinalityType
  <1>17. QED
    BY <1>11, <1>13, <1>14, <1>15, <1>16

\* The sum of the shares grows by the share, be it negative.
LEMMA SumGrows ==
  ASSUME NEW r \in Seq(Receiver), NEW q, NEW a \in Int,
         DOMAIN q = 1..(Len(r) + 1), \A k \in 1..Len(r) : q[k].amount = r[k].amount,
         q[Len(r) + 1].amount = a, Counted(r)
  PROVE  Counted(q) /\ Sum(q) = Sum(r) + a /\ Sum(r) \in Int
  <1> DEFINE Up(s) == IF s * a > 0 THEN s * a ELSE 0
  <1>1. /\ IsFiniteSet(Cents(q, 1)) /\ IsFiniteSet(Cents(q, -1))
        /\ Cardinality(Cents(q, 1)) = Cardinality(Cents(r, 1)) + Up(1)
        /\ Cardinality(Cents(q, -1)) = Cardinality(Cents(r, -1)) + Up(-1)
    <2>1. 1 \in {1, -1} /\ -1 \in {1, -1}
      OBVIOUS
    <2>2. QED
      BY <2>1, CentsGrow DEF Counted
  <1>2. Cardinality(Cents(r, 1)) \in Nat /\ Cardinality(Cents(r, -1)) \in Nat
    BY FS_CardinalityType DEF Counted
  <1>3. Up(1) - Up(-1) = a /\ Up(1) \in Int /\ Up(-1) \in Int
    OBVIOUS
  <1> HIDE DEF Up
  <1>4. QED
    BY <1>1, <1>2, <1>3 DEF Counted, Sum

-----------------------------------------------------------------------------
(* The inductive invariant *)

\* What is true of an envelope an instance keeps, open or closed.
EnvelopeOK(x) ==
  /\ Counted(x.receivers) /\ Sum(x.receivers) + x.remainAmount = x.amount
  /\ Len(x.receivers) + x.remainCount = x.count
  /\ x.status = "finished" <=> x.remainCount = 0
  /\ x.remainCount = 0 => x.remainAmount = 0
  /\ x.status = "expired" => x.refund = x.remainAmount
  /\ \A k, l \in DOMAIN x.receivers : x.receivers[k].user = x.receivers[l].user => k = l
  /\ x.type = "lucky" /\ x.amount >= x.count =>
       /\ x.remainAmount >= x.remainCount
       /\ \A k \in DOMAIN x.receivers : x.receivers[k].amount >= 1

Instances == Serving \cup {Cron}

\* An expired envelope is late, and stays so: nobody receives from it any more.
IInv ==
  /\ TypeOK
  /\ \A i \in Instances, e \in Envelopes :
       /\ env[i][e] # Absent => EnvelopeOK(env[i][e])
       /\ env[i][e].status = "expired" => e \in late

-----------------------------------------------------------------------------
(* Taking a share *)

\* Two lists with the same shares, whatever is marked as best.
SameShares(p, q) ==
  /\ p \in Seq(Receiver) /\ Len(p) = Len(q)
  /\ \A k \in 1..Len(q) : p[k].user = q[k].user /\ p[k].amount = q[k].amount

\* y is x but for the shares' marks, the best one and the status.
Kin(y, x) ==
  /\ y \in Envelope
  /\ SameShares(y.receivers, x.receivers)
  /\ y.type = x.type /\ y.amount = x.amount /\ y.count = x.count /\ y.refund = x.refund
  /\ y.remainAmount = x.remainAmount /\ y.remainCount = x.remainCount

\* The best share is noted, and marked at the end; no share changes its owner or amount.
LEMMA TrackBestKin ==
  ASSUME NEW x \in Envelope, NEW u \in Users, NEW a \in Int
  PROVE  Kin(TrackBest(x, u, a), x) /\ TrackBest(x, u, a).status = x.status
  <1> DEFINE best == IF a > x.bestAmount
                     THEN [x EXCEPT !.bestUser = u, !.bestAmount = a] ELSE x
             Mark(r) == [r EXCEPT !.isBest = (r.user = best.bestUser)]
             marked == [k \in DOMAIN best.receivers |-> Mark(best.receivers[k])]
  <1>1. x.receivers \in Seq(Receiver) /\ x.bestAmount \in Nat
    BY DEF Envelope
  <1>2. /\ best \in Envelope /\ best.receivers = x.receivers /\ best.status = x.status
        /\ best.type = x.type /\ best.amount = x.amount /\ best.count = x.count /\ best.refund = x.refund
        /\ best.remainAmount = x.remainAmount /\ best.remainCount = x.remainCount
    <2>1. CASE a > x.bestAmount
      <3> DEFINE b == [x EXCEPT !.bestUser = u, !.bestAmount = a]
      <3>1. a \in Nat /\ u \in Users \cup {Nobody}
        BY <1>1, <2>1
      <3>2. b \in Envelope
        BY <3>1 DEF Envelope
      <3>3. /\ b.receivers = x.receivers /\ b.status = x.status
            /\ b.type = x.type /\ b.amount = x.amount /\ b.count = x.count /\ b.refund = x.refund
            /\ b.remainAmount = x.remainAmount /\ b.remainCount = x.remainCount
        BY DEF Envelope
      <3>4. best = b
        BY <2>1
      <3> HIDE DEF b, best
      <3>5. QED
        BY <3>2, <3>3, <3>4
    <2>2. CASE ~(a > x.bestAmount)
      BY <2>2
    <2>3. QED
      BY <2>1, <2>2
  <1>3. TrackBest(x, u, a) = IF best.remainCount > 0 THEN best ELSE [best EXCEPT !.receivers = marked]
    BY DEF TrackBest
  <1>4. \A r \in Receiver : Mark(r) \in Receiver /\ Mark(r).user = r.user /\ Mark(r).amount = r.amount
    BY DEF Receiver
  <1>5. marked = [k \in DOMAIN x.receivers |-> Mark(x.receivers[k])]
    BY <1>2
  <1> HIDE DEF best, Mark, marked
  <1>6. SameShares(marked, x.receivers)
    <2>1. Len(x.receivers) \in Nat /\ DOMAIN x.receivers = 1..Len(x.receivers)
          /\ \A k \in 1..Len(x.receivers) : x.receivers[k] \in Receiver
      BY <1>1, LenProperties, ElementOfSeq
    <2>2. marked \in [1..Len(x.receivers) -> Receiver]
      BY <1>4, <1>5, <2>1
    <2>3. marked \in Seq(Receiver)
      BY <2>1, <2>2, SeqDef
    <2>4. Len(marked) = Len(x.receivers)
      BY <2>1, <2>2, <2>3, LenProperties
    <2>5. QED
      BY <1>4, <1>5, <2>1, <2>3, <2>4 DEF SameShares
  <1>7. SameShares(x.receivers, x.receivers)
    BY <1>1 DEF SameShares
  <1>8. [best EXCEPT !.receivers = marked] \in Envelope
    BY <1>2, <1>6 DEF Envelope, SameShares
  <1>9. Kin(best, x)
    BY <1>2, <1>7 DEF Kin
  <1>10. Kin([best EXCEPT !.receivers = marked], x) /\ [best EXCEPT !.receivers = marked].status = x.status
    BY <1>2, <1>6, <1>8 DEF Kin, Envelope
  <1>11. QED
    BY <1>2, <1>3, <1>9, <1>10

\* The envelope after Receive gave u the share a.
LEMMA TakeEffect ==
  ASSUME NEW x \in Envelope, NEW u \in Users, NEW a \in Int, x.remainCount > 0
  PROVE  LET y == Take(x, u, a)
             n == Len(x.receivers)
         IN  /\ y \in Envelope
             /\ y.type = x.type /\ y.amount = x.amount /\ y.count = x.count /\ y.refund = x.refund
             /\ y.remainAmount = x.remainAmount - a /\ y.remainCount = x.remainCount - 1
             /\ y.status = IF x.remainCount = 1 THEN "finished" ELSE x.status
             /\ DOMAIN y.receivers = 1..(n + 1) /\ Len(y.receivers) = n + 1
             /\ \A k \in 1..n : /\ y.receivers[k].user = x.receivers[k].user
                                /\ y.receivers[k].amount = x.receivers[k].amount
             /\ y.receivers[n + 1].user = u /\ y.receivers[n + 1].amount = a
  <1> DEFINE y == Take(x, u, a)
             n == Len(x.receivers)
             new == [user |-> u, amount |-> a, isBest |-> FALSE]
             list == Append(x.receivers, new)
             ra == x.remainAmount - a
             rc == x.remainCount - 1
             taken == [x EXCEPT !.receivers = list, !.remainAmount = ra, !.remainCount = rc]
             tracked == IF x.type = "lucky" THEN TrackBest(taken, u, a) ELSE taken
  <1>1. x.receivers \in Seq(Receiver) /\ new \in Receiver /\ new.user = u /\ new.amount = a
    BY DEF Envelope, Receiver
  <1>2. /\ list \in Seq(Receiver) /\ Len(list) = n + 1
        /\ \A k \in 1..n : list[k] = x.receivers[k]
        /\ list[n + 1] = new
    BY <1>1, AppendProperties
  <1>3. n \in Nat
    BY <1>1, LenProperties
  <1>4. y = IF tracked.remainCount = 0 THEN [tracked EXCEPT !.status = "finished"] ELSE tracked
    BY DEF Take
  <1> HIDE DEF list, n, new
  <1>5. /\ taken \in Envelope /\ taken.receivers = list /\ taken.status = x.status
        /\ taken.type = x.type /\ taken.amount = x.amount /\ taken.count = x.count /\ taken.refund = x.refund
        /\ taken.remainAmount = x.remainAmount - a /\ taken.remainCount = x.remainCount - 1
    <2>1. ra \in Int /\ rc \in 0..MaxCount
      BY EnvelopeAssumption DEF Envelope, EnvelopeAssumption
    <2> HIDE DEF ra, rc
    <2>2. taken \in Envelope
      BY <1>2, <2>1 DEF Envelope
    <2>3. taken.receivers = list /\ taken.remainAmount = ra /\ taken.remainCount = rc
      BY DEF Envelope
    <2>4. /\ taken.status = x.status /\ taken.type = x.type /\ taken.amount = x.amount
          /\ taken.count = x.count /\ taken.refund = x.refund
      BY DEF Envelope
    <2>5. QED
      BY <2>2, <2>3, <2>4 DEF ra, rc
  <1> HIDE DEF taken, y
  <1>6. Kin(tracked, taken) /\ tracked.status = x.status
    <2>1. SameShares(list, list)
      BY <1>2 DEF SameShares
    <2>2. Kin(taken, taken)
      BY <1>5, <2>1 DEF Kin
    <2>3. QED
      BY <1>5, <2>2, TrackBestKin
  <1> HIDE DEF tracked
  <1>7. /\ y \in Envelope /\ y.receivers = tracked.receivers
        /\ y.type = x.type /\ y.amount = x.amount /\ y.count = x.count /\ y.refund = x.refund
        /\ y.remainAmount = x.remainAmount - a /\ y.remainCount = x.remainCount - 1
        /\ y.status = IF x.remainCount = 1 THEN "finished" ELSE x.status
    <2>1. tracked \in Envelope /\ tracked.remainCount = x.remainCount - 1 /\ x.remainCount \in Int
      BY <1>5, <1>6 DEF Kin, Envelope
    <2>2. CASE x.remainCount = 1
      <3>1. y = [tracked EXCEPT !.status = "finished"]
        BY <1>4, <2>1, <2>2
      <3>2. y \in Envelope /\ y.status = "finished"
        BY <2>1, <3>1 DEF Envelope
      <3>3. QED
        BY <1>5, <1>6, <2>1, <2>2, <3>1, <3>2 DEF Kin, Envelope
    <2>3. CASE x.remainCount # 1
      <3>1. y = tracked
        BY <1>4, <2>1, <2>3
      <3>2. QED
        BY <1>5, <1>6, <2>1, <2>3, <3>1 DEF Kin
    <2>4. QED
      BY <2>2, <2>3
  <1>8. /\ y.receivers \in Seq(Receiver) /\ Len(y.receivers) = n + 1
        /\ \A k \in 1..(n + 1) : y.receivers[k].user = list[k].user /\ y.receivers[k].amount = list[k].amount
    BY <1>2, <1>5, <1>6, <1>7 DEF Kin, SameShares
  <1>9. DOMAIN y.receivers = 1..(n + 1)
    BY <1>8, LenProperties
  <1>10. /\ \A k \in 1..n : /\ y.receivers[k].user = x.receivers[k].user
                            /\ y.receivers[k].amount = x.receivers[k].amount
         /\ y.receivers[n + 1].user = u /\ y.receivers[n + 1].amount = a
    BY <1>1, <1>2, <1>3, <1>8
  <1>11. QED
    BY <1>7, <1>8, <1>9, <1>10 DEF y, n

\* Every amount the code can draw is a whole number of cents; the last share is
\* what remains, and one of a lucky envelope with a cent for everyone leaves a
\* cent for each share to come.
LEMMA AmountsDrawn ==
  ASSUME NEW x \in Envelope, x.remainCount > 0, NEW a \in Amounts(x)
  PROVE  /\ a \in Int
         /\ x.remainCount = 1 => a = x.remainAmount
         /\ x.type = "lucky" /\ x.remainAmount >= x.remainCount =>
              a >= 1 /\ x.remainAmount - a >= x.remainCount - 1
  <1>1. /\ x.remainAmount \in Int /\ x.remainCount \in Nat /\ x.amount \in Nat /\ x.count \in Nat
        /\ x.count > 0 /\ x.type \in {"lucky", "normal"}
    BY EnvelopeAssumption DEF Envelope, EnvelopeAssumption
  <1>2. \A p \in Int, q \in Nat : q > 0 => RoundDiv(p, q) \in Int
    BY DEF RoundDiv
  <1>3. CASE x.type = "lucky"
    <2>1. a \in CalcLuckyAmounts(x)
      BY <1>3 DEF Amounts
    <2>2. CASE x.remainCount = 1
      BY <1>1, <2>1, <2>2 DEF CalcLuckyAmounts
    <2>3. CASE x.remainCount # 1
      <3> DEFINE left == x.remainCount - 1
                 top == AtLeastOneCent(RoundDiv(2 * x.remainAmount, x.remainCount))
      <3>1. PICK draw \in 1..top : a = IF x.remainAmount - draw < left THEN x.remainAmount - left ELSE draw
        BY <2>1, <2>3 DEF CalcLuckyAmounts
      <3>2. top \in Int
        <4>0. 2 * x.remainAmount \in Int /\ x.remainCount \in Nat /\ x.remainCount > 0
          BY <1>1
        <4>1. RoundDiv(2 * x.remainAmount, x.remainCount) \in Int
          BY <1>2, <4>0
        <4>2. QED
          BY <4>1 DEF AtLeastOneCent
      <3> HIDE DEF top
      <3>3. draw \in Int /\ draw >= 1 /\ left \in Int
        BY <1>1, <3>2
      <3>4. QED
        BY <1>1, <2>3, <3>1, <3>3
    <2>4. QED
      BY <2>2, <2>3
  <1>4. CASE x.type = "normal"
    <2>1. a \in NormalAmounts(x)
      BY <1>4 DEF Amounts
    <2>2. QED
      <3>1. RoundDiv(x.amount, x.count) \in Int
        <4>1. x.amount \in Int
          BY <1>1
        <4>2. QED
          BY <1>1, <1>2, <4>1
      <3>2. QED
        BY <1>1, <1>4, <2>1, <3>1 DEF NormalAmounts
  <1>5. QED
    BY <1>1, <1>3, <1>4

\* A share keeps every cent accounted for, and a user's share alone.
LEMMA TakeKeeps ==
  ASSUME NEW x \in Envelope, EnvelopeOK(x), x.status \in {"available"}, NEW u \in Users,
         ~HasReceived(x, u), NEW a \in Amounts(x)
  PROVE  Take(x, u, a) \in Envelope /\ EnvelopeOK(Take(x, u, a)) /\ Take(x, u, a).status # "expired"
  <1> DEFINE y == Take(x, u, a)
             n == Len(x.receivers)
  <1>1. /\ x.remainAmount \in Int /\ x.remainCount \in Nat /\ x.amount \in Nat /\ x.count \in Nat
        /\ x.receivers \in Seq(Receiver)
    BY EnvelopeAssumption DEF Envelope, EnvelopeAssumption
  <1>2. x.remainCount > 0
    BY <1>1 DEF EnvelopeOK
  <1>3. /\ a \in Int
        /\ x.remainCount = 1 => a = x.remainAmount
        /\ x.type = "lucky" /\ x.remainAmount >= x.remainCount =>
             a >= 1 /\ x.remainAmount - a >= x.remainCount - 1
    BY <1>2, AmountsDrawn
  <1>4. /\ y \in Envelope
        /\ y.type = x.type /\ y.amount = x.amount /\ y.count = x.count /\ y.refund = x.refund
        /\ y.remainAmount = x.remainAmount - a /\ y.remainCount = x.remainCount - 1
        /\ y.status = IF x.remainCount = 1 THEN "finished" ELSE x.status
        /\ DOMAIN y.receivers = 1..(n + 1) /\ Len(y.receivers) = n + 1
        /\ \A k \in 1..n : /\ y.receivers[k].user = x.receivers[k].user
                           /\ y.receivers[k].amount = x.receivers[k].amount
        /\ y.receivers[n + 1].user = u /\ y.receivers[n + 1].amount = a
    BY <1>2, <1>3, TakeEffect
  <1>5. n \in Nat /\ DOMAIN x.receivers = 1..n
    BY <1>1, LenProperties
  <1> HIDE DEF y
  <1>6. Counted(y.receivers) /\ Sum(y.receivers) = Sum(x.receivers) + a /\ Sum(x.receivers) \in Int
    <2> DEFINE r == x.receivers
               q == y.receivers
    <2>1. r \in Seq(Receiver) /\ Counted(r) /\ a \in Int
      BY <1>1, <1>3 DEF EnvelopeOK
    <2>2. /\ DOMAIN q = 1..(Len(r) + 1) /\ q[Len(r) + 1].amount = a
          /\ \A k \in 1..Len(r) : q[k].amount = r[k].amount
      BY <1>4
    <2> HIDE DEF r, q
    <2>3. Counted(q) /\ Sum(q) = Sum(r) + a /\ Sum(r) \in Int
      BY <2>1, <2>2, SumGrows
    <2>4. QED
      BY <2>3 DEF r, q
  <1> HIDE DEF n
  <1>7. Sum(y.receivers) + y.remainAmount = y.amount
    BY <1>1, <1>3, <1>4, <1>6 DEF EnvelopeOK
  <1>8. Len(y.receivers) + y.remainCount = y.count
    <2>1. n + x.remainCount = x.count
      BY DEF EnvelopeOK, n
    <2>2. Len(y.receivers) = n + 1 /\ y.remainCount = x.remainCount - 1 /\ y.count = x.count
      BY <1>4
    <2>3. n \in Nat /\ x.remainCount \in Nat
      BY <1>1, <1>5
    <2>4. n + 1 + (x.remainCount - 1) = n + x.remainCount
      BY <2>3
    <2>5. QED
      BY <2>1, <2>2, <2>4
  <1>9. /\ y.status = "finished" <=> y.remainCount = 0
        /\ y.remainCount = 0 => y.remainAmount = 0
        /\ y.status # "expired"
    BY <1>1, <1>2, <1>3, <1>4
  <1>10. \A k, l \in DOMAIN y.receivers : y.receivers[k].user = y.receivers[l].user => k = l
    <2>1. \A k \in 1..n : y.receivers[k].user # u
      BY <1>4, <1>5 DEF HasReceived
    <2>2. \A k, l \in 1..n : y.receivers[k].user = y.receivers[l].user => k = l
      BY <1>4, <1>5 DEF EnvelopeOK
    <2>3. \A k \in DOMAIN y.receivers : k \in 1..n \/ k = n + 1
      BY <1>4, <1>5
    <2>4. QED
      BY <1>4, <2>1, <2>2, <2>3
  <1>11. ASSUME y.type = "lucky", y.amount >= y.count
         PROVE  /\ y.remainAmount >= y.remainCount
                /\ \A k \in DOMAIN y.receivers : y.receivers[k].amount >= 1
    <2>1. x.remainAmount >= x.remainCount /\ \A k \in 1..n : x.receivers[k].amount >= 1
      BY <1>4, <1>5, <1>11 DEF EnvelopeOK
    <2>2. \A k \in DOMAIN y.receivers : k \in 1..n \/ k = n + 1
      BY <1>4, <1>5
    <2>3. a >= 1 /\ x.remainAmount - a >= x.remainCount - 1
      BY <1>3, <1>4, <1>11, <2>1
    <2>4. QED
      BY <1>4, <2>1, <2>2, <2>3
  <1>12. EnvelopeOK(y)
    BY <1>6, <1>7, <1>8, <1>9, <1>10, <1>11 DEF EnvelopeOK
  <1>13. QED
    BY <1>4, <1>9, <1>12 DEF y

\* An expiry refunds what remains.
LEMMA ExpiryKeeps ==
  ASSUME NEW x \in Envelope, EnvelopeOK(x), x.status = "available"
  PROVE  /\ MarkExpired(x) \in Envelope /\ EnvelopeOK(MarkExpired(x))
         /\ MarkExpired(x).status = "expired"
  <1> DEFINE y == [x EXCEPT !.status = "expired", !.refund = x.remainAmount]
  <1>1. y \in Envelope
    BY DEF Envelope
  <1>2. y.status = "expired" /\ y.refund = x.remainAmount
    BY DEF Envelope
  <1>3. /\ y.type = x.type /\ y.amount = x.amount /\ y.count = x.count /\ y.receivers = x.receivers
        /\ y.remainAmount = x.remainAmount /\ y.remainCount = x.remainCount
    BY DEF Envelope
  <1>4. MarkExpired(x) = y
    BY DEF MarkExpired
  <1> HIDE DEF y
  <1>5. EnvelopeOK(y)
    BY <1>2, <1>3 DEF EnvelopeOK
  <1>6. QED
    BY <1>1, <1>2, <1>4, <1>5

-----------------------------------------------------------------------------
(* The invariant is kept *)

\* One envelope of one instance is written.
LEMMA OneWritten ==
  ASSUME IInv, NEW i \in Instances, NEW e \in Envelopes, NEW v \in Envelope, EnvelopeOK(v),
         v.status = "expired" => e \in late,
         env' = [env EXCEPT ![i][e] = v], UNCHANGED late
  PROVE  IInv'
  <1>1. env \in [Instances -> [Envelopes -> {Absent} \cup Envelope]] /\ late \subseteq Envelopes
    BY DEF IInv, TypeOK, Instances
  <1>2. env' \in [Instances -> [Envelopes -> {Absent} \cup Envelope]]
    BY <1>1
  <1>3. ASSUME NEW j \in Instances, NEW f \in Envelopes
        PROVE  env'[j][f] = IF j = i /\ f = e THEN v ELSE env[j][f]
    BY <1>1
  <1>4. TypeOK'
    BY <1>1, <1>2 DEF TypeOK, Instances
  <1>5. ASSUME NEW j \in Instances, NEW f \in Envelopes
        PROVE  /\ env'[j][f] # Absent => EnvelopeOK(env'[j][f])
               /\ env'[j][f].status = "expired" => f \in late'
    BY <1>3, <1>5 DEF IInv
  <1>6. QED
    BY <1>4, <1>5 DEF IInv

\* An envelope that is there is one of the records.
LEMMA Present ==
  ASSUME IInv, NEW i \in Instances, NEW e \in Envelopes, env[i][e] # Absent
  PROVE  env[i][e] \in Envelope /\ EnvelopeOK(env[i][e])
  BY DEF IInv, TypeOK, Instances

\* A new envelope holds its whole amount.
LEMMA KeptByCreate ==
  ASSUME IInv, NEW i \in Serving, NEW e \in Envelopes, NEW type \in {"normal", "lucky"},
         NEW amount \in 1..MaxAmount, NEW count \in 1..MaxCount, Create(i, e, type, amount, count)
  PROVE  IInv'
  <1> DEFINE v == [status |-> "available", type |-> type, amount |-> amount, count |-> count,
                   remainAmount |-> amount, remainCount |-> count, receivers |-> <<>>,
                   bestUser |-> Nobody, bestAmount |-> 0, refund |-> 0]
  <1>1. amount \in Int /\ count \in 0..MaxCount /\ count > 0 /\ amount >= 1 /\ <<>> \in Seq(Receiver)
    BY EnvelopeAssumption, EmptySeq DEF EnvelopeAssumption
  <1>2. v \in Envelope
    BY <1>1 DEF Envelope
  <1>3. Cents(<<>>, 1) = {} /\ Cents(<<>>, -1) = {}
    BY DEF Cents
  <1>4. Counted(<<>>) /\ Sum(<<>>) = 0
    <2>1. IsFiniteSet({}) /\ Cardinality({}) = 0
      BY FS_EmptySet, Zenon
    <2>2. /\ IsFiniteSet(Cents(<<>>, 1)) /\ Cardinality(Cents(<<>>, 1)) = 0
          /\ IsFiniteSet(Cents(<<>>, -1)) /\ Cardinality(Cents(<<>>, -1)) = 0
      BY <1>3, <2>1, Zenon
    <2>3. 0 - 0 = 0
      OBVIOUS
    <2>4. QED
      BY <2>2, <2>3, Zenon DEF Counted, Sum
  <1>5. /\ v.status = "available" /\ v.amount = amount /\ v.count = count /\ v.remainAmount = amount
        /\ v.remainCount = count /\ v.receivers = <<>>
    OBVIOUS
  <1>6. Len(<<>>) = 0 /\ DOMAIN <<>> = {}
    BY EmptySeq
  <1>7. env' = [env EXCEPT ![i][e] = v] /\ UNCHANGED late
    BY DEF Create
  <1> HIDE DEF v
  <1>8. EnvelopeOK(v)
    BY <1>1, <1>4, <1>5, <1>6 DEF EnvelopeOK
  <1>9. QED
    BY <1>2, <1>5, <1>7, <1>8, OneWritten DEF Instances

\* A share is taken from an available envelope: an expired one is late.
LEMMA KeptByReceive ==
  ASSUME IInv, NEW i \in Serving, NEW e \in Envelopes, NEW u \in Users, Receive(i, e, u)
  PROVE  IInv'
  <1> DEFINE x == env[i][e]
  <1>1. /\ i \in Instances /\ x # Absent /\ e \notin late /\ x.status # "finished" /\ ~HasReceived(x, u)
        /\ UNCHANGED late
    BY DEF Receive, Instances
  <1>2. PICK a \in Amounts(x) : env' = [env EXCEPT ![i][e] = Take(x, u, a)]
    BY <1>1 DEF Receive, IInv, TypeOK, Instances
  <1>3. x \in Envelope /\ EnvelopeOK(x) /\ x.status = "available"
    BY <1>1, Present DEF IInv, Envelope
  <1> HIDE DEF x
  <1>4. Take(x, u, a) \in Envelope /\ EnvelopeOK(Take(x, u, a)) /\ Take(x, u, a).status # "expired"
    BY <1>1, <1>3, TakeKeeps
  <1>5. QED
    BY <1>1, <1>2, <1>4, OneWritten

\* The first user to come too late closes the envelope.
LEMMA KeptByReceiveLate ==
  ASSUME IInv, NEW i \in Serving, NEW e \in Envelopes, ReceiveLate(i, e)
  PROVE  IInv'
  <1> DEFINE x == env[i][e]
  <1>1. /\ i \in Instances /\ x # Absent /\ e \in late /\ x.status = "available"
        /\ UNCHANGED late
    BY DEF ReceiveLate, Instances
  <1>2. env' = [env EXCEPT ![i][e] = MarkExpired(x)]
    BY <1>1 DEF ReceiveLate, IInv, TypeOK, Instances
  <1>3. x \in Envelope /\ EnvelopeOK(x)
    BY <1>1, Present
  <1> HIDE DEF x
  <1>4. MarkExpired(x) \in Envelope /\ EnvelopeOK(MarkExpired(x))
    BY <1>1, <1>3, ExpiryKeeps
  <1>5. QED
    BY <1>1, <1>2, <1>4, OneWritten

\* What the hourly job makes of an envelope of its instance, and of the others.
LEMMA Swept ==
  ASSUME IInv, ExpireOverdue, NEW i \in Instances, NEW e \in Envelopes
  PROVE  /\ env' \in [Instances -> [Envelopes -> {Absent} \cup Envelope]]
         /\ \/ env'[i][e] = env[i][e]
            \/ env[i][e].status = "available" /\ e \in late /\ env'[i][e] = MarkExpired(env[i][e])
  <1> DEFINE New(f) == IF env[Cron][f].status = "available" /\ f \in late
                       THEN MarkExpired(env[Cron][f]) ELSE env[Cron][f]
             row == [f \in Envelopes |-> New(f)]
  <1>1. env \in [Instances -> [Envelopes -> {Absent} \cup Envelope]] /\ Cron \in Instances
    BY DEF IInv, TypeOK, Instances
  <1>2. env' = [env EXCEPT ![Cron] = row]
    BY <1>1 DEF ExpireOverdue
  <1>3. ASSUME NEW f \in Envelopes PROVE New(f) \in {Absent} \cup Envelope
    <2>1. CASE env[Cron][f].status = "available" /\ f \in late
      <3>1. env[Cron][f] # Absent
        BY <2>1 DEF Absent
      <3>2. env[Cron][f] \in Envelope /\ EnvelopeOK(env[Cron][f])
        BY <1>1, <3>1, Present
      <3>3. MarkExpired(env[Cron][f]) \in Envelope
        BY <2>1, <3>2, ExpiryKeeps
      <3>4. QED
        BY <2>1, <3>3
    <2>2. CASE ~(env[Cron][f].status = "available" /\ f \in late)
      BY <1>1, <2>2
    <2>3. QED
      BY <2>1, <2>2
  <1>4. \A f \in Envelopes : row[f] = New(f)
    OBVIOUS
  <1>5. row \in [Envelopes -> {Absent} \cup Envelope]
    BY <1>3
  <1> HIDE DEF row
  <1>6. env' \in [Instances -> [Envelopes -> {Absent} \cup Envelope]]
    BY <1>1, <1>2, <1>5
  <1>7. CASE i = Cron
    BY <1>1, <1>2, <1>4, <1>6, <1>7
  <1>8. CASE i # Cron
    BY <1>1, <1>2, <1>6, <1>8
  <1>9. QED
    BY <1>6, <1>7, <1>8

\* The job closes what is available and late, and leaves the rest.
LEMMA KeptBySweep ==
  ASSUME IInv, ExpireOverdue
  PROVE  IInv'
  <1>1. late' = late
    BY DEF ExpireOverdue
  <1>2. TypeOK'
    <2>1. CASE Envelopes = {}
      BY <1>1, <2>1 DEF IInv, TypeOK, ExpireOverdue
    <2>2. CASE Envelopes # {}
      <3>1. Cron \in Instances
        BY DEF Instances
      <3>2. env' \in [Instances -> [Envelopes -> {Absent} \cup Envelope]]
        BY <2>2, <3>1, Swept
      <3>3. QED
        BY <1>1, <3>2 DEF IInv, TypeOK, Instances
    <2>3. QED
      BY <2>1, <2>2
  <1>3. ASSUME NEW i \in Instances, NEW e \in Envelopes
        PROVE  /\ env'[i][e] # Absent => EnvelopeOK(env'[i][e])
               /\ env'[i][e].status = "expired" => e \in late'
    <2>1. CASE env'[i][e] = env[i][e]
      BY <1>1, <2>1 DEF IInv
    <2>2. CASE env[i][e].status = "available" /\ e \in late /\ env'[i][e] = MarkExpired(env[i][e])
      <3>1. env[i][e] # Absent
        BY <2>2 DEF Absent
      <3>2. env[i][e] \in Envelope /\ EnvelopeOK(env[i][e])
        BY <3>1, Present
      <3>3. EnvelopeOK(MarkExpired(env[i][e]))
        BY <2>2, <3>2, ExpiryKeeps
      <3>4. QED
        BY <1>1, <2>2, <3>3
    <2>3. QED
      BY <2>1, <2>2, Swept
  <1>4. QED
    BY <1>2, <1>3 DEF IInv

\* Time passes, or nothing happens.
LEMMA KeptByTime ==
  ASSUME IInv, (\E e \in Envelopes : BecomesLate(e)) \/ UNCHANGED vars
  PROVE  IInv'
  <1>1. env' = env /\ late \subseteq late' /\ late' \subseteq Envelopes
    BY DEF BecomesLate, vars, IInv, TypeOK
  <1>2. QED
    BY <1>1 DEF IInv, TypeOK

-----------------------------------------------------------------------------
(* The theorems *)

\* Every envelope adds up, whoever opens it and whenever it expires.
THEOREM EnvelopeInvariant == Spec => []IInv
  <1>1. Init => IInv
    <2> SUFFICES ASSUME Init PROVE IInv
      OBVIOUS
    <2>1. /\ env = [i \in Instances |-> [e \in Envelopes |-> Absent]] /\ late = {}
          /\ Absent.status = "absent"
      BY DEF Init, Instances, Absent
    <2> HIDE DEF Absent
    <2>2. QED
      BY <2>1 DEF IInv, TypeOK, Instances
  <1>2. IInv /\ [Next]_vars => IInv'
    <2> SUFFICES ASSUME IInv, [Next]_vars PROVE IInv'
      OBVIOUS
    <2>1. ASSUME NEW i \in Serving, NEW e \in Envelopes, NEW type \in {"normal", "lucky"},
                 NEW amount \in 1..MaxAmount, NEW count \in 1..MaxCount,
                 Create(i, e, type, amount, count)
          PROVE  IInv'
      BY <2>1, KeptByCreate
    <2>2. ASSUME NEW i \in Serving, NEW e \in Envelopes, NEW u \in Users, Receive(i, e, u)
          PROVE  IInv'
      BY <2>2, KeptByReceive
    <2>3. ASSUME NEW i \in Serving, NEW e \in Envelopes, ReceiveLate(i, e)
          PROVE  IInv'
      BY <2>3, KeptByReceiveLate
    <2>4. QED
      BY <2>1, <2>2, <2>3, KeptBySweep, KeptByTime DEF Next
  <1>3. QED
    BY <1>1, <1>2, PTL DEF Spec

\* Type correctness of the instances' maps.
THEOREM EnvelopeTypes == Spec => []TypeOK
  <1>1. IInv => TypeOK
    BY DEF IInv
  <1>2. QED
    BY <1>1, EnvelopeInvariant, PTL

\* An envelope that is kept anywhere.
LEMMA KeptIsOK ==
  ASSUME IInv, NEW x \in Kept
  PROVE  x \in Envelope /\ EnvelopeOK(x)
  <1>1. PICK i \in Instances, e \in Envelopes : x = env[i][e]
    BY DEF Kept, Instances
  <1>2. env[i][e] # Absent
    BY <1>1 DEF Kept
  <1>3. QED
    BY <1>1, <1>2, Present

\* The rounding of equal shares and the cut of lucky ones make and lose no cent.
THEOREM CentsAccounted == Spec => []EveryCentAccounted
  <1>1. ASSUME IInv, NEW x \in Kept
        PROVE  /\ Given(x) + x.remainAmount = x.amount
               /\ x.status = "finished" => x.remainAmount = 0 /\ Len(x.receivers) = x.count
               /\ x.status = "expired"  => x.refund = x.remainAmount /\ x.remainCount > 0
    <2>1. x \in Envelope /\ EnvelopeOK(x)
      BY <1>1, KeptIsOK
    <2>2. x.remainCount \in Nat /\ x.receivers \in Seq(Receiver)
      BY <2>1, EnvelopeAssumption DEF Envelope, EnvelopeAssumption
    <2>3. Len(x.receivers) \in Nat
      BY <2>2, LenProperties
    <2>4. Given(x) = Sum(x.receivers)
      BY DEF Given, Sum
    <2>5. QED
      BY <2>1, <2>2, <2>3, <2>4 DEF EnvelopeOK
  <1>2. IInv => EveryCentAccounted
    BY <1>1 DEF EveryCentAccounted
  <1>3. QED
    BY <1>2, EnvelopeInvariant, PTL

\* Receive looks through all receivers before it gives a share.
THEOREM OneShareEach == Spec => []OneSharePerUser
  <1>1. IInv => OneSharePerUser
    BY KeptIsOK DEF OneSharePerUser, EnvelopeOK
  <1>2. QED
    BY <1>1, EnvelopeInvariant, PTL

\* calcLuckyAmount cuts a draw so that the later shares have their cents.
THEOREM LuckyShares == Spec => []LuckyLeavesEnough
  <1>1. IInv => LuckyLeavesEnough
    BY KeptIsOK DEF LuckyLeavesEnough, EnvelopeOK
  <1>2. QED
    BY <1>1, EnvelopeInvariant, PTL

\* No operation writes to a finished or an expired envelope.
THEOREM EnvelopesStayClosed == Spec => ClosedForGood
  <1> DEFINE Stays == \A i \in DOMAIN env, e \in Envelopes :
                        env[i][e].status \in {"finished", "expired"} => env'[i][e] = env[i][e]
  <1>1. IInv /\ [Next]_vars => [Stays]_vars
    <2> SUFFICES ASSUME IInv, Next, NEW i \in Instances, NEW e \in Envelopes,
                        env[i][e].status \in {"finished", "expired"}
                 PROVE  env'[i][e] = env[i][e]
      BY DEF IInv, TypeOK, Instances
    <2>0. /\ env \in [Instances -> [Envelopes -> {Absent} \cup Envelope]]
          /\ env[i][e] # Absent /\ (env[i][e].status = "expired" => e \in late)
      BY DEF IInv, TypeOK, Instances, Absent
    <2>1. ASSUME NEW j \in Serving, NEW f \in Envelopes, NEW v, env' = [env EXCEPT ![j][f] = v],
                 <<j, f>> # <<i, e>>
          PROVE  env'[i][e] = env[i][e]
      BY <2>0, <2>1 DEF Instances
    <2>2. ASSUME NEW j \in Serving, NEW f \in Envelopes, NEW type \in {"normal", "lucky"},
                 NEW amount \in 1..MaxAmount, NEW count \in 1..MaxCount,
                 Create(j, f, type, amount, count)
          PROVE  env'[i][e] = env[i][e]
      <3>1. f # e
        BY <2>0, <2>2 DEF Create
      <3>2. QED
        BY <2>1, <2>2, <3>1 DEF Create
    <2>3. ASSUME NEW j \in Serving, NEW f \in Envelopes, NEW u \in Users, Receive(j, f, u)
          PROVE  env'[i][e] = env[i][e]
      <3>1. <<j, f>> # <<i, e>>
        BY <2>0, <2>3 DEF Receive
      <3>2. PICK a : env' = [env EXCEPT ![j][f] = Take(@, u, a)]
        BY <2>3 DEF Receive
      <3>3. QED
        BY <2>0, <3>1, <3>2 DEF Instances
    <2>4. ASSUME NEW j \in Serving, NEW f \in Envelopes, ReceiveLate(j, f)
          PROVE  env'[i][e] = env[i][e]
      <3>1. <<j, f>> # <<i, e>>
        BY <2>4 DEF ReceiveLate
      <3>2. env' = [env EXCEPT ![j][f] = MarkExpired(@)]
        BY <2>4 DEF ReceiveLate
      <3>3. QED
        BY <2>0, <3>1, <3>2 DEF Instances
    <2>5. CASE ExpireOverdue
      BY <2>5, Swept
    <2>6. CASE \E f \in Envelopes : BecomesLate(f)
      BY <2>6 DEF BecomesLate
    <2>7. QED
      BY <2>2, <2>3, <2>4, <2>5, <2>6 DEF Next
  <1>2. QED
    BY <1>1, EnvelopeInvariant, PTL DEF Spec, ClosedForGood
=============================================================================
