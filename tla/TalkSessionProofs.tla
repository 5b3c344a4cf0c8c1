------------------------- MODULE TalkSessionProofs -------------------------
(***************************************************************************)
(* Conversations of any number of users, requests, rows and messages: two  *)
(* rows that are joined stay the two rows of their conversation, keep      *)
(* their link and agree on retain_days, and both users find what was sent. *)
(*                                                                         *)
(* The argument: rows are only ever added at the end, so the first row of  *)
(* a user is the first for good; a request that writes a link aims at a    *)
(* row it has just made, or at one that it has seen without a link, and    *)
(* neither is a row of a joined pair.                                      *)
(***************************************************************************)
EXTENDS TalkSession, FiniteSetTheorems, SequenceTheorems, TLAPS

\* Where a request that is about to write a link stands.
LinkingAt == {"ownLink", "pairLink"}

\* A message from u to v that is filed where both look.
Filed(u, v, link) == Paired(u, v) /\ link = rows[First(u, v)].link

\* What a request under way may rely on.
Knows(q) ==
  /\ q.at \in {"ownLink", "pair", "pairInsert", "pairLink"} => q.id \in DOMAIN rows
  /\ q.at \in {"pair", "pairInsert"} => q.link # 0
  /\ q.at = "sendInsert" /\ q.paired => Filed(q.user, q.peer, q.link)

RequestsKnow == \A r \in Reqs : Knows(req[r])

\* Rows that were there before are not between two of the users.
SidesAgree == \A i \in DOMAIN rows : rows[i].user \in Users => rows[i].peer \in Users

MessagesFiled ==
  \A m \in DOMAIN msgs : msgs[m].paired => Filed(msgs[m].from, msgs[m].to, msgs[m].link)

IInv == TypeOK /\ RequestsKnow /\ SidesAgree /\ MessagesFiled
-----------------------------------------------------------------------------
\* A set of natural numbers that is not empty has a least element, and a
\* greatest if it is bounded.
LEMMA LeastOfNats ==
  ASSUME NEW S \in SUBSET Nat, S # {}
  PROVE  \E x \in S : \A y \in S : x <= y
  <1>1. \E x \in S : \A y \in S : ~(<<y, x>> \in OpToRel(<, Nat))
    BY NatLessThanWellFounded, WFMin
  <1>2. \A x, y \in Nat : <<y, x>> \in OpToRel(<, Nat) <=> y < x
    BY DEF OpToRel
  <1>3. \E x \in S : \A y \in S : ~(y < x)
    BY <1>1, <1>2, Zenon
  <1> QED BY <1>3

LEMMA GreatestOfNats ==
  ASSUME NEW n \in Nat, NEW S \in SUBSET (0..n), S # {}
  PROVE  \E x \in S : \A y \in S : y <= x
  <1> DEFINE T == {n - x : x \in S}
  <1>1. T \in SUBSET Nat /\ T # {}
    <2>1. \A x \in S : n - x \in Nat
      OBVIOUS
    <2> QED BY <2>1
  <1>2. PICK t \in T : \A y \in T : t <= y
    BY <1>1, LeastOfNats
  <1>3. PICK x \in S : t = n - x
    OBVIOUS
  <1>4. \A y \in S : n - x <= n - y
    BY <1>2, <1>3
  <1> QED BY <1>4

LEMMA MinIsIn ==
  ASSUME NEW S \in SUBSET Nat, S # {}
  PROVE  Min(S) \in S /\ \A y \in S : Min(S) <= y
  BY LeastOfNats DEF Min

LEMMA MaxIsIn ==
  ASSUME NEW n \in Nat, NEW S \in SUBSET (0..n), S # {}
  PROVE  Max(S) \in S
  BY GreatestOfNats DEF Max

LEMMA RowType ==
  ASSUME TypeOK
  PROVE  /\ Len(rows) \in Nat /\ DOMAIN rows = 1..Len(rows)
         /\ \A i \in DOMAIN rows :
              /\ rows[i] \in Row
              /\ rows[i] = [user |-> rows[i].user, peer |-> rows[i].peer,
                            link |-> rows[i].link, retain |-> rows[i].retain]
  <1>1. Len(rows) \in Nat /\ DOMAIN rows = 1..Len(rows)
    BY DEF TypeOK
  <1>2. \A i \in DOMAIN rows : rows[i] \in Row
    BY DEF TypeOK
  <1> QED BY <1>1, <1>2 DEF Row

\* FindByWhere returns one of the rows asked for, if there is any.
LEMMA FirstRow ==
  ASSUME TypeOK, NEW u, NEW v
  PROVE  /\ RowsOf(u, v) = {} <=> First(u, v) = 0
         /\ RowsOf(u, v) # {} => /\ First(u, v) \in RowsOf(u, v)
                                 /\ First(u, v) \in DOMAIN rows
                                 /\ \A i \in RowsOf(u, v) : First(u, v) <= i
  <1>1. RowsOf(u, v) \in SUBSET Nat /\ 0 \notin RowsOf(u, v)
    BY RowType DEF RowsOf
  <1>2. RowsOf(u, v) \subseteq DOMAIN rows
    BY DEF RowsOf
  <1> QED BY <1>1, <1>2, MinIsIn DEF First

\* Rows keep their users; new ones come after them.
RowsKept ==
  /\ DOMAIN rows \subseteq DOMAIN rows'
  /\ \A i \in DOMAIN rows : rows'[i].user = rows[i].user /\ rows'[i].peer = rows[i].peer
  /\ \A i \in DOMAIN rows' \ DOMAIN rows : i \in Nat /\ i > Len(rows)

LEMMA FirstStays ==
  ASSUME TypeOK, RowsKept, NEW u, NEW v, First(u, v) # 0
  PROVE  First(u, v)' = First(u, v)
  <1>1. RowsOf(u, v) # {}
    BY FirstRow
  <1>2. First(u, v) \in RowsOf(u, v) /\ First(u, v) \in DOMAIN rows
        /\ \A i \in RowsOf(u, v) : First(u, v) <= i
    BY <1>1, FirstRow
  <1>3. First(u, v) \in RowsOf(u, v)'
    BY <1>2 DEF RowsKept, RowsOf
  <1>4. Len(rows) \in Nat /\ DOMAIN rows = 1..Len(rows)
    BY RowType
  <1>5. \A i \in RowsOf(u, v)' : First(u, v) <= i
    <2> SUFFICES ASSUME NEW i \in RowsOf(u, v)' PROVE First(u, v) <= i
      OBVIOUS
    <2>1. CASE i \in DOMAIN rows
      BY <1>2, <2>1 DEF RowsKept, RowsOf
    <2>2. CASE i \notin DOMAIN rows
      BY <1>2, <1>4, <2>2 DEF RowsKept, RowsOf
    <2> QED BY <2>1, <2>2
  <1>6. RowsOf(u, v)' \in SUBSET Nat /\ RowsOf(u, v)' # {}
    BY <1>3, <1>4 DEF RowsKept, RowsOf
  <1>7. Min(RowsOf(u, v)') \in RowsOf(u, v)' /\ \A i \in RowsOf(u, v)' : Min(RowsOf(u, v)') <= i
    BY <1>6, MinIsIn
  <1>8. Min(RowsOf(u, v)') = First(u, v)
    BY <1>2, <1>3, <1>4, <1>5, <1>6, <1>7
  <1> QED BY <1>6, <1>8 DEF First
-----------------------------------------------------------------------------
(* One step of a request *)

\* Links are written only to the rows requests aim at.
LinksWritten ==
  \A i \in DOMAIN rows :
    rows'[i].link # rows[i].link => \E r \in Reqs : req[r].at \in LinkingAt /\ req[r].id = i

\* Nobody aims at a row that was linked when the step was made.
NewAims ==
  \A r \in Reqs :
    req'[r].at \in LinkingAt =>
      \/ req[r].at \in LinkingAt /\ req'[r].id = req[r].id
      \/ req'[r].id \notin DOMAIN rows
      \/ rows[req'[r].id].link = 0

\* retain_days is set for all rows with a link or for none.
RetainedTogether ==
  \A i, j \in DOMAIN rows :
    rows[i].link = rows[j].link /\ rows[i].retain = rows[j].retain
      => rows'[i].retain = rows'[j].retain

RowsGoOn == RowsKept /\ LinksWritten /\ NewAims /\ RetainedTogether

LEMMA PairedStays ==
  ASSUME TypeOK, RowsGoOn, NEW u, NEW v, Paired(u, v)
  PROVE  /\ Paired(u, v)'
         /\ First(u, v)' = First(u, v) /\ First(v, u)' = First(v, u)
         /\ rows'[First(u, v)].link = rows[First(u, v)].link
         /\ rows[First(u, v)].retain = rows[First(v, u)].retain
              => rows'[First(u, v)].retain = rows'[First(v, u)].retain
  <1> SUFFICES ASSUME NEW i, i = First(u, v), NEW j, j = First(v, u)
               PROVE  /\ Paired(u, v)' /\ First(u, v)' = i /\ First(v, u)' = j
                      /\ rows'[i].link = rows[i].link
                      /\ rows[i].retain = rows[j].retain => rows'[i].retain = rows'[j].retain
    OBVIOUS
  <1>1. i # 0 /\ j # 0 /\ rows[i].link = rows[j].link
        /\ rows[i].link \in RowsOf(u, v) \cup RowsOf(v, u)
        /\ \A r \in Reqs : req[r].at \in LinkingAt => req[r].id \notin {i, j}
    BY DEF Paired, LinkingAt
  <1>2. First(u, v)' = i /\ First(v, u)' = j
    BY <1>1, FirstStays DEF RowsGoOn
  <1>3. i \in DOMAIN rows /\ j \in DOMAIN rows
    BY <1>1, FirstRow
  <1>4. rows'[i].link = rows[i].link /\ rows'[j].link = rows[j].link
    BY <1>1, <1>3 DEF RowsGoOn, LinksWritten
  <1>5. rows[i].link # 0
    BY <1>1, RowType DEF RowsOf
  <1>6. \A r \in Reqs : req'[r].at \in LinkingAt => req'[r].id \notin {i, j}
    BY <1>1, <1>3, <1>5 DEF RowsGoOn, NewAims
  <1>7. RowsOf(u, v) \subseteq RowsOf(u, v)' /\ RowsOf(v, u) \subseteq RowsOf(v, u)'
    BY DEF RowsGoOn, RowsKept, RowsOf
  <1>8. Paired(u, v)'
    BY <1>1, <1>2, <1>4, <1>6, <1>7 DEF Paired, LinkingAt
  <1>9. rows[i].retain = rows[j].retain => rows'[i].retain = rows'[j].retain
    BY <1>1, <1>3 DEF RowsGoOn, RetainedTogether
  <1> QED BY <1>2, <1>4, <1>8, <1>9

LEMMA FiledStays ==
  ASSUME TypeOK, RowsGoOn, NEW u, NEW v, NEW link, Filed(u, v, link)
  PROVE  Filed(u, v, link)'
  <1>1. Paired(u, v) /\ link = rows[First(u, v)].link
    BY DEF Filed
  <1>2. /\ Paired(u, v)' /\ First(u, v)' = First(u, v)
        /\ rows'[First(u, v)].link = rows[First(u, v)].link
    BY <1>1, PairedStays
  <1> QED BY <1>1, <1>2 DEF Filed

LEMMA KnowsStays ==
  ASSUME TypeOK, RowsGoOn, NEW q, Knows(q) PROVE Knows(q)'
  <1>1. DOMAIN rows \subseteq DOMAIN rows'
    BY DEF RowsGoOn, RowsKept
  <1>2. q.at = "sendInsert" /\ q.paired => Filed(q.user, q.peer, q.link)'
    BY FiledStays DEF Knows
  <1> QED BY <1>1, <1>2 DEF Knows

\* Step r goes on as q; the messages are what they were, or one more that is
\* filed as its request knew.
LEMMA RequestStep ==
  ASSUME IInv, NEW r \in Reqs, NEW q \in Request, req' = [req EXCEPT ![r] = q],
         RowsGoOn, Knows(q)', rows' \in Seq(Row), Len(rows') <= MaxRows, SidesAgree',
         friends' \subseteq Users \X Users, applies' \subseteq Users \X Users,
         UNCHANGED msgs
  PROVE  IInv'
  <1>1. TypeOK'
    BY DEF IInv, TypeOK
  <1>2. RequestsKnow'
    <2>1. req'[r] = q /\ \A s \in Reqs \ {r} : req'[s] = req[s]
      BY DEF IInv, TypeOK
    <2> QED BY <2>1, KnowsStays DEF IInv, RequestsKnow
  <1>3. MessagesFiled'
    BY FiledStays DEF IInv, MessagesFiled
  <1> QED BY <1>1, <1>2, <1>3 DEF IInv

\* Rows that are not touched.
LEMMA RowsSame ==
  ASSUME UNCHANGED rows, NewAims PROVE RowsGoOn
  BY DEF RowsGoOn, RowsKept, LinksWritten, RetainedTogether

\* A step of r that writes nothing but what r knows, or who is a contact.
LEMMA QuietStep ==
  ASSUME IInv, NEW r \in Reqs, NEW q \in Request, req' = [req EXCEPT ![r] = q],
         UNCHANGED <<rows, msgs>>, Knows(q),
         q.at \in LinkingAt => rows[q.id].link = 0,
         friends' \subseteq Users \X Users, applies' \subseteq Users \X Users
  PROVE  IInv' /\ RowsGoOn
  <1>1. NewAims
    BY DEF NewAims, IInv, TypeOK
  <1>2. RowsGoOn
    BY <1>1, RowsSame
  <1>3. rows' \in Seq(Row) /\ Len(rows') <= MaxRows /\ SidesAgree'
    BY DEF IInv, TypeOK, SidesAgree
  <1>4. Knows(q)'
    BY <1>2, KnowsStays DEF IInv
  <1> QED BY <1>2, <1>3, <1>4, RequestStep

LEMMA RequestType ==
  ASSUME TypeOK, NEW r \in Reqs
  PROVE  LET q == req[r]
         IN /\ q.at \in {"reverse", "top", "accept", "send"} => q.user \in Users /\ q.peer \in Users
            /\ q.at = "insert" => q.user \in Users /\ q.peer \in Users /\ q.link \in 0..1
            /\ q.at \in {"ownLink", "pair", "pairInsert"} =>
                 /\ q.user \in Users /\ q.peer \in Users /\ q.id \in 1..MaxRows /\ q.link \in 0..MaxRows
                 /\ q = [at |-> q.at, user |-> q.user, peer |-> q.peer, id |-> q.id, link |-> q.link]
            /\ q.at = "pairLink" => q.id \in 1..MaxRows /\ q.link \in 1..MaxRows
            /\ q.at = "retain" => q.user \in Users /\ q.peer \in Users /\ q.days \in Days
            /\ q.at = "sendInsert" => /\ q.user \in Users /\ q.peer \in Users
                                      /\ q.link \in 0..MaxRows /\ q.paired \in BOOLEAN
  BY DEF TypeOK, Request, Idle
-----------------------------------------------------------------------------
(* The steps that write nothing but what the request knows *)

LEMMA IdleKnows == Idle \in Request /\ Knows(Idle) /\ Idle.at \notin LinkingAt
  BY DEF Idle, Request, Knows, LinkingAt

LEMMA FriendsType ==
  ASSUME IInv
  PROVE  friends \subseteq Users \X Users /\ applies \subseteq Users \X Users
  BY DEF IInv, TypeOK

LEMMA StartStep ==
  ASSUME IInv, NEW r \in Reqs, NEW u \in Users, NEW v \in Users,
         \/ Create(r, u, v) \/ Top(r, u, v) \/ Send(r, u, v)
         \/ Accept(r, u, v) \/ ContactDelete(r, u, v)
  PROVE  IInv' /\ RowsGoOn
  <1>1. /\ \/ \E at \in {"reverse", "top", "accept", "send"} :
               req' = [req EXCEPT ![r] = [at |-> at, user |-> u, peer |-> v]]
           \/ req' = [req EXCEPT ![r] = [at |-> "send", user |-> v, peer |-> u]]
        /\ UNCHANGED <<rows, msgs, applies>> /\ friends' \subseteq friends
    BY DEF Create, Top, Send, Accept, ContactDelete, Goto
  <1>2. PICK at \in {"reverse", "top", "accept", "send"}, x \in Users, y \in Users :
          req' = [req EXCEPT ![r] = [at |-> at, user |-> x, peer |-> y]]
    BY <1>1
  <1> SUFFICES ASSUME NEW q, q = [at |-> at, user |-> x, peer |-> y] PROVE IInv' /\ RowsGoOn
    OBVIOUS
  <1>3. q \in Request /\ Knows(q) /\ q.at \notin LinkingAt
    BY DEF Request, Knows, LinkingAt
  <1> QED BY <1>1, <1>2, <1>3, FriendsType, QuietStep

\* The step that reads the other's row, or no row, as f.
CreateReverseWith(r, f) ==
  LET q == req[r]
  IN /\ q.at = "reverse"
     /\ Goto(r, [at |-> "insert", user |-> q.user, peer |-> q.peer,
                 link |-> IF f = 0 THEN 0 ELSE Min({f, 0 + 1})])
     /\ UNCHANGED <<rows, msgs, friends, applies>>

LEMMA CreateReverseStep ==
  ASSUME IInv, NEW r \in Reqs, CreateReverse(r) PROVE IInv' /\ RowsGoOn
  <1> SUFFICES ASSUME NEW p, p = req[r],
                      NEW f \in {First(p.peer, p.user), 0},
                      CreateReverseWith(r, f),
                      NEW link, link = IF f = 0 THEN 0 ELSE Min({f, 0 + 1}),
                      NEW q, q = [at |-> "insert", user |-> p.user, peer |-> p.peer, link |-> link]
               PROVE  IInv' /\ RowsGoOn
    BY DEF CreateReverse, CreateReverseWith
  <1>1. p.user \in Users /\ p.peer \in Users /\ TypeOK
    BY RequestType DEF CreateReverseWith, IInv
  <1>2. link \in 0..1
    <2>1. CASE f = 0
      BY <2>1
    <2>2. CASE f # 0
      <3>1. f \in Nat \ {0}
        BY <1>1, <2>2, FirstRow, RowType
      <3>2. Min({f, 0 + 1}) = 1
        BY <3>1 DEF Min
      <3> QED BY <2>2, <3>2
    <2> QED BY <2>1, <2>2
  <1>3. q \in Request
    BY <1>1, <1>2 DEF Request
  <1>4. Knows(q) /\ q.at \notin LinkingAt
    BY DEF Knows, LinkingAt
  <1>5. req' = [req EXCEPT ![r] = q] /\ UNCHANGED <<rows, msgs, friends, applies>>
    BY DEF CreateReverseWith, Goto
  <1> QED BY <1>3, <1>4, <1>5, FriendsType, QuietStep

LEMMA CreatePairStep ==
  ASSUME IInv, NEW r \in Reqs, CreatePair(r) PROVE IInv' /\ RowsGoOn
  <1> SUFFICES ASSUME NEW p, p = req[r], NEW f, f = First(p.peer, p.user)
               PROVE  IInv' /\ RowsGoOn
    OBVIOUS
  <1>1. /\ p.at = "pair" /\ p.user \in Users /\ p.peer \in Users /\ p.id \in 1..MaxRows
        /\ p.link \in 0..MaxRows
        /\ p = [at |-> p.at, user |-> p.user, peer |-> p.peer, id |-> p.id, link |-> p.link]
        /\ p.id \in DOMAIN rows /\ p.link # 0 /\ TypeOK
    <2>1. p.at = "pair" /\ TypeOK
      BY DEF CreatePair, IInv
    <2>2. p.id \in DOMAIN rows /\ p.link # 0
      BY <2>1 DEF IInv, RequestsKnow, Knows
    <2> QED BY <2>1, <2>2, RequestType
  <1>2. UNCHANGED <<rows, msgs, friends, applies>>
    BY DEF CreatePair
  <1>3. CASE Goto(r, [p EXCEPT !.at = "pairInsert"])
    <2> SUFFICES ASSUME NEW q, q = [at |-> "pairInsert", user |-> p.user, peer |-> p.peer,
                                    id |-> p.id, link |-> p.link]
                 PROVE  IInv' /\ RowsGoOn
      OBVIOUS
    <2>1. q \in Request
      BY <1>1 DEF Request
    <2>2. Knows(q) /\ q.at \notin LinkingAt
      BY <1>1 DEF Knows, LinkingAt
    <2>3. [p EXCEPT !.at = "pairInsert"] = q
      BY <1>1
    <2> QED BY <1>2, <1>3, <2>1, <2>2, <2>3, FriendsType, QuietStep DEF Goto
  <1>4. CASE f # 0 /\ rows[f].link = 0 /\ Goto(r, [at |-> "pairLink", id |-> f, link |-> p.link])
    <2> SUFFICES ASSUME NEW q, q = [at |-> "pairLink", id |-> f, link |-> p.link]
                 PROVE  IInv' /\ RowsGoOn
      OBVIOUS
    <2>1. f \in DOMAIN rows
      BY <1>1, <1>4, FirstRow
    <2>2. f \in 1..MaxRows /\ p.link \in 1..MaxRows
      BY <1>1, <2>1, RowType, TalkAssumption DEF TypeOK
    <2>3. q \in Request
      BY <2>2 DEF Request
    <2>4. Knows(q) /\ rows[q.id].link = 0
      BY <1>4, <2>1 DEF Knows
    <2> QED BY <1>2, <1>4, <2>3, <2>4, FriendsType, QuietStep DEF Goto
  <1>5. CASE Finish(r)
    BY <1>2, <1>5, IdleKnows, FriendsType, QuietStep DEF Finish, Goto
  <1> QED BY <1>3, <1>4, <1>5 DEF CreatePair

\* The step that reads the sender's row, or no row, as own.
SendOwnWith(r, own) ==
  LET q == req[r]
  IN /\ q.at = "send"
     /\ Goto(r, [at |-> "sendInsert", user |-> q.user, peer |-> q.peer,
                 link |-> IF own = 0 THEN 0
                          ELSE IF rows[own].link = 0 THEN own ELSE rows[own].link,
                 paired |-> own # 0 /\ Paired(q.user, q.peer)])
     /\ UNCHANGED <<rows, msgs, friends, applies>>

LEMMA SendOwnStep ==
  ASSUME IInv, NEW r \in Reqs, SendOwn(r) PROVE IInv' /\ RowsGoOn
  <1> SUFFICES ASSUME NEW p, p = req[r], NEW own \in {First(p.user, p.peer), 0},
                      SendOwnWith(r, own),
                      NEW link, link = IF own = 0 THEN 0
                                       ELSE IF rows[own].link = 0 THEN own ELSE rows[own].link,
                      NEW b, b = (own # 0 /\ Paired(p.user, p.peer)),
                      NEW q, q = [at |-> "sendInsert", user |-> p.user, peer |-> p.peer,
                                  link |-> link, paired |-> b]
               PROVE  IInv' /\ RowsGoOn
    BY DEF SendOwn, SendOwnWith
  <1>1. p.user \in Users /\ p.peer \in Users /\ TypeOK
    BY RequestType DEF SendOwnWith, IInv
  <1>2. own # 0 => own \in DOMAIN rows /\ rows[own].link \in 0..MaxRows /\ own \in 0..MaxRows
    BY <1>1, FirstRow, RowType, TalkAssumption DEF Row, TypeOK
  <1>3. link \in 0..MaxRows
    BY <1>2, TalkAssumption
  <1>4. b \in BOOLEAN
    OBVIOUS
  <1>5. q \in Request
    BY <1>1, <1>3, <1>4 DEF Request
  <1>6. b => Filed(p.user, p.peer, link)
    <2> SUFFICES ASSUME own # 0, Paired(p.user, p.peer), own = First(p.user, p.peer)
                 PROVE  link = rows[own].link
      BY DEF Filed
    <2>1. own # 0 /\ rows[own].link # 0
      <3>1. own # 0 /\ rows[own].link \in RowsOf(p.user, p.peer) \cup RowsOf(p.peer, p.user)
        BY DEF Paired
      <3>2. DOMAIN rows = 1..Len(rows)
        BY <1>1, RowType
      <3>3. rows[own].link \in DOMAIN rows
        BY <3>1 DEF RowsOf
      <3> QED BY <3>1, <3>2, <3>3
    <2> QED BY <2>1
  <1>7. Knows(q) /\ q.at \notin LinkingAt
    BY <1>6 DEF Knows, LinkingAt
  <1>8. req' = [req EXCEPT ![r] = q] /\ UNCHANGED <<rows, msgs, friends, applies>>
    BY DEF SendOwnWith, Goto
  <1> QED BY <1>5, <1>7, <1>8, FriendsType, QuietStep

LEMMA RetainCheckStep ==
  ASSUME IInv, NEW r \in Reqs, NEW u \in Users, NEW link \in 1..MaxRows, NEW days \in Days,
         RetainCheck(r, u, link, days)
  PROVE  IInv' /\ RowsGoOn
  <1> SUFFICES ASSUME NEW own, own = {i \in LinkedBy(link) : rows[i].user = u},
                      NEW i, i = Max(own),
                      NEW q, q = [at |-> "retain", user |-> u, peer |-> rows[i].peer,
                                  link |-> link, days |-> days]
               PROVE  IInv' /\ RowsGoOn
    OBVIOUS
  <1>1. TypeOK
    BY DEF IInv
  <1>2. own # {} /\ own \in SUBSET (0..Len(rows)) /\ own \subseteq DOMAIN rows
    <2>1. own # {}
      BY DEF RetainCheck
    <2>2. own \subseteq DOMAIN rows
      BY DEF LinkedBy
    <2>3. Len(rows) \in Nat /\ DOMAIN rows = 1..Len(rows)
      BY <1>1, RowType
    <2>4. DOMAIN rows \subseteq 0..Len(rows)
      BY <2>3
    <2> QED BY <2>1, <2>2, <2>4, Zenon
  <1>3. i \in own
    BY <1>1, <1>2, RowType, MaxIsIn
  <1>4. rows[i].user = u /\ i \in DOMAIN rows
    BY <1>2, <1>3
  <1>5. rows[i].peer \in Users
    BY <1>4 DEF IInv, SidesAgree
  <1>6. q \in Request
    BY <1>5 DEF Request
  <1>7. Knows(q) /\ q.at \notin LinkingAt
    BY DEF Knows, LinkingAt
  <1>8. req' = [req EXCEPT ![r] = q] /\ UNCHANGED <<rows, msgs, friends, applies>>
    BY DEF RetainCheck, Goto
  <1> QED BY <1>6, <1>7, <1>8, FriendsType, QuietStep

LEMMA ApplyStep ==
  ASSUME IInv, NEW u \in Users, NEW v \in Users, ApplyCreate(u, v) \/ ApplyDecline(u, v)
  PROVE  IInv' /\ RowsGoOn
  <1>1. UNCHANGED <<rows, msgs, friends, req>> /\ applies' \subseteq Users \X Users
    BY FriendsType DEF ApplyCreate, ApplyDecline
  <1>2. NewAims
    BY <1>1 DEF NewAims
  <1>3. RowsGoOn
    BY <1>1, <1>2, RowsSame
  <1>4. TypeOK' /\ SidesAgree'
    BY <1>1 DEF IInv, TypeOK, SidesAgree
  <1>5. RequestsKnow'
    BY <1>1, <1>3, KnowsStays DEF IInv, RequestsKnow
  <1>6. MessagesFiled'
    BY <1>1, <1>3, FiledStays DEF IInv, MessagesFiled
  <1> QED BY <1>3, <1>4, <1>5, <1>6 DEF IInv
-----------------------------------------------------------------------------
(* The steps that write rows *)

LEMMA AppendRow ==
  ASSUME TypeOK, SidesAgree, Len(rows) < MaxRows, NEW x \in Row,
         x.user \in Users => x.peer \in Users, rows' = Append(rows, x)
  PROVE  /\ rows' \in Seq(Row) /\ Len(rows') <= MaxRows /\ SidesAgree'
         /\ RowsKept /\ LinksWritten /\ RetainedTogether
         /\ Len(rows) + 1 \in DOMAIN rows' /\ Len(rows) + 1 \notin DOMAIN rows
         /\ Len(rows) + 1 \in 1..MaxRows
  <1>1. Len(rows) \in Nat /\ DOMAIN rows = 1..Len(rows)
    BY RowType
  <1>2. /\ rows' \in Seq(Row) /\ Len(rows') = Len(rows) + 1
        /\ DOMAIN rows' = 1..(Len(rows) + 1)
        /\ \A i \in DOMAIN rows : rows'[i] = rows[i]
        /\ rows'[Len(rows) + 1] = x
    BY <1>1 DEF TypeOK
  <1>3. RowsKept /\ LinksWritten /\ RetainedTogether
    BY <1>1, <1>2 DEF RowsKept, LinksWritten, RetainedTogether
  <1>4. SidesAgree'
    BY <1>1, <1>2 DEF SidesAgree
  <1> QED BY <1>1, <1>2, <1>3, <1>4, TalkAssumption

LEMMA AppendPair ==
  ASSUME TypeOK, SidesAgree, Len(rows) + 1 < MaxRows, NEW x \in Row, NEW y \in Row,
         x.peer \in Users, y.peer \in Users, rows' = rows \o <<x, y>>
  PROVE  /\ rows' \in Seq(Row) /\ Len(rows') <= MaxRows /\ SidesAgree'
         /\ RowsKept /\ LinksWritten /\ RetainedTogether
  <1>1. Len(rows) \in Nat /\ DOMAIN rows = 1..Len(rows) /\ rows \in Seq(Row)
    BY RowType DEF TypeOK
  <1>2. <<x, y>> \in Seq(Row) /\ Len(<<x, y>>) = 2
    OBVIOUS
  <1>3. /\ rows' \in Seq(Row) /\ Len(rows') = Len(rows) + 2
        /\ \A i \in 1..(Len(rows) + 2) :
             rows'[i] = IF i <= Len(rows) THEN rows[i] ELSE <<x, y>>[i - Len(rows)]
    BY <1>1, <1>2, ConcatProperties
  <1>4. DOMAIN rows' = 1..(Len(rows) + 2)
    BY <1>3
  <1>5. /\ \A i \in DOMAIN rows : rows'[i] = rows[i]
        /\ rows'[Len(rows) + 1] = x /\ rows'[Len(rows) + 2] = y
    BY <1>1, <1>3
  <1>6. RowsKept /\ LinksWritten /\ RetainedTogether
    BY <1>1, <1>4, <1>5 DEF RowsKept, LinksWritten, RetainedTogether
  <1>7. SidesAgree'
    <2> SUFFICES ASSUME NEW i \in DOMAIN rows', rows'[i].user \in Users
                 PROVE  rows'[i].peer \in Users
      BY DEF SidesAgree
    <2>1. i \in DOMAIN rows \/ i = Len(rows) + 1 \/ i = Len(rows) + 2
      BY <1>1, <1>4
    <2> QED BY <1>5, <2>1 DEF SidesAgree
  <1> QED BY <1>1, <1>3, <1>6, <1>7, TalkAssumption

LEMMA LinkRow ==
  ASSUME TypeOK, SidesAgree, NEW r \in Reqs, req[r].at \in LinkingAt,
         NEW i \in DOMAIN rows, i = req[r].id, NEW link \in 0..MaxRows,
         rows' = [rows EXCEPT ![i].link = link]
  PROVE  /\ rows' \in Seq(Row) /\ Len(rows') <= MaxRows /\ SidesAgree'
         /\ RowsKept /\ LinksWritten /\ RetainedTogether /\ DOMAIN rows' = DOMAIN rows
  <1>1. Len(rows) \in Nat /\ DOMAIN rows = 1..Len(rows) /\ rows \in Seq(Row)
        /\ rows[i] \in Row
    BY RowType DEF TypeOK
  <1>2. /\ DOMAIN rows' = DOMAIN rows
        /\ rows'[i] = [rows[i] EXCEPT !.link = link]
        /\ \A j \in DOMAIN rows : j # i => rows'[j] = rows[j]
    BY <1>1
  <1>3. [rows[i] EXCEPT !.link = link] \in Row
    <2> SUFFICES ASSUME NEW x \in Row PROVE [x EXCEPT !.link = link] \in Row
      BY <1>1
    <2> QED BY DEF Row
  <1>4. rows'[i].user = rows[i].user /\ rows'[i].peer = rows[i].peer
        /\ rows'[i].retain = rows[i].retain
    BY <1>1, <1>2 DEF Row
  <1>5. rows' \in Seq(Row) /\ Len(rows') = Len(rows)
    <2>1. rows' = [rows EXCEPT ![i] = [rows[i] EXCEPT !.link = link]]
      OBVIOUS
    <2> QED BY <1>1, <1>3, <2>1, ExceptSeq
  <1>6. RowsKept
    BY <1>2, <1>4 DEF RowsKept
  <1>7. LinksWritten
    BY <1>2 DEF LinksWritten
  <1>8. RetainedTogether
    BY <1>2, <1>4 DEF RetainedTogether
  <1>9. SidesAgree'
    BY <1>2, <1>4 DEF SidesAgree
  <1> QED BY <1>1, <1>2, <1>5, <1>6, <1>7, <1>8, <1>9 DEF TypeOK

LEMMA NewRowType ==
  ASSUME NEW u \in Users, NEW v \in Users, NEW link \in 0..MaxRows
  PROVE  NewRow(u, v, link) \in Row /\ NewRow(u, v, link).peer = v
  BY DEF NewRow, Row

\* A write whose error is not looked at leaves the rows as they are.
LEMMA NoWrite ==
  ASSUME TypeOK, SidesAgree, UNCHANGED rows
  PROVE  /\ rows' \in Seq(Row) /\ Len(rows') <= MaxRows /\ SidesAgree'
         /\ RowsKept /\ LinksWritten /\ RetainedTogether /\ DOMAIN rows' = DOMAIN rows
  BY DEF TypeOK, SidesAgree, RowsKept, LinksWritten, RetainedTogether

\* A step of r after which r aims at no row that was there.
LEMMA WriteStep ==
  ASSUME IInv, NEW r \in Reqs, NEW q \in Request, req' = [req EXCEPT ![r] = q],
         RowsKept, LinksWritten, RetainedTogether,
         q.at \in LinkingAt => q.id \notin DOMAIN rows, Knows(q)',
         rows' \in Seq(Row), Len(rows') <= MaxRows, SidesAgree',
         friends' \subseteq Users \X Users, applies' \subseteq Users \X Users,
         UNCHANGED msgs
  PROVE  IInv' /\ RowsGoOn
  <1>1. NewAims
    BY DEF NewAims, IInv, TypeOK
  <1>2. RowsGoOn
    BY <1>1 DEF RowsGoOn
  <1> QED BY <1>2, RequestStep

LEMMA CreateInsertStep ==
  ASSUME IInv, NEW r \in Reqs, CreateInsert(r) PROVE IInv' /\ RowsGoOn
  <1> SUFFICES ASSUME NEW p, p = req[r], NEW id, id = Len(rows) + 1,
                      NEW at, at = IF p.link = 0 THEN "ownLink" ELSE "pair",
                      NEW q, q = [at |-> at, user |-> p.user, peer |-> p.peer, id |-> id,
                                  link |-> p.link]
               PROVE  IInv' /\ RowsGoOn
    OBVIOUS
  <1>1. /\ p.at = "insert" /\ Len(rows) < MaxRows /\ req' = [req EXCEPT ![r] = q]
        /\ rows' = Append(rows, NewRow(p.user, p.peer, p.link))
        /\ UNCHANGED <<msgs, friends, applies>> /\ TypeOK /\ SidesAgree
    BY DEF CreateInsert, Goto, IInv
  <1>2. p.user \in Users /\ p.peer \in Users /\ p.link \in 0..MaxRows
    <2>1. p.user \in Users /\ p.peer \in Users /\ p.link \in 0..1
      BY <1>1, RequestType
    <2>2. MaxRows \in Nat \ {0}
      BY <1>1, RowType, TalkAssumption
    <2> QED BY <2>1, <2>2
  <1>3. /\ rows' \in Seq(Row) /\ Len(rows') <= MaxRows /\ SidesAgree'
        /\ RowsKept /\ LinksWritten /\ RetainedTogether
        /\ id \in DOMAIN rows' /\ id \notin DOMAIN rows /\ id \in 1..MaxRows
    BY <1>1, <1>2, NewRowType, AppendRow
  <1>4. q \in Request
    BY <1>2, <1>3 DEF Request
  <1>5. Knows(q)'
    BY <1>3 DEF Knows
  <1> QED BY <1>1, <1>3, <1>4, <1>5, FriendsType, WriteStep

LEMMA CreateOwnLinkStep ==
  ASSUME IInv, NEW r \in Reqs, CreateOwnLink(r) PROVE IInv' /\ RowsGoOn
  <1> SUFFICES ASSUME NEW p, p = req[r],
                      NEW q, q = [at |-> "pair", user |-> p.user, peer |-> p.peer, id |-> p.id,
                                  link |-> p.id]
               PROVE  IInv' /\ RowsGoOn
    OBVIOUS
  <1>1. /\ p.at = "ownLink" /\ req' = [req EXCEPT ![r] = q]
        /\ rows' \in {rows, [rows EXCEPT ![p.id].link = p.id]}
        /\ UNCHANGED <<msgs, friends, applies>> /\ TypeOK /\ SidesAgree
    BY DEF CreateOwnLink, Goto, IInv
  <1>2. p.user \in Users /\ p.peer \in Users /\ p.id \in 1..MaxRows
    BY <1>1, RequestType
  <1>3. p.id \in DOMAIN rows
    BY <1>1 DEF IInv, RequestsKnow, Knows
  <1>4. p.at \in LinkingAt /\ p.id \in 0..MaxRows /\ p.id # 0
    BY <1>1, <1>2, TalkAssumption DEF LinkingAt
  <1>5. /\ rows' \in Seq(Row) /\ Len(rows') <= MaxRows /\ SidesAgree'
        /\ RowsKept /\ LinksWritten /\ RetainedTogether /\ DOMAIN rows' = DOMAIN rows
    BY <1>1, <1>3, <1>4, LinkRow, NoWrite
  <1>6. q \in Request
    BY <1>2, <1>4 DEF Request
  <1>7. Knows(q)' /\ q.at \notin LinkingAt
    BY <1>3, <1>4, <1>5 DEF Knows, LinkingAt
  <1> QED BY <1>1, <1>5, <1>6, <1>7, FriendsType, WriteStep

LEMMA CreatePairLinkStep ==
  ASSUME IInv, NEW r \in Reqs, CreatePairLink(r) PROVE IInv' /\ RowsGoOn
  <1> SUFFICES ASSUME NEW p, p = req[r] PROVE IInv' /\ RowsGoOn
    OBVIOUS
  <1>1. /\ p.at = "pairLink" /\ req' = [req EXCEPT ![r] = Idle]
        /\ rows' \in {rows, [rows EXCEPT ![p.id].link = p.link]}
        /\ UNCHANGED <<msgs, friends, applies>> /\ TypeOK /\ SidesAgree
    BY DEF CreatePairLink, Finish, Goto, IInv
  <1>2. p.link \in 0..MaxRows /\ p.at \in LinkingAt
    <2>1. p.link \in 1..MaxRows
      BY <1>1, RequestType
    <2> QED BY <1>1, <2>1, TalkAssumption DEF LinkingAt
  <1>3. p.id \in DOMAIN rows
    BY <1>1 DEF IInv, RequestsKnow, Knows
  <1>4. /\ rows' \in Seq(Row) /\ Len(rows') <= MaxRows /\ SidesAgree'
        /\ RowsKept /\ LinksWritten /\ RetainedTogether
    BY <1>1, <1>2, <1>3, LinkRow, NoWrite
  <1>5. Knows(Idle)'
    BY DEF Knows, Idle
  <1> QED BY <1>1, <1>4, <1>5, IdleKnows, FriendsType, WriteStep

LEMMA OneRowStep ==
  ASSUME IInv, NEW r \in Reqs, CreatePairInsert(r) \/ TopInsert(r) PROVE IInv' /\ RowsGoOn
  <1> SUFFICES ASSUME NEW p, p = req[r] PROVE IInv' /\ RowsGoOn
    OBVIOUS
  <1>1. /\ p.at \in {"pairInsert", "top"} /\ req' = [req EXCEPT ![r] = Idle]
        /\ Len(rows) < MaxRows /\ UNCHANGED <<msgs, friends, applies>> /\ TypeOK /\ SidesAgree
    BY DEF CreatePairInsert, TopInsert, Finish, Goto, IInv
  <1>2. p.user \in Users /\ p.peer \in Users
    BY <1>1, RequestType
  <1>3. PICK x \in Row : x.peer \in Users /\ rows' \in {rows, Append(rows, x)}
    <2>1. CASE CreatePairInsert(r)
      <3>1. p.id \in 0..MaxRows
        <4>1. p.id \in 1..MaxRows
          BY <2>1, <1>1, RequestType DEF CreatePairInsert
        <4> QED BY <4>1, TalkAssumption
      <3> QED BY <1>2, <2>1, <3>1, NewRowType DEF CreatePairInsert
    <2>2. CASE TopInsert(r)
      <3>1. 0 \in 0..MaxRows
        BY TalkAssumption
      <3> QED BY <1>2, <2>2, <3>1, NewRowType DEF TopInsert
    <2> QED BY <2>1, <2>2
  <1>4. /\ rows' \in Seq(Row) /\ Len(rows') <= MaxRows /\ SidesAgree'
        /\ RowsKept /\ LinksWritten /\ RetainedTogether
    BY <1>1, <1>3, AppendRow, NoWrite
  <1>5. Knows(Idle)'
    BY DEF Knows, Idle
  <1> QED BY <1>1, <1>4, <1>5, IdleKnows, FriendsType, WriteStep

LEMMA AcceptTxStep ==
  ASSUME IInv, NEW r \in Reqs, AcceptTx(r) PROVE IInv' /\ RowsGoOn
  <1> SUFFICES ASSUME NEW p, p = req[r], NEW id, id = Len(rows) + 1,
                      NEW q, q = [at |-> "send", user |-> p.peer, peer |-> p.user]
               PROVE  IInv' /\ RowsGoOn
    OBVIOUS
  <1>1. /\ p.at = "accept" /\ req' = [req EXCEPT ![r] = q] /\ id < MaxRows
        /\ rows' = rows \o <<NewRow(p.user, p.peer, id), NewRow(p.peer, p.user, id)>>
        /\ UNCHANGED msgs /\ TypeOK /\ SidesAgree
    BY DEF AcceptTx, Goto, IInv
  <1>2. p.user \in Users /\ p.peer \in Users /\ id \in 0..MaxRows
    <2>1. p.user \in Users /\ p.peer \in Users
      BY <1>1, RequestType
    <2> QED BY <1>1, <2>1, RowType, TalkAssumption
  <1>3. /\ rows' \in Seq(Row) /\ Len(rows') <= MaxRows /\ SidesAgree'
        /\ RowsKept /\ LinksWritten /\ RetainedTogether
    <2> DEFINE x == NewRow(p.user, p.peer, id)
               y == NewRow(p.peer, p.user, id)
    <2>1. x \in Row /\ y \in Row /\ x.peer = p.peer /\ y.peer = p.user
      BY <1>2, NewRowType
    <2>2. rows' = rows \o <<x, y>> /\ TypeOK /\ SidesAgree /\ Len(rows) + 1 < MaxRows
      BY <1>1
    <2> HIDE DEF x, y
    <2>3. x.peer \in Users /\ y.peer \in Users
      BY <1>2, <2>1
    <2> QED BY <2>1, <2>2, <2>3, AppendPair
  <1>4. q \in Request
    BY <1>2 DEF Request
  <1>5. Knows(q)' /\ q.at \notin LinkingAt
    BY DEF Knows, LinkingAt
  <1>6. friends' \subseteq Users \X Users /\ applies' \subseteq Users \X Users
    BY <1>2, FriendsType DEF AcceptTx
  <1> QED BY <1>1, <1>3, <1>4, <1>5, <1>6, WriteStep

LEMMA RetainUpdateStep ==
  ASSUME IInv, NEW r \in Reqs, RetainUpdate(r) PROVE IInv' /\ RowsGoOn
  <1> SUFFICES ASSUME NEW p, p = req[r],
                      NEW q, q = [at |-> "send", user |-> p.user, peer |-> p.peer]
               PROVE  IInv' /\ RowsGoOn
    OBVIOUS
  <1>1. /\ p.at = "retain" /\ req' = [req EXCEPT ![r] = q]
        /\ rows' = [i \in DOMAIN rows |-> IF i \in LinkedBy(p.link)
                                          THEN [rows[i] EXCEPT !.retain = p.days] ELSE rows[i]]
        /\ UNCHANGED <<msgs, friends, applies>> /\ TypeOK
    BY DEF RetainUpdate, Goto, IInv
  <1>2. p.user \in Users /\ p.peer \in Users /\ p.days \in Days
    BY <1>1, RequestType
  <1>3. Len(rows) \in Nat /\ DOMAIN rows = 1..Len(rows) /\ \A i \in DOMAIN rows : rows[i] \in Row
    BY <1>1, RowType
  <1>4. DOMAIN rows' = DOMAIN rows
    BY <1>1
  <1>5. \A i \in DOMAIN rows :
          rows'[i] = IF rows[i].link = p.link THEN [rows[i] EXCEPT !.retain = p.days] ELSE rows[i]
    BY <1>1 DEF LinkedBy
  <1>6. \A x \in Row : [x EXCEPT !.retain = p.days] \in Row
    BY <1>2 DEF Row
  <1>7. rows' \in Seq(Row) /\ Len(rows') <= MaxRows
    <2>1. rows' \in [1..Len(rows) -> Row]
      BY <1>1, <1>3, <1>4, <1>5, <1>6
    <2>2. rows' \in Seq(Row)
      BY <1>3, <2>1, SeqDef
    <2>3. Len(rows') = Len(rows)
      BY <1>3, <1>4, <2>2, LenProperties
    <2> QED BY <1>1, <2>2, <2>3 DEF TypeOK
  <1>8. \A i \in DOMAIN rows :
          /\ rows'[i].user = rows[i].user /\ rows'[i].peer = rows[i].peer
          /\ rows'[i].link = rows[i].link
          /\ rows'[i].retain = IF rows[i].link = p.link THEN p.days ELSE rows[i].retain
    BY <1>3, <1>5 DEF Row
  <1>9. RowsKept
    BY <1>4, <1>8 DEF RowsKept
  <1>10. LinksWritten
    BY <1>8 DEF LinksWritten
  <1>11. RetainedTogether
    BY <1>8 DEF RetainedTogether
  <1>12. SidesAgree'
    BY <1>4, <1>8 DEF SidesAgree, IInv
  <1>13. q \in Request
    BY <1>2 DEF Request
  <1>14. Knows(q)' /\ q.at \notin LinkingAt
    BY DEF Knows, LinkingAt
  <1> QED BY <1>1, <1>7, <1>9, <1>10, <1>11, <1>12, <1>13, <1>14, FriendsType, WriteStep

LEMMA SendInsertStep ==
  ASSUME IInv, NEW r \in Reqs, SendInsert(r) PROVE IInv' /\ RowsGoOn
  <1> SUFFICES ASSUME NEW p, p = req[r],
                      NEW x, x = [from |-> p.user, to |-> p.peer, link |-> p.link,
                                  paired |-> p.paired]
               PROVE  IInv' /\ RowsGoOn
    OBVIOUS
  <1>1. /\ p.at = "sendInsert" /\ req' = [req EXCEPT ![r] = Idle] /\ Len(msgs) < MaxMsgs
        /\ msgs' = Append(msgs, x) /\ UNCHANGED <<rows, friends, applies>> /\ TypeOK
    BY DEF SendInsert, Finish, Goto, IInv
  <1>2. x \in Message
    BY <1>1, RequestType DEF Message
  <1>3. NewAims
    BY <1>1, IdleKnows DEF NewAims, TypeOK
  <1>4. RowsGoOn
    BY <1>1, <1>3, RowsSame
  <1>5. msgs \in Seq(Message) /\ Len(msgs) \in Nat /\ DOMAIN msgs = 1..Len(msgs)
    BY <1>1 DEF TypeOK
  <1>6. /\ msgs' \in Seq(Message) /\ Len(msgs') = Len(msgs) + 1
        /\ DOMAIN msgs' = 1..(Len(msgs) + 1)
        /\ \A m \in DOMAIN msgs : msgs'[m] = msgs[m]
        /\ msgs'[Len(msgs) + 1] = x
    BY <1>1, <1>2, <1>5
  <1>7. TypeOK'
    BY <1>1, <1>5, <1>6, IdleKnows, TalkAssumption DEF TypeOK
  <1>8. SidesAgree'
    BY <1>1 DEF IInv, SidesAgree
  <1>9. RequestsKnow'
    <2>1. Knows(Idle)'
      BY DEF Knows, Idle
    <2>2. req'[r] = Idle /\ \A s \in Reqs \ {r} : req'[s] = req[s]
      BY <1>1 DEF TypeOK
    <2> QED BY <1>1, <1>4, <2>1, <2>2, KnowsStays DEF IInv, RequestsKnow
  <1>10. MessagesFiled'
    <2>1. x.paired => Filed(x.from, x.to, x.link)'
      <3>1. p.paired => Filed(p.user, p.peer, p.link)
        BY <1>1 DEF IInv, RequestsKnow, Knows
      <3>2. p.paired => Filed(p.user, p.peer, p.link)'
        BY <1>1, <1>4, <3>1, FiledStays
      <3> QED BY <3>2
    <2>2. ASSUME NEW m \in DOMAIN msgs, msgs[m].paired
          PROVE  Filed(msgs[m].from, msgs[m].to, msgs[m].link)'
      <3> SUFFICES ASSUME NEW y, y = msgs[m] PROVE Filed(y.from, y.to, y.link)'
        BY <1>6
      <3>1. Filed(y.from, y.to, y.link)
        BY <2>2 DEF IInv, MessagesFiled
      <3> QED BY <1>1, <1>4, <3>1, FiledStays
    <2> QED BY <1>5, <1>6, <2>1, <2>2 DEF MessagesFiled
  <1> QED BY <1>4, <1>7, <1>8, <1>9, <1>10 DEF IInv
-----------------------------------------------------------------------------
LEMMA InitIInv == Init => IInv
  <1> SUFFICES ASSUME Init PROVE IInv
    OBVIOUS
  <1>1. rows \in Seq(Row) /\ Len(rows) <= MaxRows /\ SidesAgree
    <2>1. CASE rows = <<>>
      <3>1. rows \in Seq(Row) /\ Len(rows) = 0
        BY <2>1, EmptySeq
      <3> QED BY <2>1, <3>1, TalkAssumption DEF SidesAgree
    <2>2. CASE rows = Older
      <3> DEFINE S == [user: Strangers, peer: Strangers, link: 0..MaxRows, retain: {0}]
      <3>1. S \subseteq Row /\ \A x \in S : x.user \in Strangers
        BY DEF Row
      <3>2. Older \in Seq(S) /\ Len(Older) <= MaxRows /\ Users \cap Strangers = {}
        BY TalkAssumption
      <3> HIDE DEF S
      <3>3. Len(Older) \in Nat /\ Older \in [1..Len(Older) -> S] /\ DOMAIN Older = 1..Len(Older)
        BY <3>2, LenProperties
      <3>4. Older \in [1..Len(Older) -> Row]
        BY <3>1, <3>3
      <3>5. Older \in Seq(Row)
        BY <3>3, <3>4, SeqDef
      <3> QED BY <2>2, <3>1, <3>2, <3>3, <3>5 DEF SidesAgree
    <2> QED BY <2>1, <2>2 DEF Init
  <1>2. msgs \in Seq(Message) /\ Len(msgs) <= MaxMsgs /\ MessagesFiled
    <2>1. msgs = <<>> /\ msgs \in Seq(Message) /\ Len(msgs) = 0
      BY EmptySeq DEF Init
    <2> QED BY <2>1, TalkAssumption DEF MessagesFiled
  <1>3. req \in [Reqs -> Request] /\ RequestsKnow
    BY IdleKnows DEF Init, RequestsKnow
  <1> QED BY <1>1, <1>2, <1>3 DEF Init, IInv, TypeOK

LEMMA NextIInv == IInv /\ Next => IInv' /\ RowsGoOn
  <1> SUFFICES ASSUME IInv, Next PROVE IInv' /\ RowsGoOn
    OBVIOUS
  <1>1. ASSUME NEW r \in Reqs, Start(r) PROVE IInv' /\ RowsGoOn
    BY <1>1, StartStep, RetainCheckStep DEF Start
  <1>2. ASSUME NEW r \in Reqs, Step(r) PROVE IInv' /\ RowsGoOn
    BY <1>2, CreateReverseStep, CreateInsertStep, CreateOwnLinkStep, CreatePairStep,
       OneRowStep, CreatePairLinkStep, AcceptTxStep, SendOwnStep, SendInsertStep,
       RetainUpdateStep DEF Step
  <1> QED BY <1>1, <1>2, ApplyStep DEF Next

LEMMA StutterIInv == IInv /\ UNCHANGED talkVars => IInv'
  <1> SUFFICES ASSUME IInv, UNCHANGED <<rows, msgs, friends, applies, req>> PROVE IInv'
    BY DEF talkVars
  <1>1. RowsGoOn
    <2>1. NewAims
      BY DEF NewAims
    <2> QED BY <2>1, RowsSame
  <1>2. TypeOK' /\ SidesAgree'
    BY DEF IInv, TypeOK, SidesAgree
  <1>3. RequestsKnow'
    BY <1>1, KnowsStays DEF IInv, RequestsKnow
  <1>4. MessagesFiled'
    BY <1>1, FiledStays DEF IInv, MessagesFiled
  <1> QED BY <1>2, <1>3, <1>4 DEF IInv

\* The inductive invariant holds in every reachable state.
THEOREM TalkInvariant == Spec => []IInv
  BY InitIInv, NextIInv, StutterIInv, PTL DEF Spec

\* The tables and requests keep their types; in particular a request that is
\* about to link rows has a link to give them.
THEOREM TalkTypes == Spec => []TypeOK
  BY TalkInvariant, PTL DEF IInv

\* The rows a joined conversation is read by, and their link, are final
\* (PairedStaysPaired).
THEOREM PairsStayPaired == Spec => PairedStaysPaired
  <1>1. IInv /\ [Next]_talkVars =>
          [rows' # rows =>
             \A u, v \in Users :
               Paired(u, v) => /\ First(u, v)' = First(u, v)
                               /\ rows'[First(u, v)].link = rows[First(u, v)].link]_rows
    BY NextIInv, PairedStays DEF IInv, talkVars
  <1> QED BY <1>1, TalkInvariant, PTL DEF Spec, PairedStaysPaired

\* The two rows of a joined conversation that agree on retain_days go on doing
\* so (RetentionStaysAgreed).
THEOREM RetentionAgreed == Spec => RetentionStaysAgreed
  <1>1. IInv /\ [Next]_talkVars =>
          [rows' # rows =>
             \A u, v \in Users :
               /\ Paired(u, v) /\ rows[First(u, v)].retain = rows[First(v, u)].retain
               => rows'[First(u, v)].retain = rows'[First(v, u)].retain]_rows
    BY NextIInv, PairedStays DEF IInv, talkVars
  <1> QED BY <1>1, TalkInvariant, PTL DEF Spec, RetentionStaysAgreed

\* A message sent in a joined conversation, by a request that could read its
\* sender's row, is found by both users, whatever they read it through later
\* (BothSeeWhatWasSent).
THEOREM BothSee == Spec => []BothSeeWhatWasSent
  <1>1. IInv => BothSeeWhatWasSent
    BY DEF IInv, MessagesFiled, Filed, Paired, BothSeeWhatWasSent, History
  <1> QED BY <1>1, TalkInvariant, PTL
=============================================================================
