------------------------ MODULE ThirdPartyPayProofs ------------------------
(***************************************************************************)
(* Payments through a provider for any number of orders, numbers and       *)
(* calls: a page serves one order, an order that is paid had a page of its *)
(* own paid or was confirmed by hand, and an order that ever got a page    *)
(* has one under its number.                                               *)
(*                                                                         *)
(* All of it rests on the history of numbers: a number is an order's for   *)
(* good and never another's, a call knows only numbers its order has had,  *)
(* and an order that has had more than one number has a row under the      *)
(* latest.  That a row in its two minutes was made under the very number   *)
(* it has now does not hold: section 5 of the README.                      *)
(***************************************************************************)
EXTENDS ThirdPartyPay, FiniteSetTheorems, SequenceTheorems, TLAPS

\* A number never passes from one order to another.
NumbersHad ==
  \A o \in Orders :
    /\ number[o] \in had[o]
    /\ \A p \in Orders : had[o] \cap had[p] # {} => o = p

\* A call goes on with a number its order has, or had.
CallsKnow == \A c \in Calls : call[c] # Idle => call[c].no \in had[call[c].order]

\* Whoever gave an order a new number moved a row along with it.
Renumbered == \A o \in Orders : had[o] # {number[o]} => RowsOf(number[o]) # {}

IInv ==
  /\ TypeOK /\ NumbersHad /\ CallsKnow /\ Renumbered
  /\ PageServesOneOrder /\ PaidMeansCollected /\ PageFollowsOrder
-----------------------------------------------------------------------------
\* A set of natural numbers that is not empty has a least element.
LEMMA LeastOfNats ==
  ASSUME NEW S \in SUBSET Nat, S # {}
  PROVE  \E x \in S : \A y \in S : x <= y
  <1>1. \E x \in S : \A y \in S : ~(<<y, x>> \in OpToRel(<, Nat))
    BY NatLessThanWellFounded, WFMin
  <1>2. \A x, y \in Nat : <<y, x>> \in OpToRel(<, Nat) <=> y < x
    BY DEF OpToRel
  <1>3. \E x \in S : \A y \in S : ~(y < x)
    BY <1>1, <1>2, Zenon
  <1> QED BY <1>3

\* The first row found under a number is one of its rows.
LEMMA FirstRow ==
  ASSUME TypeOK, NEW n, RowsOf(n) # {}
  PROVE  Min(RowsOf(n)) \in RowsOf(n)
  <1>1. RowsOf(n) \in SUBSET Nat
    BY DEF RowsOf, TypeOK
  <1> QED BY <1>1, LeastOfNats DEF Min

\* The initial state.
LEMMA InitIInv == Init => IInv
  <1> SUFFICES ASSUME Init PROVE IInv
    OBVIOUS
  <1>1. TypeOK
    BY DEF Init, TypeOK, InCall
  <1> QED
    BY <1>1 DEF Init, IInv, NumbersHad, CallsKnow, Renumbered, PageServesOneOrder,
                PaidMeansCollected, PageFollowsOrder
-----------------------------------------------------------------------------
\* Types of a row, and of what a call under way holds.
LEMMA RowType ==
  ASSUME TypeOK, NEW i \in DOMAIN page
  PROVE  /\ page[i] \in PageRow
         /\ page[i].no \in Numbers /\ page[i].url \in Numbers /\ page[i].fresh \in BOOLEAN
  <1>1. page[i] \in PageRow
    BY DEF TypeOK
  <1> QED BY <1>1 DEF PageRow

LEMMA CallType ==
  ASSUME TypeOK, NEW c \in Calls, call[c].op # "idle"
  PROVE  /\ call[c] # Idle
         /\ call[c].order \in Orders /\ call[c].no \in Numbers
         /\ call[c].op \in {"create", "save"} => call[c].existing \in BOOLEAN
  BY DEF TypeOK, InCall, Idle

\* Steps of a call that change nothing but what the call knows, or what has been
\* handed out.
LEMMA CallOnly ==
  ASSUME IInv, NEW c \in Calls, NEW k \in InCall,
         k # Idle => k.no \in had[k.order],
         call' = [call EXCEPT ![c] = k],
         handed \subseteq handed', handed' \subseteq Numbers,
         UNCHANGED <<number, status, cancelled, page, had, collected, byHand>>
  PROVE  IInv'
  <1>1. TypeOK'
    BY DEF IInv, TypeOK, byHand
  <1>2. CallsKnow'
    BY DEF IInv, TypeOK, CallsKnow
  <1> QED
    BY <1>1, <1>2 DEF IInv, NumbersHad, Renumbered, RowsOf, PageServesOneOrder,
                      PaidMeansCollected, PageFollowsOrder, byHand

LEMMA PayBeginIInv ==
  ASSUME IInv, NEW c \in Calls, NEW o \in Orders, PayBegin(c, o) PROVE IInv'
  <1> DEFINE k == [op |-> "begun", order |-> o, no |-> number[o]]
  <1>1. k \in InCall /\ k.no \in had[k.order]
    BY DEF IInv, TypeOK, InCall, NumbersHad
  <1>2. handed \subseteq Numbers
    BY DEF IInv, TypeOK
  <1> QED BY <1>1, <1>2, CallOnly DEF PayBegin

LEMMA ReturnPageIInv ==
  ASSUME IInv, NEW c \in Calls, ReturnPage(c) PROVE IInv'
  <1> DEFINE first == Min(RowsOf(call[c].no))
  <1>1. first \in DOMAIN page
    BY FirstRow DEF IInv, ReturnPage, RowsOf
  <1>2. page[first].url \in Numbers
    BY <1>1, RowType DEF IInv
  <1>3. handed \subseteq handed' /\ handed' \subseteq Numbers
    BY <1>2 DEF IInv, TypeOK, ReturnPage
  <1>4. Idle \in InCall
    BY DEF InCall
  <1> QED BY <1>3, <1>4, CallOnly DEF ReturnPage

LEMMA FindPageIInv ==
  ASSUME IInv, NEW c \in Calls, FindPage(c) PROVE IInv'
  <1> USE DEF FindPage
  <1>1. /\ call[c] # Idle /\ call[c].order \in Orders /\ call[c].no \in Numbers
        /\ call[c].no \in had[call[c].order]
    BY CallType DEF IInv, CallsKnow
  <1>2. handed \subseteq Numbers
    BY DEF IInv, TypeOK
  <1>3. CASE call' = [call EXCEPT ![c] = [op |-> "create", order |-> call[c].order,
                                          no |-> call[c].no, existing |-> FALSE]]
    <2> DEFINE k == [op |-> "create", order |-> call[c].order, no |-> call[c].no,
                     existing |-> FALSE]
    <2>1. k \in InCall /\ k.no \in had[k.order]
      BY <1>1 DEF InCall
    <2> QED BY <1>2, <1>3, <2>1, CallOnly
  <1>4. CASE call' = [call EXCEPT ![c] = [op |-> "refresh", order |-> call[c].order,
                                          no |-> call[c].no]]
    <2> DEFINE k == [op |-> "refresh", order |-> call[c].order, no |-> call[c].no]
    <2>1. k \in InCall /\ k.no \in had[k.order]
      BY <1>1 DEF InCall
    <2> QED BY <1>2, <1>4, <2>1, CallOnly
  <1> QED BY <1>3, <1>4

LEMMA RefreshFindsNothingIInv ==
  ASSUME IInv, NEW c \in Calls, RefreshFindsNothing(c) PROVE IInv'
  <1> DEFINE k == [op |-> "create", order |-> call[c].order, no |-> call[c].no,
                   existing |-> TRUE]
  <1>1. k \in InCall /\ k.no \in had[k.order]
    BY CallType DEF IInv, CallsKnow, RefreshFindsNothing, InCall
  <1>2. handed \subseteq Numbers
    BY DEF IInv, TypeOK
  <1> QED BY <1>1, <1>2, CallOnly DEF RefreshFindsNothing

LEMMA CreateOrderIInv ==
  ASSUME IInv, NEW c \in Calls, CreateOrder(c) PROVE IInv'
  <1> DEFINE k == [call[c] EXCEPT !.op = "save"]
  <1>1. k \in InCall /\ k.no \in had[k.order]
    BY CallType DEF IInv, TypeOK, CallsKnow, CreateOrder, InCall, Idle
  <1>2. handed \subseteq Numbers
    BY DEF IInv, TypeOK
  <1> QED BY <1>1, <1>2, CallOnly DEF CreateOrder

LEMMA CallFailsIInv ==
  ASSUME IInv, NEW c \in Calls, CallFails(c) PROVE IInv'
  <1>1. Idle \in InCall
    BY DEF InCall
  <1>2. handed \subseteq Numbers
    BY DEF IInv, TypeOK
  <1> QED BY <1>1, <1>2, CallOnly DEF CallFails
-----------------------------------------------------------------------------
\* The order and its first row move to a number nobody has had.
LEMMA RefreshIInv ==
  ASSUME IInv, NEW c \in Calls, NEW n \in Numbers, RefreshOrderNo(c, n) PROVE IInv'
  <1> DEFINE o == call[c].order
             first == Min(RowsOf(call[c].no))
  <1> USE DEF RefreshOrderNo, RefreshWith, byHand
  <1>1. call[c] # Idle /\ o \in Orders /\ call[c].no \in had[o] /\ number[o] = call[c].no
    BY CallType DEF IInv, CallsKnow
  <1>2. first \in DOMAIN page /\ page[first].no = number[o]
    BY <1>1, FirstRow DEF IInv, RowsOf
  <1>3. /\ DOMAIN page' = DOMAIN page
        /\ page'[first] = [page[first] EXCEPT !.no = n]
        /\ \A i \in DOMAIN page \ {first} : page'[i] = page[i]
    BY <1>2 DEF IInv, TypeOK
  <1>4. /\ had' \in [Orders -> SUBSET Numbers] /\ had'[o] = had[o] \cup {n}
        /\ \A p \in Orders \ {o} : had'[p] = had[p]
        /\ number' \in [Orders -> Numbers] /\ number'[o] = n
        /\ \A p \in Orders \ {o} : number'[p] = number[p]
    BY <1>1 DEF IInv, TypeOK
  <1>5. TypeOK'
    <2>1. page' \in Seq(PageRow)
      <3>1. [page[first] EXCEPT !.no = n] \in PageRow
        BY <1>2, RowType DEF IInv, PageRow
      <3>2. page' = [page EXCEPT ![first] = [page[first] EXCEPT !.no = n]]
        BY <1>2
      <3> QED BY <1>2, <3>1, <3>2, ExceptSeq DEF IInv, TypeOK
    <2>2. call' \in [Calls -> InCall]
      BY <1>1 DEF IInv, TypeOK, InCall
    <2> QED BY <1>4, <2>1, <2>2 DEF IInv, TypeOK
  <1>6. NumbersHad'
    BY <1>4 DEF IInv, NumbersHad
  <1>7. CallsKnow'
    <2> SUFFICES ASSUME NEW d \in Calls, call'[d] # Idle
                 PROVE  call'[d].no \in had'[call'[d].order]
      BY DEF CallsKnow
    <2>1. CASE d = c
      BY <1>1, <1>4, <2>1 DEF IInv, TypeOK
    <2>2. CASE d # c
      <3>1. call'[d] = call[d] /\ call[d].order \in Orders
        BY <2>2 DEF IInv, TypeOK, InCall, Idle
      <3> QED BY <1>4, <3>1 DEF IInv, CallsKnow
    <2> QED BY <2>1, <2>2
  <1>8. \A p \in Orders \ {o} : RowsOf(number[p]) \subseteq RowsOf(number[p])'
    <2> SUFFICES ASSUME NEW p \in Orders \ {o}, NEW i \in RowsOf(number[p])
                 PROVE  i \in RowsOf(number[p])'
      OBVIOUS
    <2>1. i \in DOMAIN page /\ page[i].no = number[p]
      BY DEF RowsOf
    <2>2. number[p] # number[o]
      BY <1>1 DEF IInv, NumbersHad
    <2> QED BY <1>2, <1>3, <1>4, <2>1, <2>2 DEF RowsOf
  <1>9. first \in RowsOf(n)'
    BY <1>2, <1>3 DEF RowsOf
  <1>10. Renumbered' /\ PageFollowsOrder'
    <2>1. RowsOf(number[o])' # {}
      BY <1>4, <1>9 DEF RowsOf
    <2>2. ASSUME NEW p \in Orders \ {o}, had[p] # {number[p]} PROVE RowsOf(number[p])' # {}
      BY <1>8, <2>2 DEF IInv, Renumbered
    <2>3. ASSUME NEW p \in Orders \ {o}, NEW i \in DOMAIN page', page'[i].no \in had[p]
          PROVE  RowsOf(number[p])' # {}
      <3>1. i # first
        BY <1>3, <2>3
      <3> QED BY <1>3, <1>8, <2>3, <3>1 DEF IInv, PageFollowsOrder
    <2>4. Renumbered'
      BY <1>4, <2>1, <2>2 DEF Renumbered
    <2>5. ASSUME NEW p \in Orders, \E i \in DOMAIN page' : page'[i].no \in had'[p]
          PROVE  RowsOf(number[p])' # {}
      BY <1>4, <2>1, <2>3, <2>5, SMTT(30)
    <2>6. PageFollowsOrder'
      BY <2>5 DEF PageFollowsOrder
    <2> QED BY <2>4, <2>6
  <1>11. PageServesOneOrder'
    <2> SUFFICES ASSUME NEW i \in DOMAIN page
                 PROVE  \E p \in Orders : {page'[i].no, page'[i].url} \subseteq had'[p]
      BY <1>3 DEF PageServesOneOrder
    <2>1. PICK p \in Orders : {page[i].no, page[i].url} \subseteq had[p]
      BY DEF IInv, PageServesOneOrder
    <2>2. CASE i = first
      <3>1. p = o
        BY <1>1, <1>2, <2>1, <2>2 DEF IInv, NumbersHad
      <3>2. page'[i].url = page[i].url /\ page'[i].no = n
        BY <1>2, <1>3, <2>2, RowType DEF IInv, PageRow
      <3> QED BY <1>1, <1>4, <2>1, <3>1, <3>2
    <2>3. CASE i # first
      BY <1>3, <1>4, <2>1, <2>3
    <2> QED BY <2>2, <2>3
  <1>12. PaidMeansCollected'
    BY <1>4 DEF IInv, PaidMeansCollected
  <1> QED BY <1>5, <1>6, <1>7, <1>10, <1>11, <1>12 DEF IInv

\* The page is kept under the number the call knows.
LEMMA SavePageIInv ==
  ASSUME IInv, NEW c \in Calls, SavePage(c) PROVE IInv'
  <1> DEFINE n == call[c].no
             row == [no |-> n, url |-> n, fresh |-> TRUE]
  <1> USE DEF SavePage, byHand
  <1>1. /\ call[c] # Idle /\ call[c].order \in Orders /\ n \in Numbers
        /\ call[c].existing \in BOOLEAN /\ n \in had[call[c].order]
    BY CallType DEF IInv, CallsKnow
  <1>2. row \in PageRow
    BY <1>1 DEF PageRow
  <1>3. call' \in [Calls -> InCall] /\ CallsKnow'
    BY DEF IInv, TypeOK, CallsKnow, InCall
  <1>4. /\ page' \in Seq(PageRow)
        /\ \A i \in DOMAIN page : i \in DOMAIN page' /\ page'[i].no = page[i].no
        /\ \A i \in DOMAIN page' : page'[i] = row \/ (i \in DOMAIN page /\ page'[i] = page[i])
    <2>1. CASE call[c].existing
      <3>1. DOMAIN page' = 1..Len(page) /\ Len(page) \in Nat
        BY <2>1 DEF IInv, TypeOK
      <3>2. \A i \in DOMAIN page : page'[i] = IF page[i].no = n THEN row ELSE page[i]
        BY <2>1
      <3>3. \A i \in DOMAIN page' : page'[i] \in PageRow
        BY <1>2, <3>1, <3>2, RowType DEF IInv, TypeOK
      <3>4. page' \in Seq(PageRow)
        <4>1. page' = [i \in 1..Len(page) |-> page'[i]]
          BY <2>1, <3>1
        <4>2. page' \in [1..Len(page) -> PageRow]
          BY <3>1, <3>3, <4>1
        <4> QED BY <3>1, <4>2, SeqDef
      <3> QED BY <2>1, <3>1, <3>2, <3>4 DEF IInv, TypeOK
    <2>2. CASE ~call[c].existing
      BY <1>2, <2>2 DEF IInv, TypeOK
    <2> QED BY <1>1, <2>1, <2>2
  <1>5. TypeOK'
    BY <1>1, <1>3, <1>4 DEF IInv, TypeOK
  <1>6. NumbersHad'
    BY DEF IInv, NumbersHad
  <1>7. /\ had' = had /\ number' = number
        /\ \A o \in Orders : RowsOf(number[o]) # {} => RowsOf(number[o])' # {}
    BY <1>4 DEF RowsOf
  <1>8. Renumbered'
    BY <1>7 DEF IInv, Renumbered
  <1>9. PageServesOneOrder'
    <2> SUFFICES ASSUME NEW i \in DOMAIN page'
                 PROVE  \E o \in Orders : {page'[i].no, page'[i].url} \subseteq had[o]
      BY <1>7 DEF PageServesOneOrder
    <2>1. CASE page'[i] = row
      BY <1>1, <2>1
    <2>2. CASE i \in DOMAIN page /\ page'[i] = page[i]
      BY <2>2 DEF IInv, PageServesOneOrder
    <2> QED BY <1>4, <2>1, <2>2
  <1>10. PageFollowsOrder'
    <2> SUFFICES ASSUME NEW o \in Orders, NEW i \in DOMAIN page', page'[i].no \in had[o]
                 PROVE  RowsOf(number[o])' # {}
      BY <1>7 DEF PageFollowsOrder
    <2>1. CASE had[o] # {number[o]}
      BY <1>7, <1>8, <2>1 DEF Renumbered
    <2>2. CASE had[o] = {number[o]}
      BY <2>2 DEF RowsOf
    <2> QED BY <2>1, <2>2
  <1>11. PaidMeansCollected'
    BY DEF IInv, PaidMeansCollected
  <1> QED BY <1>3, <1>5, <1>6, <1>8, <1>9, <1>10, <1>11 DEF IInv

LEMMA PageExpiresIInv ==
  ASSUME IInv, NEW i \in DOMAIN page, PageExpires(i) PROVE IInv'
  <1> USE DEF PageExpires, byHand
  <1>1. /\ DOMAIN page' = DOMAIN page
        /\ \A j \in DOMAIN page : page'[j].no = page[j].no /\ page'[j].url = page[j].url
    <2>1. page'[i] = [page[i] EXCEPT !.fresh = FALSE]
      BY DEF IInv, TypeOK
    <2> QED BY <2>1, RowType DEF IInv, TypeOK, PageRow
  <1>2. page' \in Seq(PageRow)
    <2>1. [page[i] EXCEPT !.fresh = FALSE] \in PageRow
      BY RowType DEF IInv, PageRow
    <2>2. page' = [page EXCEPT ![i] = [page[i] EXCEPT !.fresh = FALSE]]
      OBVIOUS
    <2> QED BY <2>1, <2>2, ExceptSeq DEF IInv, TypeOK
  <1>3. \A m : RowsOf(m) = RowsOf(m)'
    BY <1>1 DEF RowsOf
  <1>4. TypeOK'
    BY <1>1, <1>2 DEF IInv, TypeOK
  <1>5. PaidMeansCollected'
    BY DEF IInv, PaidMeansCollected
  <1>6. PageServesOneOrder' /\ PageFollowsOrder'
    BY <1>1, <1>3 DEF IInv, PageServesOneOrder, PageFollowsOrder, Renumbered, RowsOf
  <1>7. NumbersHad' /\ CallsKnow'
    BY DEF IInv, NumbersHad, CallsKnow
  <1>8. Renumbered'
    BY <1>3 DEF IInv, Renumbered
  <1> QED
    BY <1>4, <1>5, <1>6, <1>7, <1>8 DEF IInv

\* Steps that pay a page or change the status of orders.
LEMMA StatusOnly ==
  ASSUME IInv,
         status' \in [Orders -> {"pendingPay", "paid", "cancelled"}],
         cancelled' \subseteq Orders, confirmed' \subseteq Orders,
         collected' \subseteq handed,
         confirm' \in [Confirms -> {Idle} \cup [op: {"read"}, order: Orders]],
         PaidMeansCollected',
         UNCHANGED <<number, page, call, had, handed>>
  PROVE  IInv'
  <1>1. TypeOK'
    BY DEF IInv, TypeOK
  <1> QED
    BY <1>1 DEF IInv, NumbersHad, CallsKnow, Renumbered, RowsOf, PageServesOneOrder,
                PageFollowsOrder

LEMMA BuyerPaysIInv ==
  ASSUME IInv, NEW n \in Numbers, BuyerPays(n) PROVE IInv'
  <1>1. collected \subseteq collected' /\ collected' \subseteq handed
    BY DEF BuyerPays, IInv, TypeOK
  <1>2. PaidMeansCollected'
    BY <1>1 DEF BuyerPays, IInv, PaidMeansCollected, byHand
  <1> QED BY <1>1, <1>2, StatusOnly DEF BuyerPays, IInv, TypeOK, byHand

\* A callback pays an open order that has the number now: a page made under it
\* was paid.
LEMMA HdpayNotifyIInv ==
  ASSUME IInv, NEW n \in Numbers, HdpayNotify(n) PROVE IInv'
  <1>1. status' \in [Orders -> {"pendingPay", "paid", "cancelled"}]
    BY DEF HdpayNotify, MarkedPaid, IInv, TypeOK
  <1>2. PaidMeansCollected'
    BY DEF HdpayNotify, MarkedPaid, IInv, NumbersHad, PaidMeansCollected, byHand
  <1> QED BY <1>1, <1>2, StatusOnly DEF HdpayNotify, IInv, TypeOK, byHand

LEMMA CloseOrderIInv ==
  ASSUME IInv, NEW o \in Orders, CloseOrder(o) PROVE IInv'
  <1>1. status' \in [Orders -> {"pendingPay", "paid", "cancelled"}] /\ cancelled' \subseteq Orders
    BY DEF CloseOrder, IInv, TypeOK
  <1>2. PaidMeansCollected'
    BY DEF CloseOrder, IInv, TypeOK, PaidMeansCollected, byHand
  <1> QED BY <1>1, <1>2, StatusOnly DEF CloseOrder, IInv, TypeOK, byHand

\* A confirmation that is late marks a closed order paid; the history tells.
LEMMA ConfirmIInv ==
  ASSUME IInv, NEW k \in Confirms,
         ConfirmPayWrite(k) \/ \E o \in Orders : ConfirmPayRead(k, o)
  PROVE  IInv'
  <1>0. /\ Idle \in {Idle} \cup [op: {"read"}, order: Orders]
        /\ confirm \in [Confirms -> {Idle} \cup [op: {"read"}, order: Orders]]
    BY DEF IInv, TypeOK
  <1>1. ASSUME NEW o \in Orders, ConfirmPayRead(k, o) PROVE IInv'
    <2>1. [op |-> "read", order |-> o] \in [op: {"read"}, order: Orders]
      OBVIOUS
    <2>2. confirm' \in [Confirms -> {Idle} \cup [op: {"read"}, order: Orders]]
      BY <1>0, <1>1, <2>1 DEF ConfirmPayRead
    <2>3. PaidMeansCollected'
      BY <1>1 DEF ConfirmPayRead, IInv, PaidMeansCollected
    <2> QED BY <1>1, <2>2, <2>3, StatusOnly DEF ConfirmPayRead, IInv, TypeOK
  <1>2. CASE ConfirmPayWrite(k)
    <2> DEFINE o == confirm[k].order
    <2>1. o \in Orders
      BY <1>0, <1>2 DEF ConfirmPayWrite, Idle
    <2>2. /\ status' \in [Orders -> {"pendingPay", "paid", "cancelled"}]
          /\ \A p \in Orders \ {o} : status'[p] = status[p]
      BY <1>2, <2>1 DEF ConfirmPayWrite, IInv, TypeOK
    <2>3. confirmed' = confirmed \cup {o} /\ confirmed' \subseteq Orders
      BY <1>2, <2>1 DEF ConfirmPayWrite, IInv, TypeOK
    <2>4. confirm' \in [Confirms -> {Idle} \cup [op: {"read"}, order: Orders]]
      BY <1>0, <1>2 DEF ConfirmPayWrite
    <2>5. UNCHANGED <<number, cancelled, page, call, had, handed, collected>>
      BY <1>2 DEF ConfirmPayWrite
    <2> HIDE DEF o
    <2>6. PaidMeansCollected'
      BY <2>2, <2>3, <2>5 DEF IInv, PaidMeansCollected
    <2> QED BY <2>2, <2>3, <2>4, <2>5, <2>6, StatusOnly DEF IInv, TypeOK
  <1> QED BY <1>1, <1>2
-----------------------------------------------------------------------------
\* Every step keeps the invariant.
LEMMA NextIInv == IInv /\ [Next]_vars => IInv'
  <1> SUFFICES ASSUME IInv, [Next]_vars PROVE IInv'
    OBVIOUS
  <1>1. ASSUME NEW c \in Calls, PayStep(c) PROVE IInv'
    BY <1>1, PayBeginIInv, ReturnPageIInv, FindPageIInv, RefreshFindsNothingIInv,
       RefreshIInv, CreateOrderIInv, SavePageIInv, CallFailsIInv DEF PayStep
  <1>2. CASE UNCHANGED vars
    BY <1>2, SMTT(30) DEF vars, byHand, IInv, TypeOK, NumbersHad, CallsKnow, Renumbered, RowsOf,
                PageServesOneOrder, PaidMeansCollected, PageFollowsOrder
  <1> QED
    BY <1>1, <1>2, PageExpiresIInv, BuyerPaysIInv, HdpayNotifyIInv, CloseOrderIInv,
       ConfirmIInv DEF Next

\* The inductive invariant holds in every reachable state.
THEOREM PaymentInvariant == Spec => []IInv
  BY InitIInv, NextIInv, PTL DEF Spec

\* The tables and the calls keep their types; only pages handed out are paid.
THEOREM PaymentTypes == Spec => []TypeOK
  BY PaymentInvariant, PTL DEF IInv

\* A page row never crosses from one order to another (PageServesOneOrder),
\* whatever calls with retired numbers still write.
THEOREM PagesServeOneOrder == Spec => []PageServesOneOrder
  BY PaymentInvariant, PTL DEF IInv

\* An order no buyer has confirmed by hand is paid only when a page made under
\* one of its numbers was, and only while it is open (PaidMeansCollected); by
\* NumbersHad those numbers are nobody else's.
THEOREM PaidIsCollected == Spec => [](PaidMeansCollected /\ NumbersHad)
  BY PaymentInvariant, PTL DEF IInv

\* An order that ever got a page has a row under its current number
\* (PageFollowsOrder), however many calls renumber it.
THEOREM PagesFollowOrders == Spec => []PageFollowsOrder
  BY PaymentInvariant, PTL DEF IInv
=============================================================================
