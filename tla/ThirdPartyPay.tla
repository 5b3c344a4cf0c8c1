---------------------------- MODULE ThirdPartyPay ----------------------------
(***************************************************************************)
(* Paying an order through a payment provider (hdpay or hmpay; the two     *)
(* handlers and the two tables have the same control): MerchantOrderPay    *)
(* asks the provider for a payment page under the order's number, keeps it *)
(* in merchant_hd_order / merchant_hm_order for two minutes, and gives the *)
(* order a new number when a page has to be made again; the provider's     *)
(* success callback finds the order by its number.                         *)
(*                                                                         *)
(* A page is identified by the number it was made under. The buyer may     *)
(* also confirm by hand, whatever the order's way of payment: a read, then *)
(* UPDATE ... WHERE id = ?, as in MerchantTrade.                           *)
(***************************************************************************)
EXTENDS Naturals, Sequences, FiniteSets, FiniteSetsExt

CONSTANTS
  Orders,   \* merchant_order ids, all paid through one provider
  Numbers,  \* order numbers (merchant_order.order_id) the bound allows
  Calls,    \* MerchantOrderPay requests in flight
  Confirms  \* MerchantOrderConfirmPay requests in flight

ASSUME PayAssumption == Cardinality(Orders) <= Cardinality(Numbers)

VARIABLES
  number,    \* merchant_order.order_id, unique
  status,    \* merchant_order.status
  cancelled, \* the orders whose is_cancel is set
  page,      \* table merchant_hd_order, in the order of its ids
  call,      \* what an unfinished MerchantOrderPay knows
  confirm,   \* what an unfinished MerchantOrderConfirmPay knows
  had,       \* history: every number an order has had
  handed,    \* history: numbers whose page was returned to a buyer
  collected, \* the provider: numbers whose page was paid
  confirmed  \* history: orders a buyer's confirmation has marked paid

byHand == <<confirm, confirmed>>
vars   == <<number, status, cancelled, page, call, had, handed, collected, byHand>>

Idle == [op |-> "idle"]
PageRow == [no: Numbers, url: Numbers, fresh: BOOLEAN]
InCall ==
  {Idle}
    \cup [op: {"begun", "refresh"}, order: Orders, no: Numbers]
    \cup [op: {"create", "save"}, order: Orders, no: Numbers, existing: BOOLEAN]

TypeOK ==
  /\ number \in [Orders -> Numbers]
  /\ status \in [Orders -> {"pendingPay", "paid", "cancelled"}]
  /\ cancelled \subseteq Orders
  /\ page \in Seq(PageRow)
  /\ call \in [Calls -> InCall]
  /\ had \in [Orders -> SUBSET Numbers]
  /\ handed \subseteq Numbers
  /\ collected \subseteq handed
  /\ confirm \in [Confirms -> {Idle} \cup [op: {"read"}, order: Orders]]
  /\ confirmed \subseteq Orders

RowsOf(n) == {i \in DOMAIN page : page[i].no = n}

Init ==
  /\ number \in [Orders -> Numbers]
  /\ \A o, p \in Orders : number[o] = number[p] => o = p
  /\ status = [o \in Orders |-> "pendingPay"] /\ cancelled = {}
  /\ page = <<>>
  /\ call = [c \in Calls |-> Idle]
  /\ had = [o \in Orders |-> {number[o]}]
  /\ handed = {} /\ collected = {}
  /\ confirm = [k \in Confirms |-> Idle] /\ confirmed = {}

-----------------------------------------------------------------------------
(* MerchantOrderPay *)

\* The order is found by the number the client sends.
PayBegin(c, o) ==
  /\ call[c] = Idle
  /\ status[o] = "pendingPay" /\ o \notin cancelled
  /\ call' = [call EXCEPT ![c] = [op |-> "begun", order |-> o, no |-> number[o]]]
  /\ UNCHANGED <<number, status, cancelled, page, had, handed, collected, byHand>>

\* A page younger than two minutes is returned again.
ReturnPage(c) ==
  /\ call[c].op = "begun"
  /\ RowsOf(call[c].no) # {}
  /\ LET first == page[Min(RowsOf(call[c].no))]
     IN  first.fresh /\ handed' = handed \cup {first.url}
  /\ call' = [call EXCEPT ![c] = Idle]
  /\ UNCHANGED <<number, status, cancelled, page, had, collected, byHand>>

FindPage(c) ==
  /\ call[c].op = "begun"
  /\ LET rows == RowsOf(call[c].no)
         o == call[c].order
         n == call[c].no
     IN  \/ /\ rows = {}
            /\ call' = [call EXCEPT ![c] = [op |-> "create", order |-> o, no |-> n,
                                            existing |-> FALSE]]
         \/ /\ rows # {}
            /\ ~page[Min(rows)].fresh
            /\ call' = [call EXCEPT ![c] = [op |-> "refresh", order |-> o, no |-> n]]
  /\ UNCHANGED <<number, status, cancelled, page, had, handed, collected, byHand>>

\* Mutant: the number that was not generated is returned.
RefreshReturnsEmpty(c) ==
  /\ call[c].op = "refresh"
  /\ RowsOf(call[c].no) = {}
  /\ call' = [call EXCEPT ![c] = [op |-> "create", order |-> call[c].order,
                                  no |-> "", existing |-> TRUE]]
  /\ UNCHANGED <<number, status, cancelled, page, had, handed, collected, byHand>>

\* RefreshOrderNoForHdPay found no page row under the old number any more: the
\* old number is returned.
RefreshFindsNothing(c) ==
  /\ call[c].op = "refresh"
  /\ RowsOf(call[c].no) = {}
  /\ call' = [call EXCEPT ![c] = [op |-> "create", order |-> call[c].order,
                                  no |-> call[c].no, existing |-> TRUE]]
  /\ UNCHANGED <<number, status, cancelled, page, had, handed, collected, byHand>>

\* A refresh that leaves the page rows as the argument says and continues
\* the call under number m.
RefreshWith(c, n, m, rows) ==
  /\ call[c].op = "refresh"
  /\ RowsOf(call[c].no) # {}
  /\ number[call[c].order] = call[c].no
  /\ \A o \in Orders : n \notin had[o]
  /\ number' = [number EXCEPT ![call[c].order] = n]
  /\ page' = rows
  /\ had' = [had EXCEPT ![call[c].order] = @ \cup {n}]
  /\ call' = [call EXCEPT ![c] = [op |-> "create", order |-> call[c].order,
                                  no |-> m, existing |-> TRUE]]
  /\ UNCHANGED <<status, cancelled, handed, collected, byHand>>

\* Mutant: only the order is renumbered.
RefreshOrderOnly(c, n) == RefreshWith(c, n, n, page)

\* Mutant: the row to move is not looked for by its number.
RefreshFirstPage(c, n) == RefreshWith(c, n, n, [page EXCEPT ![1].no = n])

\* Order and first page row move to a new number in one transaction.
RefreshOrderNo(c, n) ==
  RefreshWith(c, n, n, [page EXCEPT ![Min(RowsOf(call[c].no))].no = n])

\* The provider has made the page.
CreateOrder(c) ==
  /\ call[c].op = "create"
  /\ call' = [call EXCEPT ![c] = [@ EXCEPT !.op = "save"]]
  /\ UNCHANGED <<number, status, cancelled, page, had, handed, collected, byHand>>

\* UpdateByOrderNo or Create, then the response.
SavePage(c) ==
  /\ call[c].op = "save"
  /\ LET n == call[c].no
     IN  /\ page' = IF call[c].existing
                    THEN [i \in DOMAIN page |->
                            IF page[i].no = n THEN [no |-> n, url |-> n, fresh |-> TRUE]
                                              ELSE page[i]]
                    ELSE Append(page, [no |-> n, url |-> n, fresh |-> TRUE])
         /\ handed' = handed \cup {n}
  /\ call' = [call EXCEPT ![c] = Idle]
  /\ UNCHANGED <<number, status, cancelled, had, collected, byHand>>

\* A database error, a refused or timed out provider request, or a refresh that
\* finds the order renumbered ends the call with an error.
CallFails(c) ==
  /\ call[c].op # "idle"
  /\ call' = [call EXCEPT ![c] = Idle]
  /\ UNCHANGED <<number, status, cancelled, page, had, handed, collected, byHand>>

\* Two minutes pass for a page. A provider request is cut off after thirty
\* seconds, so the calls that overlapped the page's making have ended; one that
\* is under way at that moment is taken as one that starts after it.
PageExpires(i) ==
  /\ i \in DOMAIN page
  /\ page[i].fresh
  /\ \A c \in Calls : call[c] # Idle => page[i].no \notin had[call[c].order]
  /\ page' = [page EXCEPT ![i].fresh = FALSE]
  /\ UNCHANGED <<number, status, cancelled, call, had, handed, collected, byHand>>

-----------------------------------------------------------------------------
(* The provider and the other handlers *)

\* The buyer pays a page; nothing closes a page that was replaced.
BuyerPays(n) ==
  /\ n \in handed \ collected
  /\ collected' = collected \cup {n}
  /\ UNCHANGED <<number, status, cancelled, page, call, had, handed, byHand>>

\* What the callback leaves in the status column of every order.
MarkedPaid(n) ==
  [o \in Orders |-> IF number[o] = n /\ status[o] = "pendingPay" /\ o \notin cancelled
                     THEN "paid" ELSE status[o]]

\* Mutant: the status of the callback is not looked at.
HdpayNotifyAny(n) ==
  /\ n \in handed
  /\ status' = MarkedPaid(n)
  /\ UNCHANGED <<number, cancelled, page, call, had, handed, collected, byHand>>

\* MerchantOrderHdpayNotify for a payment that succeeded, any number of times:
\* whatever the update finds, the provider is answered "success".
HdpayNotify(n) ==
  /\ n \in collected
  /\ status' = MarkedPaid(n)
  /\ UNCHANGED <<number, cancelled, page, call, had, handed, collected, byHand>>

\* The buyer or the expiry job closes the order (CancelOrderInTx).
CloseOrder(o) ==
  /\ status[o] \in {"pendingPay", "paid"}
  /\ o \notin cancelled
  /\ status' = [status EXCEPT ![o] = "cancelled"]
  /\ cancelled' = cancelled \cup {o}
  /\ UNCHANGED <<number, page, call, had, handed, collected, byHand>>

-----------------------------------------------------------------------------
(* MerchantOrderConfirmPay: the way of payment is not looked at *)

ConfirmPayRead(k, o) ==
  /\ confirm[k] = Idle
  /\ status[o] = "pendingPay" /\ o \notin cancelled
  /\ confirm' = [confirm EXCEPT ![k] = [op |-> "read", order |-> o]]
  /\ UNCHANGED <<number, status, cancelled, page, call, had, handed, collected, confirmed>>

ConfirmPayWrite(k) ==
  /\ confirm[k].op = "read"
  /\ status' = [status EXCEPT ![confirm[k].order] = "paid"]
  /\ confirmed' = confirmed \cup {confirm[k].order}
  /\ confirm' = [confirm EXCEPT ![k] = Idle]
  /\ UNCHANGED <<number, cancelled, page, call, had, handed, collected>>

PayStep(c) ==
  \/ \E o \in Orders : PayBegin(c, o)
  \/ ReturnPage(c)
  \/ FindPage(c)
  \/ RefreshFindsNothing(c)
  \/ \E n \in Numbers : RefreshOrderNo(c, n)
  \/ CreateOrder(c)
  \/ SavePage(c)
  \/ CallFails(c)

Next ==
  \/ \E c \in Calls : PayStep(c)
  \/ \E i \in DOMAIN page : PageExpires(i)
  \/ \E n \in Numbers : BuyerPays(n) \/ HdpayNotify(n)
  \/ \E o \in Orders : CloseOrder(o)
  \/ \E k \in Confirms : (\E o \in Orders : ConfirmPayRead(k, o)) \/ ConfirmPayWrite(k)

Spec == Init /\ [][Next]_vars

-----------------------------------------------------------------------------
(* Properties *)

\* A row and the page kept in it were made for one and the same order, whatever
\* calls, some of them with a number that is retired, have updated and moved it:
\* nobody is handed the page of another order.
PageServesOneOrder ==
  \A i \in DOMAIN page : \E o \in Orders : {page[i].no, page[i].url} \subseteq had[o]

\* Unless its buyer confirmed it by hand, an order reads paid only when the
\* provider collected money for a page that was made for this very order,
\* whatever numbers both have had, and only when it is not closed: a callback
\* that comes after the cancellation changes nothing.
PaidMeansCollected ==
  \A o \in Orders :
    status[o] = "paid" /\ o \notin confirmed
      => had[o] \cap collected # {} /\ o \notin cancelled

\* Refreshing moves an order and its page row together: an order that ever
\* got a page has a row under its current number.
PageFollowsOrder ==
  \A o \in Orders :
    (\E i \in DOMAIN page : page[i].no \in had[o]) => RowsOf(number[o]) # {}
==============================================================================
