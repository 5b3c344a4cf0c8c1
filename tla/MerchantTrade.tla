--------------------------- MODULE MerchantTrade ---------------------------
(***************************************************************************)
(* The C2C market: listings (merchant_task), orders (merchant_order) and   *)
(* the merchant's licence (merchant.status), as the HTTP handlers of the   *)
(* user service and the every-minute expiry job change them in MySQL.      *)
(*                                                                         *)
(* A gorm transaction that locks its rows with FOR UPDATE is one action.   *)
(* A handler that reads a row outside a transaction and writes it later by *)
(* primary key is split at every such read: what the handler has verified  *)
(* is kept in req[r] until the write of the same request.                  *)
(*                                                                         *)
(* Quantities are whole units: the float columns and the epsilon used to   *)
(* compare them are abstracted, prices and payment details are left out.   *)
(***************************************************************************)
EXTENDS Naturals, FiniteSets, FiniteSetsExt

CONSTANTS
  Merchants,   \* user ids of licensed sellers
  Tasks,       \* listing ids the bound allows to be created
  Orders,      \* order ids the bound allows to be created
  Owner,       \* merchant_task.user_id
  MaxCount,    \* bound on the quantity a listing may offer
  Sides,       \* the parties of an order that may open a dispute
  Surety,      \* merchant.surety, the deposit that caps what is on offer
  Reqs,        \* HTTP requests that may be between a read and their write
  Sweepers,    \* runs of the expiry job that may overlap (no skip-if-running)
  BatchSize    \* ids one pass of the expiry job selects

ASSUME TradeAssumption ==
  /\ Tasks # {}
  /\ IsFiniteSet(Orders)
  /\ Owner \in [Tasks -> Merchants]
  /\ MaxCount \in Nat \ {0}
  /\ Sides \subseteq {"buyer", "seller"}
  /\ Surety \in [Merchants -> Nat]
  /\ BatchSize \in Nat \ {0}

VARIABLES
  task,      \* table merchant_task
  order,     \* table merchant_order
  merchant,  \* merchant.status
  req,       \* what an unfinished request has verified so far
  sweep      \* the expiry job's runs: who was due when it began, the ids in hand

vars == <<task, order, merchant, req, sweep>>

-----------------------------------------------------------------------------
(* Rows *)

TaskStatus  == {"none", "pending", "trading", "done"}
OrderStatus == {"none", "pendingPay", "paid", "cancelled"}

TaskRow == [status: TaskStatus, count: 0..MaxCount, total: 0..MaxCount,
            isUp: BOOLEAN, isDeleted: BOOLEAN]

OrderRow == [status: OrderStatus, task: Tasks, counts: 0..MaxCount, isCancel: BOOLEAN,
             cancelId: {"none", "buyer", "expire"}, hasPayTime: BOOLEAN,
             appealId: {"none"} \cup Sides, overdue: BOOLEAN]

NoTask  == [status |-> "none", count |-> 0, total |-> 0,
            isUp |-> FALSE, isDeleted |-> FALSE]
NoOrder == [status |-> "none", task |-> CHOOSE t \in Tasks : TRUE, counts |-> 0,
            isCancel |-> FALSE, cancelId |-> "none", hasPayTime |-> FALSE,
            appealId |-> "none", overdue |-> FALSE]

Idle == [op |-> "idle"]
Pending ==
  {Idle}
    \cup [op: {"confirmPay"}, order: Orders]
    \cup [op: {"update", "upFound"}, task: Tasks, count: 1..MaxCount]
    \cup [op: {"upChecked", "down", "finish"}, task: Tasks]
    \cup [op: {"licensed", "cancelUnlisted", "cancelIdle"}, merchant: Merchants]

SweepRow == [on: BOOLEAN, due: SUBSET Orders, todo: SUBSET Orders, full: BOOLEAN]
NoSweep  == [on |-> FALSE, due |-> {}, todo |-> {}, full |-> FALSE]

TypeOK ==
  /\ task \in [Tasks -> TaskRow]
  /\ order \in [Orders -> OrderRow]
  /\ merchant \in [Merchants -> {"approved", "applyCancel"}]
  /\ req \in [Reqs -> Pending]
  /\ sweep \in [Sweepers -> SweepRow]

-----------------------------------------------------------------------------
(* Queries and row computations shared by the transactions *)

Active(row) == ~row.isCancel /\ row.status \in {"pendingPay", "paid"}

\* An active order occupies stock of the listing.
HasActiveOrders(t, ord) == \E o \in Orders : ord[o].task = t /\ Active(ord[o])

\* status and is_up of a listing row that has just got a new count.
RecalcStatus(t, row, ord) ==
  IF row.isDeleted             THEN row
  ELSE IF row.count > 0        THEN [row EXCEPT !.status = "pending"]
  ELSE IF HasActiveOrders(t, ord) THEN [row EXCEPT !.status = "trading"]
  ELSE [row EXCEPT !.status = "done", !.isUp = FALSE]

Deduct(t, n) ==
  RecalcStatus(t, [task[t] EXCEPT !.count = @ - n], order)

\* Mutant: restoring does not stop at the total.
RestoredUnclamped(row, n) == row.count + n

Restored(row, n) ==
  IF row.total > 0 /\ row.count + n > row.total THEN row.total ELSE row.count + n

RestoreOnCancel(t, n, ord) ==
  IF n = 0 THEN task[t]
  ELSE RecalcStatus(t, [task[t] EXCEPT !.count = Restored(task[t], n)], ord)

Listed(row) ==
  /\ ~row.isDeleted /\ row.isUp
  /\ row.status \in {"pending", "trading"}
  /\ row.count > 0

ListedBy(m) == {t \in Tasks : Owner[t] = m /\ Listed(task[t])}

SumListedActiveCount(m, except) ==
  MapThenSumSet(LAMBDA t : task[t].count, ListedBy(m) \ except)

HasActiveOrdersBySaler(m) ==
  \E o \in Orders : order[o].status # "none" /\ Owner[order[o].task] = m /\ Active(order[o])

Overdue == {o \in Orders : order[o].status = "pendingPay"
                           /\ ~order[o].isCancel /\ order[o].overdue}

\* What is left to expire of the orders created before the run's cutoff, notAfter.
Expired(s) == Overdue \cap sweep[s].due

-----------------------------------------------------------------------------
Init ==
  /\ task = [t \in Tasks |-> NoTask]
  /\ order = [o \in Orders |-> NoOrder]
  /\ merchant = [m \in Merchants |-> "approved"]
  /\ req = [r \in Reqs |-> Idle]
  /\ sweep = [s \in Sweepers |-> NoSweep]

-----------------------------------------------------------------------------
(* Orders: single transactions *)

\* Mutant: the quantity asked for is not compared with what is left.
CreateFromTaskUnbounded(o, t, n) ==
  /\ order[o].status = "none"
  /\ Listed(task[t])
  /\ task' = [task EXCEPT ![t] = Deduct(t, n)]
  /\ order' = [order EXCEPT ![o] =
                 [NoOrder EXCEPT !.status = "pendingPay", !.task = t, !.counts = n]]
  /\ UNCHANGED <<merchant, req, sweep>>

\* The order row is inserted after the listing's status was recomputed.
CreateFromTask(o, t, n) ==
  /\ order[o].status = "none"
  /\ task[t].status # "none"
  /\ Listed(task[t])
  /\ n <= task[t].count
  /\ task' = [task EXCEPT ![t] = Deduct(t, n)]
  /\ order' = [order EXCEPT ![o] =
                 [NoOrder EXCEPT !.status = "pendingPay", !.task = t, !.counts = n]]
  /\ UNCHANGED <<merchant, req, sweep>>

\* Mutant: is_cancel of the locked row is not looked at.
CancelAgainInTx(o, by, allowed) ==
  /\ order[o].status \in allowed
  /\ order' = [order EXCEPT ![o] =
                 [@ EXCEPT !.status = "cancelled", !.isCancel = TRUE, !.cancelId = by]]
  /\ task' = [task EXCEPT ![order[o].task] =
                RestoreOnCancel(order[o].task, order[o].counts, order')]

\* Mutant: the quantity is not given back.
CancelKeepsStockInTx(o, by, allowed) ==
  /\ order[o].status \in allowed
  /\ ~order[o].isCancel
  /\ order' = [order EXCEPT ![o] =
                 [@ EXCEPT !.status = "cancelled", !.isCancel = TRUE, !.cancelId = by]]
  /\ UNCHANGED task

CancelOrderInTx(o, by, allowed) ==
  /\ order[o].status \in allowed
  /\ ~order[o].isCancel
  /\ order' = [order EXCEPT ![o] =
                 [@ EXCEPT !.status = "cancelled", !.isCancel = TRUE, !.cancelId = by]]
  /\ task' = [task EXCEPT ![order[o].task] =
                RestoreOnCancel(order[o].task, order[o].counts, order')]

CancelOrderTx(o) ==
  /\ CancelOrderInTx(o, "buyer", {"pendingPay", "paid"})
  /\ UNCHANGED <<merchant, req, sweep>>

AppealOrderTx(o, side) ==
  /\ order[o].status = "paid"
  /\ ~order[o].isCancel
  /\ order[o].appealId = "none"
  /\ order' = [order EXCEPT ![o].appealId = side]
  /\ UNCHANGED <<task, merchant, req, sweep>>

\* Mutant: the callback sets the status but not the time of payment.
MarkOrderPaidUntimed(o) ==
  /\ order[o].status = "pendingPay"
  /\ ~order[o].isCancel
  /\ order' = [order EXCEPT ![o].status = "paid"]
  /\ UNCHANGED <<task, merchant, req, sweep>>

\* A success callback of a payment provider for this order, delivered any
\* number of times: the row is read, then updated WHERE status = 0.
ApplyNotifyAndMarkOrderPaid(o) ==
  /\ order[o].status = "pendingPay"
  /\ ~order[o].isCancel
  /\ order' = [order EXCEPT ![o] = [@ EXCEPT !.status = "paid", !.hasPayTime = TRUE]]
  /\ UNCHANGED <<task, merchant, req, sweep>>

\* Half an hour passes since the order was created.
BecomesOverdue(o) ==
  /\ order[o].status = "pendingPay"
  /\ ~order[o].overdue
  /\ order' = [order EXCEPT ![o].overdue = TRUE]
  /\ UNCHANGED <<task, merchant, req, sweep>>

-----------------------------------------------------------------------------
(* MerchantOrderConfirmPay: an unlocked read, then UPDATE ... WHERE id = ? *)

ConfirmPayRead(r, o) ==
  /\ req[r] = Idle
  /\ order[o].status = "pendingPay"
  /\ ~order[o].isCancel
  /\ req' = [req EXCEPT ![r] = [op |-> "confirmPay", order |-> o]]
  /\ UNCHANGED <<task, order, merchant, sweep>>

ConfirmPayWrite(r) ==
  /\ req[r].op = "confirmPay"
  /\ order' = [order EXCEPT ![req[r].order] =
                 [@ EXCEPT !.status = "paid", !.hasPayTime = TRUE]]
  /\ req' = [req EXCEPT ![r] = Idle]
  /\ UNCHANGED <<task, merchant, sweep>>

-----------------------------------------------------------------------------
(* The expiry job, merchant_order.expire_unpaid *)

\* A run begins: the cutoff is computed once. A run that would find nothing
\* changes nothing.
SweepBegin(s) ==
  /\ ~sweep[s].on
  /\ Overdue # {}
  /\ sweep' = [sweep EXCEPT ![s] = [on |-> TRUE, due |-> Overdue, todo |-> {}, full |-> TRUE]]
  /\ UNCHANGED <<task, order, merchant, req>>

\* One pass selects the overdue ids, at most BatchSize of them; after a full
\* batch the run selects again, against the same cutoff.
SweepSelect(s) ==
  /\ sweep[s].on
  /\ sweep[s].todo = {}
  /\ sweep[s].full
  /\ \E ids \in SUBSET Expired(s) :
       /\ ids # {}
       /\ Cardinality(ids) <= BatchSize
       /\ Cardinality(ids) < BatchSize => ids = Expired(s)
       /\ sweep' = [sweep EXCEPT ![s] =
                      [@ EXCEPT !.todo = ids, !.full = Cardinality(ids) = BatchSize]]
  /\ UNCHANGED <<task, order, merchant, req>>

\* Mutant: the selected order is cancelled without a second look.
SweepCancelStale(s, o) ==
  /\ o \in sweep[s].todo
  /\ CancelOrderInTx(o, "expire", {"pendingPay", "paid"})
  /\ sweep' = [sweep EXCEPT ![s].todo = @ \ {o}]
  /\ UNCHANGED <<merchant, req>>

\* Mutant: the transaction looks the listing up among those not deleted, and
\* fails for an order whose listing its seller has finished.
SweepCancelListed(s, o) ==
  /\ o \in sweep[s].todo
  /\ o \in sweep[s].due
  /\ ~task[order[o].task].isDeleted
  /\ CancelOrderInTx(o, "expire", {"pendingPay"})
  /\ sweep' = [sweep EXCEPT ![s].todo = @ \ {o}]
  /\ UNCHANGED <<merchant, req>>

\* The row is locked and checked again, against the run's cutoff, before it is
\* cancelled.
SweepCancel(s, o) ==
  /\ o \in sweep[s].todo
  /\ o \in sweep[s].due
  /\ CancelOrderInTx(o, "expire", {"pendingPay"})
  /\ sweep' = [sweep EXCEPT ![s].todo = @ \ {o}]
  /\ UNCHANGED <<merchant, req>>

SweepSkip(s, o) ==
  /\ o \in sweep[s].todo
  /\ o \notin Expired(s)
  /\ sweep' = [sweep EXCEPT ![s].todo = @ \ {o}]
  /\ UNCHANGED <<task, order, merchant, req>>

\* A failed transaction (deadlock, lost connection, restart) ends the run.
SweepAbort(s) ==
  /\ sweep[s].on
  /\ sweep[s].todo # {}
  /\ sweep' = [sweep EXCEPT ![s] = NoSweep]
  /\ UNCHANGED <<task, order, merchant, req>>

SweepEnd(s) ==
  /\ sweep[s].on
  /\ sweep[s].todo = {}
  /\ sweep[s].full => Expired(s) = {}
  /\ sweep' = [sweep EXCEPT ![s] = NoSweep]
  /\ UNCHANGED <<task, order, merchant, req>>

-----------------------------------------------------------------------------
(* Listings: handlers that check an unlocked read and write by id *)

Begin(r, p) ==
  /\ req' = [req EXCEPT ![r] = p]
  /\ UNCHANGED <<task, order, merchant, sweep>>

\* The first read of the five handlers; the listing is read after it.
RequireEffectiveMerchant(r, m) ==
  /\ req[r] = Idle
  /\ merchant[m] = "approved"
  /\ Begin(r, [op |-> "licensed", merchant |-> m])

\* FindOwned finds no listing, or one in a state the handler refuses.
TaskRefused(r) ==
  /\ req[r].op = "licensed"
  /\ Begin(r, Idle)

TaskCreate(r, t, n) ==
  /\ req[r].op = "licensed"
  /\ Owner[t] = req[r].merchant
  /\ task[t].status = "none"
  /\ task' = [task EXCEPT ![t] =
                [NoTask EXCEPT !.status = "pending", !.count = n, !.total = n]]
  /\ req' = [req EXCEPT ![r] = Idle]
  /\ UNCHANGED <<order, merchant, sweep>>

\* FindOwned and the check of is_deleted, common to the handlers of a listing.
Editable(r, t) ==
  /\ req[r].op = "licensed"
  /\ Owner[t] = req[r].merchant
  /\ task[t].status # "none"
  /\ ~task[t].isDeleted

TaskUpdateRead(r, t, n) ==
  /\ Editable(r, t)
  /\ task[t].status = "pending"
  /\ ~task[t].isUp
  /\ task[t].count = task[t].total
  /\ Begin(r, [op |-> "update", task |-> t, count |-> n])

TaskUpdateWrite(r) ==
  /\ req[r].op = "update"
  /\ task' = [task EXCEPT ![req[r].task] =
                [@ EXCEPT !.count = req[r].count, !.total = req[r].count]]
  /\ req' = [req EXCEPT ![r] = Idle]
  /\ UNCHANGED <<order, merchant, sweep>>

TaskUpRead(r, t) ==
  /\ Editable(r, t)
  /\ task[t].status = "pending"
  /\ task[t].count > 0
  /\ ~task[t].isUp
  /\ Begin(r, [op |-> "upFound", task |-> t, count |-> task[t].count])

AssertListedWithinSurety(r) ==
  /\ req[r].op = "upFound"
  /\ LET t == req[r].task
         m == Owner[t]
     IN  IF SumListedActiveCount(m, {t}) + req[r].count <= Surety[m]
         THEN Begin(r, [op |-> "upChecked", task |-> t])
         ELSE Begin(r, Idle)

TaskUpWrite(r) ==
  /\ req[r].op = "upChecked"
  /\ task' = [task EXCEPT ![req[r].task].isUp = TRUE]
  /\ req' = [req EXCEPT ![r] = Idle]
  /\ UNCHANGED <<order, merchant, sweep>>

TaskDownRead(r, t) ==
  /\ Editable(r, t)
  /\ task[t].isUp
  /\ Begin(r, [op |-> "down", task |-> t])

TaskDownWrite(r) ==
  /\ req[r].op = "down"
  /\ task' = [task EXCEPT ![req[r].task].isUp = FALSE]
  /\ req' = [req EXCEPT ![r] = Idle]
  /\ UNCHANGED <<order, merchant, sweep>>

TaskFinishRead(r, t) ==
  /\ Editable(r, t)
  /\ Begin(r, [op |-> "finish", task |-> t])

TaskFinishWrite(r) ==
  /\ req[r].op = "finish"
  /\ task' = [task EXCEPT ![req[r].task] =
                [@ EXCEPT !.isDeleted = TRUE, !.isUp = FALSE]]
  /\ req' = [req EXCEPT ![r] = Idle]
  /\ UNCHANGED <<order, merchant, sweep>>

-----------------------------------------------------------------------------
(* MerchantCancelApply: two reads, in this order, then the write *)

CancelApplyUnlisted(r, m) ==
  /\ req[r] = Idle
  /\ merchant[m] = "approved"
  /\ ListedBy(m) = {}
  /\ Begin(r, [op |-> "cancelUnlisted", merchant |-> m])

CancelApplyIdle(r) ==
  /\ req[r].op = "cancelUnlisted"
  /\ LET m == req[r].merchant
     IN  IF HasActiveOrdersBySaler(m) THEN Begin(r, Idle)
         ELSE Begin(r, [op |-> "cancelIdle", merchant |-> m])

CancelApplyWrite(r) ==
  /\ req[r].op = "cancelIdle"
  /\ merchant' = [merchant EXCEPT ![req[r].merchant] = "applyCancel"]
  /\ req' = [req EXCEPT ![r] = Idle]
  /\ UNCHANGED <<task, order, sweep>>

\* The back office turns the application down; its code is not in this repository.
CancelApplyRejected(m) ==
  /\ merchant[m] = "applyCancel"
  /\ merchant' = [merchant EXCEPT ![m] = "approved"]
  /\ UNCHANGED <<task, order, req, sweep>>

-----------------------------------------------------------------------------
OrderStep ==
  \E o \in Orders :
    \/ \E t \in Tasks, n \in 1..MaxCount : CreateFromTask(o, t, n)
    \/ CancelOrderTx(o)
    \/ \E side \in Sides : AppealOrderTx(o, side)
    \/ ApplyNotifyAndMarkOrderPaid(o)
    \/ BecomesOverdue(o)

SweepStep ==
  \E s \in Sweepers :
    \/ SweepBegin(s)
    \/ SweepSelect(s)
    \/ \E o \in Orders : SweepCancel(s, o) \/ SweepSkip(s, o)
    \/ SweepAbort(s)
    \/ SweepEnd(s)

ReadStep ==
  \E r \in Reqs :
    \/ \E o \in Orders : ConfirmPayRead(r, o)
    \/ \E m \in Merchants : RequireEffectiveMerchant(r, m)
    \/ TaskRefused(r)
    \/ \E t \in Tasks :
         \/ \E n \in 1..MaxCount : TaskUpdateRead(r, t, n)
         \/ TaskUpRead(r, t)
         \/ TaskDownRead(r, t)
         \/ TaskFinishRead(r, t)
    \/ AssertListedWithinSurety(r)
    \/ \E m \in Merchants : CancelApplyUnlisted(r, m)
    \/ CancelApplyIdle(r)

WriteStep ==
  \E r \in Reqs :
    \/ ConfirmPayWrite(r)
    \/ \E t \in Tasks, n \in 1..MaxCount : TaskCreate(r, t, n)
    \/ TaskUpdateWrite(r)
    \/ TaskUpWrite(r)
    \/ TaskDownWrite(r)
    \/ TaskFinishWrite(r)
    \/ CancelApplyWrite(r)

Next ==
  \/ OrderStep
  \/ SweepStep
  \/ ReadStep
  \/ WriteStep
  \/ \E m \in Merchants : CancelApplyRejected(m)

Spec == Init /\ [][Next]_vars

\* The job runs every minute, a run in progress goes on or fails, and every
\* transaction that is retried for ever and may commit does so in the end;
\* nothing is assumed of users, sellers or providers.
Fairness ==
  \A s \in Sweepers :
    /\ WF_vars(SweepBegin(s))
    /\ WF_vars(SweepSelect(s))
    /\ WF_vars(SweepAbort(s))
    /\ WF_vars(SweepEnd(s))
    /\ \A o \in Orders : SF_vars(SweepCancel(s, o)) /\ WF_vars(SweepSkip(s, o))

FairSpec == Spec /\ Fairness

-----------------------------------------------------------------------------
(* Properties *)

\* The units of a listing that the active orders of a table hold.
HeldUnits(t, ord) ==
  {u \in Orders \X (1..MaxCount) :
     ord[u[1]].task = t /\ Active(ord[u[1]]) /\ u[2] <= ord[u[1]].counts}

Held(t) == Cardinality(HeldUnits(t, order))

\* What is left of a listing never exceeds what it was created with, whatever
\* the order of purchases, cancellations and edits (recalculation clamps it).
CountWithinTotal == \A t \in Tasks : task[t].count <= task[t].total

\* What the columns of one order row say about each other, and about the
\* listing and the requests that refer to it. Only paid-yet-cancelled, the
\* trace of a late confirmation, is left possible.
RowsAgree ==
  /\ \A o \in Orders :
       /\ order[o].status = "none" => ~order[o].isCancel /\ order[o].appealId = "none"
       /\ order[o].status = "pendingPay" => ~order[o].isCancel /\ ~order[o].hasPayTime
       /\ order[o].status = "paid" => order[o].hasPayTime
       /\ order[o].status = "cancelled" => order[o].isCancel
       /\ order[o].status # "none" => task[order[o].task].total > 0
  /\ \A r \in Reqs : req[r].op = "confirmPay" => order[req[r].order].status # "none"

\* Every unit of a listing is on offer or held by an active order: no
\* interleaving of purchase, cancellation, expiry and edit loses stock.
NoStockLost == \A t \in Tasks : task[t].total <= task[t].count + Held(t)

\* Only a seller's edit can make a listing promise more than its total: no
\* order step restores stock twice or takes stock it did not deduct.
StockMintedOnlyByEdit ==
  [][\A t \in Tasks :
       \/ task'[t].count + Held(t)' + task[t].total
            <= task[t].count + Held(t) + task'[t].total
       \/ \E r \in Reqs : req[r].op = "update" /\ req[r].task = t /\ req'[r] = Idle]_vars

\* The expiry job closes only orders nobody has paid, although it selects the
\* ids long before it handles them.
ExpireNeverClosesPaid ==
  [][\A o \in Orders :
       order'[o].cancelId = "expire" /\ order[o].cancelId # "expire"
         => ~order[o].hasPayTime /\ order[o].overdue]_vars

\* A dispute has one opener, and an order is only disputed after payment.
AppealRecordedOnce ==
  [][\A o \in Orders :
       order'[o].appealId # order[o].appealId
         => order[o].appealId = "none" /\ order[o].hasPayTime]_vars

\* An order left unpaid past its half hour is paid or closed eventually, even
\* when runs of the job overlap, are cut short, meet a full batch or began
\* before the order was due.
OverdueIsSettled ==
  \A o \in Orders : (o \in Overdue) ~> (o \notin Overdue)

-----------------------------------------------------------------------------
(* Refinement of the abstract order book *)

\* is_cancel decides whether an order is closed, whatever its status column says.
PhaseOf(row) ==
  IF row.isCancel THEN "closed"
  ELSE IF row.status = "pendingPay" THEN "open" ELSE row.status

Book == INSTANCE OrderBook WITH
  Listings <- Tasks,
  lot      <- [t \in Tasks |-> task[t].total],
  free     <- [t \in Tasks |-> task[t].count],
  phase    <- [o \in Orders |-> PhaseOf(order[o])],
  placedOn <- [o \in Orders |-> order[o].task],
  size     <- [o \in Orders |-> order[o].counts]

\* Read through is_cancel, the handlers and the job, with all their races,
\* move orders and stock only as the abstract order book allows.
ImplementsOrderBook == Book!Spec

-----------------------------------------------------------------------------
(* What a message of the code says and the code does not keep *)

\* "订单已取消": a cancelled order cannot be confirmed as paid.
CancelledIsNotPaid ==
  \A o \in Orders : ~(order[o].isCancel /\ order[o].status = "paid")
=============================================================================
