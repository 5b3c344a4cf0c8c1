------------------------- MODULE MerchantTradeProofs -------------------------
(***************************************************************************)
(* Proofs about MerchantTrade for every set of merchants, listings,        *)
(* orders, requests and sweepers, and every bound.                         *)
(***************************************************************************)
EXTENDS MerchantTrade, FiniteSetTheorems, TLAPS

\* The inductive invariant: the types, and the facts that keep a purchase, a
\* cancellation and a late write of a request inside them.
IInv == TypeOK /\ CountWithinTotal /\ RowsAgree

-----------------------------------------------------------------------------
(* The rows the transactions compute *)

\* Recomputing a listing's status changes neither its quantities nor its deletion.
LEMMA RecalcStatusRow ==
  ASSUME NEW t \in Tasks, NEW row \in TaskRow, NEW ord
  PROVE  /\ RecalcStatus(t, row, ord) \in TaskRow
         /\ RecalcStatus(t, row, ord).count = row.count
         /\ RecalcStatus(t, row, ord).total = row.total
  BY DEF RecalcStatus, TaskRow, TaskStatus

\* A purchase within what is on offer leaves a listing row.
LEMMA DeductRow ==
  ASSUME TradeAssumption, TypeOK, NEW t \in Tasks, NEW n \in 1..MaxCount, n <= task[t].count
  PROVE  /\ Deduct(t, n) \in TaskRow
         /\ Deduct(t, n).count = task[t].count - n
         /\ Deduct(t, n).total = task[t].total
  <1> DEFINE row == [task[t] EXCEPT !.count = @ - n]
  <1>1. row \in TaskRow /\ row.count = task[t].count - n /\ row.total = task[t].total
    BY DEF TypeOK, TaskRow, TradeAssumption
  <1>2. Deduct(t, n) = RecalcStatus(t, row, order)
    BY DEF Deduct
  <1> HIDE DEF row
  <1>3. QED
    BY <1>1, <1>2, RecalcStatusRow

\* A cancellation gives back the quantity, up to the listing's total.
LEMMA RestoreRow ==
  ASSUME TradeAssumption, TypeOK, CountWithinTotal,
         NEW t \in Tasks, NEW n \in 0..MaxCount, NEW ord, task[t].total > 0
  PROVE  /\ RestoreOnCancel(t, n, ord) \in TaskRow
         /\ RestoreOnCancel(t, n, ord).count =
              IF task[t].count + n <= task[t].total THEN task[t].count + n
                                                     ELSE task[t].total
         /\ RestoreOnCancel(t, n, ord).total = task[t].total
  <1> DEFINE row == [task[t] EXCEPT !.count = Restored(task[t], n)]
  <1>0. /\ task[t] \in TaskRow
        /\ task[t].count \in 0..MaxCount
        /\ task[t].total \in 0..MaxCount
        /\ task[t].count <= task[t].total
        /\ MaxCount \in Nat
    BY DEF TypeOK, TaskRow, TradeAssumption, CountWithinTotal
  <1>1. Restored(task[t], n) =
          IF task[t].count + n <= task[t].total THEN task[t].count + n ELSE task[t].total
    BY <1>0 DEF Restored
  <1>2. row \in TaskRow /\ row.count = Restored(task[t], n) /\ row.total = task[t].total
    BY <1>0, <1>1 DEF TaskRow
  <1>3. CASE n = 0
    BY <1>0, <1>3 DEF RestoreOnCancel
  <1>4. CASE n # 0
    <2>1. RestoreOnCancel(t, n, ord) = RecalcStatus(t, row, ord)
      BY <1>4 DEF RestoreOnCancel
    <2> HIDE DEF row
    <2>2. QED
      BY <1>1, <1>2, <2>1, RecalcStatusRow
  <1>5. QED
    BY <1>3, <1>4

\* The row an unused order id stands for.
LEMMA NoOrderRow ==
  ASSUME TradeAssumption
  PROVE  /\ NoOrder \in OrderRow
         /\ NoOrder.status = "none" /\ ~NoOrder.isCancel /\ ~NoOrder.hasPayTime
         /\ NoOrder.appealId = "none" /\ NoOrder.cancelId = "none"
  <1>1. (CHOOSE t \in Tasks : TRUE) \in Tasks
    BY DEF TradeAssumption
  <1>2. QED
    BY <1>1 DEF NoOrder, OrderRow, OrderStatus, TradeAssumption

\* What a request has remembered, by the kind of the request.
LEMMA PendingFields ==
  ASSUME TypeOK, NEW r \in Reqs
  PROVE  /\ req[r].op = "confirmPay" => req[r].order \in Orders
         /\ req[r].op \in {"update", "upFound"}
              => req[r].task \in Tasks /\ req[r].count \in 1..MaxCount
         /\ req[r].op \in {"upChecked", "down", "finish"} => req[r].task \in Tasks
         /\ req[r].op \in {"licensed", "cancelUnlisted", "cancelIdle"} => req[r].merchant \in Merchants
  BY DEF TypeOK, Pending, Idle

-----------------------------------------------------------------------------
(* The invariant *)

\* The empty tables satisfy the invariant.
LEMMA InitIInv == TradeAssumption /\ Init => IInv
  <1> SUFFICES ASSUME TradeAssumption, Init PROVE IInv
    OBVIOUS
  <1>1. /\ NoOrder \in OrderRow
        /\ NoOrder.status = "none" /\ ~NoOrder.isCancel /\ NoOrder.appealId = "none"
    BY NoOrderRow
  <1>2. NoTask \in TaskRow
    BY DEF NoTask, TaskRow, TaskStatus, TradeAssumption
  <1>3. TypeOK
    BY <1>1, <1>2 DEF Init, TypeOK, Pending, Idle, SweepRow, NoSweep
  <1>4. CountWithinTotal
    BY <1>2 DEF Init, CountWithinTotal, NoTask
  <1>5. RowsAgree
    BY <1>1 DEF Init, RowsAgree, Idle
  <1>6. QED
    BY <1>3, <1>4, <1>5 DEF IInv

\* A purchase keeps the invariant.
LEMMA CreateKeepsIInv ==
  ASSUME TradeAssumption, IInv, NEW o \in Orders, NEW t \in Tasks, NEW n \in 1..MaxCount,
         CreateFromTask(o, t, n)
  PROVE  IInv'
  <1> DEFINE row == [NoOrder EXCEPT !.status = "pendingPay", !.task = t, !.counts = n]
  <1>0. TypeOK /\ CountWithinTotal /\ RowsAgree /\ MaxCount \in Nat
    BY DEF IInv, TradeAssumption
  <1>1. /\ row \in OrderRow
        /\ row.status = "pendingPay" /\ row.task = t
        /\ ~row.isCancel /\ ~row.hasPayTime
    <2>1. n \in 0..MaxCount
      BY <1>0
    <2>2. QED
      BY <2>1, NoOrderRow DEF OrderRow, OrderStatus
  <1>2. n <= task[t].count /\ task[t].count > 0
    BY DEF CreateFromTask, Listed
  <1>3. /\ Deduct(t, n) \in TaskRow
        /\ Deduct(t, n).count = task[t].count - n
        /\ Deduct(t, n).total = task[t].total
    BY <1>0, <1>2, DeductRow
  <1>4. task[t] \in TaskRow /\ task[t].count <= task[t].total
    BY <1>0 DEF TypeOK, CountWithinTotal
  <1>5. /\ task' = [task EXCEPT ![t] = Deduct(t, n)]
        /\ order' = [order EXCEPT ![o] = row]
        /\ UNCHANGED <<merchant, req, sweep>>
    BY DEF CreateFromTask
  <1> HIDE DEF row
  <1>6. TypeOK'
    BY <1>0, <1>1, <1>3, <1>5 DEF TypeOK
  <1>7. CountWithinTotal'
    BY <1>0, <1>3, <1>4, <1>5 DEF TypeOK, CountWithinTotal, TaskRow
  <1>8. \A u \in Tasks : task'[u].total = task[u].total
    BY <1>0, <1>3, <1>5 DEF TypeOK
  <1>9. task[t].total > 0
    BY <1>2, <1>4 DEF TaskRow
  <1>10. \A p \in Orders : p # o => order'[p] = order[p]
    BY <1>0, <1>5 DEF TypeOK
  <1>11. order'[o] = row
    BY <1>0, <1>5 DEF TypeOK
  <1>12. order[o].status = "none"
    BY DEF CreateFromTask
  <1>13. RowsAgree'
    BY <1>0, <1>1, <1>5, <1>8, <1>9, <1>10, <1>11, <1>12 DEF TypeOK, RowsAgree, OrderRow
  <1>14. QED
    BY <1>6, <1>7, <1>13 DEF IInv

\* What closing an order does to its row and to its listing.
LEMMA CancelEffect ==
  ASSUME TradeAssumption, IInv, NEW o \in Orders, NEW by \in {"buyer", "expire"},
         NEW allowed \in SUBSET {"pendingPay", "paid"}, CancelOrderInTx(o, by, allowed)
  PROVE  /\ order[o].status \in {"pendingPay", "paid"} /\ ~order[o].isCancel
         /\ order[o].task \in Tasks
         /\ task' \in [Tasks -> TaskRow]
         /\ \A u \in Tasks \ {order[o].task} : task'[u] = task[u]
         /\ task'[order[o].task].count =
              IF task[order[o].task].count + order[o].counts <= task[order[o].task].total
              THEN task[order[o].task].count + order[o].counts
              ELSE task[order[o].task].total
         /\ task'[order[o].task].total = task[order[o].task].total
  <1> DEFINE t == order[o].task
  <1>1. /\ TypeOK /\ CountWithinTotal
        /\ order[o].status \in {"pendingPay", "paid"} /\ ~order[o].isCancel
    BY DEF IInv, CancelOrderInTx
  <1>2. t \in Tasks /\ order[o].counts \in 0..MaxCount /\ task[t].total > 0
    BY <1>1 DEF TypeOK, OrderRow, IInv, RowsAgree
  <1> DEFINE r == RestoreOnCancel(t, order[o].counts, order')
  <1>3. /\ r \in TaskRow
        /\ r.count = IF task[t].count + order[o].counts <= task[t].total
                      THEN task[t].count + order[o].counts ELSE task[t].total
        /\ r.total = task[t].total
    BY <1>1, <1>2, RestoreRow
  <1>4. task' = [task EXCEPT ![t] = r]
    BY DEF CancelOrderInTx
  <1> HIDE DEF r
  <1>5. QED
    BY <1>1, <1>2, <1>3, <1>4 DEF TypeOK

\* Closing an order keeps the invariant.
LEMMA CancelKeepsIInv ==
  ASSUME TradeAssumption, IInv, NEW o \in Orders, NEW by \in {"buyer", "expire"},
         NEW allowed \in SUBSET {"pendingPay", "paid"}, CancelOrderInTx(o, by, allowed),
         sweep' \in [Sweepers -> SweepRow],
         UNCHANGED <<merchant, req>>
  PROVE  IInv'
  <1>0. TypeOK /\ CountWithinTotal /\ RowsAgree /\ MaxCount \in Nat
    BY DEF IInv, TradeAssumption
  <1> DEFINE t == order[o].task
  <1>1. /\ t \in Tasks
        /\ task' \in [Tasks -> TaskRow]
        /\ \A u \in Tasks \ {t} : task'[u] = task[u]
        /\ task'[t].count <= task'[t].total
        /\ task'[t].total = task[t].total
        /\ order[o].status \in {"pendingPay", "paid"}
    <2>1. order[o] \in OrderRow /\ t \in Tasks
      BY <1>0 DEF TypeOK, OrderRow
    <2>2. task[t] \in TaskRow
      BY <1>0, <2>1 DEF TypeOK
    <2>3. task[t].count + order[o].counts \in Nat /\ task[t].total \in Nat
      BY <1>0, <2>1, <2>2 DEF TaskRow, OrderRow
    <2> DEFINE back == IF task[t].count + order[o].counts <= task[t].total
                       THEN task[t].count + order[o].counts ELSE task[t].total
    <2>4. back <= task[t].total
      BY <2>3
    <2>5. task'[t].count = back /\ task'[t].total = task[t].total
      BY CancelEffect
    <2> HIDE DEF back
    <2>6. task'[t].count <= task'[t].total
      BY <2>4, <2>5
    <2>7. QED
      BY <2>6, CancelEffect
  <1> DEFINE row == [order[o] EXCEPT !.status = "cancelled", !.isCancel = TRUE, !.cancelId = by]
  <1>2. order' = [order EXCEPT ![o] = row]
    BY DEF CancelOrderInTx
  <1>3. row \in OrderRow /\ row.status = "cancelled" /\ row.isCancel /\ row.task = t
    <2>1. order[o] \in OrderRow
      BY <1>0 DEF TypeOK
    <2>2. QED
      BY <2>1 DEF OrderRow, OrderStatus
  <1> HIDE DEF row
  <1>4. TypeOK'
    BY <1>0, <1>1, <1>2, <1>3 DEF TypeOK
  <1>5. CountWithinTotal'
    BY <1>0, <1>1 DEF CountWithinTotal
  <1>6. \A p \in Orders : task'[order'[p].task].total = task[order[p].task].total
    BY <1>0, <1>1, <1>2, <1>3 DEF TypeOK, OrderRow
  <1>7. order'[o] = row /\ \A p \in Orders \ {o} : order'[p] = order[p]
    BY <1>0, <1>2 DEF TypeOK
  <1>8. RowsAgree'
    BY <1>0, <1>1, <1>3, <1>6, <1>7, PendingFields, SMTT(30) DEF RowsAgree
  <1>9. QED
    BY <1>4, <1>5, <1>8 DEF IInv

\* A write to one order row that leaves its listing alone keeps the invariant
\* when the row it leaves agrees with itself.
LEMMA OrderWriteKeepsIInv ==
  ASSUME IInv, NEW o \in Orders, NEW row \in OrderRow,
         order[o].status # "none", row.task = order[o].task, row.status # "none",
         row.status = "pendingPay" => ~row.isCancel /\ ~row.hasPayTime,
         row.status = "paid" => row.hasPayTime,
         row.status = "cancelled" => row.isCancel,
         order' = [order EXCEPT ![o] = row],
         \A r \in Reqs : req'[r] = req[r] \/ req'[r] = Idle,
         req' \in [Reqs -> Pending],
         UNCHANGED <<task, merchant, sweep>>
  PROVE  IInv'
  <1>0. TypeOK /\ CountWithinTotal /\ RowsAgree
    BY DEF IInv
  <1>1. order'[o] = row /\ \A p \in Orders \ {o} : order'[p] = order[p]
    BY <1>0 DEF TypeOK
  <1>2. TypeOK'
    BY <1>0 DEF TypeOK
  <1>3. CountWithinTotal'
    BY <1>0 DEF CountWithinTotal
  <1>4. \A p \in Orders : order'[p].status # "none" => task'[order'[p].task].total > 0
    BY <1>0, <1>1 DEF RowsAgree
  <1>5. \A r \in Reqs : req'[r].op = "confirmPay" => order'[req'[r].order].status # "none"
    BY <1>0, <1>1, PendingFields DEF RowsAgree, Idle
  <1>6. RowsAgree'
    BY <1>0, <1>1, <1>4, <1>5 DEF RowsAgree
  <1>7. QED
    BY <1>2, <1>3, <1>6 DEF IInv

\* A write to one listing row keeps the invariant when what is left stays
\* within the total and a listing that was offered stays offered.
LEMMA TaskWriteKeepsIInv ==
  ASSUME TradeAssumption, IInv, NEW t \in Tasks, NEW row \in TaskRow,
         row.count <= row.total, task[t].total > 0 => row.total > 0,
         task' = [task EXCEPT ![t] = row],
         \A r \in Reqs : req'[r] = req[r] \/ req'[r] = Idle,
         req' \in [Reqs -> Pending],
         UNCHANGED <<order, merchant, sweep>>
  PROVE  IInv'
  <1>0. TypeOK /\ CountWithinTotal /\ RowsAgree
    BY DEF IInv
  <1>1. task'[t] = row /\ \A u \in Tasks \ {t} : task'[u] = task[u]
    BY <1>0 DEF TypeOK
  <1>2. TypeOK'
    BY <1>0 DEF TypeOK
  <1>3. CountWithinTotal'
    BY <1>0, <1>1 DEF CountWithinTotal
  <1>4. \A p \in Orders : order[p].task \in Tasks
    BY <1>0 DEF TypeOK, OrderRow
  <1>5. \A p \in Orders : order'[p].status # "none" => task'[order'[p].task].total > 0
    BY <1>0, <1>1, <1>4 DEF RowsAgree
  <1>6. \A r \in Reqs : req'[r].op = "confirmPay" => order'[req'[r].order].status # "none"
    BY <1>0 DEF RowsAgree, Idle
  <1>7. RowsAgree'
    BY <1>0, <1>5, <1>6 DEF RowsAgree
  <1>8. QED
    BY <1>2, <1>3, <1>7 DEF IInv

\* What a request remembers, or drops, keeps the invariant when a remembered
\* order exists.
LEMMA RequestKeepsIInv ==
  ASSUME IInv, NEW r \in Reqs, NEW p \in Pending,
         p.op = "confirmPay" => order[p.order].status # "none",
         req' = [req EXCEPT ![r] = p],
         merchant' \in [Merchants -> {"approved", "applyCancel"}],
         UNCHANGED <<task, order, sweep>>
  PROVE  IInv'
  <1>0. TypeOK /\ CountWithinTotal /\ RowsAgree
    BY DEF IInv
  <1>1. TypeOK'
    BY <1>0 DEF TypeOK
  <1>2. CountWithinTotal'
    BY <1>0 DEF CountWithinTotal
  <1>3. req'[r] = p /\ \A q \in Reqs \ {r} : req'[q] = req[q]
    BY <1>0 DEF TypeOK
  <1>4. RowsAgree'
    BY <1>0, <1>3 DEF RowsAgree
  <1>5. QED
    BY <1>1, <1>2, <1>4 DEF IInv

-----------------------------------------------------------------------------
(* One lemma per group of actions *)

\* The order transactions keep the invariant.
LEMMA OrderStepKeepsIInv == TradeAssumption /\ IInv /\ OrderStep => IInv'
  <1> SUFFICES ASSUME TradeAssumption, IInv, NEW o \in Orders,
                      \/ \E t \in Tasks, n \in 1..MaxCount : CreateFromTask(o, t, n)
                      \/ CancelOrderTx(o)
                      \/ \E side \in Sides : AppealOrderTx(o, side)
                      \/ ApplyNotifyAndMarkOrderPaid(o)
                      \/ BecomesOverdue(o)
               PROVE  IInv'
    BY DEF OrderStep
  <1>0. TypeOK /\ order[o] \in OrderRow /\ req \in [Reqs -> Pending]
    BY DEF IInv, TypeOK
  <1>a. order[o].status = "pendingPay" => ~order[o].isCancel /\ ~order[o].hasPayTime
    BY DEF IInv, RowsAgree
  <1>b. order[o].status = "paid" => order[o].hasPayTime
    BY DEF IInv, RowsAgree
  <1>1. CASE \E t \in Tasks, n \in 1..MaxCount : CreateFromTask(o, t, n)
    BY <1>1, CreateKeepsIInv
  <1>2. CASE CancelOrderTx(o)
    BY <1>0, <1>2, CancelKeepsIInv DEF CancelOrderTx, TypeOK
  <1>3. ASSUME NEW side \in Sides, AppealOrderTx(o, side)
        PROVE  IInv'
    <2> DEFINE row == [order[o] EXCEPT !.appealId = side]
    <2>1. /\ row \in OrderRow
          /\ row.status = order[o].status /\ row.task = order[o].task
          /\ row.hasPayTime = order[o].hasPayTime
      BY <1>0 DEF OrderRow
    <2>2. order' = [order EXCEPT ![o] = row]
      BY <1>3 DEF AppealOrderTx
    <2> HIDE DEF row
    <2>3. QED
      BY <1>0, <1>b, <1>3, <2>1, <2>2, OrderWriteKeepsIInv DEF AppealOrderTx
  <1>4. CASE ApplyNotifyAndMarkOrderPaid(o)
    <2> DEFINE row == [order[o] EXCEPT !.status = "paid", !.hasPayTime = TRUE]
    <2>1. /\ row \in OrderRow
          /\ row.status = "paid" /\ row.task = order[o].task /\ row.hasPayTime
      BY <1>0 DEF OrderRow, OrderStatus
    <2>2. order' = [order EXCEPT ![o] = row]
      BY <1>4 DEF ApplyNotifyAndMarkOrderPaid
    <2> HIDE DEF row
    <2>3. QED
      BY <1>0, <1>4, <2>1, <2>2, OrderWriteKeepsIInv DEF ApplyNotifyAndMarkOrderPaid
  <1>5. CASE BecomesOverdue(o)
    <2> DEFINE row == [order[o] EXCEPT !.overdue = TRUE]
    <2>1. /\ row \in OrderRow
          /\ row.status = order[o].status /\ row.task = order[o].task
          /\ row.hasPayTime = order[o].hasPayTime /\ row.isCancel = order[o].isCancel
      BY <1>0 DEF OrderRow
    <2>2. order' = [order EXCEPT ![o] = row]
      BY <1>5 DEF BecomesOverdue
    <2> HIDE DEF row
    <2>3. QED
      BY <1>0, <1>a, <1>5, <2>1, <2>2, OrderWriteKeepsIInv DEF BecomesOverdue
  <1>6. QED
    BY <1>1, <1>2, <1>3, <1>4, <1>5

\* The expiry job keeps the invariant.
LEMMA SweepStepKeepsIInv == TradeAssumption /\ IInv /\ SweepStep => IInv'
  <1> SUFFICES ASSUME TradeAssumption, IInv, NEW s \in Sweepers,
                      \/ SweepBegin(s)
                      \/ SweepSelect(s)
                      \/ \E o \in Orders : SweepCancel(s, o) \/ SweepSkip(s, o)
                      \/ SweepAbort(s)
                      \/ SweepEnd(s)
               PROVE  IInv'
    BY DEF SweepStep
  <1> DEFINE Sweeps == [Sweepers -> SweepRow]
  <1>0. sweep \in Sweeps
    BY DEF IInv, TypeOK
  <1>1. ASSUME sweep' \in Sweeps, UNCHANGED <<task, order, merchant, req>>
        PROVE  IInv'
    BY <1>1 DEF IInv, TypeOK, CountWithinTotal, RowsAgree
  <1>2. CASE SweepBegin(s)
    <2>1. Overdue \subseteq Orders
      BY DEF Overdue
    <2>2. sweep' \in Sweeps
      BY <1>0, <1>2, <2>1 DEF SweepBegin, SweepRow
    <2>3. QED
      BY <1>1, <1>2, <2>2 DEF SweepBegin
  <1>3. CASE SweepSelect(s)
    <2>1. PICK ids \in SUBSET Expired(s) :
            sweep' = [sweep EXCEPT ![s] =
                        [@ EXCEPT !.todo = ids, !.full = Cardinality(ids) = BatchSize]]
      BY <1>3 DEF SweepSelect
    <2> DEFINE row == [sweep[s] EXCEPT !.todo = ids, !.full = Cardinality(ids) = BatchSize]
    <2>2. ids \subseteq Orders
      BY DEF Expired, Overdue
    <2>3. row \in SweepRow
      BY <1>0, <2>2 DEF SweepRow
    <2>4. sweep' = [sweep EXCEPT ![s] = row]
      BY <2>1
    <2> HIDE DEF row
    <2>5. sweep' \in Sweeps
      BY <1>0, <2>3, <2>4
    <2>6. QED
      BY <1>1, <1>3, <2>5 DEF SweepSelect
  <1>4. ASSUME NEW o \in Orders, SweepCancel(s, o)
        PROVE  IInv'
    <2>1. sweep' \in Sweeps
      BY <1>0, <1>4 DEF SweepCancel, SweepRow
    <2>2. QED
      BY <1>4, <2>1, CancelKeepsIInv DEF SweepCancel
  <1>5. ASSUME NEW o \in Orders, SweepSkip(s, o)
        PROVE  IInv'
    <2>1. sweep' \in Sweeps
      BY <1>0, <1>5 DEF SweepSkip, SweepRow
    <2>2. QED
      BY <1>1, <1>5, <2>1 DEF SweepSkip
  <1>6. CASE SweepAbort(s)
    <2>1. sweep' \in Sweeps
      BY <1>0, <1>6 DEF SweepAbort, NoSweep, SweepRow
    <2>2. QED
      BY <1>1, <1>6, <2>1 DEF SweepAbort
  <1>7. CASE SweepEnd(s)
    <2>1. sweep' \in Sweeps
      BY <1>0, <1>7 DEF SweepEnd, NoSweep, SweepRow
    <2>2. QED
      BY <1>1, <1>7, <2>1 DEF SweepEnd
  <1>8. QED
    BY <1>2, <1>3, <1>4, <1>5, <1>6, <1>7

\* What the read half of a handler remembers keeps the invariant.
LEMMA ReadStepKeepsIInv == IInv /\ ReadStep => IInv'
  <1> SUFFICES ASSUME IInv, NEW r \in Reqs,
                      \/ \E o \in Orders : ConfirmPayRead(r, o)
                      \/ \E m \in Merchants : RequireEffectiveMerchant(r, m)
                      \/ TaskRefused(r)
                      \/ \E t \in Tasks :
                           \/ \E n \in 1..MaxCount : TaskUpdateRead(r, t, n)
                           \/ TaskUpRead(r, t)
                           \/ TaskDownRead(r, t)
                           \/ TaskFinishRead(r, t)
                      \/ AssertListedWithinSurety(r)
                      \/ \E m \in Merchants : CancelApplyUnlisted(r, m)
                      \/ CancelApplyIdle(r)
               PROVE  IInv'
    BY DEF ReadStep
  <1>0. TypeOK /\ merchant \in [Merchants -> {"approved", "applyCancel"}]
    BY DEF IInv, TypeOK
  <1>1. ASSUME NEW p \in Pending, Begin(r, p), p.op # "confirmPay"
        PROVE  IInv'
    BY <1>0, <1>1, RequestKeepsIInv DEF Begin
  <1>2. ASSUME NEW o \in Orders, ConfirmPayRead(r, o)
        PROVE  IInv'
    <2> DEFINE p == [op |-> "confirmPay", order |-> o]
    <2>1. p \in Pending /\ p.order = o
      BY DEF Pending
    <2>2. order[o].status # "none" /\ req' = [req EXCEPT ![r] = p]
      BY <1>2 DEF ConfirmPayRead
    <2>3. UNCHANGED <<task, order, merchant, sweep>>
      BY <1>2 DEF ConfirmPayRead
    <2> HIDE DEF p
    <2>4. QED
      BY <1>0, <2>1, <2>2, <2>3, RequestKeepsIInv
  <1>3. ASSUME NEW t \in Tasks, NEW n \in 1..MaxCount, TaskUpdateRead(r, t, n)
        PROVE  IInv'
    <2>1. [op |-> "update", task |-> t, count |-> n] \in Pending
      BY DEF Pending
    <2>2. QED
      BY <1>1, <1>3, <2>1 DEF TaskUpdateRead
  <1>4. ASSUME NEW t \in Tasks, TaskUpRead(r, t)
        PROVE  IInv'
    <2>1. task[t].count \in 0..MaxCount
      BY <1>0 DEF TypeOK, TaskRow
    <2>2. task[t].count \in 1..MaxCount
      BY <1>4, <2>1 DEF TaskUpRead
    <2>3. [op |-> "upFound", task |-> t, count |-> task[t].count] \in Pending
      BY <2>2 DEF Pending
    <2>4. QED
      BY <1>1, <1>4, <2>3 DEF TaskUpRead
  <1>5. ASSUME NEW t \in Tasks, TaskDownRead(r, t)
        PROVE  IInv'
    <2>1. [op |-> "down", task |-> t] \in Pending
      BY DEF Pending
    <2>2. QED
      BY <1>1, <1>5, <2>1 DEF TaskDownRead
  <1>6. ASSUME NEW t \in Tasks, TaskFinishRead(r, t)
        PROVE  IInv'
    <2>1. [op |-> "finish", task |-> t] \in Pending
      BY DEF Pending
    <2>2. QED
      BY <1>1, <1>6, <2>1 DEF TaskFinishRead
  <1>7. CASE AssertListedWithinSurety(r)
    <2>1. req[r].task \in Tasks
      BY <1>0, <1>7, PendingFields DEF AssertListedWithinSurety
    <2>2. [op |-> "upChecked", task |-> req[r].task] \in Pending /\ Idle \in Pending
      BY <2>1 DEF Pending
    <2>3. \/ Begin(r, [op |-> "upChecked", task |-> req[r].task])
          \/ Begin(r, Idle)
      BY <1>7 DEF AssertListedWithinSurety
    <2>4. QED
      BY <1>1, <2>2, <2>3 DEF Idle
  <1>8. ASSUME NEW m \in Merchants, CancelApplyUnlisted(r, m)
        PROVE  IInv'
    <2>1. [op |-> "cancelUnlisted", merchant |-> m] \in Pending
      BY DEF Pending
    <2>2. QED
      BY <1>1, <1>8, <2>1 DEF CancelApplyUnlisted
  <1>9. CASE CancelApplyIdle(r)
    <2>1. req[r].merchant \in Merchants
      BY <1>0, <1>9, PendingFields DEF CancelApplyIdle
    <2>2. [op |-> "cancelIdle", merchant |-> req[r].merchant] \in Pending /\ Idle \in Pending
      BY <2>1 DEF Pending
    <2>3. \/ Begin(r, [op |-> "cancelIdle", merchant |-> req[r].merchant])
          \/ Begin(r, Idle)
      BY <1>9 DEF CancelApplyIdle
    <2>4. QED
      BY <1>1, <2>2, <2>3 DEF Idle
  <1>10. ASSUME NEW m \in Merchants, RequireEffectiveMerchant(r, m)
         PROVE  IInv'
    <2>1. [op |-> "licensed", merchant |-> m] \in Pending
      BY DEF Pending
    <2>2. QED
      BY <1>1, <1>10, <2>1 DEF RequireEffectiveMerchant
  <1>11. CASE TaskRefused(r)
    <2>1. Idle \in Pending /\ Idle.op # "confirmPay"
      BY DEF Pending, Idle
    <2>2. QED
      BY <1>1, <1>11, <2>1 DEF TaskRefused
  <1>12. QED
    BY <1>2, <1>3, <1>4, <1>5, <1>6, <1>7, <1>8, <1>9, <1>10, <1>11

\* The late, unconditional writes keep the invariant: a confirmation leaves a
\* row that is paid and has its pay time, an edit sets both quantities at once.
LEMMA WriteStepKeepsIInv == TradeAssumption /\ IInv /\ WriteStep => IInv'
  <1> SUFFICES ASSUME TradeAssumption, IInv, NEW r \in Reqs,
                      \/ ConfirmPayWrite(r)
                      \/ \E t \in Tasks, n \in 1..MaxCount : TaskCreate(r, t, n)
                      \/ TaskUpdateWrite(r)
                      \/ TaskUpWrite(r)
                      \/ TaskDownWrite(r)
                      \/ TaskFinishWrite(r)
                      \/ CancelApplyWrite(r)
               PROVE  IInv'
    BY DEF WriteStep
  <1>0. /\ TypeOK /\ CountWithinTotal /\ RowsAgree
        /\ req \in [Reqs -> Pending] /\ Idle \in Pending
    BY DEF IInv, TypeOK, Pending
  <1> DEFINE t == req[r].task
  <1>1. CASE ConfirmPayWrite(r)
    <2> DEFINE o == req[r].order
    <2>1. o \in Orders /\ order[o].status # "none"
      BY <1>0, <1>1, PendingFields DEF RowsAgree, ConfirmPayWrite
    <2>2. order[o] \in OrderRow
      BY <1>0, <2>1 DEF TypeOK
    <2> DEFINE row == [order[o] EXCEPT !.status = "paid", !.hasPayTime = TRUE]
    <2>3. row \in OrderRow /\ row.status = "paid" /\ row.task = order[o].task /\ row.hasPayTime
      BY <2>2 DEF OrderRow, OrderStatus
    <2>4. order' = [order EXCEPT ![o] = row]
      BY <1>1 DEF ConfirmPayWrite
    <2>5. /\ \A q \in Reqs : req'[q] = req[q] \/ req'[q] = Idle
          /\ req' \in [Reqs -> Pending]
          /\ UNCHANGED <<task, merchant, sweep>>
      BY <1>0, <1>1 DEF ConfirmPayWrite
    <2> HIDE DEF row, o
    <2>6. QED
      BY <2>1, <2>3, <2>4, <2>5, OrderWriteKeepsIInv
  <1>2. ASSUME t \in Tasks, NEW row \in TaskRow, row.count <= row.total,
               task[t].total > 0 => row.total > 0,
               task' = [task EXCEPT ![t] = row],
               req' = [req EXCEPT ![r] = Idle], UNCHANGED <<order, merchant, sweep>>
        PROVE  IInv'
    <2>1. /\ \A q \in Reqs : req'[q] = req[q] \/ req'[q] = Idle
          /\ req' \in [Reqs -> Pending]
      BY <1>0, <1>2
    <2> HIDE DEF t
    <2>2. QED
      BY <1>2, <2>1, TaskWriteKeepsIInv
  <1>3. CASE TaskUpdateWrite(r)
    <2> DEFINE row == [task[t] EXCEPT !.count = req[r].count, !.total = req[r].count]
    <2>1. t \in Tasks /\ req[r].count \in 1..MaxCount
      BY <1>0, <1>3, PendingFields DEF TaskUpdateWrite
    <2>2. req[r].count \in 0..MaxCount /\ req[r].count > 0 /\ req[r].count <= req[r].count
      BY <2>1 DEF TradeAssumption
    <2>3. task[t] \in TaskRow
      BY <1>0, <2>1 DEF TypeOK
    <2>4. row \in TaskRow /\ row.count = req[r].count /\ row.total = req[r].count
      BY <2>2, <2>3 DEF TaskRow
    <2>5. /\ task' = [task EXCEPT ![t] = row] /\ req' = [req EXCEPT ![r] = Idle]
          /\ UNCHANGED <<order, merchant, sweep>>
      BY <1>3 DEF TaskUpdateWrite
    <2> HIDE DEF row, t
    <2>6. row.count <= row.total /\ row.total > 0
      BY <2>2, <2>4
    <2>7. QED
      BY <1>2, <2>1, <2>4, <2>5, <2>6
  <1>4. ASSUME t \in Tasks, NEW row \in TaskRow,
               row.count = task[t].count, row.total = task[t].total,
               task' = [task EXCEPT ![t] = row],
               req' = [req EXCEPT ![r] = Idle], UNCHANGED <<order, merchant, sweep>>
        PROVE  IInv'
    <2>1. row.count <= row.total
      BY <1>0, <1>4 DEF CountWithinTotal
    <2>2. QED
      BY <1>2, <1>4, <2>1
  <1>5. CASE TaskUpWrite(r)
    <2> DEFINE row == [task[t] EXCEPT !.isUp = TRUE]
    <2>1. t \in Tasks /\ task[t] \in TaskRow
      BY <1>0, <1>5, PendingFields DEF TaskUpWrite, TypeOK
    <2>2. row \in TaskRow /\ row.count = task[t].count /\ row.total = task[t].total
      BY <2>1 DEF TaskRow
    <2>3. QED
      BY <1>4, <1>5, <2>1, <2>2 DEF TaskUpWrite
  <1>6. CASE TaskDownWrite(r)
    <2> DEFINE row == [task[t] EXCEPT !.isUp = FALSE]
    <2>1. t \in Tasks /\ task[t] \in TaskRow
      BY <1>0, <1>6, PendingFields DEF TaskDownWrite, TypeOK
    <2>2. row \in TaskRow /\ row.count = task[t].count /\ row.total = task[t].total
      BY <2>1 DEF TaskRow
    <2>3. QED
      BY <1>4, <1>6, <2>1, <2>2 DEF TaskDownWrite
  <1>7. CASE TaskFinishWrite(r)
    <2> DEFINE row == [task[t] EXCEPT !.isDeleted = TRUE, !.isUp = FALSE]
    <2>1. t \in Tasks /\ task[t] \in TaskRow
      BY <1>0, <1>7, PendingFields DEF TaskFinishWrite, TypeOK
    <2>2. row \in TaskRow /\ row.count = task[t].count /\ row.total = task[t].total
      BY <2>1 DEF TaskRow
    <2>3. QED
      BY <1>4, <1>7, <2>1, <2>2 DEF TaskFinishWrite
  <1>8. CASE CancelApplyWrite(r)
    <2>1. merchant' \in [Merchants -> {"approved", "applyCancel"}]
      BY <1>0, <1>8 DEF CancelApplyWrite, TypeOK
    <2>2. QED
      BY <1>0, <1>8, <2>1, RequestKeepsIInv DEF CancelApplyWrite, Idle
  <1>9. ASSUME NEW u \in Tasks, NEW n \in 1..MaxCount, TaskCreate(r, u, n)
        PROVE  IInv'
    <2> DEFINE row == [NoTask EXCEPT !.status = "pending", !.count = n, !.total = n]
    <2>1. n \in 0..MaxCount /\ n <= n /\ n > 0
      BY DEF TradeAssumption
    <2>2. row \in TaskRow /\ row.count = n /\ row.total = n
      BY <2>1 DEF NoTask, TaskRow, TaskStatus
    <2>3. /\ task' = [task EXCEPT ![u] = row]
          /\ req' = [req EXCEPT ![r] = Idle]
          /\ UNCHANGED <<order, merchant, sweep>>
      BY <1>9 DEF TaskCreate
    <2>4. req' \in [Reqs -> Pending] /\ \A q \in Reqs : req'[q] = req[q] \/ req'[q] = Idle
      BY <1>0, <2>3
    <2> HIDE DEF row
    <2>5. row.count <= row.total /\ row.total > 0
      BY <2>1, <2>2
    <2>6. QED
      BY <2>2, <2>3, <2>4, <2>5, TaskWriteKeepsIInv
  <1>10. QED
    BY <1>1, <1>3, <1>5, <1>6, <1>7, <1>8, <1>9

\* Every step keeps the invariant.
LEMMA NextKeepsIInv == TradeAssumption /\ IInv /\ [Next]_vars => IInv'
  <1> SUFFICES ASSUME TradeAssumption, IInv, [Next]_vars PROVE IInv'
    OBVIOUS
  <1>0. TypeOK /\ CountWithinTotal /\ RowsAgree
    BY DEF IInv
  <1>2. ASSUME NEW m \in Merchants, CancelApplyRejected(m)
        PROVE  IInv'
    BY <1>0, <1>2 DEF CancelApplyRejected, IInv, TypeOK, CountWithinTotal, RowsAgree
  <1>3. CASE UNCHANGED vars
    BY <1>0, <1>3 DEF vars, IInv, TypeOK, CountWithinTotal, RowsAgree
  <1>4. QED
    BY <1>2, <1>3, OrderStepKeepsIInv, SweepStepKeepsIInv, ReadStepKeepsIInv,
       WriteStepKeepsIInv DEF Next

-----------------------------------------------------------------------------
(* Theorems *)

\* The invariant holds in every reachable state.
THEOREM TradeInvariant == Spec => []IInv
  <1>1. Init => IInv
    BY InitIInv, TradeAssumption
  <1>2. IInv /\ [Next]_vars => IInv'
    BY NextKeepsIInv, TradeAssumption
  <1>3. QED
    BY <1>1, <1>2, PTL DEF Spec

\* Every variable keeps its type.
THEOREM TypeCorrect == Spec => []TypeOK
  <1>1. IInv => TypeOK
    BY DEF IInv
  <1>2. QED
    BY <1>1, TradeInvariant, PTL

\* No purchase, cancellation or edit leaves more on offer than the listing's total.
THEOREM StockStaysWithinTotal == Spec => []CountWithinTotal
  <1>1. IInv => CountWithinTotal
    BY DEF IInv
  <1>2. QED
    BY <1>1, TradeInvariant, PTL

\* The columns of an order agree with one another in every reachable state.
THEOREM OrderRowsAgree == Spec => []RowsAgree
  <1>1. IInv => RowsAgree
    BY DEF IInv
  <1>2. QED
    BY <1>1, TradeInvariant, PTL

-----------------------------------------------------------------------------
(* Steps that leave the orders, or the whole order book, alone *)

\* Reading, listing and licence steps do not touch an order.
LEMMA OrdersUntouched ==
  ASSUME \/ ReadStep
         \/ \E m \in Merchants : CancelApplyRejected(m)
         \/ \E r \in Reqs : \/ TaskUpdateWrite(r) \/ TaskUpWrite(r) \/ TaskDownWrite(r)
                             \/ TaskFinishWrite(r) \/ CancelApplyWrite(r)
                             \/ \E t \in Tasks, n \in 1..MaxCount : TaskCreate(r, t, n)
         \/ \E s \in Sweepers : \/ SweepBegin(s) \/ SweepSelect(s) \/ SweepAbort(s) \/ SweepEnd(s)
                                 \/ \E o \in Orders : SweepSkip(s, o)
         \/ UNCHANGED vars
  PROVE  UNCHANGED order
  <1>1. CASE ReadStep
    BY <1>1 DEF ReadStep, ConfirmPayRead, TaskUpdateRead, TaskUpRead, TaskDownRead,
       TaskFinishRead, AssertListedWithinSurety, CancelApplyUnlisted, CancelApplyIdle,
       RequireEffectiveMerchant, TaskRefused, Begin
  <1>2. CASE \E r \in Reqs : \/ TaskUpdateWrite(r) \/ TaskUpWrite(r) \/ TaskDownWrite(r)
                              \/ TaskFinishWrite(r) \/ CancelApplyWrite(r)
                              \/ \E t \in Tasks, n \in 1..MaxCount : TaskCreate(r, t, n)
    BY <1>2 DEF TaskCreate, TaskUpdateWrite, TaskUpWrite, TaskDownWrite, TaskFinishWrite, CancelApplyWrite
  <1>3. CASE \E s \in Sweepers : \/ SweepBegin(s) \/ SweepSelect(s) \/ SweepAbort(s) \/ SweepEnd(s)
                                  \/ \E o \in Orders : SweepSkip(s, o)
    BY <1>3 DEF SweepBegin, SweepSelect, SweepAbort, SweepEnd, SweepSkip
  <1>4. QED
    BY <1>1, <1>2, <1>3 DEF CancelApplyRejected, vars

\* The only steps that touch an order.
LEMMA OrderWriters ==
  ASSUME [Next]_vars
  PROVE  \/ UNCHANGED order
         \/ \E o \in Orders :
              \/ \E t \in Tasks, n \in 1..MaxCount : CreateFromTask(o, t, n)
              \/ CancelOrderTx(o)
              \/ \E side \in Sides : AppealOrderTx(o, side)
              \/ ApplyNotifyAndMarkOrderPaid(o)
              \/ BecomesOverdue(o)
              \/ \E s \in Sweepers : SweepCancel(s, o)
         \/ \E r \in Reqs : ConfirmPayWrite(r)
  <1>1. CASE OrderStep
    BY <1>1 DEF OrderStep
  <1>2. CASE SweepStep
    BY <1>2, OrdersUntouched DEF SweepStep
  <1>3. CASE WriteStep
    BY <1>3, OrdersUntouched DEF WriteStep
  <1>4. QED
    BY <1>1, <1>2, <1>3, OrdersUntouched DEF Next

-----------------------------------------------------------------------------
(* The cutoff of a run *)

\* Everything before the cutoff of a run is, and stays, an order that is overdue.
CutoffKept ==
  \A s \in Sweepers : \A o \in sweep[s].due : order[o].status # "none" /\ order[o].overdue

\* An order that is overdue stays so whatever happens to it.
LEMMA OverdueStays ==
  ASSUME IInv, [Next]_vars, NEW p \in Orders, order[p].status # "none", order[p].overdue
  PROVE  order'[p].status # "none" /\ order'[p].overdue
  <1> DEFINE Ok == order'[p].status # "none" /\ order'[p].overdue
  <1>0. order \in [Orders -> OrderRow]
    BY DEF IInv, TypeOK
  <1>1. ASSUME UNCHANGED order PROVE Ok
    BY <1>1
  <1>2. ASSUME NEW o \in Orders, NEW t \in Tasks, NEW n \in 1..MaxCount,
               CreateFromTask(o, t, n)
        PROVE  Ok
    BY <1>0, <1>2 DEF CreateFromTask
  <1>3. ASSUME NEW o \in Orders, CancelOrderTx(o)
        PROVE  Ok
    BY <1>0, <1>3 DEF CancelOrderTx, CancelOrderInTx, OrderRow
  <1>4. ASSUME NEW o \in Orders, NEW side \in Sides, AppealOrderTx(o, side)
        PROVE  Ok
    BY <1>0, <1>4 DEF AppealOrderTx, OrderRow
  <1>5. ASSUME NEW o \in Orders, ApplyNotifyAndMarkOrderPaid(o)
        PROVE  Ok
    BY <1>0, <1>5 DEF ApplyNotifyAndMarkOrderPaid, OrderRow
  <1>6. ASSUME NEW o \in Orders, BecomesOverdue(o)
        PROVE  Ok
    BY <1>0, <1>6 DEF BecomesOverdue, OrderRow
  <1>7. ASSUME NEW r \in Reqs, ConfirmPayWrite(r)
        PROVE  Ok
    BY <1>0, <1>7 DEF ConfirmPayWrite, OrderRow
  <1>8. ASSUME NEW s \in Sweepers, NEW o \in Orders, SweepCancel(s, o)
        PROVE  Ok
    BY <1>0, <1>8 DEF SweepCancel, CancelOrderInTx, OrderRow
  <1> HIDE DEF Ok
  <1>9. Ok
    BY <1>1, <1>2, <1>3, <1>4, <1>5, <1>6, <1>7, <1>8, OrderWriters
  <1>10. QED
    BY <1>9 DEF Ok

\* A step gives a run no order to handle but those overdue when it begins.
LEMMA DueFromOverdue ==
  ASSUME IInv, [Next]_vars, NEW s \in Sweepers
  PROVE  sweep'[s].due \subseteq sweep[s].due \/ (sweep'[s].due = Overdue /\ order' = order)
  <1> DEFINE Ok == \/ sweep'[s].due \subseteq sweep[s].due
                   \/ sweep'[s].due = Overdue /\ order' = order
  <1>0. sweep \in [Sweepers -> SweepRow]
    BY DEF IInv, TypeOK
  <1>1. ASSUME UNCHANGED sweep PROVE Ok
    BY <1>1
  <1>2. ASSUME NEW x \in Sweepers, SweepBegin(x) PROVE Ok
    BY <1>0, <1>2 DEF SweepBegin
  <1>3. ASSUME NEW x \in Sweepers, SweepSelect(x) PROVE Ok
    BY <1>0, <1>3 DEF SweepSelect, SweepRow
  <1>4. ASSUME NEW x \in Sweepers, NEW o \in Orders, SweepCancel(x, o) \/ SweepSkip(x, o)
        PROVE  Ok
    BY <1>0, <1>4 DEF SweepCancel, SweepSkip, SweepRow
  <1>5. ASSUME NEW x \in Sweepers, SweepAbort(x) \/ SweepEnd(x) PROVE Ok
    BY <1>0, <1>5 DEF SweepAbort, SweepEnd, NoSweep
  <1> HIDE DEF Ok
  <1>6. ASSUME SweepStep PROVE Ok
    <2>1. PICK x \in Sweepers : \/ SweepBegin(x)
                                \/ SweepSelect(x)
                                \/ \E o \in Orders : SweepCancel(x, o) \/ SweepSkip(x, o)
                                \/ SweepAbort(x)
                                \/ SweepEnd(x)
      BY <1>6 DEF SweepStep
    <2>2. QED
      BY <1>2, <1>3, <1>4, <1>5, <2>1
  <1>7. ASSUME OrderStep PROVE Ok
    BY <1>1, <1>7 DEF OrderStep, CreateFromTask, CancelOrderTx, AppealOrderTx,
       ApplyNotifyAndMarkOrderPaid, BecomesOverdue
  <1>8. ASSUME ReadStep PROVE Ok
    BY <1>1, <1>8 DEF ReadStep, ConfirmPayRead, TaskUpdateRead, TaskUpRead, TaskDownRead,
       TaskFinishRead, AssertListedWithinSurety, CancelApplyUnlisted, CancelApplyIdle,
       RequireEffectiveMerchant, TaskRefused, Begin
  <1>9. ASSUME WriteStep PROVE Ok
    BY <1>1, <1>9 DEF WriteStep, ConfirmPayWrite, TaskCreate, TaskUpdateWrite, TaskUpWrite,
       TaskDownWrite, TaskFinishWrite, CancelApplyWrite
  <1>10. Ok
    BY <1>1, <1>6, <1>7, <1>8, <1>9 DEF Next, CancelApplyRejected, vars
  <1>11. QED
    BY <1>10 DEF Ok

\* The orders a run may close are overdue in every reachable state.
LEMMA CutoffHolds == Spec => []CutoffKept
  <1>1. Init => CutoffKept
    BY DEF Init, CutoffKept, NoSweep
  <1>2. ASSUME IInv, CutoffKept, [Next]_vars
        PROVE  CutoffKept'
    <2> SUFFICES ASSUME NEW s \in Sweepers, NEW o \in sweep'[s].due
                 PROVE  order'[o].status # "none" /\ order'[o].overdue
      BY DEF CutoffKept
    <2>1. CASE sweep'[s].due \subseteq sweep[s].due
      <3>1. o \in Orders
        BY <1>2, <2>1 DEF IInv, TypeOK, SweepRow
      <3>2. order[o].status # "none" /\ order[o].overdue
        BY <1>2, <2>1 DEF CutoffKept
      <3>3. QED
        BY <1>2, <3>1, <3>2, OverdueStays
    <2>2. CASE sweep'[s].due = Overdue /\ order' = order
      BY <2>2 DEF Overdue
    <2>3. QED
      BY <1>2, <2>1, <2>2, DueFromOverdue
  <1>3. QED
    BY <1>1, <1>2, TradeInvariant, PTL DEF Spec

\* The expiry job never closes an order that has a pay time: its transaction
\* checks the locked row again, and a waiting order has none.
THEOREM ExpiryClosesOnlyUnpaid == Spec => ExpireNeverClosesPaid
  <1> DEFINE Ok(o) == order'[o].cancelId = "expire" /\ order[o].cancelId # "expire"
                        => ~order[o].hasPayTime /\ order[o].overdue
  <1>1. ASSUME IInv, CutoffKept, [Next]_vars, NEW p \in Orders
        PROVE  Ok(p)
    <2>0. /\ order \in [Orders -> OrderRow]
          /\ order[p].status = "pendingPay" => ~order[p].hasPayTime
      BY <1>1 DEF IInv, TypeOK, RowsAgree
    <2>1. ASSUME UNCHANGED order PROVE Ok(p)
      BY <2>1
    <2>2. ASSUME NEW o \in Orders, NEW t \in Tasks, NEW n \in 1..MaxCount,
                 CreateFromTask(o, t, n)
          PROVE  Ok(p)
      <3> DEFINE row == [NoOrder EXCEPT !.status = "pendingPay", !.task = t, !.counts = n]
      <3>1. row.cancelId = "none"
        BY NoOrderRow, TradeAssumption DEF OrderRow
      <3>2. order' = [order EXCEPT ![o] = row]
        BY <2>2 DEF CreateFromTask
      <3> HIDE DEF row
      <3>3. QED
        BY <2>0, <3>1, <3>2
    <2>3. ASSUME NEW o \in Orders, CancelOrderTx(o)
          PROVE  Ok(p)
      BY <2>0, <2>3 DEF CancelOrderTx, CancelOrderInTx, OrderRow
    <2>4. ASSUME NEW o \in Orders, NEW side \in Sides, AppealOrderTx(o, side)
          PROVE  Ok(p)
      BY <2>0, <2>4 DEF AppealOrderTx, OrderRow
    <2>5. ASSUME NEW o \in Orders, ApplyNotifyAndMarkOrderPaid(o)
          PROVE  Ok(p)
      BY <2>0, <2>5 DEF ApplyNotifyAndMarkOrderPaid, OrderRow
    <2>6. ASSUME NEW o \in Orders, BecomesOverdue(o)
          PROVE  Ok(p)
      BY <2>0, <2>6 DEF BecomesOverdue, OrderRow
    <2>7. ASSUME NEW r \in Reqs, ConfirmPayWrite(r)
          PROVE  Ok(p)
      BY <2>0, <2>7 DEF ConfirmPayWrite, OrderRow
    <2>8. ASSUME NEW s \in Sweepers, NEW o \in Orders, SweepCancel(s, o)
          PROVE  Ok(p)
      <3>1. order[o].overdue
        BY <1>1, <2>8 DEF CutoffKept, SweepCancel
      <3>2. QED
        BY <2>0, <2>8, <3>1 DEF SweepCancel, CancelOrderInTx, OrderRow
    <2> HIDE DEF Ok
    <2>9. QED
      BY <1>1, <2>1, <2>2, <2>3, <2>4, <2>5, <2>6, <2>7, <2>8, OrderWriters
  <1>2. IInv /\ CutoffKept /\ [Next]_vars => [\A o \in Orders : Ok(o)]_vars
    BY <1>1
  <1>3. QED
    BY <1>2, TradeInvariant, CutoffHolds, PTL DEF Spec, ExpireNeverClosesPaid

\* A dispute is recorded once, and only for an order that has a pay time.
THEOREM AppealIsRecordedOnce == Spec => AppealRecordedOnce
  <1> DEFINE Ok(o) == order'[o].appealId # order[o].appealId
                        => order[o].appealId = "none" /\ order[o].hasPayTime
  <1>1. ASSUME IInv, [Next]_vars, NEW p \in Orders
        PROVE  Ok(p)
    <2>0. /\ order \in [Orders -> OrderRow]
          /\ order[p].status = "none" => order[p].appealId = "none"
          /\ order[p].status = "paid" => order[p].hasPayTime
      BY <1>1 DEF IInv, TypeOK, RowsAgree
    <2>1. ASSUME UNCHANGED order PROVE Ok(p)
      BY <2>1
    <2>2. ASSUME NEW o \in Orders, NEW t \in Tasks, NEW n \in 1..MaxCount,
                 CreateFromTask(o, t, n)
          PROVE  Ok(p)
      <3> DEFINE row == [NoOrder EXCEPT !.status = "pendingPay", !.task = t, !.counts = n]
      <3>1. row.appealId = "none"
        BY NoOrderRow, TradeAssumption DEF OrderRow
      <3>2. order' = [order EXCEPT ![o] = row] /\ order[o].status = "none"
        BY <2>2 DEF CreateFromTask
      <3> HIDE DEF row
      <3>3. QED
        BY <2>0, <3>1, <3>2
    <2>3. ASSUME NEW o \in Orders, CancelOrderTx(o)
          PROVE  Ok(p)
      BY <2>0, <2>3 DEF CancelOrderTx, CancelOrderInTx, OrderRow
    <2>4. ASSUME NEW o \in Orders, NEW side \in Sides, AppealOrderTx(o, side)
          PROVE  Ok(p)
      BY <2>0, <2>4 DEF AppealOrderTx, OrderRow
    <2>5. ASSUME NEW o \in Orders, ApplyNotifyAndMarkOrderPaid(o)
          PROVE  Ok(p)
      BY <2>0, <2>5 DEF ApplyNotifyAndMarkOrderPaid, OrderRow
    <2>6. ASSUME NEW o \in Orders, BecomesOverdue(o)
          PROVE  Ok(p)
      BY <2>0, <2>6 DEF BecomesOverdue, OrderRow
    <2>7. ASSUME NEW r \in Reqs, ConfirmPayWrite(r)
          PROVE  Ok(p)
      BY <2>0, <2>7 DEF ConfirmPayWrite, OrderRow
    <2>8. ASSUME NEW s \in Sweepers, NEW o \in Orders, SweepCancel(s, o)
          PROVE  Ok(p)
      BY <2>0, <2>8 DEF SweepCancel, CancelOrderInTx, OrderRow
    <2> HIDE DEF Ok
    <2>9. QED
      BY <1>1, <2>1, <2>2, <2>3, <2>4, <2>5, <2>6, <2>7, <2>8, OrderWriters
  <1>2. IInv /\ [Next]_vars => [\A o \in Orders : Ok(o)]_vars
    BY <1>1
  <1>3. QED
    BY <1>2, TradeInvariant, PTL DEF Spec, AppealRecordedOnce

-----------------------------------------------------------------------------
(* Stock: what active orders hold *)

TaskOps == {"update", "upFound", "upChecked", "down", "finish"}

\* An id without a listing promises nothing, and no request edits one.
RowsInUse ==
  /\ \A t \in Tasks : task[t].status = "none" => task[t].total = 0
  /\ \A r \in Reqs : req[r].op \in TaskOps => task[req[r].task].status # "none"

\* The inductive invariant of the stock.
StockInv == IInv /\ RowsInUse /\ NoStockLost

\* What StockMintedOnlyByEdit asks of one listing.
StockKept(t) == task'[t].count + Held(t)' + task[t].total
                  <= task[t].count + Held(t) + task'[t].total

\* What a step owes the stock.
KeepsStock ==
  /\ NoStockLost'
  /\ \A t \in Tasks :
       \/ StockKept(t)
       \/ \E r \in Reqs : req[r].op = "update" /\ req[r].task = t /\ req'[r] = Idle

\* A quantity is the number of its units.
LEMMA UnitsUpTo ==
  ASSUME NEW n \in Nat
  PROVE  IsFiniteSet(1..n) /\ Cardinality(1..n) = n
  <1>1. 1 \in Int /\ n \in Int
    OBVIOUS
  <1> DEFINE size == IF 1 > n THEN 0 ELSE n - 1 + 1
  <1>2. size = n
    OBVIOUS
  <1>3. IsFiniteSet(1..n) /\ Cardinality(1..n) = size
    BY <1>1, FS_Interval, Zenon
  <1> HIDE DEF size
  <1>4. QED
    BY <1>2, <1>3

\* What is held of a listing is a number.
LEMMA HeldIsNat ==
  ASSUME TradeAssumption, NEW ord, NEW t
  PROVE  IsFiniteSet(HeldUnits(t, ord)) /\ Cardinality(HeldUnits(t, ord)) \in Nat
  <1>1. IsFiniteSet(1..MaxCount)
    BY FS_Interval DEF TradeAssumption
  <1>2. IsFiniteSet(Orders \X (1..MaxCount))
    BY <1>1, FS_Product DEF TradeAssumption
  <1>3. HeldUnits(t, ord) \subseteq Orders \X (1..MaxCount)
    BY DEF HeldUnits
  <1>4. QED
    BY <1>2, <1>3, FS_Subset, FS_CardinalityType

\* Two tables whose active orders agree hold the same units.
LEMMA HeldUnchanged ==
  ASSUME NEW ord, NEW new, NEW t,
         \A o \in Orders : /\ new[o].task = ord[o].task
                           /\ new[o].counts = ord[o].counts
                           /\ Active(new[o]) <=> Active(ord[o])
  PROVE  HeldUnits(t, new) = HeldUnits(t, ord)
  BY Zenon DEF HeldUnits

\* An order that becomes active takes its quantity from its own listing alone;
\* read from right to left, an order that is closed gives up as much.
LEMMA HeldGrows ==
  ASSUME TradeAssumption, NEW ord, NEW new, NEW o \in Orders, NEW t,
         ~Active(ord[o]), Active(new[o]), new[o].counts \in 0..MaxCount,
         \A p \in Orders \ {o} : new[p] = ord[p]
  PROVE  Cardinality(HeldUnits(t, new)) =
           Cardinality(HeldUnits(t, ord)) + (IF new[o].task = t THEN new[o].counts ELSE 0)
  <1> DEFINE n == new[o].counts
  <1>1. CASE new[o].task # t
    <2>1. HeldUnits(t, new) \subseteq HeldUnits(t, ord)
      BY <1>1 DEF HeldUnits
    <2>2. HeldUnits(t, ord) \subseteq HeldUnits(t, new)
      BY DEF HeldUnits
    <2>3. HeldUnits(t, new) = HeldUnits(t, ord)
      BY <2>1, <2>2
    <2>4. Cardinality(HeldUnits(t, ord)) \in Nat
      BY HeldIsNat
    <2>5. QED
      BY <1>1, <2>3, <2>4
  <1>2. CASE new[o].task = t
    <2> DEFINE Taken == {o} \X (1..n)
    <2>1. n \in Nat /\ n <= MaxCount /\ MaxCount \in Nat
      BY DEF TradeAssumption
    <2>2. HeldUnits(t, new) = HeldUnits(t, ord) \cup Taken
      <3>1. ASSUME NEW u \in HeldUnits(t, new)
            PROVE  u \in HeldUnits(t, ord) \cup Taken
        BY <2>1 DEF HeldUnits
      <3>2. ASSUME NEW u \in HeldUnits(t, ord)
            PROVE  u \in HeldUnits(t, new)
        BY DEF HeldUnits
      <3>3. ASSUME NEW u \in Taken
            PROVE  u \in HeldUnits(t, new)
        BY <1>2, <2>1 DEF HeldUnits
      <3>4. QED
        BY <3>1, <3>2, <3>3
    <2>3. HeldUnits(t, ord) \cap Taken = {}
      BY DEF HeldUnits
    <2>4. IsFiniteSet(1..n) /\ Cardinality(1..n) = n
      BY <2>1, UnitsUpTo
    <2>5. IsFiniteSet({o}) /\ Cardinality({o}) = 1
      BY FS_Singleton
    <2>6. IsFiniteSet(Taken) /\ Cardinality(Taken) = n
      <3>1. IsFiniteSet(Taken) /\ Cardinality(Taken) = Cardinality({o}) * Cardinality(1..n)
        BY <2>4, <2>5, FS_Product, Zenon
      <3>2. 1 * n = n
        BY <2>1
      <3>3. QED
        BY <2>4, <2>5, <3>1, <3>2, Zenon
    <2> HIDE DEF Taken, n
    <2>7. Cardinality(HeldUnits(t, new)) = Cardinality(HeldUnits(t, ord)) + n
      <3>1. Cardinality(HeldUnits(t, ord) \cup Taken) =
              Cardinality(HeldUnits(t, ord)) + Cardinality(Taken)
                - Cardinality(HeldUnits(t, ord) \cap Taken)
        BY <2>6, HeldIsNat, FS_Union
      <3>2. Cardinality(HeldUnits(t, ord) \cap Taken) = 0
        BY <2>3, FS_EmptySet
      <3>3. QED
        BY <2>1, <2>2, <2>6, <3>1, <3>2, HeldIsNat
    <2>8. QED
      BY <1>2, <2>7 DEF n
  <1>3. QED
    BY <1>1, <1>2

\* The quantities the stock properties compare are numbers.
LEMMA StockNumbers ==
  ASSUME TradeAssumption, TypeOK, NEW t \in Tasks
  PROVE  task[t].count \in Nat /\ task[t].total \in Nat /\ Held(t) \in Nat
  <1>1. task[t] \in TaskRow
    BY DEF TypeOK
  <1>2. QED
    BY <1>1, HeldIsNat DEF TaskRow, Held, TradeAssumption

\* The empty tables satisfy the stock invariant.
LEMMA InitStock == TradeAssumption /\ Init => StockInv
  <1> SUFFICES ASSUME TradeAssumption, Init PROVE StockInv
    OBVIOUS
  <1>1. IInv
    BY InitIInv
  <1>2. \A t \in Tasks : task[t].count = 0 /\ task[t].total = 0
    BY DEF Init, NoTask
  <1>3. RowsInUse
    BY <1>2 DEF Init, RowsInUse, Idle, TaskOps
  <1>4. NoStockLost
    BY <1>1, <1>2, StockNumbers DEF NoStockLost, IInv
  <1>5. QED
    BY <1>1, <1>3, <1>4 DEF StockInv

\* A purchase moves units from the listing to its order.
LEMMA CreateKeepsStock ==
  ASSUME TradeAssumption, StockInv, NEW o \in Orders, NEW t \in Tasks, NEW n \in 1..MaxCount,
         CreateFromTask(o, t, n)
  PROVE  NoStockLost' /\ \A u \in Tasks : StockKept(u)
  <1> DEFINE row == [NoOrder EXCEPT !.status = "pendingPay", !.task = t, !.counts = n]
  <1>0. TypeOK /\ NoStockLost /\ n \in 0..MaxCount /\ n \in Nat
    BY DEF StockInv, IInv, TradeAssumption
  <1>1. row.status = "pendingPay" /\ row.task = t /\ row.counts = n /\ ~row.isCancel
    BY NoOrderRow DEF OrderRow
  <1>2. order' = [order EXCEPT ![o] = row] /\ order[o].status = "none"
    BY DEF CreateFromTask
  <1> HIDE DEF row
  <1>3. order'[o] = row /\ \A p \in Orders \ {o} : order'[p] = order[p]
    BY <1>0, <1>2 DEF TypeOK
  <1>4. ~Active(order[o]) /\ Active(order'[o])
    BY <1>1, <1>2, <1>3 DEF Active
  <1>5. /\ Deduct(t, n).count = task[t].count - n /\ Deduct(t, n).total = task[t].total
        /\ n <= task[t].count
    BY <1>0, DeductRow DEF CreateFromTask
  <1>6. task' = [task EXCEPT ![t] = Deduct(t, n)]
    BY DEF CreateFromTask
  <1>7. ASSUME NEW u \in Tasks
        PROVE  /\ task'[u].total <= task'[u].count + Held(u)'
               /\ StockKept(u)
    <2>1. Held(u)' = Held(u) + (IF t = u THEN n ELSE 0)
      BY <1>0, <1>1, <1>3, <1>4, HeldGrows DEF Held
    <2>2. /\ task'[u].total = task[u].total
          /\ task'[u].count = task[u].count - (IF t = u THEN n ELSE 0)
      BY <1>0, <1>5, <1>6, StockNumbers DEF TypeOK
    <2>3. task[u].total <= task[u].count + Held(u)
      BY <1>0 DEF NoStockLost
    <2>4. task[u].count \in Nat /\ task[u].total \in Nat /\ Held(u) \in Nat
      BY <1>0, StockNumbers
    <2>5. QED
      BY <1>0, <2>1, <2>2, <2>3, <2>4 DEF StockKept
  <1>8. QED
    BY <1>7 DEF NoStockLost

\* A cancellation gives up the units of its order and puts back as many, or as
\* many as the total leaves room for.
LEMMA CancelKeepsStock ==
  ASSUME TradeAssumption, StockInv, NEW o \in Orders, NEW by \in {"buyer", "expire"},
         NEW allowed \in SUBSET {"pendingPay", "paid"}, CancelOrderInTx(o, by, allowed)
  PROVE  NoStockLost' /\ \A u \in Tasks : StockKept(u)
  <1> DEFINE row == [order[o] EXCEPT !.status = "cancelled", !.isCancel = TRUE, !.cancelId = by]
             v == order[o].task
             n == order[o].counts
  <1>0. TypeOK /\ IInv /\ NoStockLost /\ order[o] \in OrderRow /\ MaxCount \in Nat
    BY DEF StockInv, IInv, TypeOK, TradeAssumption
  <1>1. row.isCancel /\ n \in 0..MaxCount /\ n \in Nat /\ v \in Tasks
    BY <1>0 DEF OrderRow
  <1>2. order' = [order EXCEPT ![o] = row]
    BY DEF CancelOrderInTx
  <1> HIDE DEF row
  <1>3. order'[o] = row /\ \A p \in Orders \ {o} : order[p] = order'[p]
    BY <1>0, <1>2 DEF TypeOK
  <1>4. Active(order[o]) /\ ~Active(order'[o])
    BY <1>0, <1>1, <1>3, CancelEffect DEF Active
  <1>5. /\ \A u \in Tasks \ {v} : task'[u] = task[u]
        /\ task'[v].count = IF task[v].count + n <= task[v].total
                            THEN task[v].count + n ELSE task[v].total
        /\ task'[v].total = task[v].total
    BY <1>0, CancelEffect, ZenonT(40)
  <1>6. ASSUME NEW u \in Tasks
        PROVE  /\ task'[u].total <= task'[u].count + Held(u)'
               /\ StockKept(u)
    <2>1. Held(u) = Held(u)' + (IF v = u THEN n ELSE 0)
      BY <1>1, <1>3, <1>4, HeldGrows DEF Held
    <2>2. task[u].total <= task[u].count + Held(u)
      BY <1>0 DEF NoStockLost
    <2>3. task[u].count \in Nat /\ task[u].total \in Nat /\ Held(u)' \in Nat
      BY <1>0, StockNumbers, HeldIsNat DEF Held
    <2>4. CASE v = u
      BY <1>1, <1>5, <2>1, <2>2, <2>3, <2>4 DEF StockKept
    <2>5. CASE v # u
      BY <1>5, <2>1, <2>2, <2>3, <2>5 DEF StockKept
    <2>6. QED
      BY <2>4, <2>5
  <1>7. QED
    BY <1>6 DEF NoStockLost

\* A write to one order row keeps the stock when the order stays as active as
\* it was.
LEMMA OrderWriteKeepsStock ==
  ASSUME TradeAssumption, StockInv, NEW o \in Orders, NEW row,
         row.task = order[o].task, row.counts = order[o].counts,
         Active(row) <=> Active(order[o]),
         order' = [order EXCEPT ![o] = row], UNCHANGED task
  PROVE  NoStockLost' /\ \A u \in Tasks : StockKept(u)
  <1>0. TypeOK /\ NoStockLost
    BY DEF StockInv, IInv
  <1>1. order'[o] = row /\ \A p \in Orders \ {o} : order'[p] = order[p]
    BY <1>0 DEF TypeOK
  <1>2. ASSUME NEW p \in Orders
        PROVE  /\ order'[p].task = order[p].task /\ order'[p].counts = order[p].counts
               /\ Active(order'[p]) <=> Active(order[p])
    BY <1>1
  <1>3. \A u : Held(u)' = Held(u)
    BY <1>2, HeldUnchanged DEF Held
  <1>4. QED
    BY <1>0, <1>3, StockNumbers DEF NoStockLost, StockKept

\* A write to one listing row keeps the stock when it leaves the quantities
\* alone or sets both to the same number.
LEMMA TaskWriteKeepsStock ==
  ASSUME TradeAssumption, StockInv, NEW t \in Tasks, NEW row \in TaskRow,
         \/ row.count = task[t].count /\ row.total = task[t].total
         \/ row.count = row.total,
         task' = [task EXCEPT ![t] = row], UNCHANGED order
  PROVE  /\ NoStockLost'
         /\ \A u \in Tasks : u # t => StockKept(u)
         /\ row.count = task[t].count /\ row.total = task[t].total => StockKept(t)
         /\ task[t].count = task[t].total => StockKept(t)
  <1>0. TypeOK /\ NoStockLost /\ CountWithinTotal
    BY DEF StockInv, IInv
  <1>1. task'[t] = row /\ \A u \in Tasks \ {t} : task'[u] = task[u]
    BY <1>0 DEF TypeOK
  <1>2. \A u \in Tasks : Held(u)' = Held(u) /\ Held(u) \in Nat
    BY <1>0, StockNumbers DEF Held
  <1>3. row.count \in Nat /\ row.total \in Nat
    BY DEF TaskRow, TradeAssumption
  <1>4. \A u \in Tasks : /\ task[u].count \in Nat /\ task[u].total \in Nat
                         /\ task[u].count <= task[u].total
                         /\ task[u].total <= task[u].count + Held(u)
    BY <1>0, StockNumbers DEF NoStockLost, CountWithinTotal
  <1>5. NoStockLost'
    <2> SUFFICES ASSUME NEW u \in Tasks
                 PROVE  task'[u].total <= task'[u].count + Held(u)'
      BY DEF NoStockLost
    <2>1. CASE u = t
      BY <1>1, <1>2, <1>3, <1>4, <2>1
    <2>2. CASE u # t
      BY <1>1, <1>2, <1>4, <2>2
    <2>3. QED
      BY <2>1, <2>2
  <1>6. \A u \in Tasks : u # t => StockKept(u)
    BY <1>1, <1>2, <1>4 DEF StockKept
  <1>7. row.count = task[t].count /\ row.total = task[t].total => StockKept(t)
    BY <1>1, <1>2, <1>3, <1>4 DEF StockKept
  <1>8. task[t].count = task[t].total => StockKept(t)
    BY <1>1, <1>2, <1>3, <1>4 DEF StockKept
  <1>9. QED
    BY <1>5, <1>6, <1>7, <1>8

\* Every step keeps the stock, and only the write of an edit changes a total
\* together with what is left.
LEMMA StockStep ==
  ASSUME TradeAssumption, StockInv, [Next]_vars
  PROVE  KeepsStock
  <1>0. /\ TypeOK /\ RowsAgree /\ CountWithinTotal /\ NoStockLost /\ RowsInUse
        /\ order \in [Orders -> OrderRow] /\ task \in [Tasks -> TaskRow]
    BY DEF StockInv, IInv, TypeOK
  <1>1. ASSUME UNCHANGED <<task, order>> PROVE KeepsStock
    <2>1. \A t \in Tasks : Held(t)' = Held(t)
      BY <1>1 DEF Held
    <2>2. QED
      BY <1>0, <1>1, <2>1, StockNumbers DEF NoStockLost, StockKept, KeepsStock
  <1>2. ASSUME NEW o \in Orders, NEW t \in Tasks, NEW n \in 1..MaxCount, CreateFromTask(o, t, n)
        PROVE  KeepsStock
    BY <1>2, CreateKeepsStock DEF KeepsStock
  <1>3. ASSUME NEW o \in Orders, CancelOrderTx(o) PROVE KeepsStock
    BY <1>3, CancelKeepsStock DEF CancelOrderTx, KeepsStock
  <1>4. ASSUME NEW s \in Sweepers, NEW o \in Orders, SweepCancel(s, o) PROVE KeepsStock
    BY <1>4, CancelKeepsStock DEF SweepCancel, KeepsStock
  <1>5. ASSUME NEW o \in Orders, NEW side \in Sides, AppealOrderTx(o, side)
        PROVE  KeepsStock
    <2> DEFINE row == [order[o] EXCEPT !.appealId = side]
    <2>1. /\ row.task = order[o].task /\ row.counts = order[o].counts
          /\ Active(row) <=> Active(order[o])
      BY <1>0 DEF OrderRow, Active
    <2>2. order' = [order EXCEPT ![o] = row] /\ UNCHANGED task
      BY <1>5 DEF AppealOrderTx
    <2> HIDE DEF row
    <2>3. QED
      BY <2>1, <2>2, OrderWriteKeepsStock DEF KeepsStock
  <1>6. ASSUME NEW o \in Orders, ApplyNotifyAndMarkOrderPaid(o) PROVE KeepsStock
    <2> DEFINE row == [order[o] EXCEPT !.status = "paid", !.hasPayTime = TRUE]
    <2>1. /\ row.task = order[o].task /\ row.counts = order[o].counts
          /\ Active(row) <=> Active(order[o])
      BY <1>0, <1>6 DEF OrderRow, Active, ApplyNotifyAndMarkOrderPaid
    <2>2. order' = [order EXCEPT ![o] = row] /\ UNCHANGED task
      BY <1>6 DEF ApplyNotifyAndMarkOrderPaid
    <2> HIDE DEF row
    <2>3. QED
      BY <2>1, <2>2, OrderWriteKeepsStock DEF KeepsStock
  <1>7. ASSUME NEW o \in Orders, BecomesOverdue(o) PROVE KeepsStock
    <2> DEFINE row == [order[o] EXCEPT !.overdue = TRUE]
    <2>1. /\ row.task = order[o].task /\ row.counts = order[o].counts
          /\ Active(row) <=> Active(order[o])
      BY <1>0 DEF OrderRow, Active
    <2>2. order' = [order EXCEPT ![o] = row] /\ UNCHANGED task
      BY <1>7 DEF BecomesOverdue
    <2> HIDE DEF row
    <2>3. QED
      BY <2>1, <2>2, OrderWriteKeepsStock DEF KeepsStock
  <1>8. ASSUME NEW r \in Reqs, ConfirmPayWrite(r) PROVE KeepsStock
    <2> DEFINE o == req[r].order
               row == [order[o] EXCEPT !.status = "paid", !.hasPayTime = TRUE]
    <2>1. o \in Orders /\ order[o].status # "none" /\ order[o] \in OrderRow
      BY <1>0, <1>8, PendingFields DEF ConfirmPayWrite, RowsAgree
    <2>2. order[o].status = "cancelled" => order[o].isCancel
      BY <1>0, <2>1 DEF RowsAgree
    <2>3. /\ row.task = order[o].task /\ row.counts = order[o].counts
          /\ Active(row) <=> Active(order[o])
      BY <2>1, <2>2 DEF OrderRow, OrderStatus, Active
    <2>4. order' = [order EXCEPT ![o] = row] /\ UNCHANGED task
      BY <1>8 DEF ConfirmPayWrite
    <2> HIDE DEF row, o
    <2>5. QED
      BY <2>1, <2>3, <2>4, OrderWriteKeepsStock DEF KeepsStock
  <1>9. ASSUME NEW r \in Reqs, NEW t \in Tasks, NEW n \in 1..MaxCount, TaskCreate(r, t, n)
        PROVE  KeepsStock
    <2> DEFINE row == [NoTask EXCEPT !.status = "pending", !.count = n, !.total = n]
    <2>1. n \in 0..MaxCount
      BY DEF TradeAssumption
    <2>2. row \in TaskRow /\ row.count = row.total
      BY <2>1 DEF NoTask, TaskRow, TaskStatus
    <2>3. task' = [task EXCEPT ![t] = row] /\ UNCHANGED order /\ task[t].status = "none"
      BY <1>9 DEF TaskCreate
    <2>4. task[t].count = task[t].total
      BY <1>0, <2>3, StockNumbers DEF RowsInUse, CountWithinTotal
    <2> HIDE DEF row
    <2>5. QED
      BY <2>2, <2>3, <2>4, TaskWriteKeepsStock DEF KeepsStock
  <1>10. ASSUME NEW r \in Reqs, TaskUpdateWrite(r) PROVE KeepsStock
    <2> DEFINE t == req[r].task
               row == [task[t] EXCEPT !.count = req[r].count, !.total = req[r].count]
    <2>1. t \in Tasks /\ req[r].count \in 1..MaxCount
      BY <1>0, <1>10, PendingFields DEF TaskUpdateWrite
    <2>2. req[r].count \in 0..MaxCount
      BY <2>1 DEF TradeAssumption
    <2>3. row \in TaskRow /\ row.count = row.total
      BY <1>0, <2>1, <2>2 DEF TaskRow
    <2>4. task' = [task EXCEPT ![t] = row] /\ UNCHANGED order
      BY <1>10 DEF TaskUpdateWrite
    <2>5. req[r].op = "update" /\ req[r].task = t /\ req'[r] = Idle
      BY <1>0, <1>10 DEF TaskUpdateWrite, TypeOK
    <2> HIDE DEF row, t
    <2>6. QED
      BY <2>1, <2>3, <2>4, <2>5, TaskWriteKeepsStock DEF KeepsStock
  <1>11. ASSUME NEW t \in Tasks, NEW row \in TaskRow, task' = [task EXCEPT ![t] = row],
                row.count = task[t].count, row.total = task[t].total, UNCHANGED order
         PROVE  KeepsStock
    BY <1>11, TaskWriteKeepsStock DEF KeepsStock
  <1>12. ASSUME NEW r \in Reqs, TaskUpWrite(r) \/ TaskDownWrite(r) \/ TaskFinishWrite(r)
         PROVE  KeepsStock
    <2> DEFINE t == req[r].task
    <2>1. t \in Tasks
      BY <1>0, <1>12, PendingFields DEF TaskUpWrite, TaskDownWrite, TaskFinishWrite
    <2>2. PICK row \in TaskRow : /\ task' = [task EXCEPT ![t] = row]
                                 /\ row.count = task[t].count /\ row.total = task[t].total
      <3>1. CASE TaskUpWrite(r)
        <4> DEFINE row == [task[t] EXCEPT !.isUp = TRUE]
        <4>1. row \in TaskRow /\ row.count = task[t].count /\ row.total = task[t].total
          BY <1>0, <2>1 DEF TaskRow
        <4>2. task' = [task EXCEPT ![t] = row]
          BY <3>1 DEF TaskUpWrite
        <4> HIDE DEF row
        <4>3. QED
          BY <4>1, <4>2
      <3>2. CASE TaskDownWrite(r)
        <4> DEFINE row == [task[t] EXCEPT !.isUp = FALSE]
        <4>1. row \in TaskRow /\ row.count = task[t].count /\ row.total = task[t].total
          BY <1>0, <2>1 DEF TaskRow
        <4>2. task' = [task EXCEPT ![t] = row]
          BY <3>2 DEF TaskDownWrite
        <4> HIDE DEF row
        <4>3. QED
          BY <4>1, <4>2
      <3>3. CASE TaskFinishWrite(r)
        <4> DEFINE Row(x) == [x EXCEPT !.isDeleted = TRUE, !.isUp = FALSE]
                   row == Row(task[t])
        <4>0. \A x \in TaskRow : Row(x) \in TaskRow /\ Row(x).count = x.count /\ Row(x).total = x.total
          BY DEF TaskRow
        <4>2. task' = [task EXCEPT ![t] = row]
          BY <3>3 DEF TaskFinishWrite
        <4> HIDE DEF Row
        <4>1. row \in TaskRow /\ row.count = task[t].count /\ row.total = task[t].total
          BY <1>0, <2>1, <4>0
        <4> HIDE DEF row
        <4>3. QED
          BY <4>1, <4>2
      <3>4. QED
        BY <1>12, <3>1, <3>2, <3>3
    <2>3. UNCHANGED order
      BY <1>12 DEF TaskUpWrite, TaskDownWrite, TaskFinishWrite
    <2> HIDE DEF t
    <2>4. QED
      BY <1>11, <2>1, <2>2, <2>3
  <1>13. CASE OrderStep
    BY <1>13, <1>2, <1>3, <1>5, <1>6, <1>7 DEF OrderStep
  <1>14. CASE SweepStep
    <2>1. \/ UNCHANGED <<task, order>>
          \/ \E s \in Sweepers, o \in Orders : SweepCancel(s, o)
      BY <1>14 DEF SweepStep, SweepBegin, SweepSelect, SweepSkip, SweepAbort, SweepEnd
    <2>2. QED
      BY <1>1, <1>4, <2>1
  <1>15. CASE ReadStep
    <2>1. UNCHANGED <<task, order>>
      BY <1>15 DEF ReadStep, ConfirmPayRead, TaskUpdateRead, TaskUpRead, TaskDownRead,
         TaskFinishRead, AssertListedWithinSurety, CancelApplyUnlisted, CancelApplyIdle,
       RequireEffectiveMerchant, TaskRefused, Begin
    <2>2. QED
      BY <1>1, <2>1
  <1>16. CASE WriteStep
    <2>1. \A r \in Reqs : CancelApplyWrite(r) => UNCHANGED <<task, order>>
      BY DEF CancelApplyWrite
    <2>2. QED
      BY <1>16, <1>1, <1>8, <1>9, <1>10, <1>12, <2>1 DEF WriteStep
  <1>17. CASE \E m \in Merchants : CancelApplyRejected(m)
    BY <1>17, <1>1 DEF CancelApplyRejected
  <1>18. CASE UNCHANGED vars
    BY <1>18, <1>1 DEF vars
  <1>19. QED
    BY <1>13, <1>14, <1>15, <1>16, <1>17, <1>18 DEF Next

\* A recomputed row of a listing that exists still exists.
LEMMA StaysInUse ==
  ASSUME TypeOK, NEW t \in Tasks, NEW n, NEW ord, task[t].status # "none"
  PROVE  Deduct(t, n).status # "none" /\ RestoreOnCancel(t, n, ord).status # "none"
  <1>1. task[t] \in TaskRow
    BY DEF TypeOK
  <1>2. QED
    BY <1>1 DEF Deduct, RestoreOnCancel, RecalcStatus, TaskRow

\* A listing that exists keeps existing, and totals appear only with it.
LEMMA NextKeepsRowsInUse == TradeAssumption /\ StockInv /\ [Next]_vars => RowsInUse'
  <1> SUFFICES ASSUME TradeAssumption, StockInv, [Next]_vars PROVE RowsInUse'
    OBVIOUS
  <1> DEFINE Used == \A t \in Tasks : task'[t].status = "none"
                       => task[t].status = "none" /\ task'[t].total = task[t].total
             Known(p) == p.op \in TaskOps => p.task \in Tasks /\ task[p.task].status # "none"
  <1>0. /\ TypeOK /\ RowsAgree /\ RowsInUse /\ IInv
        /\ order \in [Orders -> OrderRow] /\ task \in [Tasks -> TaskRow]
        /\ req \in [Reqs -> Pending]
    BY DEF StockInv, IInv, TypeOK
  <1>a. ASSUME NEW r \in Reqs PROVE Known(req[r])
    BY <1>0, PendingFields DEF RowsInUse, TaskOps
  <1>1. ASSUME Used, \A r \in Reqs : req'[r] = req[r] \/ Known(req'[r])
        PROVE  RowsInUse'
    <2>1. \A t \in Tasks : task'[t].status = "none" => task'[t].total = 0
      BY <1>0, <1>1 DEF RowsInUse
    <2>2. \A r \in Reqs : Known(req'[r])
      BY <1>1, <1>a
    <2>3. \A r \in Reqs : req'[r].op \in TaskOps => task'[req'[r].task].status # "none"
      BY <1>1, <2>2
    <2>4. QED
      BY <2>1, <2>3 DEF RowsInUse
  <1>b. ASSUME UNCHANGED task PROVE Used
    BY <1>b
  <1>c. ASSUME NEW t \in Tasks, NEW row, row.status # "none", task' = [task EXCEPT ![t] = row]
        PROVE  Used
    BY <1>0, <1>c
  <1>d. ASSUME NEW r \in Reqs, NEW p, req' = [req EXCEPT ![r] = p], Known(p)
        PROVE  \A q \in Reqs : req'[q] = req[q] \/ Known(req'[q])
    BY <1>0, <1>d
  <1>e. Known(Idle)
    BY DEF Idle, TaskOps
  <1>2. ASSUME NEW o \in Orders, NEW t \in Tasks, NEW n \in 1..MaxCount, CreateFromTask(o, t, n)
        PROVE  RowsInUse'
    BY <1>0, <1>1, <1>2, <1>c, StaysInUse DEF CreateFromTask
  <1>3. ASSUME NEW o \in Orders, NEW by \in {"buyer", "expire"},
               NEW allowed \in SUBSET {"pendingPay", "paid"},
               CancelOrderInTx(o, by, allowed), UNCHANGED req
        PROVE  RowsInUse'
    <2> DEFINE t == order[o].task
    <2>1. t \in Tasks /\ task[t].total > 0 /\ task[t] \in TaskRow
      BY <1>0, <1>3, CancelEffect DEF RowsAgree
    <2>2. task[t].status # "none"
      BY <1>0, <2>1 DEF RowsInUse
    <2>3. RestoreOnCancel(t, order[o].counts, order').status # "none"
      BY <1>0, <2>1, <2>2, StaysInUse
    <2>4. task' = [task EXCEPT ![t] = RestoreOnCancel(t, order[o].counts, order')]
      BY <1>3 DEF CancelOrderInTx
    <2> HIDE DEF t
    <2>5. QED
      BY <1>1, <1>3, <1>c, <2>1, <2>3, <2>4
  <1>4. ASSUME NEW r \in Reqs, NEW p, Begin(r, p), Known(p) PROVE RowsInUse'
    BY <1>1, <1>4, <1>b, <1>d DEF Begin
  <1>5. ASSUME UNCHANGED <<task, req>> PROVE RowsInUse'
    BY <1>1, <1>5, <1>b
  <1>6. ASSUME NEW r \in Reqs, req' = [req EXCEPT ![r] = Idle], Used PROVE RowsInUse'
    BY <1>1, <1>6, <1>d, <1>e
  <1> HIDE DEF Used
  <1>7. CASE OrderStep
    <2>1. \A o \in Orders : CancelOrderTx(o) => RowsInUse'
      BY <1>3 DEF CancelOrderTx
    <2>2. QED
      BY <1>7, <1>2, <1>5, <2>1
         DEF OrderStep, AppealOrderTx, ApplyNotifyAndMarkOrderPaid, BecomesOverdue
  <1>8. CASE SweepStep
    <2>1. \A s \in Sweepers, o \in Orders : SweepCancel(s, o) => RowsInUse'
      BY <1>3 DEF SweepCancel
    <2>2. QED
      BY <1>8, <1>5, <2>1 DEF SweepStep, SweepBegin, SweepSelect, SweepSkip, SweepAbort, SweepEnd
  <1>9. CASE ReadStep
    <2> PICK r \in Reqs :
          \/ \E o \in Orders : ConfirmPayRead(r, o)
          \/ \E m \in Merchants : RequireEffectiveMerchant(r, m)
          \/ TaskRefused(r)
          \/ \E t \in Tasks :
               \/ \E n \in 1..MaxCount : TaskUpdateRead(r, t, n)
               \/ TaskUpRead(r, t)
               \/ TaskDownRead(r, t)
               \/ TaskFinishRead(r, t)
          \/ AssertListedWithinSurety(r)
          \/ \E m \in Merchants : CancelApplyUnlisted(r, m)
          \/ CancelApplyIdle(r)
      BY <1>9 DEF ReadStep
    <2>1. \A t \in Tasks : task[t].status # "none"
            => /\ \A n : Known([op |-> "update", task |-> t, count |-> n])
               /\ \A n : Known([op |-> "upFound", task |-> t, count |-> n])
               /\ \A op : Known([op |-> op, task |-> t])
      OBVIOUS
    <2>2. \A m : /\ Known([op |-> "licensed", merchant |-> m])
                 /\ Known([op |-> "cancelUnlisted", merchant |-> m])
                 /\ Known([op |-> "cancelIdle", merchant |-> m])
                 /\ Known([op |-> "confirmPay", order |-> m])
      BY DEF TaskOps
    <2>3. ASSUME NEW t \in Tasks,
                 \/ \E n \in 1..MaxCount : TaskUpdateRead(r, t, n)
                 \/ TaskUpRead(r, t) \/ TaskDownRead(r, t) \/ TaskFinishRead(r, t)
          PROVE  RowsInUse'
      <3>1. task[t].status # "none"
        BY <2>3 DEF TaskUpdateRead, TaskUpRead, TaskDownRead, TaskFinishRead, Editable
      <3>2. PICK p : Begin(r, p) /\ Known(p)
        BY <2>1, <2>3, <3>1 DEF TaskUpdateRead, TaskUpRead, TaskDownRead, TaskFinishRead
      <3>3. QED
        BY <1>4, <3>2
    <2>4. ASSUME AssertListedWithinSurety(r) PROVE RowsInUse'
      <3>1. req[r].task \in Tasks /\ task[req[r].task].status # "none"
        BY <1>a, <2>4 DEF AssertListedWithinSurety, TaskOps
      <3>2. \/ Begin(r, [op |-> "upChecked", task |-> req[r].task])
            \/ Begin(r, Idle)
        BY <2>4 DEF AssertListedWithinSurety
      <3>3. QED
        BY <1>4, <1>e, <2>1, <3>1, <3>2
    <2>5. ASSUME NEW o \in Orders, ConfirmPayRead(r, o) PROVE RowsInUse'
      <3>1. Begin(r, [op |-> "confirmPay", order |-> o])
        BY <2>5 DEF ConfirmPayRead, Begin
      <3>2. QED
        BY <1>4, <2>2, <3>1
    <2>6. ASSUME \/ \E m \in Merchants : RequireEffectiveMerchant(r, m)
                 \/ TaskRefused(r)
                 \/ \E m \in Merchants : CancelApplyUnlisted(r, m)
                 \/ CancelApplyIdle(r)
          PROVE  RowsInUse'
      <3>1. PICK p : Begin(r, p) /\ Known(p)
        BY <1>e, <2>2, <2>6
           DEF RequireEffectiveMerchant, TaskRefused, CancelApplyUnlisted, CancelApplyIdle
      <3>2. QED
        BY <1>4, <3>1
    <2>7. QED
      BY <2>3, <2>4, <2>5, <2>6
  <1>10. CASE WriteStep
    <2> PICK r \in Reqs :
          \/ ConfirmPayWrite(r) \/ TaskUpdateWrite(r) \/ TaskUpWrite(r)
          \/ TaskDownWrite(r) \/ TaskFinishWrite(r) \/ CancelApplyWrite(r)
          \/ \E u \in Tasks, n \in 1..MaxCount : TaskCreate(r, u, n)
      BY <1>10 DEF WriteStep
    <2> DEFINE t == req[r].task
    <2>1. ASSUME TaskUpdateWrite(r) \/ TaskUpWrite(r) \/ TaskDownWrite(r) \/ TaskFinishWrite(r)
          PROVE  Used
      <3>1. t \in Tasks /\ task[t].status # "none" /\ task[t] \in TaskRow
        BY <1>0, <1>a, <2>1
           DEF TaskUpdateWrite, TaskUpWrite, TaskDownWrite, TaskFinishWrite, TaskOps
      <3>2. PICK row : row.status = task[t].status /\ task' = [task EXCEPT ![t] = row]
        <4>1. CASE TaskUpdateWrite(r)
          <5> WITNESS [task[t] EXCEPT !.count = req[r].count, !.total = req[r].count]
          <5> QED BY <3>1, <4>1 DEF TaskUpdateWrite, TaskRow
        <4>2. CASE TaskUpWrite(r)
          <5> WITNESS [task[t] EXCEPT !.isUp = TRUE]
          <5> QED BY <3>1, <4>2 DEF TaskUpWrite, TaskRow
        <4>3. CASE TaskDownWrite(r)
          <5> WITNESS [task[t] EXCEPT !.isUp = FALSE]
          <5> QED BY <3>1, <4>3 DEF TaskDownWrite, TaskRow
        <4>4. CASE TaskFinishWrite(r)
          <5> WITNESS [task[t] EXCEPT !.isDeleted = TRUE, !.isUp = FALSE]
          <5> QED BY <3>1, <4>4 DEF TaskFinishWrite, TaskRow
        <4>5. QED
          BY <2>1, <4>1, <4>2, <4>3, <4>4
      <3> HIDE DEF t
      <3>3. QED
        BY <1>c, <3>1, <3>2
    <2>2. ASSUME ConfirmPayWrite(r) \/ CancelApplyWrite(r) PROVE Used
      BY <1>b, <2>2 DEF ConfirmPayWrite, CancelApplyWrite
    <2>3. ASSUME NEW u \in Tasks, NEW n \in 1..MaxCount, TaskCreate(r, u, n) PROVE Used
      <3> DEFINE row == [NoTask EXCEPT !.status = "pending", !.count = n, !.total = n]
      <3>1. row.status # "none"
        BY DEF NoTask
      <3>2. task' = [task EXCEPT ![u] = row]
        BY <2>3 DEF TaskCreate
      <3> HIDE DEF row
      <3>3. QED
        BY <1>c, <3>1, <3>2
    <2>4. req' = [req EXCEPT ![r] = Idle]
      BY DEF ConfirmPayWrite, TaskUpdateWrite, TaskUpWrite, TaskDownWrite, TaskFinishWrite,
         CancelApplyWrite, TaskCreate
    <2>5. QED
      BY <1>6, <2>1, <2>2, <2>3, <2>4
  <1>11. QED
    BY <1>5, <1>7, <1>8, <1>9, <1>10 DEF Next, CancelApplyRejected, vars

\* The stock invariant holds in every reachable state.
THEOREM StockInvariant == Spec => []StockInv
  <1>1. Init => StockInv
    BY InitStock, TradeAssumption
  <1>2. StockInv /\ [Next]_vars => StockInv'
    BY NextKeepsIInv, NextKeepsRowsInUse, StockStep, TradeAssumption DEF StockInv, KeepsStock
  <1>3. QED
    BY <1>1, <1>2, PTL DEF Spec

\* Every unit of a listing is on offer or held by an active order, whatever the
\* order of purchases, cancellations, expiries and edits.
THEOREM StockIsNeverLost == Spec => []NoStockLost
  <1>1. StockInv => NoStockLost
    BY DEF StockInv
  <1>2. QED
    BY <1>1, StockInvariant, PTL

\* Only the late write of a seller's edit can make a listing promise more than
\* its total.
THEOREM StockIsMintedOnlyByEdit == Spec => StockMintedOnlyByEdit
  <1> DEFINE Ok(t) == \/ task'[t].count + Held(t)' + task[t].total
                           <= task[t].count + Held(t) + task'[t].total
                      \/ \E r \in Reqs : req[r].op = "update" /\ req[r].task = t /\ req'[r] = Idle
  <1>1. StockInv /\ [Next]_vars => [\A t \in Tasks : Ok(t)]_vars
    BY StockStep, TradeAssumption DEF KeepsStock, StockKept
  <1>2. QED
    BY <1>1, StockInvariant, PTL DEF Spec, StockMintedOnlyByEdit

-----------------------------------------------------------------------------
(* MerchantTrade implements the abstract order book: read through is_cancel, *)
(* every transaction, every late write of a request and every step of the    *)
(* expiry job opens, pays or closes one order, makes one offer or changes    *)
(* nothing the order book speaks of.                                         *)

\* A column in which one row changed.
LEMMA ColumnWritten ==
  ASSUME NEW S, NEW F, NEW G, NEW x \in S, NEW v,
         F = [s \in S |-> F[s]], G = [s \in S |-> G[s]],
         G[x] = v, \A s \in S \ {x} : G[s] = F[s]
  PROVE  G = [F EXCEPT ![x] = v]
  OBVIOUS

\* Steps that change neither a quantity nor the phase of an order stutter.
LEMMA BookStutters ==
  ASSUME \A t \in Tasks : task'[t].total = task[t].total /\ task'[t].count = task[t].count,
         \A o \in Orders : /\ PhaseOf(order'[o]) = PhaseOf(order[o])
                           /\ order'[o].task = order[o].task
                           /\ order'[o].counts = order[o].counts
  PROVE  UNCHANGED Book!vars
  BY DEF Book!vars

\* The empty tables are an empty order book.
LEMMA BookInit == TradeAssumption /\ Init => Book!Init
  <1> SUFFICES ASSUME TradeAssumption, Init PROVE Book!Init
    OBVIOUS
  <1>1. (CHOOSE t \in Tasks : TRUE) \in Tasks
    BY DEF TradeAssumption
  <1>2. /\ task = [t \in Tasks |-> NoTask] /\ NoTask.total = 0 /\ NoTask.count = 0
        /\ order = [o \in Orders |-> NoOrder] /\ NoOrder.counts = 0
        /\ NoOrder.task \in Tasks
    BY <1>1 DEF Init, NoTask, NoOrder
  <1>3. PhaseOf(NoOrder) = "none"
    BY DEF PhaseOf, NoOrder
  <1> HIDE DEF Init
  <1>4. QED
    BY <1>2, <1>3 DEF Book!Init

\* A purchase opens an order.
LEMMA CreateOpens ==
  ASSUME TradeAssumption, IInv, NEW o \in Orders, NEW t \in Tasks, NEW n \in 1..MaxCount,
         CreateFromTask(o, t, n)
  PROVE  Book!Open(o, t, n)
  <1> DEFINE row == [NoOrder EXCEPT !.status = "pendingPay", !.task = t, !.counts = n]
  <1>1. /\ TypeOK /\ RowsAgree
        /\ order[o].status = "none" /\ n <= task[t].count
        /\ task' = [task EXCEPT ![t] = Deduct(t, n)]
        /\ order' = [order EXCEPT ![o] = row]
    BY DEF IInv, CreateFromTask
  <1>2. Deduct(t, n).count = task[t].count - n /\ Deduct(t, n).total = task[t].total
    BY <1>1, DeductRow
  <1>3. row.task = t /\ row.counts = n /\ row.status = "pendingPay" /\ ~row.isCancel
    BY NoOrderRow DEF OrderRow
  <1> HIDE DEF row
  <1>4. PhaseOf(order[o]) = "none"
    BY <1>1 DEF PhaseOf, RowsAgree
  <1>5. PhaseOf(row) = "open"
    BY <1>3 DEF PhaseOf
  <1>6. /\ task'[t].count = task[t].count - n /\ task'[t].total = task[t].total
        /\ \A u \in Tasks \ {t} : task'[u] = task[u]
    BY <1>1, <1>2 DEF TypeOK
  <1>7. order'[o] = row /\ \A p \in Orders \ {o} : order'[p] = order[p]
    BY <1>1 DEF TypeOK
  <1>8. /\ [p \in Orders |-> PhaseOf(order'[p])]
             = [[p \in Orders |-> PhaseOf(order[p])] EXCEPT ![o] = "open"]
        /\ [p \in Orders |-> order'[p].task] = [[p \in Orders |-> order[p].task] EXCEPT ![o] = t]
        /\ [p \in Orders |-> order'[p].counts] = [[p \in Orders |-> order[p].counts] EXCEPT ![o] = n]
    BY <1>3, <1>5, <1>7, ColumnWritten
  <1>9. /\ [u \in Tasks |-> task'[u].count]
             = [[u \in Tasks |-> task[u].count] EXCEPT ![t] = task[t].count - n]
        /\ [u \in Tasks |-> task'[u].total] = [u \in Tasks |-> task[u].total]
    BY <1>6, ColumnWritten
  <1>10. QED
    BY <1>1, <1>4, <1>8, <1>9 DEF Book!Open

\* A cancellation, by the buyer or by the expiry job, closes an order.
LEMMA CancelCloses ==
  ASSUME TradeAssumption, IInv, NEW o \in Orders, NEW by \in {"buyer", "expire"},
         NEW allowed \in SUBSET {"pendingPay", "paid"}, CancelOrderInTx(o, by, allowed)
  PROVE  Book!Close(o)
  <1> DEFINE row == [order[o] EXCEPT !.status = "cancelled", !.isCancel = TRUE, !.cancelId = by]
  <1> DEFINE t == order[o].task
  <1>1. /\ order[o].status \in {"pendingPay", "paid"} /\ ~order[o].isCancel
        /\ t \in Tasks
        /\ \A u \in Tasks \ {t} : task'[u] = task[u]
        /\ task'[t].count = IF task[t].count + order[o].counts <= task[t].total
                            THEN task[t].count + order[o].counts ELSE task[t].total
        /\ task'[t].total = task[t].total
    BY CancelEffect, ZenonT(40)
  <1>2. TypeOK /\ order' = [order EXCEPT ![o] = row]
    BY DEF IInv, CancelOrderInTx
  <1>3. order[o] \in OrderRow
    BY <1>2 DEF TypeOK
  <1>4. row.isCancel /\ row.task = t /\ row.counts = order[o].counts
    BY <1>3 DEF OrderRow
  <1> HIDE DEF row
  <1>5. order'[o] = row /\ \A p \in Orders \ {o} : order'[p] = order[p]
    BY <1>2 DEF TypeOK
  <1>6. PhaseOf(order[o]) \in {"open", "paid"}
    BY <1>1 DEF PhaseOf
  <1>7. PhaseOf(row) = "closed"
    BY <1>4 DEF PhaseOf
  <1>8. /\ [p \in Orders |-> PhaseOf(order'[p])]
             = [[p \in Orders |-> PhaseOf(order[p])] EXCEPT ![o] = "closed"]
        /\ [p \in Orders |-> order'[p].task] = [p \in Orders |-> order[p].task]
        /\ [p \in Orders |-> order'[p].counts] = [p \in Orders |-> order[p].counts]
    BY <1>4, <1>5, <1>7, ColumnWritten
  <1> DEFINE back == IF task[t].count + order[o].counts <= task[t].total
                     THEN task[t].count + order[o].counts ELSE task[t].total
  <1>9. task'[t].count = back
    BY <1>1
  <1> HIDE DEF back
  <1>10. /\ [u \in Tasks |-> task'[u].count]
              = [[u \in Tasks |-> task[u].count] EXCEPT ![t] = back]
         /\ [u \in Tasks |-> task'[u].total] = [u \in Tasks |-> task[u].total]
    BY <1>1, <1>9, ColumnWritten, ZenonT(40)
  <1>11. QED
    BY <1>1, <1>6, <1>8, <1>10 DEF Book!Close, back

\* An order whose phase alone goes from open to paid is paid.
LEMMA PhasePaid ==
  ASSUME NEW o \in Orders, PhaseOf(order[o]) = "open", PhaseOf(order'[o]) = "paid",
         \A p \in Orders \ {o} : PhaseOf(order'[p]) = PhaseOf(order[p]),
         \A p \in Orders : order'[p].task = order[p].task /\ order'[p].counts = order[p].counts,
         UNCHANGED task
  PROVE  Book!Pay(o)
  <1>1. [p \in Orders |-> PhaseOf(order'[p])]
          = [[p \in Orders |-> PhaseOf(order[p])] EXCEPT ![o] = "paid"]
    BY ColumnWritten
  <1>2. QED
    BY <1>1 DEF Book!Pay

\* Marking an order paid pays it, or changes nothing the book sees: the order
\* was paid already, or was closed meanwhile and stays closed.
LEMMA PaidRowPays ==
  ASSUME TypeOK, RowsAgree, NEW o \in Orders, order[o].status # "none",
         order' = [order EXCEPT ![o] = [@ EXCEPT !.status = "paid", !.hasPayTime = TRUE]],
         UNCHANGED task
  PROVE  Book!Pay(o) \/ UNCHANGED Book!vars
  <1> DEFINE row == [order[o] EXCEPT !.status = "paid", !.hasPayTime = TRUE]
  <1>1. order[o] \in OrderRow /\ order' = [order EXCEPT ![o] = row]
    BY DEF TypeOK
  <1>2. /\ row.status = "paid" /\ row.isCancel = order[o].isCancel
        /\ row.task = order[o].task /\ row.counts = order[o].counts
    BY <1>1 DEF OrderRow
  <1> HIDE DEF row
  <1>3. order'[o] = row /\ \A p \in Orders \ {o} : order'[p] = order[p]
    BY <1>1 DEF TypeOK
  <1>4. order[o].status \in {"pendingPay", "paid", "cancelled"}
    BY <1>1 DEF OrderRow, OrderStatus
  <1>5. CASE order[o].isCancel \/ order[o].status # "pendingPay"
    <2>1. PhaseOf(row) = PhaseOf(order[o])
      BY <1>2, <1>4, <1>5 DEF PhaseOf, RowsAgree
    <2>2. QED
      BY <1>2, <1>3, <2>1, BookStutters
  <1>6. CASE ~order[o].isCancel /\ order[o].status = "pendingPay"
    <2>1. PhaseOf(order[o]) = "open" /\ PhaseOf(row) = "paid"
      BY <1>2, <1>6 DEF PhaseOf
    <2>2. QED
      BY <1>2, <1>3, <2>1, PhasePaid
  <1>7. QED
    BY <1>5, <1>6

\* Writing a quantity to a listing, as both its count and its total, is an offer.
LEMMA OfferMade ==
  ASSUME NEW t \in Tasks, NEW n \in 1..MaxCount,
         task'[t].count = n, task'[t].total = n,
         \A u \in Tasks \ {t} : task'[u] = task[u], UNCHANGED order
  PROVE  Book!Offer(t, n)
  <1>1. [u \in Tasks |-> task'[u].count] = [[u \in Tasks |-> task[u].count] EXCEPT ![t] = n]
    BY ColumnWritten
  <1>2. [u \in Tasks |-> task'[u].total] = [[u \in Tasks |-> task[u].total] EXCEPT ![t] = n]
    BY ColumnWritten
  <1>3. QED
    BY <1>1, <1>2 DEF Book!Offer

-----------------------------------------------------------------------------
(* One lemma per group of actions *)

\* Every order transaction is a step of the book.
LEMMA OrderStepRefines == TradeAssumption /\ IInv /\ OrderStep => Book!Next \/ UNCHANGED Book!vars
  <1> SUFFICES ASSUME TradeAssumption, IInv, NEW o \in Orders,
                      \/ \E t \in Tasks, n \in 1..MaxCount : CreateFromTask(o, t, n)
                      \/ CancelOrderTx(o)
                      \/ \E side \in Sides : AppealOrderTx(o, side)
                      \/ ApplyNotifyAndMarkOrderPaid(o)
                      \/ BecomesOverdue(o)
               PROVE  Book!Next \/ UNCHANGED Book!vars
    BY DEF OrderStep
  <1>0. TypeOK /\ RowsAgree /\ order[o] \in OrderRow
    BY DEF IInv, TypeOK
  <1>1. ASSUME NEW t \in Tasks, NEW n \in 1..MaxCount, CreateFromTask(o, t, n)
        PROVE  Book!Next
    BY <1>1, CreateOpens DEF Book!Next
  <1>2. ASSUME CancelOrderTx(o)
        PROVE  Book!Next
    BY <1>2, CancelCloses DEF CancelOrderTx, Book!Next
  <1>3. ASSUME NEW side \in Sides, AppealOrderTx(o, side)
        PROVE  UNCHANGED Book!vars
    <2>1. task' = task /\ order' = [order EXCEPT ![o].appealId = side]
      BY <1>3 DEF AppealOrderTx
    <2>2. \A p \in Orders : /\ order'[p].status = order[p].status
                            /\ order'[p].isCancel = order[p].isCancel
                            /\ order'[p].task = order[p].task
                            /\ order'[p].counts = order[p].counts
      BY <1>0, <2>1 DEF TypeOK, OrderRow
    <2>3. \A p \in Orders : PhaseOf(order'[p]) = PhaseOf(order[p])
      BY <2>2 DEF PhaseOf
    <2>4. QED
      BY <2>1, <2>2, <2>3, BookStutters
  <1>4. ASSUME ApplyNotifyAndMarkOrderPaid(o)
        PROVE  Book!Next \/ UNCHANGED Book!vars
    <2>1. order[o].status # "none"
      BY <1>4 DEF ApplyNotifyAndMarkOrderPaid
    <2>2. Book!Pay(o) \/ UNCHANGED Book!vars
      BY <1>0, <1>4, <2>1, PaidRowPays DEF ApplyNotifyAndMarkOrderPaid
    <2>3. QED
      BY <2>2 DEF Book!Next
  <1>5. ASSUME BecomesOverdue(o)
        PROVE  UNCHANGED Book!vars
    <2>1. task' = task /\ order' = [order EXCEPT ![o].overdue = TRUE]
      BY <1>5 DEF BecomesOverdue
    <2>2. \A p \in Orders : /\ order'[p].status = order[p].status
                            /\ order'[p].isCancel = order[p].isCancel
                            /\ order'[p].task = order[p].task
                            /\ order'[p].counts = order[p].counts
      BY <1>0, <2>1 DEF TypeOK, OrderRow
    <2>3. \A p \in Orders : PhaseOf(order'[p]) = PhaseOf(order[p])
      BY <2>2 DEF PhaseOf
    <2>4. QED
      BY <2>1, <2>2, <2>3, BookStutters
  <1>6. QED
    BY <1>1, <1>2, <1>3, <1>4, <1>5

\* The expiry job closes orders, or changes nothing.
LEMMA SweepStepRefines == TradeAssumption /\ IInv /\ SweepStep => Book!Next \/ UNCHANGED Book!vars
  <1> SUFFICES ASSUME TradeAssumption, IInv, NEW s \in Sweepers,
                      \/ SweepBegin(s)
                      \/ SweepSelect(s)
                      \/ \E o \in Orders : SweepCancel(s, o) \/ SweepSkip(s, o)
                      \/ SweepAbort(s)
                      \/ SweepEnd(s)
               PROVE  Book!Next \/ UNCHANGED Book!vars
    BY DEF SweepStep
  <1>1. ASSUME NEW o \in Orders, SweepCancel(s, o)
        PROVE  Book!Next
    BY <1>1, CancelCloses DEF SweepCancel, Book!Next
  <1>2. ASSUME \/ SweepBegin(s) \/ SweepSelect(s) \/ SweepAbort(s) \/ SweepEnd(s)
               \/ \E o \in Orders : SweepSkip(s, o)
        PROVE  UNCHANGED Book!vars
    <2>1. UNCHANGED <<task, order>>
      BY <1>2 DEF SweepBegin, SweepSelect, SweepAbort, SweepEnd, SweepSkip
    <2>2. QED
      BY <2>1, BookStutters
  <1>3. QED
    BY <1>1, <1>2

\* The late writes of requests pay, make an offer, or change nothing of the book.
LEMMA WriteStepRefines == TradeAssumption /\ IInv /\ WriteStep => Book!Next \/ UNCHANGED Book!vars
  <1> SUFFICES ASSUME TradeAssumption, IInv, NEW r \in Reqs,
                      \/ ConfirmPayWrite(r) \/ TaskUpdateWrite(r) \/ TaskUpWrite(r)
                      \/ TaskDownWrite(r) \/ TaskFinishWrite(r) \/ CancelApplyWrite(r)
                      \/ \E u \in Tasks, n \in 1..MaxCount : TaskCreate(r, u, n)
               PROVE  Book!Next \/ UNCHANGED Book!vars
    BY DEF WriteStep
  <1>0. TypeOK /\ RowsAgree
    BY DEF IInv
  <1> DEFINE t == req[r].task
  <1>1. CASE ConfirmPayWrite(r)
    <2> DEFINE o == req[r].order
    <2>1. o \in Orders /\ order[o].status # "none"
      BY <1>0, <1>1, PendingFields DEF ConfirmPayWrite, RowsAgree
    <2>2. /\ order' = [order EXCEPT ![o] = [@ EXCEPT !.status = "paid", !.hasPayTime = TRUE]]
          /\ UNCHANGED task
      BY <1>1 DEF ConfirmPayWrite
    <2> HIDE DEF o
    <2>3. Book!Pay(o) \/ UNCHANGED Book!vars
      BY <1>0, <2>1, <2>2, PaidRowPays
    <2>4. QED
      BY <2>1, <2>3 DEF Book!Next
  <1>2. CASE TaskUpdateWrite(r)
    <2>1. PICK l \in Tasks, n \in 1..MaxCount : l = req[r].task /\ n = req[r].count
      BY <1>0, <1>2, PendingFields DEF TaskUpdateWrite
    <2> DEFINE row == [task[l] EXCEPT !.count = n, !.total = n]
    <2>2. task[l] \in TaskRow
      BY <1>0 DEF TypeOK
    <2>3. row.count = n /\ row.total = n
      BY <2>2 DEF TaskRow
    <2>4. task' = [task EXCEPT ![l] = row] /\ UNCHANGED order
      BY <1>2, <2>1 DEF TaskUpdateWrite
    <2> HIDE DEF row
    <2>5. task'[l] = row /\ \A u \in Tasks \ {l} : task'[u] = task[u]
      BY <1>0, <2>4 DEF TypeOK
    <2>6. task'[l].count = n /\ task'[l].total = n
      BY <2>3, <2>5
    <2>7. Book!Offer(l, n)
      BY <2>4, <2>5, <2>6, OfferMade
    <2>8. QED
      BY <2>7 DEF Book!Next
  <1>3. CASE \/ TaskUpWrite(r) \/ TaskDownWrite(r) \/ TaskFinishWrite(r)
    <2>1. t \in Tasks
      BY <1>0, <1>3, PendingFields DEF TaskUpWrite, TaskDownWrite, TaskFinishWrite
    <2>2. task[t] \in TaskRow
      BY <1>0, <2>1 DEF TypeOK
    <2>3. UNCHANGED order
      BY <1>3 DEF TaskUpWrite, TaskDownWrite, TaskFinishWrite
    <2>4. CASE TaskUpWrite(r)
      <3> DEFINE row == [task[t] EXCEPT !.isUp = TRUE]
      <3>1. row.count = task[t].count /\ row.total = task[t].total
        BY <2>2 DEF TaskRow
      <3>2. task' = [task EXCEPT ![t] = row]
        BY <2>4 DEF TaskUpWrite
      <3> HIDE DEF row
      <3>3. QED
        BY <1>0, <2>1, <2>3, <3>1, <3>2, BookStutters DEF TypeOK
    <2>5. CASE TaskDownWrite(r)
      <3> DEFINE row == [task[t] EXCEPT !.isUp = FALSE]
      <3>1. row.count = task[t].count /\ row.total = task[t].total
        BY <2>2 DEF TaskRow
      <3>2. task' = [task EXCEPT ![t] = row]
        BY <2>5 DEF TaskDownWrite
      <3> HIDE DEF row
      <3>3. QED
        BY <1>0, <2>1, <2>3, <3>1, <3>2, BookStutters DEF TypeOK
    <2>6. CASE TaskFinishWrite(r)
      <3> DEFINE row == [task[t] EXCEPT !.isDeleted = TRUE, !.isUp = FALSE]
      <3>1. row.count = task[t].count /\ row.total = task[t].total
        BY <2>2 DEF TaskRow
      <3>2. task' = [task EXCEPT ![t] = row]
        BY <2>6 DEF TaskFinishWrite
      <3> HIDE DEF row
      <3>3. QED
        BY <1>0, <2>1, <2>3, <3>1, <3>2, BookStutters DEF TypeOK
    <2>7. QED
      BY <1>3, <2>4, <2>5, <2>6
  <1>4. CASE CancelApplyWrite(r)
    <2>1. UNCHANGED <<task, order>>
      BY <1>4 DEF CancelApplyWrite
    <2>2. QED
      BY <2>1, BookStutters
  <1>5. ASSUME NEW u \in Tasks, NEW n \in 1..MaxCount, TaskCreate(r, u, n)
        PROVE  Book!Next
    <2> DEFINE row == [NoTask EXCEPT !.status = "pending", !.count = n, !.total = n]
    <2>1. row.count = n /\ row.total = n
      BY DEF NoTask
    <2>2. task' = [task EXCEPT ![u] = row] /\ UNCHANGED order
      BY <1>5 DEF TaskCreate
    <2> HIDE DEF row
    <2>3. task'[u] = row /\ \A v \in Tasks \ {u} : task'[v] = task[v]
      BY <2>2 DEF IInv, TypeOK
    <2>4. Book!Offer(u, n)
      BY <2>1, <2>2, <2>3, OfferMade
    <2>5. QED
      BY <2>4 DEF Book!Next
  <1>6. QED
    BY <1>1, <1>2, <1>3, <1>4, <1>5

\* Every step of the service is a step of the book or leaves it unchanged.
LEMMA NextRefines ==
  TradeAssumption /\ IInv /\ [Next]_vars => Book!Next \/ UNCHANGED Book!vars
  <1> SUFFICES ASSUME TradeAssumption, IInv, [Next]_vars
               PROVE  Book!Next \/ UNCHANGED Book!vars
    OBVIOUS
  <1>2. ASSUME ReadStep \/ (\E m \in Merchants : CancelApplyRejected(m)) \/ UNCHANGED vars
        PROVE  UNCHANGED Book!vars
    <2>1. UNCHANGED order
      BY <1>2, OrdersUntouched
    <2>2. UNCHANGED task
      BY <1>2 DEF ReadStep, ConfirmPayRead, TaskUpdateRead, TaskUpRead, TaskDownRead,
         TaskFinishRead, AssertListedWithinSurety, CancelApplyUnlisted, CancelApplyIdle,
         RequireEffectiveMerchant, TaskRefused, Begin, CancelApplyRejected, vars
    <2>3. QED
      BY <2>1, <2>2, BookStutters
  <1>3. QED
    BY <1>2, OrderStepRefines, SweepStepRefines, WriteStepRefines DEF Next

-----------------------------------------------------------------------------
\* The service implements the order book: with all the races between handlers,
\* callbacks and the expiry job, an order is paid and closed at most once, in
\* that order, and its quantity is taken and given back once.
THEOREM OrderBookImplemented == Spec => ImplementsOrderBook
  <1>1. Init => Book!Init
    BY BookInit, TradeAssumption
  <1>2. IInv /\ [Next]_vars => [Book!Next]_(Book!vars)
    BY NextRefines, TradeAssumption
  <1>3. QED
    BY <1>1, <1>2, TradeInvariant, PTL DEF Spec, ImplementsOrderBook, Book!Spec
==============================================================================
