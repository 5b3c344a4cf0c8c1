----------------------------- MODULE RedEnvelope -----------------------------
(***************************************************************************)
(* Red envelopes: InMemoryRedEnvelopeService, whose five operations run    *)
(* under one lock. Every process has an instance of its own: the API       *)
(* processes serve users from theirs, the hourly job red_envelope.expire   *)
(* sweeps the one of the process it runs in.                               *)
(*                                                                         *)
(* Amounts are whole cents; the random share of a lucky envelope is a      *)
(* choice over what the rounded draw can be. Names and texts are left out, *)
(* and so is the restart of a process, which forgets its envelopes.        *)
(***************************************************************************)
EXTENDS Integers, Sequences, FiniteSets, SequencesExt

CONSTANTS
  Envelopes,  \* envelope ids the bound allows
  Users,
  Nobody,     \* BestUserId = 0
  Serving,    \* instances users reach
  Cron,       \* the instance the hourly job sweeps
  MaxAmount,  \* bound on the amount of an envelope, in cents
  MaxCount    \* bound on the number of its shares

ASSUME EnvelopeAssumption ==
  /\ MaxAmount \in Nat \ {0}
  /\ MaxCount \in Nat \ {0}
  /\ Nobody \notin Users

VARIABLES
  env,   \* env[i][e]: what instance i holds of envelope e
  late   \* envelopes whose 24 hours have passed

vars == <<env, late>>

Absent == [status |-> "absent"]
Receiver == [user: Users, amount: Int, isBest: BOOLEAN]

Envelope ==
  [status: {"available", "finished", "expired"}, type: {"normal", "lucky"},
   amount: 1..MaxAmount, count: 1..MaxCount,
   remainAmount: Int, remainCount: 0..MaxCount, receivers: Seq(Receiver),
   bestUser: Users \cup {Nobody}, bestAmount: Nat, refund: Int]

TypeOK ==
  /\ late \subseteq Envelopes
  /\ env \in [Serving \cup {Cron} -> [Envelopes -> {Absent} \cup Envelope]]

Init ==
  /\ env = [i \in Serving \cup {Cron} |-> [e \in Envelopes |-> Absent]]
  /\ late = {}

-----------------------------------------------------------------------------
(* Shares *)

\* math.Round of a / b, for a natural a.
RoundDiv(a, b) == (2 * a + b) \div (2 * b)

\* Mutant: the last share is rounded like the others.
NormalAmountsRounded(x) == {RoundDiv(x.amount, x.count)}

\* An equal share; the last one is what remains.
NormalAmounts(x) ==
  IF x.remainCount = 1 THEN {x.remainAmount} ELSE {RoundDiv(x.amount, x.count)}

AtLeastOneCent(n) == IF n < 1 THEN 1 ELSE n

\* Mutant: the draw is not cut.
CalcLuckyAmountsUncut(x) ==
  IF x.remainCount = 1 THEN {x.remainAmount}
  ELSE 1..AtLeastOneCent(RoundDiv(2 * x.remainAmount, x.remainCount))

\* Between one cent and twice the average of what remains, then cut so that
\* every later share can have its cent.
CalcLuckyAmounts(x) ==
  IF x.remainCount = 1 THEN {x.remainAmount}
  ELSE LET left == x.remainCount - 1
       IN  {IF x.remainAmount - draw < left THEN x.remainAmount - left ELSE draw :
              draw \in 1..AtLeastOneCent(RoundDiv(2 * x.remainAmount, x.remainCount))}

Amounts(x) == IF x.type = "lucky" THEN CalcLuckyAmounts(x) ELSE NormalAmounts(x)

\* Mutant: only the latest receiver is looked at.
HasJustReceived(x, u) == x.receivers # <<>> /\ Last(x.receivers).user = u

HasReceived(x, u) == \E k \in DOMAIN x.receivers : x.receivers[k].user = u

\* Mutant: the first share becomes the best one, whatever it is.
TrackBestFromFirst(x, u, amount) ==
  IF x.bestUser = Nobody \/ amount > x.bestAmount
  THEN [x EXCEPT !.bestUser = u, !.bestAmount = amount] ELSE x

\* The best share so far, and its mark once the last share is taken.
TrackBest(x, u, amount) ==
  LET best == IF amount > x.bestAmount
              THEN [x EXCEPT !.bestUser = u, !.bestAmount = amount] ELSE x
  IN  IF best.remainCount > 0 THEN best
      ELSE LET Mark(r) == [r EXCEPT !.isBest = (r.user = best.bestUser)]
           IN  [best EXCEPT !.receivers = [k \in DOMAIN @ |-> Mark(@[k])]]

Take(x, u, amount) ==
  LET taken == [x EXCEPT
                 !.receivers = Append(@, [user |-> u, amount |-> amount, isBest |-> FALSE]),
                 !.remainAmount = @ - amount,
                 !.remainCount = @ - 1]
      tracked == IF x.type = "lucky" THEN TrackBest(taken, u, amount) ELSE taken
  IN  IF tracked.remainCount = 0 THEN [tracked EXCEPT !.status = "finished"] ELSE tracked

MarkExpired(x) == [x EXCEPT !.status = "expired", !.refund = x.remainAmount]

-----------------------------------------------------------------------------
(* The operations *)

Create(i, e, type, amount, count) ==
  /\ \A j \in DOMAIN env : env[j][e] = Absent
  /\ env' = [env EXCEPT ![i][e] =
       [status |-> "available", type |-> type, amount |-> amount, count |-> count,
        remainAmount |-> amount, remainCount |-> count, receivers |-> <<>>,
        bestUser |-> Nobody, bestAmount |-> 0, refund |-> 0]]
  /\ UNCHANGED late

\* Twenty-four hours pass.
BecomesLate(e) ==
  /\ \E i \in Serving : env[i][e] # Absent
  /\ e \notin late
  /\ late' = late \cup {e}
  /\ UNCHANGED env

\* A user opens the envelope in time and gets a share.
Receive(i, e, u) ==
  /\ env[i][e] # Absent
  /\ e \notin late
  /\ env[i][e].status # "finished"
  /\ ~HasReceived(env[i][e], u)
  /\ \E amount \in Amounts(env[i][e]) :
       env' = [env EXCEPT ![i][e] = Take(@, u, amount)]
  /\ UNCHANGED late

\* Mutant: an envelope that was emptied in time expires as well.
ReceiveLateAnyStatus(i, e) ==
  /\ env[i][e] # Absent
  /\ e \in late
  /\ env' = [env EXCEPT ![i][e] = MarkExpired(@)]
  /\ UNCHANGED late

\* A user opens it too late: the first one to do so marks it expired.
ReceiveLate(i, e) ==
  /\ env[i][e] # Absent
  /\ e \in late
  /\ env[i][e].status = "available"
  /\ env' = [env EXCEPT ![i][e] = MarkExpired(@)]
  /\ UNCHANGED late

\* The hourly job, over everything its own process remembers.
ExpireOverdue ==
  /\ env' = [env EXCEPT ![Cron] =
       [e \in Envelopes |-> IF @[e].status = "available" /\ e \in late
                            THEN MarkExpired(@[e]) ELSE @[e]]]
  /\ UNCHANGED late

Next ==
  \/ \E i \in Serving, e \in Envelopes :
       \/ \E type \in {"normal", "lucky"}, amount \in 1..MaxAmount, count \in 1..MaxCount :
            Create(i, e, type, amount, count)
       \/ \E u \in Users : Receive(i, e, u)
       \/ ReceiveLate(i, e)
  \/ \E e \in Envelopes : BecomesLate(e)
  \/ ExpireOverdue

Spec == Init /\ [][Next]_vars

-----------------------------------------------------------------------------
(* Properties *)

Kept == {x \in {env[i][e] : i \in Serving \cup {Cron}, e \in Envelopes} : x # Absent}

\* The cents of the shares, each of them; a share can be negative when a lucky
\* envelope has fewer cents than shares.
Cents(r, sign) == UNION {{k} \X (1..(sign * r[k].amount)) : k \in DOMAIN r}

Given(x) == Cardinality(Cents(x.receivers, 1)) - Cardinality(Cents(x.receivers, -1))

\* No cent is made or lost, whatever the rounding: shares and remainder are
\* the amount, a finished envelope is empty, an expired one refunds the rest.
EveryCentAccounted ==
  \A x \in Kept :
    /\ Given(x) + x.remainAmount = x.amount
    /\ x.status = "finished" => x.remainAmount = 0 /\ Len(x.receivers) = x.count
    /\ x.status = "expired"  => x.refund = x.remainAmount /\ x.remainCount > 0

\* Nobody gets two shares of an envelope.
OneSharePerUser ==
  \A x \in Kept : \A k, l \in DOMAIN x.receivers :
    x.receivers[k].user = x.receivers[l].user => k = l

\* A lucky envelope with a cent for everyone gives everyone at least a cent,
\* and leaves at least a cent for each share to come.
LuckyLeavesEnough ==
  \A x \in Kept :
    x.type = "lucky" /\ x.amount >= x.count =>
      /\ x.remainAmount >= x.remainCount
      /\ \A k \in DOMAIN x.receivers : x.receivers[k].amount >= 1

\* Once it is closed, by its last share or by its expiry, an envelope is never
\* opened again and its refund never changes.
ClosedForGood ==
  [][\A i \in DOMAIN env, e \in Envelopes :
       env[i][e].status \in {"finished", "expired"} => env'[i][e] = env[i][e]]_vars
==============================================================================
