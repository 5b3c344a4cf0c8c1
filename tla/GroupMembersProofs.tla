------------------------- MODULE GroupMembersProofs -------------------------
(***************************************************************************)
(* What the lock of the invitations is worth, for any number of users and  *)
(* requests, any calls and any limit: no user is invited twice by those    *)
(* who could read the list of members, and all who came without an         *)
(* application stay below the limit.                                       *)
(*                                                                         *)
(* Both rest on LockHeld: an invitation between Lock and UnLock holds the  *)
(* lock, so what it read of the rows (Room: there is place for all it      *)
(* invites; Fresh: those it will insert are no members, if it has the      *)
(* list) can only be made stale by steps that shrink the set of invited    *)
(* users.                                                                  *)
(***************************************************************************)
EXTENDS GroupMembers, FiniteSetTheorems, TLAPS

\* An invitation in its critical section holds the lock.
LockHeld ==
    \A r \in Reqs : req[r].op = "invite" /\ req[r].at \in Critical => lock = r

\* One that has counted the members has room for all those it invites.
Room ==
    \A r \in Reqs : req[r].op = "invite" /\ req[r].at \in {"members", "insert"} =>
        Cardinality(InvitedUsers) + Cardinality(req[r].who) < MaxNum

\* Those an invitation is about to insert are among those it invites, and not
\* invited already if it has read the list.
Fresh ==
    \A r \in Reqs : req[r].op = "invite" /\ req[r].at = "insert" =>
        /\ req[r].add \subseteq req[r].who
        /\ req[r].blind \/ req[r].add \cap InvitedUsers = {}

\* Only a request that was started has inserted rows.
FromStarted == \A x \in rows : x.from \in Reqs => req[x.from].at # "idle"

RowsOK == IsFiniteSet(rows) /\ FromStarted /\ OneRowPerInvited /\ InvitedStayBelow

IInv == TypeOK /\ LockHeld /\ Room /\ Fresh /\ RowsOK

-----------------------------------------------------------------------------
\* The image of a finite set under a function is finite and no larger.
LEMMA ImageFinite ==
    ASSUME NEW S, IsFiniteSet(S), NEW T, NEW f \in [S -> T]
    PROVE  /\ IsFiniteSet({f[x] : x \in S})
           /\ Cardinality({f[x] : x \in S}) <= Cardinality(S)
  <1> DEFINE I == {f[x] : x \in S}
  <1>1. f \in Surjection(S, I)
    BY DEF Surjection
  <1> QED BY <1>1, FS_Surjection

\* Users are finitely many, and so are those invited.
LEMMA UsersFinite ==
    ASSUME TypeOK
    PROVE  InvitedUsers \subseteq Users /\ IsFiniteSet(InvitedUsers)
  <1>1. InvitedUsers \subseteq Users
    BY DEF TypeOK, Rows, InvitedUsers, Invited, Live
  <1> QED BY <1>1, FS_Subset, GroupAssumption

\* A count of the live rows counts each invited user at least once.
LEMMA CountCoversInvited ==
    ASSUME TypeOK, IsFiniteSet(rows)
    PROVE  /\ IsFiniteSet(Live) /\ Cardinality(Live) \in Nat
           /\ Cardinality(InvitedUsers) \in Nat
           /\ Cardinality(InvitedUsers) <= Cardinality(Live)
  <1>1. IsFiniteSet(Live)
    BY FS_Subset DEF Live
  <1>2. IsFiniteSet(Invited) /\ Cardinality(Invited) <= Cardinality(Live)
    BY <1>1, FS_Subset DEF Invited
  <1> DEFINE f == [x \in Invited |-> x.user]
  <1>3. f \in [Invited -> Users]
    BY DEF TypeOK, Rows, Invited, Live
  <1>4. InvitedUsers = {f[x] : x \in Invited}
    BY DEF InvitedUsers
  <1>5. Cardinality({f[x] : x \in Invited}) <= Cardinality(Invited)
    <2> HIDE DEF f
    <2> QED BY <1>2, <1>3, ImageFinite
  <1>6. /\ Cardinality(Live) \in Nat /\ Cardinality(Invited) \in Nat
        /\ Cardinality(InvitedUsers) \in Nat
    BY <1>1, <1>2, UsersFinite, FS_CardinalityType
  <1> QED BY <1>1, <1>2, <1>4, <1>5, <1>6
-----------------------------------------------------------------------------
\* The rows change as a whole: each keeps its user and its origin, and none
\* that left comes back.
Shrink ==
    \E g \in [rows -> Rows] :
        /\ rows' = {g[x] : x \in rows}
        /\ \A x \in rows : /\ g[x].user = x.user /\ g[x].from = x.from
                           /\ x.quit => g[x].quit

\* Requests keep the operation they were started for, and remember that they
\* went on without the list.
OpsKept ==
    \A r \in Reqs : req[r].at # "idle" =>
        /\ req'[r].op = req[r].op /\ req'[r].at # "idle"
        /\ req[r].blind => req'[r].blind

\* Such a step keeps what is said of the rows, and invites nobody.
LEMMA ShrinkKeeps ==
    ASSUME TypeOK, TypeOK', RowsOK, Shrink, OpsKept
    PROVE  RowsOK' /\ InvitedUsers' \subseteq InvitedUsers
  <1>1. PICK g \in [rows -> Rows] :
          /\ rows' = {g[x] : x \in rows}
          /\ \A x \in rows : /\ g[x].user = x.user /\ g[x].from = x.from
                             /\ x.quit => g[x].quit
    BY DEF Shrink
  <1>2. IsFiniteSet(rows')
    <2>1. IsFiniteSet(rows)
      BY DEF RowsOK
    <2>2. IsFiniteSet({g[x] : x \in rows})
      BY <2>1, ImageFinite
    <2> QED BY <1>1, <2>2
  <1>3. FromStarted'
    BY <1>1 DEF RowsOK, FromStarted, OpsKept
  <1>4. \A x \in rows : g[x] \in Invited' => x \in Invited
    BY <1>1 DEF TypeOK, Rows, RowsOK, FromStarted, OpsKept, Invited, Live
  <1>5. OneRowPerInvited'
    <2> SUFFICES ASSUME NEW x \in rows, NEW y \in rows,
                        g[x] \in Listed', g[y] \in Listed', g[x].user = g[y].user
                 PROVE  g[x] = g[y]
      BY <1>1 DEF OneRowPerInvited, Listed, Invited, Live
    <2>1. ASSUME NEW z \in rows, g[z] \in Listed' PROVE z \in Listed
      <3>1. z \in Invited /\ g[z].from = z.from /\ (z.from # NoReq => ~req'[z.from].blind)
        BY <1>1, <1>4, <2>1 DEF Listed
      <3>2. z.from # NoReq => z.from \in Reqs /\ req[z.from].at # "idle"
        BY DEF TypeOK, Rows, RowsOK, FromStarted
      <3> QED BY <3>1, <3>2 DEF Listed, OpsKept
    <2>2. x \in Listed /\ y \in Listed /\ x.user = y.user
      BY <1>1, <2>1
    <2> QED BY <2>2 DEF RowsOK, OneRowPerInvited
  <1>6. InvitedUsers' \subseteq InvitedUsers
    BY <1>1, <1>4 DEF InvitedUsers, Invited, Live
  <1>7. InvitedStayBelow'
    <2> SUFFICES ASSUME NEW y \in Invited', y.from # NoReq
                 PROVE  Cardinality(InvitedUsers') < MaxNum
      BY DEF InvitedStayBelow
    <2>1. PICK x \in rows : y = g[x]
      BY <1>1 DEF Invited, Live
    <2>2. x \in Invited /\ x.from # NoReq
      BY <1>1, <1>4, <2>1
    <2>3. Cardinality(InvitedUsers) < MaxNum
      BY <2>2 DEF RowsOK, InvitedStayBelow
    <2>4. Cardinality(InvitedUsers') <= Cardinality(InvitedUsers)
      BY <1>6, UsersFinite, FS_Subset
    <2>5. Cardinality(InvitedUsers') \in Nat /\ Cardinality(InvitedUsers) \in Nat
      <3>1. IsFiniteSet(InvitedUsers)
        BY UsersFinite
      <3>2. IsFiniteSet(InvitedUsers')
        BY <1>6, <3>1, FS_Subset
      <3> QED BY <3>1, <3>2, FS_CardinalityType
    <2> QED BY <2>3, <2>4, <2>5, GroupAssumption
  <1> QED BY <1>2, <1>3, <1>5, <1>6, <1>7 DEF RowsOK

\* Rows left alone are a case of it.
LEMMA SameRowsShrink ==
    ASSUME TypeOK, UNCHANGED rows PROVE Shrink
  <1> DEFINE g == [x \in rows |-> x]
  <1>1. g \in [rows -> Rows]
    BY DEF TypeOK
  <1>2. /\ rows' = {g[x] : x \in rows}
        /\ \A x \in rows : /\ g[x].user = x.user /\ g[x].from = x.from
                           /\ x.quit => g[x].quit
    OBVIOUS
  <1> QED BY <1>1, <1>2 DEF Shrink

\* So are departures, removals and the dismissal ...
LEMMA QuitRowsShrink ==
    ASSUME TypeOK, NEW us, QuitRows(us) PROVE Shrink
  <1> DEFINE gone(x) == [x EXCEPT !.quit = IF x.user \in us THEN TRUE ELSE @]
             g == [x \in rows |-> gone(x)]
  <1>1. ASSUME NEW x \in rows PROVE gone(x) \in Rows
    <2>1. x \in Rows
      BY DEF TypeOK
    <2>2. CASE x.user \in us
      <3>1. gone(x) = [x EXCEPT !.quit = TRUE]
        BY <2>2
      <3> QED BY <2>1, <3>1 DEF Rows
    <2>3. CASE x.user \notin us
      <3>1. gone(x) = x
        BY <2>1, <2>3 DEF Rows
      <3> QED BY <2>1, <3>1
    <2> QED BY <2>2, <2>3
  <1>2. g \in [rows -> Rows]
    BY <1>1
  <1>3. /\ rows' = {g[x] : x \in rows}
        /\ \A x \in rows : /\ g[x].user = x.user /\ g[x].from = x.from
                           /\ x.quit => g[x].quit
    BY DEF QuitRows, TypeOK, Rows
  <1> QED BY <1>2, <1>3 DEF Shrink

\* ... and the changes of who leads.
LEMMA LeaderShrink ==
    ASSUME TypeOK, NEW r \in Reqs, Handover(r) \/ SetLeaderStatus(r)
    PROVE  Shrink
  <1>1. CASE Handover(r)
    <2> DEFINE g == [x \in rows |->
                 [x EXCEPT !.leader = IF x.user \in req[r].who THEN 1
                            ELSE IF x.user = req[r].by /\ @ = 1 THEN 3 ELSE @]]
    <2>1. g \in [rows -> Rows]
      BY DEF TypeOK, Rows
    <2>2. /\ rows' = {g[x] : x \in rows}
          /\ \A x \in rows : /\ g[x].user = x.user /\ g[x].from = x.from
                             /\ x.quit => g[x].quit
      BY <1>1 DEF Handover, TypeOK, Rows
    <2> QED BY <2>1, <2>2 DEF Shrink
  <1>2. CASE SetLeaderStatus(r)
    <2> DEFINE g == [x \in rows |->
                 [x EXCEPT !.leader = IF x.user \notin req[r].who THEN @
                            ELSE IF req[r].op = "promote" THEN 2 ELSE 3]]
    <2>1. g \in [rows -> Rows]
      BY DEF TypeOK, Rows
    <2>2. /\ rows' = {g[x] : x \in rows}
          /\ \A x \in rows : /\ g[x].user = x.user /\ g[x].from = x.from
                             /\ x.quit => g[x].quit
      BY <1>2 DEF SetLeaderStatus, TypeOK, Rows
    <2> QED BY <2>1, <2>2 DEF Shrink
  <1> QED BY <1>1, <1>2
-----------------------------------------------------------------------------
\* The next stage, and what it leaves alone.
ReqType == [at : Stages, op : Ops, by : Users, who : SUBSET Users,
            app : Reqs \cup {NoReq}, add : SUBSET Users, blind : BOOLEAN]

Others(r) == \A q \in Reqs \ {r} : req'[q] = req[q]

LEMMA GotoFacts ==
    ASSUME TypeOK, NEW r \in Reqs, NEW s \in Stages, Goto(r, s)
    PROVE  /\ req' \in [Reqs -> ReqType]
           /\ req'[r].at = s /\ req'[r].op = req[r].op
           /\ req'[r].blind = req[r].blind
           /\ s \notin Resting => req'[r] = [req[r] EXCEPT !.at = s]
           /\ Others(r)
  <1> DEFINE m == IF s \in Resting THEN [Idle EXCEPT !.at = s, !.op = req[r].op,
                                                     !.blind = req[r].blind]
                                   ELSE [req[r] EXCEPT !.at = s]
  <1>1. req \in [Reqs -> ReqType]
    BY DEF TypeOK, ReqType
  <1>2. Owner \in Users
    BY GroupAssumption
  <1>3. Idle \in ReqType
    BY <1>2 DEF Idle, ReqType, Stages, Ops
  <1>4. m \in ReqType /\ m.at = s /\ m.op = req[r].op /\ m.blind = req[r].blind
    BY <1>1, <1>3 DEF ReqType
  <1>5. req' = [req EXCEPT ![r] = m]
    BY DEF Goto
  <1> QED BY <1>1, <1>4, <1>5 DEF Others

\* What most steps of a request do to the lock and the requests: r moves on,
\* and is not brought into the critical section, nor to its last two reads.
Plain(r) ==
    /\ UNCHANGED lock
    /\ Others(r)
    /\ req'[r].at # "idle"
    /\ req[r].at # "idle" =>
         req'[r].op = req[r].op /\ (req[r].blind => req'[r].blind)
    /\ req'[r].op = "invite" /\ req'[r].at \in Critical =>
         /\ req[r].op = "invite" /\ req[r].at \in Critical
         /\ req'[r].at \notin {"members", "insert"}

LEMMA PlainKeeps ==
    ASSUME IInv, TypeOK', NEW r \in Reqs, Plain(r), Shrink
    PROVE  IInv'
  <1>1. OpsKept
    BY DEF Plain, Others, OpsKept
  <1>2. RowsOK' /\ InvitedUsers' \subseteq InvitedUsers
    BY <1>1, ShrinkKeeps DEF IInv
  <1>3. LockHeld'
    BY DEF IInv, LockHeld, Plain, Others
  <1>4. /\ IsFiniteSet(InvitedUsers)
        /\ Cardinality(InvitedUsers') <= Cardinality(InvitedUsers)
        /\ Cardinality(InvitedUsers') \in Nat /\ Cardinality(InvitedUsers) \in Nat
    BY <1>2, UsersFinite, FS_Subset, FS_CardinalityType DEF IInv
  <1>5. \A q \in Reqs : Cardinality(req[q].who) \in Nat
    <2> SUFFICES ASSUME NEW q \in Reqs PROVE Cardinality(req[q].who) \in Nat
      OBVIOUS
    <2>1. req[q].who \subseteq Users
      BY DEF IInv, TypeOK
    <2> QED BY <2>1, GroupAssumption, FS_Subset, FS_CardinalityType
  <1>6. Room'
    <2> SUFFICES ASSUME NEW q \in Reqs, req'[q].op = "invite",
                        req'[q].at \in {"members", "insert"}
                 PROVE  Cardinality(InvitedUsers') + Cardinality(req'[q].who) < MaxNum
      BY DEF Room
    <2>1. q # r /\ req'[q] = req[q]
      BY DEF Plain, Others, Critical
    <2>2. Cardinality(InvitedUsers) + Cardinality(req[q].who) < MaxNum
      BY <2>1 DEF IInv, Room
    <2> QED BY <1>4, <1>5, <2>1, <2>2, GroupAssumption
  <1>7. Fresh'
    BY <1>2 DEF IInv, Fresh, Plain, Others, Critical
  <1> QED BY <1>2, <1>3, <1>6, <1>7 DEF IInv

\* A move to a stage that asks for nothing is such a step.
LEMMA GotoPlain ==
    ASSUME TypeOK, NEW r \in Reqs, NEW s \in Stages, Goto(r, s), UNCHANGED lock,
           s # "idle",
           s \in Critical /\ req[r].op = "invite" =>
             req[r].at \in Critical /\ s \notin {"members", "insert"}
    PROVE  Plain(r)
  BY GotoFacts DEF Plain

\* What the steps that only move on have in common.
MovesOn(r) ==
    \E s \in Stages \ {"idle"} :
        /\ Goto(r, s)
        /\ s \in Critical /\ req[r].op = "invite" =>
             req[r].at \in Critical /\ s \notin {"members", "insert"}

\* The variables other than the requests keep their types.
DataOK ==
    /\ rows \subseteq Rows
    /\ rel \in [Users -> {"none", "hour", "endless"}]
    /\ lock \in Reqs \cup {NoReq}
    /\ dismissed \in BOOLEAN
    /\ applies \subseteq
         [id : Reqs, user : Users, status : {"wait", "pass", "refuse"}]

LEMMA MovesOnKeeps ==
    ASSUME IInv, NEW r \in Reqs, MovesOn(r), UNCHANGED lock, DataOK', Shrink
    PROVE  IInv'
  <1>1. PICK s \in Stages \ {"idle"} :
          /\ Goto(r, s)
          /\ s \in Critical /\ req[r].op = "invite" =>
               req[r].at \in Critical /\ s \notin {"members", "insert"}
    BY DEF MovesOn
  <1>2. Plain(r)
    BY <1>1, GotoPlain DEF IInv
  <1>3. req' \in [Reqs -> ReqType]
    BY <1>1, GotoFacts DEF IInv
  <1>4. TypeOK'
    BY <1>3 DEF TypeOK, DataOK, ReqType
  <1> QED BY <1>2, <1>4, PlainKeeps

\* Reads, and what they lead to.
LEMMA ReadsKeep ==
    ASSUME IInv, NEW r \in Reqs,
           \/ CachedMember(r) \/ ExistMember(r) \/ FindGroup(r)
           \/ FindApply(r) \/ IsLeader(r) \/ ApplicantIsMember(r)
           \/ FindRow(r) \/ CountWho(r) \/ IsMaster(r) \/ Fails(r) \/ Dies(r)
    PROVE  IInv'
  <1>1. UNCHANGED <<rows, rel, lock, dismissed, applies>>
    BY DEF CachedMember, ExistMember, FindGroup, FindApply, IsLeader,
           ApplicantIsMember, FindRow, CountWho, IsMaster, Fails, Dies
  <1>2. DataOK' /\ Shrink
    BY <1>1, SameRowsShrink DEF IInv, TypeOK, DataOK
  <1>3. MovesOn(r)
    <2> USE DEF At, MovesOn, Stages, Critical, Resting
    <2>1. CASE CachedMember(r) BY <2>1 DEF CachedMember, AfterMember
    <2>2. CASE ExistMember(r) BY <2>2 DEF ExistMember, AfterMember
    <2>3. CASE FindGroup(r) BY <2>3 DEF FindGroup
    <2>4. CASE FindApply(r) BY <2>4 DEF FindApply
    <2>5. CASE IsLeader(r) BY <2>5 DEF IsLeader
    <2>6. CASE ApplicantIsMember(r) BY <2>6 DEF ApplicantIsMember
    <2>7. CASE FindRow(r) BY <2>7 DEF FindRow
    <2>8. CASE CountWho(r) BY <2>8 DEF CountWho
    <2>9. CASE IsMaster(r) BY <2>9 DEF IsMaster
    <2>10. CASE Fails(r)
      BY <2>10 DEF Fails
    <2>11. CASE Dies(r) BY <2>11 DEF Dies
    <2> QED BY <2>1, <2>2, <2>3, <2>4, <2>5, <2>6, <2>7, <2>8, <2>9, <2>10, <2>11
  <1> QED BY <1>1, <1>2, <1>3, MovesOnKeeps

\* The cache and the applications.
LEMMA CacheAndApplicationsKeep ==
    ASSUME IInv, NEW r \in Reqs,
           \/ CacheMember(r) \/ CacheApplicant(r) \/ CreateApply(r)
           \/ Pass(r) \/ Refuse(r) \/ Forget(r)
    PROVE  IInv'
  <1>1. UNCHANGED <<rows, lock, dismissed>>
    BY DEF CacheMember, CacheApplicant, CreateApply, Pass, Refuse, SetStatus,
           Forget
  <1>2. MovesOn(r)
    BY DEF CacheMember, CacheApplicant, CreateApply, Pass, Refuse, SetStatus,
           Forget, AfterMember, At, MovesOn, Stages, Critical, Resting
  <1>3. rel' \in [Users -> {"none", "hour", "endless"}]
    BY DEF CacheMember, CacheApplicant, CreateApply, Pass, Refuse, SetStatus,
           Forget, CacheRel, SetRel, IInv, TypeOK
  <1>4. applies' \subseteq
          [id : Reqs, user : Users, status : {"wait", "pass", "refuse"}]
    <2>1. CASE UNCHANGED applies
      BY <2>1 DEF IInv, TypeOK
    <2>2. CASE CreateApply(r)
      BY <2>2 DEF CreateApply, IInv, TypeOK
    <2>3. ASSUME NEW st \in {"wait", "pass", "refuse"}, SetStatus(r, st)
          PROVE  applies' \subseteq
                   [id : Reqs, user : Users, status : {"wait", "pass", "refuse"}]
      BY <2>3 DEF SetStatus, IInv, TypeOK
    <2> QED BY <2>1, <2>2, <2>3
            DEF CacheMember, CacheApplicant, Pass, Refuse, Forget
  <1>5. DataOK' /\ Shrink
    BY <1>1, <1>3, <1>4, SameRowsShrink DEF IInv, TypeOK, DataOK
  <1> QED BY <1>1, <1>2, <1>5, MovesOnKeeps

\* Departures, removals, the dismissal and the changes of who leads.
LEMMA RowChangesKeep ==
    ASSUME IInv, NEW r \in Reqs,
           Kick(r) \/ Handover(r) \/ SetLeaderStatus(r) \/ Dismiss(r)
    PROVE  IInv'
  <1>1. UNCHANGED <<rel, lock, applies>> /\ dismissed' \in BOOLEAN
    BY DEF Kick, Handover, SetLeaderStatus, Dismiss, IInv, TypeOK
  <1>2. MovesOn(r)
    BY DEF Kick, Handover, SetLeaderStatus, Dismiss, At, MovesOn, Stages,
           Critical, Resting
  <1>3. Shrink
    BY QuitRowsShrink, LeaderShrink DEF IInv, Kick, Dismiss
  <1>4. rows' \subseteq Rows
    BY <1>3 DEF Shrink
  <1> QED BY <1>1, <1>2, <1>3, <1>4, MovesOnKeeps DEF IInv, TypeOK, DataOK

\* Steps that set more of the request than its stage.
LEMMA StartKeeps ==
    ASSUME IInv, NEW r \in Reqs, Start(r) PROVE IInv'
  <1>1. PICK c \in Calls :
          req' = [req EXCEPT ![r] = [at |-> FirstOf(c.op), op |-> c.op,
                    by |-> c.by, who |-> c.who, app |-> NoReq, add |-> {},
                    blind |-> FALSE]]
    BY DEF Start
  <1>2. c \in [op : Ops, by : Users, who : SUBSET Users]
    BY GroupAssumption
  <1>3. FirstOf(c.op) \in Stages \ ({"idle"} \cup Resting)
    BY <1>2 DEF FirstOf, Stages, Resting, Critical, Ops
  <1>4. c.op = "invite" => FirstOf(c.op) \notin Critical
    BY DEF FirstOf, Critical
  <1>5. req' \in [Reqs -> ReqType]
    BY <1>1, <1>2, <1>3 DEF IInv, TypeOK, ReqType
  <1>6. TypeOK'
    BY <1>5 DEF Start, IInv, TypeOK, ReqType
  <1>7. Plain(r)
    BY <1>1, <1>3, <1>4 DEF Start, IInv, TypeOK, Plain, Others
  <1>8. Shrink
    BY SameRowsShrink DEF Start, IInv
  <1> QED BY <1>6, <1>7, <1>8, PlainKeeps

LEMMA LoadApplyKeeps ==
    ASSUME IInv, NEW r \in Reqs, LoadApply(r) PROVE IInv'
  <1>1. UNCHANGED <<rows, rel, lock, dismissed, applies>>
    BY DEF LoadApply
  <1>2. Shrink
    BY <1>1, SameRowsShrink DEF IInv
  <1>3. CASE Goto(r, "done")
    <2>1. MovesOn(r)
      BY <1>3 DEF MovesOn, Stages, Critical, Resting
    <2> QED BY <1>1, <1>2, <2>1, MovesOnKeeps DEF IInv, TypeOK, DataOK
  <1>4. CASE \E a \in applies :
              req' = [req EXCEPT ![r].at = "leader", ![r].app = a.id,
                                 ![r].who = {a.user}]
    <2>1. PICK a \in applies :
            req' = [req EXCEPT ![r] = [req[r] EXCEPT !.at = "leader",
                                         !.app = a.id, !.who = {a.user}]]
      BY <1>4
    <2> DEFINE m == [req[r] EXCEPT !.at = "leader", !.app = a.id,
                                   !.who = {a.user}]
    <2>2. req[r] \in ReqType /\ a.id \in Reqs /\ a.user \in Users
      BY DEF IInv, TypeOK, ReqType
    <2>3. m \in ReqType
      BY <2>2 DEF ReqType, Stages
    <2>4. req' \in [Reqs -> ReqType]
      BY <2>1, <2>3 DEF IInv, TypeOK, ReqType
    <2>5. TypeOK'
      BY <1>1, <2>4 DEF IInv, TypeOK, ReqType
    <2>6. Plain(r)
      BY <1>1, <1>4 DEF IInv, TypeOK, Plain, Others, Critical
    <2> QED BY <1>2, <2>5, <2>6, PlainKeeps
  <1> QED BY <1>3, <1>4 DEF LoadApply

LEMMA QuitKeeps ==
    ASSUME IInv, NEW r \in Reqs, Quit(r) PROVE IInv'
  <1>1. UNCHANGED <<rel, lock, dismissed, applies>>
    BY DEF Quit
  <1>2. Shrink
    BY QuitRowsShrink DEF IInv, Quit
  <1> DEFINE m == [req[r] EXCEPT !.at = "forget", !.who = {req[r].by}]
  <1>3. req[r] \in ReqType
    BY DEF IInv, TypeOK, ReqType
  <1>4. m \in ReqType
    BY <1>3 DEF ReqType, Stages
  <1>5. req' = [req EXCEPT ![r] = m]
    BY DEF Quit
  <1>6. req' \in [Reqs -> ReqType]
    BY <1>4, <1>5 DEF IInv, TypeOK, ReqType
  <1>7. TypeOK'
    BY <1>1, <1>2, <1>6 DEF IInv, TypeOK, ReqType, Shrink
  <1>8. Plain(r)
    BY <1>1 DEF Quit, IInv, TypeOK, Plain, Others, Critical
  <1> QED BY <1>2, <1>7, <1>8, PlainKeeps
-----------------------------------------------------------------------------
\* Lock: taken when nobody has it, or the call ends.
LEMMA LockKeeps ==
    ASSUME IInv, NEW r \in Reqs, Lock(r) PROVE IInv'
  <1>1. Shrink
    BY SameRowsShrink DEF IInv, Lock
  <1>2. CASE lock # NoReq
    <2>1. UNCHANGED lock /\ MovesOn(r)
      BY <1>2 DEF Lock, MovesOn, Stages, Critical, Resting
    <2> QED BY <1>1, <2>1, MovesOnKeeps DEF Lock, IInv, TypeOK, DataOK
  <1>3. CASE lock = NoReq
    <2>1. lock' = r /\ Goto(r, "cached") /\ req[r].at = "lock"
      BY <1>3 DEF Lock, At
    <2>2. /\ req' \in [Reqs -> ReqType] /\ Others(r)
          /\ req'[r].at = "cached" /\ req'[r].op = req[r].op
          /\ req'[r].blind = req[r].blind
      BY <2>1, GotoFacts DEF IInv, Stages, Critical
    <2>3. TypeOK'
      BY <2>1, <2>2 DEF Lock, IInv, TypeOK, ReqType
    <2>4. OpsKept
      BY <2>2 DEF OpsKept, Others
    <2>5. RowsOK' /\ UNCHANGED InvitedUsers
      <3>1. RowsOK'
        BY <1>1, <2>3, <2>4, ShrinkKeeps DEF IInv
      <3>2. Invited' = Invited
        BY <2>2, <2>4 DEF Lock, IInv, TypeOK, Rows, RowsOK, FromStarted, OpsKept,
           Invited, Live
      <3> QED BY <3>1, <3>2 DEF InvitedUsers
    <2>6. LockHeld'
      <3> SUFFICES ASSUME NEW q \in Reqs, req'[q].op = "invite",
                          req'[q].at \in Critical, q # r
                   PROVE  FALSE
        BY <2>1 DEF LockHeld
      <3>1. lock = q
        BY <2>2 DEF IInv, LockHeld, Others
      <3> QED BY <1>3, <3>1, GroupAssumption
    <2>7. Room' /\ Fresh'
      BY <2>2, <2>5 DEF IInv, Room, Fresh, Others
    <2> QED BY <2>3, <2>5, <2>6, <2>7 DEF IInv
  <1> QED BY <1>2, <1>3

\* UnLock: the caller is the only one in the critical section.
LEMMA UnLockKeeps ==
    ASSUME IInv, NEW r \in Reqs, UnLock(r) PROVE IInv'
  <1>1. lock = r
    BY DEF UnLock, At, IInv, LockHeld, Critical
  <1>2. lock' = NoReq /\ Goto(r, "done")
    BY <1>1 DEF UnLock
  <1>3. /\ req' \in [Reqs -> ReqType] /\ Others(r)
        /\ req'[r].at = "done" /\ req'[r].op = req[r].op
        /\ req'[r].blind = req[r].blind
    BY <1>2, GotoFacts DEF IInv, Stages, Resting
  <1>4. TypeOK'
    BY <1>2, <1>3 DEF UnLock, IInv, TypeOK, ReqType
  <1>5. OpsKept
    BY <1>3 DEF OpsKept, Others
  <1>6. RowsOK' /\ InvitedUsers' \subseteq InvitedUsers
    <2>1. Shrink
      BY SameRowsShrink DEF IInv, UnLock
    <2> QED BY <1>4, <1>5, <2>1, ShrinkKeeps DEF IInv
  <1>7. \A q \in Reqs : ~(req'[q].op = "invite" /\ req'[q].at \in Critical)
    <2> SUFFICES ASSUME NEW q \in Reqs, req'[q].op = "invite",
                        req'[q].at \in Critical
                 PROVE  FALSE
      OBVIOUS
    <2>1. q # r
      BY <1>3 DEF Critical
    <2>2. lock = q
      BY <1>3, <2>1 DEF IInv, LockHeld, Others
    <2> QED BY <1>1, <2>1, <2>2
  <1> QED BY <1>4, <1>6, <1>7 DEF IInv, LockHeld, Room, Fresh, Critical

\* CountMembers: the live rows are at least the invited users, so there is room.
LEMMA CountMembersKeeps ==
    ASSUME IInv, NEW r \in Reqs, CountMembers(r) PROVE IInv'
  <1>1. UNCHANGED <<rows, rel, lock, dismissed, applies>>
    BY DEF CountMembers
  <1>2. Shrink
    BY <1>1, SameRowsShrink DEF IInv
  <1>3. CASE Goto(r, "unlock")
    <2>1. MovesOn(r)
      BY <1>3 DEF CountMembers, At, MovesOn, Stages, Critical, Resting
    <2> QED BY <1>1, <1>2, <2>1, MovesOnKeeps DEF IInv, TypeOK, DataOK
  <1>4. CASE ~(Cardinality(Live) + Cardinality(req[r].who) >= MaxNum) /\
             Goto(r, "members")
    <2>1. /\ req' \in [Reqs -> ReqType] /\ Others(r)
          /\ req'[r] = [req[r] EXCEPT !.at = "members"]
      BY <1>4, GotoFacts DEF IInv, Stages, Critical, Resting
    <2>2. /\ req'[r].at = "members" /\ req'[r].op = req[r].op
          /\ req'[r].who = req[r].who /\ req'[r].blind = req[r].blind
      BY <2>1 DEF IInv, TypeOK
    <2>3. TypeOK'
      BY <1>1, <2>1 DEF IInv, TypeOK, ReqType
    <2>4. OpsKept
      BY <2>1, <2>2 DEF OpsKept, Others
    <2>5. RowsOK' /\ UNCHANGED InvitedUsers
      <3>1. RowsOK'
        BY <1>2, <2>3, <2>4, ShrinkKeeps DEF IInv
      <3>2. Invited' = Invited
        BY <1>1, <2>4 DEF IInv, TypeOK, Rows, RowsOK, FromStarted, OpsKept,
           Invited, Live
      <3> QED BY <3>1, <3>2 DEF InvitedUsers
    <2>6. LockHeld'
      BY <1>1, <2>1, <2>2
         DEF CountMembers, At, IInv, LockHeld, Others, Critical
    <2>7. Cardinality(InvitedUsers) + Cardinality(req[r].who) < MaxNum
      <3>1. /\ Cardinality(Live) \in Nat /\ Cardinality(InvitedUsers) \in Nat
            /\ Cardinality(InvitedUsers) <= Cardinality(Live)
        BY CountCoversInvited DEF IInv, RowsOK
      <3>2. req[r].who \subseteq Users
        BY DEF IInv, TypeOK
      <3>3. Cardinality(req[r].who) \in Nat
        BY <3>2, GroupAssumption, FS_Subset, FS_CardinalityType
      <3> QED BY <1>4, <3>1, <3>3, GroupAssumption
    <2>8. Room'
      BY <2>1, <2>2, <2>5, <2>7 DEF IInv, Room, Others
    <2>9. Fresh'
      BY <2>1, <2>2, <2>5 DEF IInv, Fresh, Others
    <2> QED BY <2>3, <2>5, <2>6, <2>8, <2>9 DEF IInv
  <1> QED BY <1>3, <1>4 DEF CountMembers

\* ReadMembers: those who are members are not inserted.
LEMMA ReadMembersKeeps ==
    ASSUME IInv, NEW r \in Reqs, ReadMembers(r) PROVE IInv'
  <1>1. UNCHANGED <<rows, rel, lock, dismissed, applies>>
    BY DEF ReadMembers
  <1>2. Shrink
    BY <1>1, SameRowsShrink DEF IInv
  <1>3. PICK listed \in {Members, {}} :
          LET new == req[r].who \ listed
          IN  req' = [req EXCEPT ![r].add = new, ![r].blind = @ \/ listed # Members,
                        ![r].at = IF new = {} THEN AfterInvite(r, FALSE) ELSE "insert"]
    BY DEF ReadMembers
  <1> DEFINE new == req[r].who \ listed
             st  == IF new = {} THEN AfterInvite(r, FALSE) ELSE "insert"
             b   == req[r].blind \/ listed # Members
             m   == [req[r] EXCEPT !.add = new, !.blind = b, !.at = st]
  <1>4. /\ req[r] \in ReqType /\ req[r].op \in {"invite", "agree"}
        /\ req[r].at = "members"
    BY DEF ReadMembers, At, IInv, TypeOK, ReqType
  <1>5. st \in {"unlock", "done", "insert"} /\
        (req[r].op = "invite" => st \in {"unlock", "insert"})
    BY <1>4 DEF AfterInvite
  <1>6. m \in ReqType
    <2>1. st \in Stages
      BY <1>5 DEF Stages, Critical, Resting
    <2>2. new \subseteq Users
      BY <1>4 DEF ReqType
    <2> HIDE DEF st, new, b
    <2>3. b \in BOOLEAN
      BY <1>4 DEF b, ReqType
    <2> QED BY <1>4, <2>1, <2>2, <2>3 DEF ReqType
  <1>7. req' = [req EXCEPT ![r] = m]
    BY <1>3
  <1>8. /\ req' \in [Reqs -> ReqType] /\ Others(r)
        /\ req'[r].at = st /\ req'[r].op = req[r].op
        /\ req'[r].who = req[r].who /\ req'[r].add = new /\ req'[r].blind = b
    BY <1>4, <1>6, <1>7 DEF IInv, TypeOK, ReqType, Others
  <1> HIDE DEF m, st
  <1>9. TypeOK'
    BY <1>1, <1>8 DEF IInv, TypeOK, ReqType
  <1>10. OpsKept
    BY <1>4, <1>5, <1>8 DEF OpsKept, Others
  <1>11. RowsOK' /\ UNCHANGED InvitedUsers
    <2>1. RowsOK'
      BY <1>2, <1>9, <1>10, ShrinkKeeps DEF IInv
    <2>2. Invited' = Invited
      BY <1>1, <1>10 DEF IInv, TypeOK, Rows, RowsOK, FromStarted, OpsKept,
         Invited, Live
    <2> QED BY <2>1, <2>2 DEF InvitedUsers
  <1>12. LockHeld'
    BY <1>1, <1>4, <1>5, <1>8 DEF IInv, LockHeld, Others, Critical
  <1>13. Room'
    BY <1>4, <1>8, <1>11 DEF IInv, Room, Others
  <1>14. Fresh'
    <2>1. b \/ new \cap InvitedUsers = {}
      BY DEF Members, InvitedUsers, Invited
    <2>2. new \subseteq req[r].who
      OBVIOUS
    <2> HIDE DEF new, b
    <2> QED BY <1>8, <1>11, <2>1, <2>2 DEF IInv, Fresh, Others
  <1> QED BY <1>9, <1>11, <1>12, <1>13, <1>14 DEF IInv
-----------------------------------------------------------------------------
\* The rows an insertion adds.
NewRows(r) == {[user |-> u, from |-> r, leader |-> 3, quit |-> FALSE] :
                 u \in req[r].add}

LEMMA NewRowsFinite ==
    ASSUME TypeOK, NEW r \in Reqs
    PROVE  IsFiniteSet(NewRows(r)) /\ NewRows(r) \subseteq Rows
  <1> DEFINE f == [u \in req[r].add |->
                     [user |-> u, from |-> r, leader |-> 3, quit |-> FALSE]]
  <1>1. req[r].add \subseteq Users
    BY DEF TypeOK
  <1>2. IsFiniteSet(req[r].add)
    BY <1>1, FS_Subset, GroupAssumption
  <1>3. f \in [req[r].add -> Rows]
    BY <1>1 DEF Rows
  <1>4. NewRows(r) = {f[u] : u \in req[r].add}
    BY DEF NewRows
  <1>5. {f[u] : u \in req[r].add} \subseteq Rows
    BY <1>3
  <1> HIDE DEF f
  <1>6. IsFiniteSet({f[u] : u \in req[r].add})
    BY <1>2, <1>3, ImageFinite
  <1> QED BY <1>4, <1>5, <1>6

\* InsertMembers for an invitation: it alone is in the critical section, so the
\* room it found and the list it read still hold.  For an application: its rows
\* are no invited ones.
LEMMA InsertKeeps ==
    ASSUME IInv, NEW r \in Reqs, req[r].at = "insert",
           req[r].op \in {"invite", "agree"},
           NEW kept, kept \subseteq rows, Live \subseteq kept,
           rows' = kept \cup NewRows(r),
           Goto(r, AfterInvite(r, TRUE)),
           UNCHANGED <<rel, lock, dismissed, applies>>
    PROVE  IInv'
  <1> DEFINE st == AfterInvite(r, TRUE)
  <1>1. /\ st \in Stages \ ({"idle", "members", "insert"} \cup Resting)
        /\ req[r].op = "invite" => st = "unlock"
        /\ req[r].op = "agree" => st = "pass"
    BY DEF AfterInvite, Stages, Critical, Resting
  <1>2. /\ req' \in [Reqs -> ReqType] /\ Others(r)
        /\ req'[r].at = st /\ req'[r].op = req[r].op
        /\ req'[r].blind = req[r].blind
    BY <1>1, GotoFacts DEF IInv
  <1>3. TypeOK'
    BY <1>2, NewRowsFinite DEF IInv, TypeOK, ReqType
  <1>4. OpsKept
    BY <1>1, <1>2 DEF OpsKept, Others
  <1>5. IsFiniteSet(rows')
    <2>1. IsFiniteSet(kept)
      BY FS_Subset DEF IInv, RowsOK
    <2> QED BY <2>1, NewRowsFinite, FS_Union DEF IInv
  <1>6. FromStarted'
    BY <1>4 DEF NewRows, IInv, RowsOK, FromStarted, OpsKept
  <1>7. \A x \in kept : x \in Invited' <=> x \in Invited
    BY <1>4 DEF Invited, Live, IInv, TypeOK, Rows, RowsOK, FromStarted,
       OpsKept
  <1>8. Invited \subseteq kept
    BY DEF Invited
  <1>0. \A x \in Invited : x \in Listed' => x \in Listed
    <2> SUFFICES ASSUME NEW x \in Invited, x \in Listed' PROVE x \in Listed
      OBVIOUS
    <2>1. x \in rows /\ (x.from # NoReq => x.from \in Reqs /\ req[x.from].at # "idle")
      BY DEF Invited, Live, IInv, TypeOK, Rows, RowsOK, FromStarted
    <2> QED BY <1>4, <2>1 DEF Listed, OpsKept
  <1>9. CASE req[r].op = "agree"
    <2>1. \A x \in NewRows(r) : x \notin Invited'
      BY <1>2, <1>9, GroupAssumption DEF NewRows, Invited
    <2>2. Invited' = Invited
      <3>1. Invited' \subseteq kept \cup NewRows(r)
        BY DEF Invited, Live
      <3> QED BY <1>7, <1>8, <2>1, <3>1
    <2>3. UNCHANGED InvitedUsers
      BY <2>2 DEF InvitedUsers
    <2>4. OneRowPerInvited' /\ InvitedStayBelow'
      <3>1. Listed' \subseteq Listed
        BY <1>0, <2>2 DEF Listed
      <3> QED BY <2>2, <2>3, <3>1
              DEF IInv, RowsOK, OneRowPerInvited, InvitedStayBelow
    <2>5. LockHeld' /\ Room' /\ Fresh'
      BY <1>1, <1>2, <1>9, <2>3 DEF IInv, LockHeld, Room, Fresh, Others
    <2> QED BY <1>3, <1>5, <1>6, <2>4, <2>5 DEF IInv, RowsOK
  <1>10. CASE req[r].op = "invite"
    <2>1. lock = r
      BY <1>10 DEF IInv, LockHeld, Critical
    <2>2. Invited' = Invited \cup NewRows(r)
      <3>1. NewRows(r) \subseteq Invited'
        BY <1>2, <1>10 DEF NewRows, Invited, Live
      <3>2. Invited' \subseteq kept \cup NewRows(r)
        BY DEF Invited, Live
      <3> QED BY <1>7, <1>8, <3>1, <3>2
    <2>3. InvitedUsers' = InvitedUsers \cup req[r].add
      <3>1. {x.user : x \in NewRows(r)} = req[r].add
        <4> DEFINE Row(u) == [user |-> u, from |-> r, leader |-> 3, quit |-> FALSE]
        <4>1. ASSUME NEW u \in req[r].add
              PROVE  Row(u) \in NewRows(r) /\ Row(u).user = u
          BY DEF NewRows
        <4>2. ASSUME NEW x \in NewRows(r)
              PROVE  x.user \in req[r].add
          BY DEF NewRows
        <4> HIDE DEF Row
        <4>3. req[r].add \subseteq {x.user : x \in NewRows(r)}
          BY <4>1
        <4>4. {x.user : x \in NewRows(r)} \subseteq req[r].add
          BY <4>2
        <4> QED BY <4>3, <4>4
      <3>2. {x.user : x \in Invited \cup NewRows(r)}
              = {x.user : x \in Invited} \cup {x.user : x \in NewRows(r)}
        OBVIOUS
      <3> QED BY <2>2, <3>1, <3>2 DEF InvitedUsers
    <2>4. /\ req[r].add \subseteq req[r].who
          /\ req[r].blind \/ req[r].add \cap InvitedUsers = {}
      BY <1>10 DEF IInv, Fresh
    <2>5. OneRowPerInvited'
      <3> SUFFICES ASSUME NEW x \in Listed', NEW y \in Listed', x.user = y.user
                   PROVE  x = y
        BY DEF OneRowPerInvited
      <3>0. x \in Invited \cup NewRows(r) /\ y \in Invited \cup NewRows(r)
        BY <2>2 DEF Listed
      <3>1. CASE x \in Invited /\ y \in Invited
        BY <1>0, <3>1 DEF IInv, RowsOK, OneRowPerInvited
      <3>2. CASE x \in NewRows(r) /\ y \in NewRows(r)
        <4>1. PICK u \in req[r].add :
                x = [user |-> u, from |-> r, leader |-> 3, quit |-> FALSE]
          BY <3>2 DEF NewRows
        <4>2. PICK v \in req[r].add :
                y = [user |-> v, from |-> r, leader |-> 3, quit |-> FALSE]
          BY <3>2 DEF NewRows
        <4>3. u = v
          BY <4>1, <4>2
        <4> QED BY <4>1, <4>2, <4>3
      <3>3. ASSUME NEW z \in Listed', z \in NewRows(r) PROVE z.user \notin InvitedUsers
        <4>1. z.from = r /\ z.user \in req[r].add
          BY <3>3 DEF NewRows
        <4>2. ~req[r].blind
          BY <1>2, <4>1, GroupAssumption DEF Listed
        <4> QED BY <2>4, <4>1, <4>2
      <3>4. CASE x \in Invited /\ y \in NewRows(r)
        BY <3>3, <3>4 DEF InvitedUsers
      <3>5. CASE x \in NewRows(r) /\ y \in Invited
        BY <3>3, <3>5 DEF InvitedUsers
      <3> QED BY <3>0, <3>1, <3>2, <3>4, <3>5
    <2>6. Cardinality(InvitedUsers') < MaxNum
      <3>1. /\ IsFiniteSet(InvitedUsers) /\ Cardinality(InvitedUsers) \in Nat
        BY UsersFinite, FS_CardinalityType DEF IInv
      <3>2. req[r].who \subseteq Users
        BY DEF IInv, TypeOK
      <3>3. /\ IsFiniteSet(req[r].who) /\ Cardinality(req[r].who) \in Nat
        BY <3>2, GroupAssumption, FS_Subset, FS_CardinalityType
      <3>4. /\ IsFiniteSet(req[r].add) /\ Cardinality(req[r].add) \in Nat
            /\ Cardinality(req[r].add) <= Cardinality(req[r].who)
        BY <2>4, <3>3, FS_Subset, FS_CardinalityType
      <3>5. /\ Cardinality(InvitedUsers') <= Cardinality(InvitedUsers) + Cardinality(req[r].add)
            /\ Cardinality(InvitedUsers') \in Nat
        <4>1. IsFiniteSet(InvitedUsers \cap req[r].add)
          BY <3>1, FS_Subset
        <4>2. Cardinality(InvitedUsers \cap req[r].add) \in Nat
          BY <4>1, FS_CardinalityType
        <4>3. /\ IsFiniteSet(InvitedUsers \cup req[r].add)
              /\ Cardinality(InvitedUsers \cup req[r].add)
                   = Cardinality(InvitedUsers) + Cardinality(req[r].add)
                       - Cardinality(InvitedUsers \cap req[r].add)
          BY <3>1, <3>4, FS_Union
        <4>4. Cardinality(InvitedUsers \cup req[r].add) \in Nat
          BY <4>3, FS_CardinalityType
        <4> QED BY <2>3, <3>1, <3>4, <4>2, <4>3, <4>4
      <3>6. Cardinality(InvitedUsers) + Cardinality(req[r].who) < MaxNum
        BY <1>10 DEF IInv, Room
      <3> QED BY <3>1, <3>3, <3>4, <3>5, <3>6, GroupAssumption
    <2>7. \A q \in Reqs : req'[q].op = "invite" /\ req'[q].at \in Critical => q = r
      BY <1>2, <2>1 DEF IInv, LockHeld, Others
    <2>8. LockHeld' /\ Room' /\ Fresh'
      BY <1>1, <1>2, <2>1, <2>7 DEF LockHeld, Room, Fresh, Critical
    <2> QED BY <1>3, <1>5, <1>6, <2>5, <2>6, <2>8
            DEF IInv, RowsOK, InvitedStayBelow
  <1> QED BY <1>9, <1>10

LEMMA InsertMembersKeeps ==
    ASSUME IInv, NEW r \in Reqs, InsertMembers(r) PROVE IInv'
  <1>1. PICK left \in {{x \in rows : x.user \in req[r].who /\ x.quit}, {}} :
          rows' = (rows \ left) \cup NewRows(r)
    BY DEF InsertMembers, NewRows
  <1>2. rows \ left \subseteq rows /\ Live \subseteq rows \ left
    BY DEF Live
  <1>3. /\ req[r].at = "insert" /\ req[r].op \in {"invite", "agree"}
        /\ Goto(r, AfterInvite(r, TRUE)) /\ UNCHANGED <<rel, lock, dismissed, applies>>
    BY DEF InsertMembers, At
  <1> QED BY <1>1, <1>2, <1>3, InsertKeeps
-----------------------------------------------------------------------------
\* Redis' expiries: of a cached relation, and of a dead holder's lock.
LEMMA ExpiriesKeep ==
    ASSUME IInv, (\E u \in Users : RelExpires(u)) \/ LockExpires PROVE IInv'
  <1>1. UNCHANGED <<rows, dismissed, applies, req>>
    BY DEF RelExpires, LockExpires
  <1>2. TypeOK'
    BY DEF RelExpires, LockExpires, IInv, TypeOK
  <1>3. LockHeld'
    BY GroupAssumption DEF RelExpires, LockExpires, IInv, LockHeld, Critical
  <1>4. UNCHANGED <<Invited, InvitedUsers, Listed>>
    BY <1>1 DEF Listed, Invited, InvitedUsers, Live
  <1>5. RowsOK' /\ Room' /\ Fresh'
    BY <1>1, <1>4 DEF IInv, RowsOK, FromStarted, OneRowPerInvited,
       InvitedStayBelow, Room, Fresh
  <1> QED BY <1>2, <1>3, <1>5 DEF IInv

LEMMA InitIInv == GroupInit => IInv
  <1> SUFFICES ASSUME GroupInit PROVE IInv
    OBVIOUS
  <1>1. Owner \in Users
    BY GroupAssumption
  <1> DEFINE f == [u \in Founders |->
               [user |-> u, from |-> NoReq, quit |-> FALSE,
                leader |-> IF u = Owner THEN 1 ELSE 3]]
  <1>2. rows = {f[u] : u \in Founders}
    BY DEF GroupInit
  <1>3. f \in [Founders -> Rows]
    BY GroupAssumption DEF Rows
  <1>4. \A u \in Founders : f[u].user = u /\ f[u].from = NoReq
    OBVIOUS
  <1> HIDE DEF f
  <1>5. TypeOK
    BY <1>1, <1>2, <1>3 DEF GroupInit, TypeOK, Idle, Stages, Ops, Resting
  <1>6. IsFiniteSet(rows)
    <2>1. IsFiniteSet(Founders)
      BY GroupAssumption, FS_Subset
    <2> QED BY <1>2, <1>3, <2>1, ImageFinite
  <1>7. \A x \in rows : x.from = NoReq
    BY <1>2, <1>4
  <1>8. FromStarted /\ InvitedStayBelow
    BY <1>7, GroupAssumption DEF FromStarted, InvitedStayBelow, Invited, Live
  <1>9. OneRowPerInvited
    BY <1>2, <1>4 DEF OneRowPerInvited, Listed, Invited, Live
  <1>10. LockHeld /\ Room /\ Fresh
    BY DEF GroupInit, Idle, LockHeld, Room, Fresh
  <1> QED BY <1>5, <1>6, <1>8, <1>9, <1>10 DEF IInv, RowsOK

LEMMA NextIInv == IInv /\ [GroupNext]_vars => IInv'
  <1> SUFFICES ASSUME IInv, [GroupNext]_vars PROVE IInv'
    OBVIOUS
  <1>1. CASE UNCHANGED vars
    BY <1>1 DEF vars, IInv, TypeOK, LockHeld, Room, Fresh, RowsOK, FromStarted,
       OneRowPerInvited, InvitedStayBelow, Listed, Invited, InvitedUsers, Live
  <1>2. ASSUME NEW r \in Reqs, Invite(r) PROVE IInv'
    BY <1>2, LockKeeps, ReadsKeep, CacheAndApplicationsKeep, CountMembersKeeps,
       ReadMembersKeeps, InsertMembersKeeps, UnLockKeeps DEF Invite
  <1>3. ASSUME NEW r \in Reqs, Application(r) PROVE IInv'
    BY <1>3, ReadsKeep, CacheAndApplicationsKeep, LoadApplyKeeps DEF Application
  <1>4. ASSUME NEW r \in Reqs, Leave(r) PROVE IInv'
    BY <1>4, ReadsKeep, CacheAndApplicationsKeep, QuitKeeps, RowChangesKeep
       DEF Leave
  <1>5. ASSUME NEW r \in Reqs, Rule(r) PROVE IInv'
    BY <1>5, ReadsKeep, RowChangesKeep DEF Rule
  <1>6. ASSUME NEW r \in Reqs, Start(r) \/ Fails(r) \/ Dies(r) PROVE IInv'
    BY <1>6, StartKeeps, ReadsKeep
  <1> QED BY <1>1, <1>2, <1>3, <1>4, <1>5, <1>6, ExpiriesKeep DEF GroupNext

\* The inductive invariant holds in every reachable state.
THEOREM GroupInvariant == GroupSpec => []IInv
  BY InitIInv, NextIInv, PTL DEF GroupSpec

\* The types, for all values of the constants.
THEOREM GroupTypes == GroupSpec => []TypeOK
  BY GroupInvariant, PTL DEF IInv

\* However many invitations of the same users overlap, with each other and with
\* departures, removals and agreed applications, the lock keeps a second live
\* row of a user from coming of one that has read the list (OneRowPerInvited).
THEOREM InvitedOnce == GroupSpec => []OneRowPerInvited
  BY GroupInvariant, PTL DEF IInv, RowsOK

\* The count of an invitation is still good when it inserts: founders and
\* invited users stay below GroupMemberMaxNum (InvitedStayBelow).
THEOREM InvitedBelowLimit == GroupSpec => []InvitedStayBelow
  BY GroupInvariant, PTL DEF IInv, RowsOK
=============================================================================
