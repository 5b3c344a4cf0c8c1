---------------------------- MODULE GroupMembers ----------------------------
(***************************************************************************)
(* Who is in a group: the rows of group_member, which invitations, agreed  *)
(* applications, departures, removals, handovers and the dismissal change  *)
(* (src/internal/service/group.go, group_member.go and the handlers of     *)
(* src/internal/apis/handler/web/v1/group), the applications, the Redis    *)
(* lock that invitations take, and the cached answers of "is a member".    *)
(*                                                                         *)
(* One group.  Requests run concurrently, each statement or transaction on *)
(* MySQL and each command to Redis is a step, any of them may fail, and a  *)
(* request may die between two of them.  A holder of the lock is assumed   *)
(* to finish or die within its 20 seconds.                                 *)
(***************************************************************************)
EXTENDS Naturals, FiniteSets

CONSTANTS
    Users,
    Reqs,           \* requests, each of which runs one call
    Calls,          \* the calls made: [op, by, who]
    Owner,          \* the creator of the group
    Founders,       \* the members it was created with, the owner among them
    MaxNum,         \* GroupMemberMaxNum
    NoReq

Ops == {"invite", "read", "apply", "agree", "decline", "secede", "remove",
        "handover", "promote", "demote", "dismiss"}

ASSUME GroupAssumption ==
    /\ IsFiniteSet(Users) /\ IsFiniteSet(Reqs) /\ NoReq \notin Reqs
    /\ Owner \in Founders /\ Founders \subseteq Users
    /\ MaxNum \in Nat \ {0}
    /\ Calls \subseteq [op : Ops, by : Users, who : SUBSET Users]

VARIABLES
    rows,           \* group_member; `from' tells which request inserted a row
    rel,            \* the cached relation of each user to the group: absent,
                    \* kept for an hour, or without a time to live
    lock,           \* the request whose key group_join:<group> exists
    dismissed,
    applies,        \* group_apply, named by the request that created it
    req             \* each request: its call, how far it is, and for good
                    \* whether it went on without the list of members

vars == <<rows, rel, lock, dismissed, applies, req>>

Rows == [user : Users, from : Reqs \cup {NoReq}, leader : 1..3, quit : BOOLEAN]

\* After these stages a request does nothing more.
Resting == {"done", "dead"}

\* Those an invitation passes with the lock.
Critical == {"cached", "exist", "cache", "group", "count", "members", "insert",
             "unlock"}

Stages == Resting \cup Critical \cup
    {"idle", "lock", "find", "create", "load", "leader", "member",
     "cacheApplicant", "pass", "refuse", "row", "quit", "countWho", "kick",
     "forget", "master", "rule"}

Idle == [at |-> "idle", op |-> "read", by |-> Owner, who |-> {},
         app |-> NoReq, add |-> {}, blind |-> FALSE]

GroupInit ==
    /\ rows = {[user |-> u, from |-> NoReq, quit |-> FALSE,
                leader |-> IF u = Owner THEN 1 ELSE 3] : u \in Founders}
    /\ rel = [u \in Users |-> "none"]
    /\ lock = NoReq
    /\ dismissed = FALSE
    /\ applies = {}
    /\ req = [r \in Reqs |-> Idle]

Live == {x \in rows : ~x.quit}
Members == {x.user : x \in Live}

At(r, ops, s) == req[r].op \in ops /\ req[r].at = s

\* The next stage; a request that is through keeps only what it was.
Goto(r, s) ==
    req' = [req EXCEPT ![r] = IF s \in Resting
                                THEN [Idle EXCEPT !.at = s, !.op = req[r].op,
                                                  !.blind = req[r].blind]
                                ELSE [@ EXCEPT !.at = s]]

\* is_quit is set in all rows of these users, as the WHERE clauses name the
\* user and the group.
QuitRows(us) ==
    rows' = {[x EXCEPT !.quit = IF x.user \in us THEN TRUE ELSE @] : x \in rows}
-----------------------------------------------------------------------------
\* What each call does first.
FirstOf(op) ==
    CASE op = "invite" -> "lock"
      [] op = "read" -> "cached"
      [] op = "apply" -> "find"
      [] op \in {"agree", "decline"} -> "load"
      [] op = "secede" -> "row"
      [] op = "remove" -> "leader"
      [] OTHER -> "master"

Start(r) ==
    /\ req[r].at = "idle"
    /\ \E c \in Calls :
         req' = [req EXCEPT ![r] = [at |-> FirstOf(c.op), op |-> c.op,
                    by |-> c.by, who |-> c.who, app |-> NoReq, add |-> {},
                    blind |-> FALSE]]
    /\ UNCHANGED <<rows, rel, lock, dismissed, applies>>

\* Mutant: the invitation goes on without the lock.
LockNever(r) ==
    /\ At(r, {"invite"}, "lock")
    /\ Goto(r, "cached")
    /\ UNCHANGED <<rows, rel, lock, dismissed, applies>>

\* Invite: SET NX of the lock, and the answer "too frequent" without it.
Lock(r) ==
    /\ At(r, {"invite"}, "lock")
    /\ IF lock = NoReq THEN lock' = r /\ Goto(r, "cached")
                       ELSE Goto(r, "done") /\ UNCHANGED lock
    /\ UNCHANGED <<rows, rel, dismissed, applies>>

\* Where the check "is a member" leads.
AfterMember(r, yes) ==
    IF req[r].op = "invite" THEN (IF yes THEN "group" ELSE "unlock") ELSE "done"

\* IsMember with the cache, for an invitation and for reading messages: a hit
\* answers, and is not renewed; a failure is a miss.
CachedMember(r) ==
    /\ At(r, {"invite", "read"}, "cached")
    /\ \/ rel[req[r].by] # "none" /\ Goto(r, AfterMember(r, TRUE))
       \/ Goto(r, "exist")
    /\ UNCHANGED <<rows, rel, lock, dismissed, applies>>

\* ... a miss looks for a live row, and writes the cache only afterwards.
ExistMember(r) ==
    /\ At(r, {"invite", "read"}, "exist")
    /\ Goto(r, IF req[r].by \in Members THEN "cache" ELSE AfterMember(r, FALSE))
    /\ UNCHANGED <<rows, rel, lock, dismissed, applies>>


SetRel(r, u) == rel' = [rel EXCEPT ![u] = "hour"]

\* Nobody looks at whether the cache was written.
CacheRel(r, u) == SetRel(r, u) \/ UNCHANGED rel

CacheMember(r) ==
    /\ At(r, {"invite", "read"}, "cache")
    /\ CacheRel(r, req[r].by)
    /\ Goto(r, AfterMember(r, TRUE))
    /\ UNCHANGED <<rows, lock, dismissed, applies>>

\* The group is not dismissed ...
FindGroup(r) ==
    /\ At(r, {"invite"}, "group")
    /\ Goto(r, IF dismissed THEN "unlock" ELSE "count")
    /\ UNCHANGED <<rows, rel, lock, dismissed, applies>>

\* Mutant: the limit is one higher.
CountMembersOneMore(r) ==
    /\ At(r, {"invite"}, "count")
    /\ Goto(r, IF Cardinality(Live) + Cardinality(req[r].who) > MaxNum
                 THEN "unlock" ELSE "members")
    /\ UNCHANGED <<rows, rel, lock, dismissed, applies>>

\* ... and has room for all those invited.
CountMembers(r) ==
    /\ At(r, {"invite"}, "count")
    /\ Goto(r, IF Cardinality(Live) + Cardinality(req[r].who) >= MaxNum
                 THEN "unlock" ELSE "members")
    /\ UNCHANGED <<rows, rel, lock, dismissed, applies>>

\* Where GroupService.Invite returns to: the handler of the invitation, or that
\* of the application, which marks it passed only when nothing failed.
AfterInvite(r, ok) ==
    IF req[r].op = "invite" THEN "unlock" ELSE IF ok THEN "pass" ELSE "done"

\* GroupService.Invite: who of them is a member already?  When the list cannot
\* be read, nobody is.
ReadMembers(r) ==
    /\ At(r, {"invite", "agree"}, "members")
    /\ \E listed \in {Members, {}} :
         LET new == req[r].who \ listed
         IN  req' = [req EXCEPT ![r].add = new, ![r].blind = @ \/ listed # Members,
                       ![r].at = IF new = {} THEN AfterInvite(r, FALSE) ELSE "insert"]
    /\ UNCHANGED <<rows, rel, lock, dismissed, applies>>

\* Its transaction deletes the rows of those who left, whether or not that
\* works, and inserts.
InsertMembers(r) ==
    /\ At(r, {"invite", "agree"}, "insert")
    /\ \E left \in {{x \in rows : x.user \in req[r].who /\ x.quit}, {}} :
         rows' = (rows \ left) \cup
                   {[user |-> u, from |-> r, leader |-> 3, quit |-> FALSE] :
                      u \in req[r].add}
    /\ Goto(r, AfterInvite(r, TRUE))
    /\ UNCHANGED <<rel, lock, dismissed, applies>>

\* The deferred UnLock: it deletes the key whoever set it, as all set it to 1.
UnLock(r) ==
    /\ At(r, {"invite"}, "unlock")
    /\ lock' = NoReq
    /\ Goto(r, "done")
    /\ UNCHANGED <<rows, rel, dismissed, applies>>
-----------------------------------------------------------------------------
\* An application: a waiting one of the same user is only touched up.
FindApply(r) ==
    /\ At(r, {"apply"}, "find")
    /\ Goto(r, IF \E a \in applies : a.user = req[r].by /\ a.status = "wait"
                 THEN "done" ELSE "create")
    /\ UNCHANGED <<rows, rel, lock, dismissed, applies>>

CreateApply(r) ==
    /\ At(r, {"apply"}, "create")
    /\ applies' = applies \cup {[id |-> r, user |-> req[r].by, status |-> "wait"]}
    /\ Goto(r, "done")
    /\ UNCHANGED <<rows, rel, lock, dismissed>>

\* Agree and Decline load the application; one that does not wait is left.
LoadApply(r) ==
    /\ At(r, {"agree", "decline"}, "load")
    /\ \/ \E a \in applies :
            /\ a.status = "wait"
            /\ req' = [req EXCEPT ![r].at = "leader", ![r].app = a.id,
                                  ![r].who = {a.user}]
       \/ Goto(r, "done")
    /\ UNCHANGED <<rows, rel, lock, dismissed, applies>>

\* IsLeader: the owner and the administrators.
IsLeader(r) ==
    /\ At(r, {"agree", "decline", "remove"}, "leader")
    /\ IF \E x \in Live : x.user = req[r].by /\ x.leader \in {1, 2}
         THEN Goto(r, CASE req[r].op = "agree" -> "member"
                        [] req[r].op = "decline" -> "refuse"
                        [] OTHER -> "countWho")
         ELSE Goto(r, "done")
    /\ UNCHANGED <<rows, rel, lock, dismissed, applies>>

\* Agree asks the database whether the applicant is a member already, and takes
\* a failure for no; it takes no lock and looks at neither the limit nor the
\* dismissal.
ApplicantIsMember(r) ==
    /\ At(r, {"agree"}, "member")
    /\ \/ req[r].who \subseteq Members /\ Goto(r, "cacheApplicant")
       \/ Goto(r, "members")
    /\ UNCHANGED <<rows, rel, lock, dismissed, applies>>

CacheApplicant(r) ==
    /\ At(r, {"agree"}, "cacheApplicant")
    /\ \E u \in req[r].who : CacheRel(r, u)
    /\ Goto(r, "pass")
    /\ UNCHANGED <<rows, lock, dismissed, applies>>

\* Mutant: the status is stored under another name.
SetStatusNamed(r, status) ==
    /\ applies' = {IF a.id = req[r].app THEN [a EXCEPT !.status = "agreed"] ELSE a :
                     a \in applies}
    /\ Goto(r, "done")
    /\ UNCHANGED <<rows, rel, lock, dismissed>>

\* The application's status, written whatever it is by now.
SetStatus(r, status) ==
    /\ applies' = {IF a.id = req[r].app THEN [a EXCEPT !.status = status] ELSE a :
                     a \in applies}
    /\ Goto(r, "done")
    /\ UNCHANGED <<rows, rel, lock, dismissed>>

Pass(r) == At(r, {"agree"}, "pass") /\ SetStatus(r, "pass")
Refuse(r) == At(r, {"decline"}, "refuse") /\ SetStatus(r, "refuse")
-----------------------------------------------------------------------------
\* Secede: a live row that is not the owner's (the first one found, if a user
\* has several) ...
FindRow(r) ==
    /\ At(r, {"secede"}, "row")
    /\ \/ \E x \in Live :
            /\ x.user = req[r].by
            /\ Goto(r, IF x.leader = 1 THEN "done" ELSE "quit")
       \/ req[r].by \notin Members /\ Goto(r, "done")
    /\ UNCHANGED <<rows, rel, lock, dismissed, applies>>

\* ... and later all rows of the user, whatever they are by then.
Quit(r) ==
    /\ At(r, {"secede"}, "quit")
    /\ QuitRows({req[r].by})
    /\ req' = [req EXCEPT ![r].at = "forget", ![r].who = {req[r].by}]
    /\ UNCHANGED <<rel, lock, dismissed, applies>>

\* RemoveMember: as many live rows as there are users to remove.
CountWho(r) ==
    /\ At(r, {"remove"}, "countWho")
    /\ Goto(r, IF Cardinality({x \in Live : x.user \in req[r].who})
                    = Cardinality(req[r].who) THEN "kick" ELSE "done")
    /\ UNCHANGED <<rows, rel, lock, dismissed, applies>>

Kick(r) ==
    /\ At(r, {"remove"}, "kick")
    /\ QuitRows(req[r].who)
    /\ Goto(r, "forget")
    /\ UNCHANGED <<rel, lock, dismissed, applies>>

\* Both drop the cached relations when the transaction is through, those that
\* Redis lets them.
Forget(r) ==
    /\ At(r, {"secede", "remove"}, "forget")
    /\ \E us \in SUBSET req[r].who :
         rel' = [u \in Users |-> IF u \in us THEN "none" ELSE rel[u]]
    /\ Goto(r, "done")
    /\ UNCHANGED <<rows, lock, dismissed, applies>>
-----------------------------------------------------------------------------
\* IsMaster: what only the owner may do.
IsMaster(r) ==
    /\ At(r, {"handover", "promote", "demote", "dismiss"}, "master")
    /\ Goto(r, IF /\ \E x \in Live : x.user = req[r].by /\ x.leader = 1
                  /\ req[r].op = "handover" => req[r].by \notin req[r].who
                 THEN "rule" ELSE "done")
    /\ UNCHANGED <<rows, rel, lock, dismissed, applies>>

\* One transaction: the old owner's owner row becomes ordinary, and the rows of
\* the new one become the owner's.
Handover(r) ==
    /\ At(r, {"handover"}, "rule")
    /\ rows' = {[x EXCEPT !.leader = IF x.user \in req[r].who THEN 1
                            ELSE IF x.user = req[r].by /\ @ = 1 THEN 3 ELSE @] :
                  x \in rows}
    /\ Goto(r, "done")
    /\ UNCHANGED <<rel, lock, dismissed, applies>>

\* AssignAdmin, to and from.
SetLeaderStatus(r) ==
    /\ At(r, {"promote", "demote"}, "rule")
    /\ rows' = {[x EXCEPT !.leader = IF x.user \notin req[r].who THEN @
                            ELSE IF req[r].op = "promote" THEN 2 ELSE 3] :
                  x \in rows}
    /\ Goto(r, "done")
    /\ UNCHANGED <<rel, lock, dismissed, applies>>

\* Dismiss: the group and all its rows; the cached relations stay.
Dismiss(r) ==
    /\ At(r, {"dismiss"}, "rule")
    /\ dismissed' = TRUE
    /\ QuitRows(Users)
    /\ Goto(r, "done")
    /\ UNCHANGED <<rel, lock, applies>>
-----------------------------------------------------------------------------
\* These stages pass over a failure.
Unheeded == {"lock", "cached", "cache", "cacheApplicant", "forget", "unlock"}

\* A statement fails: the request ends in an error, or in the answer that nobody
\* is a member, and an invitation gives its lock back.
Fails(r) ==
    /\ req[r].at \notin Resting \cup Unheeded \cup {"idle"}
    /\ \/ req[r].op = "invite" /\ req[r].at \in Critical /\ Goto(r, "unlock")
       \/ req[r].op # "invite" /\ Goto(r, "done")
    /\ UNCHANGED <<rows, rel, lock, dismissed, applies>>

\* The process that holds the lock is killed, or its UnLock fails.  A request
\* that dies without it takes no further step.
Dies(r) ==
    /\ lock = r /\ req[r].at \notin Resting
    /\ Goto(r, "dead")
    /\ UNCHANGED <<rows, rel, lock, dismissed, applies>>

\* The key of a holder that died runs out.
LockExpires ==
    /\ lock # NoReq /\ req[lock].at = "dead"
    /\ lock' = NoReq
    /\ UNCHANGED <<rows, rel, dismissed, applies, req>>

\* A cached relation lives for an hour.
RelExpires(u) ==
    /\ rel[u] = "hour"
    /\ rel' = [rel EXCEPT ![u] = "none"]
    /\ UNCHANGED <<rows, lock, dismissed, applies, req>>

Invite(r) ==
    \/ Lock(r) \/ CachedMember(r) \/ ExistMember(r) \/ CacheMember(r)
    \/ FindGroup(r) \/ CountMembers(r) \/ ReadMembers(r) \/ InsertMembers(r)
    \/ UnLock(r)
Application(r) ==
    \/ FindApply(r) \/ CreateApply(r) \/ LoadApply(r) \/ IsLeader(r)
    \/ ApplicantIsMember(r) \/ CacheApplicant(r) \/ Pass(r) \/ Refuse(r)
Leave(r) == FindRow(r) \/ Quit(r) \/ CountWho(r) \/ Kick(r) \/ Forget(r)
Rule(r) == IsMaster(r) \/ Handover(r) \/ SetLeaderStatus(r) \/ Dismiss(r)

GroupNext ==
    \/ \E r \in Reqs :
         \/ Start(r) \/ Invite(r) \/ Application(r) \/ Leave(r) \/ Rule(r)
         \/ Fails(r) \/ Dies(r)
    \/ \E u \in Users : RelExpires(u)
    \/ LockExpires

GroupSpec == GroupInit /\ [][GroupNext]_vars

\* Redis expires what has a time to live.
FairGroupSpec == GroupSpec /\ \A u \in Users : WF_vars(RelExpires(u))
-----------------------------------------------------------------------------
\* The variables have their types.
TypeOK ==
    /\ rows \subseteq Rows
    /\ rel \in [Users -> {"none", "hour", "endless"}]
    /\ lock \in Reqs \cup {NoReq}
    /\ dismissed \in BOOLEAN
    /\ applies \subseteq
         [id : Reqs, user : Users, status : {"wait", "pass", "refuse"}]
    /\ req \in [Reqs -> [at : Stages, op : Ops, by : Users, who : SUBSET Users,
                        app : Reqs \cup {NoReq}, add : SUBSET Users,
                        blind : BOOLEAN]]

\* The live rows of founders and invited users: those no application made.
Invited == {x \in Live : x.from = NoReq \/ req[x.from].op = "invite"}
InvitedUsers == {x.user : x \in Invited}

\* Of those, the ones whose request had the list of members.
Listed == {x \in Invited : x.from # NoReq => ~req[x.from].blind}

\* However invitations overlap, fail and die, one that has read the list of
\* members gives nobody a second live row: the list is read and the rows are
\* inserted under the lock.
OneRowPerInvited ==
    \A x, y \in Listed : x.user = y.user => x = y

\* Once anybody was invited, founders and invited users together stay below
\* GroupMemberMaxNum, whatever leaves and returns meanwhile, and even when the
\* list of members could not be read.
InvitedStayBelow ==
    (\E x \in Invited : x.from # NoReq) => Cardinality(InvitedUsers) < MaxNum

=============================================================================
