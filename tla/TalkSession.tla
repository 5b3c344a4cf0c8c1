---------------------------- MODULE TalkSession ----------------------------
(***************************************************************************)
(* Conversations of two users.  Each of the two has rows of his own in     *)
(* talk_session; a row's session_id ("link" here) is to join his row with  *)
(* the other's, and a message is filed under the link of its sender's row. *)
(* Rows are made by TalkSessionService.Create, by pinning or muting a      *)
(* conversation that has none (Top, Disturb) and by accepting a contact.   *)
(*                                                                         *)
(* The table's index on (user, receiver, mode) is not unique, and no       *)
(* method but Accept uses a transaction: every statement is a step.  A     *)
(* request that returns an error or whose process dies takes no further    *)
(* step; where the code looks past the error of a statement, the step goes *)
(* on as the request does.                                                 *)
(*                                                                         *)
(* Groups, message contents and the flags that only the list of            *)
(* conversations shows (is_top, is_disturb, is_robot and is_delete, which  *)
(* hides a conversation until the next message) are left out.              *)
(***************************************************************************)
EXTENDS Naturals, Sequences, FiniteSetsExt

CONSTANTS
  Users,       \* users whose conversations are modelled
  Strangers,   \* users who only own rows that were there before
  Older,       \* such rows: the ids of the modelled ones need not start at 1
  Robots,      \* users the login job opens a conversation with
  Colleagues,  \* pairs of users who may talk without being contacts
  Days,        \* values for retain_days; 0 keeps messages for good
  Reqs,        \* requests and jobs that may be between two statements
  MaxRows,     \* bound on the rows of talk_session
  MaxMsgs      \* bound on the rows of talk_user_message

ASSUME TalkAssumption ==
  /\ Older \in Seq([user: Strangers, peer: Strangers, link: 0..MaxRows, retain: {0}])
  /\ Len(Older) <= MaxRows
  /\ Users \cap Strangers = {}
  /\ Robots \subseteq Users
  /\ \A c \in Colleagues : c \subseteq Users
  /\ Days \subseteq Nat
  /\ MaxRows \in Nat
  /\ MaxMsgs \in Nat

VARIABLES
  rows,      \* talk_session in the order of its ids, for private mode
  msgs,      \* talk_user_message in the order of its ids
  friends,   \* contact: <<u, v>> when u has v with status normal
  applies,   \* contact_apply: <<applier, friend>>
  req        \* what each request under way has learnt so far

talkVars == <<rows, msgs, friends, applies, req>>

-----------------------------------------------------------------------------
(* Rows *)

Row == [user: Users \cup Strangers, peer: Users \cup Strangers,
        link: 0..MaxRows, retain: Days \cup {0}]

NewRow(u, v, link) ==
  [user |-> u, peer |-> v, link |-> link, retain |-> 0]

Message == [from: Users, to: Users, link: 0..MaxRows, paired: BOOLEAN]

Idle == [at |-> "idle"]

\* A request that is about to run the statement "at".
Request ==
  {Idle}
    \cup [at: {"reverse", "top", "accept", "send"}, user: Users, peer: Users]
    \cup [at: {"insert"}, user: Users, peer: Users, link: 0..1]
    \cup [at: {"ownLink", "pair", "pairInsert"}, user: Users, peer: Users, id: 1..MaxRows,
          link: 0..MaxRows]
    \cup [at: {"pairLink"}, id: 1..MaxRows, link: 1..MaxRows]
    \cup [at: {"retain"}, user: Users, peer: Users, link: 1..MaxRows, days: Days]
    \cup [at: {"sendInsert"}, user: Users, peer: Users, link: 0..MaxRows, paired: BOOLEAN]

TypeOK ==
  /\ rows \in Seq(Row) /\ Len(rows) <= MaxRows
  /\ msgs \in Seq(Message) /\ Len(msgs) <= MaxMsgs
  /\ friends \subseteq Users \X Users
  /\ applies \subseteq Users \X Users
  /\ req \in [Reqs -> Request]

RowsOf(u, v) == {i \in DOMAIN rows : rows[i].user = u /\ rows[i].peer = v}

\* FindByWhere returns the first row, or a blank one with id 0.
First(u, v) == IF RowsOf(u, v) = {} THEN 0 ELSE Min(RowsOf(u, v))

IsFriend(u, v) == <<u, v>> \in friends /\ <<v, u>> \in friends
IsAuth(u, v)   == {u, v} \in Colleagues \/ IsFriend(u, v)

\* The two rows read for a conversation carry the id of one of its rows, and
\* no request is about to give one of them a link.
Paired(u, v) ==
  /\ First(u, v) # 0 /\ First(v, u) # 0
  /\ rows[First(u, v)].link = rows[First(v, u)].link
  /\ rows[First(u, v)].link \in RowsOf(u, v) \cup RowsOf(v, u)
  /\ \A r \in Reqs :
       req[r].at \in {"ownLink", "pairLink"} => req[r].id \notin {First(u, v), First(v, u)}

Goto(r, next) == req' = [req EXCEPT ![r] = next]
Finish(r) == Goto(r, Idle)

Init ==
  /\ rows \in {<<>>, Older}
  /\ msgs = <<>>
  /\ friends = {}
  /\ applies = {}
  /\ req = [r \in Reqs |-> Idle]

-----------------------------------------------------------------------------
(* TalkSessionService.Create *)

\* A conversation the user has already is only shown again.
Create(r, u, v) ==
  /\ req[r] = Idle
  /\ u # v /\ (IsAuth(u, v) \/ v \in Robots)
  /\ First(u, v) = 0
  /\ Goto(r, [at |-> "reverse", user |-> u, peer |-> v])
  /\ UNCHANGED <<rows, msgs, friends, applies>>

\* Mutant: the link is the other's row id as it is.
CreateReverseById(r) ==
  LET q == req[r]
  IN /\ q.at = "reverse"
     /\ \E found \in {First(q.peer, q.user), 0} :
          Goto(r, [at |-> "insert", user |-> q.user, peer |-> q.peer, link |-> found])
     /\ UNCHANGED <<rows, msgs, friends, applies>>

\* The link is the lesser of the other's row id and of the id expected for the
\* new row; the latter is taken from a row that has no id yet. A lookup that
\* fails reads as no row.
CreateReverse(r) ==
  LET q == req[r]
  IN /\ q.at = "reverse"
     /\ \E found \in {First(q.peer, q.user), 0} :
          Goto(r, [at |-> "insert", user |-> q.user, peer |-> q.peer,
                   link |-> IF found = 0 THEN 0 ELSE Min({found, 0 + 1})])
     /\ UNCHANGED <<rows, msgs, friends, applies>>

CreateInsert(r) ==
  LET q == req[r]
      id == Len(rows) + 1
  IN /\ q.at = "insert"
     /\ Len(rows) < MaxRows
     /\ rows' = Append(rows, NewRow(q.user, q.peer, q.link))
     /\ Goto(r, [at |-> IF q.link = 0 THEN "ownLink" ELSE "pair",
                 user |-> q.user, peer |-> q.peer, id |-> id, link |-> q.link])
     /\ UNCHANGED <<msgs, friends, applies>>

\* Nobody looks whether the update succeeds.
CreateOwnLink(r) ==
  LET q == req[r]
  IN /\ q.at = "ownLink"
     /\ rows' \in {rows, [rows EXCEPT ![q.id].link = q.id]}
     /\ Goto(r, [at |-> "pair", user |-> q.user, peer |-> q.peer, id |-> q.id, link |-> q.id])
     /\ UNCHANGED <<msgs, friends, applies>>

\* The other's row is looked up again, to be made or linked if need be; an
\* error of this lookup, or of the write, is not reported.
CreatePair(r) ==
  LET q == req[r]
      found == First(q.peer, q.user)
  IN /\ q.at = "pair"
     /\ \/ found = 0 /\ Goto(r, [q EXCEPT !.at = "pairInsert"])
        \/ /\ found # 0 /\ rows[found].link = 0
           /\ Goto(r, [at |-> "pairLink", id |-> found, link |-> q.link])
        \/ Finish(r)
     /\ UNCHANGED <<rows, msgs, friends, applies>>

CreatePairInsert(r) ==
  LET q == req[r]
  IN /\ q.at = "pairInsert"
     /\ Len(rows) < MaxRows
     /\ rows' \in {rows, Append(rows, NewRow(q.peer, q.user, q.id))}
     /\ Finish(r)
     /\ UNCHANGED <<msgs, friends, applies>>

CreatePairLink(r) ==
  LET q == req[r]
  IN /\ q.at = "pairLink"
     /\ rows' \in {rows, [rows EXCEPT ![q.id].link = q.link]}
     /\ Finish(r)
     /\ UNCHANGED <<msgs, friends, applies>>

-----------------------------------------------------------------------------
(* Pinning and muting *)

\* Top and Disturb: the row is made when the update has found none.
Top(r, u, v) ==
  /\ req[r] = Idle
  /\ u # v /\ First(u, v) = 0
  /\ Goto(r, [at |-> "top", user |-> u, peer |-> v])
  /\ UNCHANGED <<rows, msgs, friends, applies>>

TopInsert(r) ==
  LET q == req[r]
  IN /\ q.at = "top"
     /\ Len(rows) < MaxRows
     /\ rows' = Append(rows, NewRow(q.user, q.peer, 0))
     /\ Finish(r)
     /\ UNCHANGED <<msgs, friends, applies>>

-----------------------------------------------------------------------------
(* Contacts *)

ApplyCreate(u, v) ==
  /\ u # v /\ ~IsFriend(u, v)
  /\ applies' = applies \cup {<<u, v>>}
  /\ UNCHANGED <<rows, msgs, friends, req>>

ApplyDecline(u, v) ==
  /\ applies' = applies \ {<<u, v>>}
  /\ UNCHANGED <<rows, msgs, friends, req>>

\* The application of u is read before the transaction that accepts it.
Accept(r, u, v) ==
  /\ req[r] = Idle
  /\ <<u, v>> \in applies
  /\ Goto(r, [at |-> "accept", user |-> u, peer |-> v])
  /\ UNCHANGED <<rows, msgs, friends, applies>>

\* Mutant: accepting joins all rows of the two anew.
AcceptTxRelinks(r) ==
  LET q == req[r]
      id == Len(rows) + 1
      mine == RowsOf(q.user, q.peer)
  IN /\ q.at = "accept"
     /\ id < MaxRows
     /\ friends' = friends \cup {<<q.user, q.peer>>, <<q.peer, q.user>>}
     /\ rows' = [i \in DOMAIN rows |-> IF i \in mine THEN [rows[i] EXCEPT !.link = id] ELSE rows[i]]
                  \o <<NewRow(q.user, q.peer, id), NewRow(q.peer, q.user, id)>>
     /\ applies' = applies \ {<<q.user, q.peer>>}
     /\ Goto(r, [at |-> "send", user |-> q.peer, peer |-> q.user])
     /\ UNCHANGED msgs

\* Nothing keeps the two inserts from succeeding again: new rows every time,
\* joined by the first one's id.  A message from the one who accepts follows.
AcceptTx(r) ==
  LET q == req[r]
      id == Len(rows) + 1
  IN /\ q.at = "accept"
     /\ id < MaxRows
     /\ friends' = friends \cup {<<q.user, q.peer>>, <<q.peer, q.user>>}
     /\ rows' = rows \o <<NewRow(q.user, q.peer, id), NewRow(q.peer, q.user, id)>>
     /\ applies' = applies \ {<<q.user, q.peer>>}
     /\ Goto(r, [at |-> "send", user |-> q.peer, peer |-> q.user])
     /\ UNCHANGED msgs

\* u drops v, and a message in v's name tells u.
ContactDelete(r, u, v) ==
  /\ req[r] = Idle
  /\ u # v
  /\ friends' = friends \ {<<u, v>>}
  /\ Goto(r, [at |-> "send", user |-> v, peer |-> u])
  /\ UNCHANGED <<rows, msgs, applies>>

-----------------------------------------------------------------------------
(* CreatePrivateMessage *)

\* A handler asks for permission and then has the message made.
Send(r, u, v) ==
  /\ req[r] = Idle
  /\ u # v /\ IsAuth(u, v)
  /\ Goto(r, [at |-> "send", user |-> u, peer |-> v])
  /\ UNCHANGED <<rows, msgs, friends, applies>>

\* Mutant: the link of a row is not looked at.
SendOwnById(r) ==
  LET q == req[r]
  IN /\ q.at = "send"
     /\ \E own \in {First(q.user, q.peer), 0} :
          Goto(r, [at |-> "sendInsert", user |-> q.user, peer |-> q.peer,
                   link |-> own, paired |-> own # 0 /\ Paired(q.user, q.peer)])
     /\ UNCHANGED <<rows, msgs, friends, applies>>

\* The sender's first row names the link, or stands in for it. A lookup that
\* fails reads as no row, and the message is sent all the same.
SendOwn(r) ==
  LET q == req[r]
  IN /\ q.at = "send"
     /\ \E own \in {First(q.user, q.peer), 0} :
          Goto(r, [at |-> "sendInsert", user |-> q.user, peer |-> q.peer,
                   link |-> IF own = 0 THEN 0
                            ELSE IF rows[own].link = 0 THEN own ELSE rows[own].link,
                   paired |-> own # 0 /\ Paired(q.user, q.peer)])
     /\ UNCHANGED <<rows, msgs, friends, applies>>

\* "paired" is kept for the properties only: the conversation was joined when
\* the sender's row was read.
SendInsert(r) ==
  LET q == req[r]
  IN /\ q.at = "sendInsert"
     /\ Len(msgs) < MaxMsgs
     /\ msgs' = Append(msgs, [from |-> q.user, to |-> q.peer, link |-> q.link, paired |-> q.paired])
     /\ Finish(r)
     /\ UNCHANGED <<rows, friends, applies>>

-----------------------------------------------------------------------------
(* SetRetainDays *)

LinkedBy(link) == {i \in DOMAIN rows : rows[i].link = link}

\* u's last row with the link and the first row of someone else must face
\* each other.
RetainCheck(r, u, link, days) ==
  LET own   == {i \in LinkedBy(link) : rows[i].user = u}
      other == LinkedBy(link) \ own
  IN /\ req[r] = Idle
     /\ own # {} /\ other # {}
     /\ rows[Max(own)].peer = rows[Min(other)].user
     /\ rows[Min(other)].peer = u
     /\ Goto(r, [at |-> "retain", user |-> u, peer |-> rows[Max(own)].peer,
                 link |-> link, days |-> days])
     /\ UNCHANGED <<rows, msgs, friends, applies>>

\* Mutant: only the row of the one who asks is set.
RetainUpdateOwn(r) ==
  LET q == req[r]
  IN /\ q.at = "retain"
     /\ rows' = [i \in DOMAIN rows |->
                   IF i \in LinkedBy(q.link) /\ rows[i].user = q.user
                   THEN [rows[i] EXCEPT !.retain = q.days] ELSE rows[i]]
     /\ Goto(r, [at |-> "send", user |-> q.user, peer |-> q.peer])
     /\ UNCHANGED <<msgs, friends, applies>>

\* All rows with the link are set, and a message says so.
RetainUpdate(r) ==
  LET q == req[r]
  IN /\ q.at = "retain"
     /\ rows' = [i \in DOMAIN rows |->
                   IF i \in LinkedBy(q.link) THEN [rows[i] EXCEPT !.retain = q.days] ELSE rows[i]]
     /\ Goto(r, [at |-> "send", user |-> q.user, peer |-> q.peer])
     /\ UNCHANGED <<msgs, friends, applies>>

-----------------------------------------------------------------------------
(* Specification *)

Step(r) ==
  \/ CreateReverse(r) \/ CreateInsert(r) \/ CreateOwnLink(r)
  \/ CreatePair(r) \/ CreatePairInsert(r) \/ CreatePairLink(r)
  \/ TopInsert(r)
  \/ AcceptTx(r)
  \/ SendOwn(r) \/ SendInsert(r)
  \/ RetainUpdate(r)

Start(r) ==
  \/ \E u, v \in Users :
       \/ Create(r, u, v) \/ Top(r, u, v) \/ Send(r, u, v)
       \/ Accept(r, u, v) \/ ContactDelete(r, u, v)
  \/ \E u \in Users, link \in 1..MaxRows, days \in Days : RetainCheck(r, u, link, days)

Next ==
  \/ \E r \in Reqs : Start(r) \/ Step(r)
  \/ \E u, v \in Users : ApplyCreate(u, v) \/ ApplyDecline(u, v)

Spec == Init /\ [][Next]_talkVars

-----------------------------------------------------------------------------
(* Properties *)

\* Once the two rows of a conversation carry the id of one of them, and the
\* requests that made them are past writing links, they keep it: no request
\* that found other rows earlier, no second set of rows and no new acceptance
\* parts them, so the history of the two is not split any more.
PairedStaysPaired ==
  [][rows' # rows =>
       \A u, v \in Users :
         Paired(u, v) => /\ First(u, v)' = First(u, v)
                         /\ rows'[First(u, v)].link = rows[First(u, v)].link]_rows

\* FindAllRecords: the messages filed under the link of the reader's row, or
\* under that of the blank row.
History(u, v) ==
  {m \in DOMAIN msgs :
     msgs[m].link = IF First(u, v) = 0 THEN 0 ELSE rows[First(u, v)].link}

\* What is sent in such a conversation, by a request that could read its
\* sender's row, is in the history of both for good.
BothSeeWhatWasSent ==
  \A m \in DOMAIN msgs :
    msgs[m].paired => m \in History(msgs[m].from, msgs[m].to) \cap History(msgs[m].to, msgs[m].from)

\* The two sides of such a conversation that read the same retain_days go on
\* doing so, whichever of the two sets it and whatever other rows there are.
RetentionStaysAgreed ==
  [][rows' # rows =>
       \A u, v \in Users :
         /\ Paired(u, v) /\ rows[First(u, v)].retain = rows[First(v, u)].retain
         => rows'[First(u, v)].retain = rows'[First(v, u)].retain]_rows

\* session_id is to join the two rows of one conversation.
LinkOfOnePair ==
  \A i, j \in DOMAIN rows :
    rows[i].link = rows[j].link /\ rows[i].link # 0
      => {rows[i].user, rows[i].peer} = {rows[j].user, rows[j].peer}
=============================================================================
