---------------------------- MODULE PrivateChat ----------------------------
(***************************************************************************)
(* What surrounds a private message: the row in talk_user_message, the     *)
(* receiver's unread counter and the preview of the conversation in Redis, *)
(* and the events published for the comet processes.  Four writes to three *)
(* stores with nothing around them, so every statement is a step; requests *)
(* of both users, of their several devices, and runs of the retention job  *)
(* overlap.                                                                *)
(*                                                                         *)
(* The two rows of the conversation are joined and its retention is set;   *)
(* how they come to be is TalkSession.  The expiry of a counter after 14   *)
(* days without a message is left out.                                     *)
(*                                                                         *)
(* The code looks at hardly any error of Redis: a command that fails is    *)
(* passed over and the request goes on.  "lost" keeps what nobody was told *)
(* that way, for the properties to except just that.  That setting the     *)
(* preview fails is left out.  A request that returns an error or whose    *)
(* process dies takes no further step.                                     *)
(***************************************************************************)
EXTENDS Naturals, Sequences, FiniteSets

CONSTANTS
  Users,      \* the two users of the conversation
  Writers,    \* those of the two who write
  Readers,    \* those of the two who read
  Reqs,       \* requests and runs of the job that may overlap
  MaxMsgs,    \* bound on the messages
  Revocable,  \* bound: the messages their sender may revoke
  Deletable,  \* bound: the messages a user may delete
  MaxForward, \* messages one forwarding may carry
  MaxUnread,  \* bound on an unread counter
  MaxLost     \* bound on what is lost; nothing fails once it is reached

ASSUME ChatAssumption ==
  /\ \E u, v \in Users : u # v /\ Users = {u, v}
  /\ Writers \subseteq Users /\ Readers \subseteq Users
  /\ MaxMsgs \in Nat
  /\ MaxForward \in Nat
  /\ MaxUnread \in Nat
  /\ MaxLost \in Nat

VARIABLES
  msgs,       \* talk_user_message in the order of its ids
  unread,     \* im:unread: of each user for the conversation
  preview,    \* whether im:message:last_message has one; a field for both users
  published,  \* events on im:message:chat:all so far
  lost,       \* history: what nobody was told of because a command failed
  req         \* what each request under way has learnt so far

chatVars == <<msgs, unread, preview, published, lost, req>>

Peer(u) == CHOOSE v \in Users : v # u

\* "new": for three minutes.  "gone": is_deleted, set by a user or by the job.
Message == [from: Users, how: {"sent", "forwarded"}, read: BOOLEAN, revoked: BOOLEAN,
            gone: BOOLEAN, new: BOOLEAN]

NewMessage(u, how) ==
  [from |-> u, how |-> how, read |-> FALSE, revoked |-> FALSE, gone |-> FALSE, new |-> TRUE]

MsgIds == 1..MaxMsgs

\* A new message, its revocation, and that its receiver has read it.
Event == [kind: {"msg", "revoke", "read"}, msg: MsgIds]

\* A message that was not counted, an event that was not published.
Loss == [kind: {"count", "revoke", "read"}, msg: MsgIds]

Of(kind, ids) == {[kind |-> kind, msg |-> m] : m \in ids}

Idle == [at |-> "idle"]

Request ==
  {Idle}
    \cup [at: {"preview", "publish", "incr"}, user: Users, msg: MsgIds]
    \cup [at: {"fwdIncr", "fwdInsert", "fwdPublish"}, user: Users, left: 0..MaxForward,
          ids: SUBSET MsgIds]
    \cup [at: {"select", "mark", "reread", "push"}, user: Users, ids: SUBSET MsgIds]
    \cup [at: {"end"}, user: Users]
    \cup [at: {"revoke", "revokePreview", "revokePublish"}, msg: MsgIds]
    \cup [at: {"empty", "delete"}]

TypeOK ==
  /\ msgs \in Seq(Message) /\ Len(msgs) <= MaxMsgs
  /\ unread \in [Users -> 0..MaxUnread]
  /\ preview \in BOOLEAN
  /\ published \subseteq Event /\ lost \subseteq Loss
  /\ req \in [Reqs -> Request]

\* Messages to u.
To(u) == {m \in DOMAIN msgs : msgs[m].from # u}
UnreadBy(u) == {m \in To(u) : ~msgs[m].read}

Goto(r, next) == req' = [req EXCEPT ![r] = next]
Finish(r) == Goto(r, Idle)

Init ==
  /\ msgs = <<>>
  /\ unread = [u \in Users |-> 0]
  /\ preview = FALSE
  /\ published = {} /\ lost = {}
  /\ req = [r \in Reqs |-> Idle]

Incr(u) ==
  /\ unread[u] < MaxUnread
  /\ unread' = [unread EXCEPT ![u] = @ + 1]

MayFail == Cardinality(lost) < MaxLost

Publish(kind, ids) ==
  /\ published' = published \cup Of(kind, ids)
  /\ UNCHANGED lost

\* A command on the way to it fails.
Lose(kind, ids) ==
  /\ MayFail
  /\ lost' = lost \cup Of(kind, ids)
  /\ UNCHANGED published

-----------------------------------------------------------------------------
(* CreatePrivateMessage *)

Send(r, u) ==
  /\ req[r] = Idle
  /\ Len(msgs) < MaxMsgs
  /\ msgs' = Append(msgs, NewMessage(u, "sent"))
  /\ Goto(r, [at |-> "preview", user |-> u, msg |-> Len(msgs) + 1])
  /\ UNCHANGED <<unread, preview, published, lost>>

\* Set twice, under the two orders of the users, which name the same field.
SendPreview(r) ==
  LET q == req[r]
  IN /\ q.at = "preview"
     /\ preview' = TRUE
     /\ Goto(r, [q EXCEPT !.at = "publish"])
     /\ UNCHANGED <<msgs, unread, published, lost>>

\* The pipeline: two PUBLISH, then INCR and EXPIRE.  Redis runs other clients'
\* commands between those of a pipeline; whether it ran is not looked at.
SendPublish(r) ==
  LET q == req[r]
  IN /\ q.at = "publish"
     /\ \/ Publish("msg", {q.msg}) /\ Goto(r, [q EXCEPT !.at = "incr"])
        \/ Lose("count", {q.msg}) /\ Finish(r)
     /\ UNCHANGED <<msgs, unread, preview>>

SendIncr(r) ==
  LET q == req[r]
  IN /\ q.at = "incr"
     /\ \/ Incr(Peer(q.user)) /\ UNCHANGED <<published, lost>>
        \/ Lose("count", {q.msg}) /\ UNCHANGED unread
     /\ Finish(r)
     /\ UNCHANGED <<msgs, preview>>

-----------------------------------------------------------------------------
(* toSplitForward, to a user *)

\* "n": how many of the messages asked for were found where they are read.
Forward(r, u, n) ==
  /\ req[r] = Idle
  /\ Len(msgs) + n <= MaxMsgs
  /\ preview' = TRUE
  /\ Goto(r, [at |-> "fwdIncr", user |-> u, left |-> n, ids |-> {}])
  /\ UNCHANGED <<msgs, unread, published, lost>>

\* One for all of them, before any is inserted.
ForwardIncr(r) ==
  LET q == req[r]
  IN /\ q.at = "fwdIncr"
     /\ Incr(Peer(q.user)) \/ (MayFail /\ UNCHANGED unread)
     /\ Goto(r, [q EXCEPT !.at = "fwdInsert"])
     /\ UNCHANGED <<msgs, preview, published, lost>>

\* An insert that fails is passed over.
ForwardInsert(r) ==
  LET q == req[r]
  IN /\ q.at = "fwdInsert" /\ q.left > 0
     /\ \/ /\ Len(msgs) < MaxMsgs
           /\ msgs' = Append(msgs, NewMessage(q.user, "forwarded"))
           /\ Goto(r, [at |-> q.at, user |-> q.user, left |-> q.left - 1,
                     ids |-> q.ids \cup {Len(msgs) + 1}])
        \/ /\ Goto(r, [q EXCEPT !.left = @ - 1])
           /\ UNCHANGED msgs
     /\ UNCHANGED <<unread, preview, published, lost>>

ForwardPublish(r) ==
  LET q == req[r]
  IN /\ q.at = "fwdInsert" /\ q.left = 0
     /\ Publish("msg", q.ids) \/ (MayFail /\ UNCHANGED <<published, lost>>)
     /\ Finish(r)
     /\ UNCHANGED <<msgs, unread, preview>>

-----------------------------------------------------------------------------
(* SessionClearUnreadNum *)

\* Mutant: the messages that are unread are taken off the counter.
ClearSubtract(r, u) ==
  /\ req[r] = Idle
  /\ unread' = [unread EXCEPT ![u] = @ - Cardinality(UnreadBy(u))]
  /\ Goto(r, [at |-> "select", user |-> u, ids |-> {}])
  /\ UNCHANGED <<msgs, preview, published, lost>>

Clear(r, u) ==
  /\ req[r] = Idle
  /\ unread' = [unread EXCEPT ![u] = 0] \/ (MayFail /\ UNCHANGED unread)
  /\ Goto(r, [at |-> "select", user |-> u, ids |-> {}])
  /\ UNCHANGED <<msgs, preview, published, lost>>

ToEnd(q) == [at |-> "end", user |-> q.user]

ClearSelect(r) ==
  LET q == req[r]
      ids == UnreadBy(q.user)
  IN /\ q.at = "select"
     /\ Goto(r, IF ids = {} THEN ToEnd(q) ELSE [q EXCEPT !.at = "mark", !.ids = ids])
     /\ UNCHANGED <<msgs, unread, preview, published, lost>>

\* Mutant: nothing is told unless every message selected was still unread.
ClearMarkAll(r) ==
  LET q == req[r]
      marked == {m \in q.ids : ~msgs[m].read}
  IN /\ q.at = "mark"
     /\ msgs' = [m \in DOMAIN msgs |-> IF m \in marked THEN [msgs[m] EXCEPT !.read = TRUE] ELSE msgs[m]]
     /\ Goto(r, IF marked # q.ids THEN ToEnd(q) ELSE [q EXCEPT !.at = "reread"])
     /\ UNCHANGED <<unread, preview, published, lost>>

\* MarkPrivateMessagesRead: when no row changed, another clear has them all.
ClearMark(r) ==
  LET q == req[r]
      marked == {m \in q.ids : ~msgs[m].read}
  IN /\ q.at = "mark"
     /\ msgs' = [m \in DOMAIN msgs |-> IF m \in marked THEN [msgs[m] EXCEPT !.read = TRUE] ELSE msgs[m]]
     /\ Goto(r, IF marked = {} THEN ToEnd(q) ELSE [q EXCEPT !.at = "reread"])
     /\ UNCHANGED <<unread, preview, published, lost>>

ClearReread(r) ==
  LET q == req[r]
  IN /\ q.at = "reread"
     /\ Goto(r, [q EXCEPT !.at = "push", !.ids = {m \in @ : msgs[m].read}])
     /\ UNCHANGED <<msgs, unread, preview, published, lost>>

ClearPush(r) ==
  LET q == req[r]
  IN /\ q.at = "push"
     /\ Publish("read", q.ids)
     /\ Goto(r, ToEnd(q))
     /\ UNCHANGED <<msgs, unread, preview>>

\* An error on the way is logged, and the badge is announced all the same: what
\* was to be marked stays unread and uncounted, or what was marked untold.
ClearFails(r) ==
  LET q == req[r]
  IN /\ \/ q.at = "select" /\ Lose("count", UnreadBy(q.user))
        \/ q.at = "mark"   /\ Lose("count", q.ids)
        \/ q.at \in {"reread", "push"} /\ Lose("read", q.ids)
     /\ Goto(r, ToEnd(q))
     /\ UNCHANGED <<msgs, unread, preview>>

\* Mutant: the counter is made to agree with what is announced.
ClearEndReset(r) ==
  LET q == req[r]
  IN /\ q.at = "end"
     /\ unread' = [unread EXCEPT ![q.user] = 0]
     /\ Finish(r)
     /\ UNCHANGED <<msgs, preview, published, lost>>

\* The badge is announced as zero, whatever the counter is by now: an event that
\* says nothing of a message.
ClearEnd(r) ==
  LET q == req[r]
  IN /\ q.at = "end"
     /\ Finish(r)
     /\ UNCHANGED <<msgs, unread, preview, published, lost>>

-----------------------------------------------------------------------------
(* TalkService.Revoke and DeleteRecord *)

\* Mutant: what is read is announced, whether or not the update comes to pass.
RevokeUnchecked(r, m) ==
  /\ req[r] = Idle
  /\ m \in DOMAIN msgs /\ ~msgs[m].revoked
  /\ Goto(r, IF msgs[m].new THEN [at |-> "revoke", msg |-> m]
             ELSE [at |-> "revokePreview", msg |-> m])
  /\ UNCHANGED <<msgs, unread, preview, published, lost>>

\* Only by its sender, once, and within three minutes.
Revoke(r, m) ==
  /\ req[r] = Idle
  /\ m \in DOMAIN msgs /\ ~msgs[m].revoked /\ msgs[m].new
  /\ Goto(r, [at |-> "revoke", msg |-> m])
  /\ UNCHANGED <<msgs, unread, preview, published, lost>>

RevokeWrite(r) ==
  LET q == req[r]
  IN /\ q.at = "revoke"
     /\ msgs' = [msgs EXCEPT ![q.msg].revoked = TRUE]
     /\ Goto(r, [q EXCEPT !.at = "revokePreview"])
     /\ UNCHANGED <<unread, preview, published, lost>>

\* Mutant: without the sender's name there is nothing to announce.
RevokePreviewOrGiveUp(r) ==
  LET q == req[r]
  IN /\ q.at = "revokePreview"
     /\ \/ /\ preview' = TRUE
           /\ Goto(r, [q EXCEPT !.at = "revokePublish"])
        \/ UNCHANGED preview /\ Finish(r)
     /\ UNCHANGED <<msgs, unread, published, lost>>

\* The preview says so even when another message came after; it is left alone
\* when the sender's name cannot be read.
RevokePreview(r) ==
  LET q == req[r]
  IN /\ q.at = "revokePreview"
     /\ \/ preview' = TRUE
        \/ UNCHANGED preview
     /\ Goto(r, [q EXCEPT !.at = "revokePublish"])
     /\ UNCHANGED <<msgs, unread, published, lost>>

\* A push that fails is logged.
RevokePublish(r) ==
  LET q == req[r]
  IN /\ q.at = "revokePublish"
     /\ Publish("revoke", {q.msg}) \/ Lose("revoke", {q.msg})
     /\ Finish(r)
     /\ UNCHANGED <<msgs, unread, preview>>

DeleteRecord(m) ==
  /\ m \in DOMAIN msgs
  /\ msgs' = [msgs EXCEPT ![m].gone = TRUE]
  /\ UNCHANGED <<unread, preview, published, lost, req>>

-----------------------------------------------------------------------------
(* ExpireTalkUserMessage *)

Ages(m) ==
  /\ m \in DOMAIN msgs /\ msgs[m].new
  /\ \A k \in 1..(m - 1) : ~msgs[k].new
  /\ msgs' = [msgs EXCEPT ![m].new = FALSE]
  /\ UNCHANGED <<unread, preview, published, lost, req>>

\* The oldest messages, "upto" the last that has been kept for retain_days.
SweepMark(r, upto) ==
  /\ req[r] = Idle
  /\ \A m \in 1..upto : m \in DOMAIN msgs /\ ~msgs[m].new
  /\ msgs' = [m \in DOMAIN msgs |->
                IF m <= upto THEN [msgs[m] EXCEPT !.gone = TRUE] ELSE msgs[m]]
  /\ Goto(r, [at |-> "empty"])
  /\ UNCHANGED <<unread, preview, published, lost>>

Visible == {m \in DOMAIN msgs : ~msgs[m].gone}

\* FindEmptyVisibleSessionIds
SweepEmpty(r) ==
  /\ req[r].at = "empty"
  /\ IF Visible = {} THEN Goto(r, [at |-> "delete"]) ELSE Finish(r)
  /\ UNCHANGED <<msgs, unread, preview, published, lost>>

SweepDelete(r) ==
  /\ req[r].at = "delete"
  /\ preview' = FALSE
  /\ Finish(r)
  /\ UNCHANGED <<msgs, unread, published, lost>>

-----------------------------------------------------------------------------
(* Specification *)

Step(r) ==
  \/ SendPreview(r) \/ SendPublish(r) \/ SendIncr(r)
  \/ ForwardIncr(r) \/ ForwardInsert(r) \/ ForwardPublish(r)
  \/ ClearSelect(r) \/ ClearMark(r) \/ ClearReread(r) \/ ClearPush(r)
  \/ ClearFails(r) \/ ClearEnd(r)
  \/ RevokeWrite(r) \/ RevokePreview(r) \/ RevokePublish(r)
  \/ SweepEmpty(r) \/ SweepDelete(r)

Start(r) ==
  \/ \E u \in Readers : Clear(r, u)
  \/ \E u \in Writers : Send(r, u)
  \/ \E u \in Writers, n \in 0..MaxForward : Forward(r, u, n)
  \/ \E m \in Revocable : Revoke(r, m)
  \/ \E upto \in 0..MaxMsgs : SweepMark(r, upto)

Next ==
  \/ \E r \in Reqs : Start(r) \/ Step(r)
  \/ \E m \in Deletable : DeleteRecord(m)
  \/ \E m \in MsgIds : Ages(m)

Spec == Init /\ [][Next]_chatVars

-----------------------------------------------------------------------------
(* Properties *)

Pending(m) == \E r \in Reqs : req[r].at \in {"preview", "publish", "incr"} /\ req[r].msg = m

Clearing(u) == \E r \in Reqs : req[r].at \in {"select", "mark"} /\ req[r].user = u

\* A message sent to u that no clear has marked as read shows in u's counter,
\* once its sender's request is through and while no clear of u's is under way,
\* unless its own INCR failed or a clear broke off before it: however clears of
\* several devices overlap with the four writes of a message and with each
\* other, none takes the count and leaves the message.
UnreadIsCounted ==
  \A u \in Users :
    /\ ~Clearing(u)
    /\ \E m \in UnreadBy(u) :
         msgs[m].how = "sent" /\ ~Pending(m) /\ [kind |-> "count", msg |-> m] \notin lost
    => unread[u] > 0

\* A message that was marked as read has been announced to its sender, or will
\* be by a clear under way, unless the very clear that had it to announce broke
\* off: two clears that selected the same messages may both announce one, and
\* never both leave it to the other.
ReadIsAnnounced ==
  \A u \in Users : \A m \in To(u) :
    msgs[m].read =>
      \/ [kind |-> "read", msg |-> m] \in published \cup lost
      \/ \E r \in Reqs :
           req[r].at \in {"reread", "push"} /\ req[r].user = u /\ m \in req[r].ids

\* A revoked message has been announced to the clients as revoked, or a request
\* is about to, unless the push itself failed, which is only logged.
RevokedIsAnnounced ==
  \A m \in DOMAIN msgs :
    msgs[m].revoked =>
      \/ [kind |-> "revoke", msg |-> m] \in published \cup lost
      \/ \E r \in Reqs : req[r].at \in {"revokePreview", "revokePublish"} /\ req[r].msg = m

\* What was published is true of the table, now and for good: a client that
\* reloads sees at least what it was told.
PublishedIsTrue ==
  \A e \in published :
    /\ e.msg \in DOMAIN msgs
    /\ e.kind = "revoke" => msgs[e.msg].revoked
    /\ e.kind = "read" => msgs[e.msg].read
=============================================================================
