------------------------- MODULE PrivateChatProofs -------------------------
(***************************************************************************)
(* Private messages for any number of requests, messages and forwardings:  *)
(* what surrounds a message agrees with its row, however the requests of   *)
(* both users, of their devices and the runs of the retention job overlap. *)
(*                                                                         *)
(* Every property says that something is so, or that a request under way   *)
(* will see to it, or that the very command that had to failed.  The       *)
(* invariant says, message by message, which of these it is, and what a    *)
(* request under way may rely on: the messages it has selected are its     *)
(* user's, and those it is about to announce are read.                     *)
(***************************************************************************)
EXTENDS PrivateChat, SequenceTheorems, TLAPS

PendingAt == {"preview", "publish", "incr"}
ForwardAt == {"fwdIncr", "fwdInsert", "fwdPublish"}
ClearAt == {"select", "mark", "reread", "push"}

\* What a request under way may rely on.
Knows(q) ==
  /\ q.at \in PendingAt => q.msg \in DOMAIN msgs /\ msgs[q.msg].from = q.user
  /\ q.at \in ForwardAt => q.ids \subseteq DOMAIN msgs
  /\ q.at \in ClearAt => q.ids \subseteq To(q.user)
  /\ q.at = "push" => \A m \in q.ids : msgs[m].read
  /\ q.at = "revoke" => q.msg \in DOMAIN msgs
  /\ q.at \in {"revokePreview", "revokePublish"} =>
       q.msg \in DOMAIN msgs /\ msgs[q.msg].revoked

RequestsKnow == \A r \in Reqs : Knows(req[r])

\* The request that is still to count message m, that will mark it as read by
\* u, that will announce it as read, that will announce it as revoked.
Counts(q, m) == q.at \in PendingAt /\ q.msg = m
Marks(q, u, m) ==
  \/ q.at = "select" /\ q.user = u
  \/ q.at = "mark" /\ q.user = u /\ m \in q.ids
Tells(q, u, m) == q.at \in {"reread", "push"} /\ q.user = u /\ m \in q.ids
Revokes(q, m) == q.at \in {"revokePreview", "revokePublish"} /\ q.msg = m

ReadEvent(m) == [kind |-> "read", msg |-> m]
RevokeEvent(m) == [kind |-> "revoke", msg |-> m]

\* The INCR of message m, or a clear that was to mark it, came to nothing.
Uncounted(m) == [kind |-> "count", msg |-> m]

\* UnreadIsCounted with the very request that answers for a message.
EachIsCounted ==
  \A u \in Users : \A m \in UnreadBy(u) :
    msgs[m].how = "sent" =>
      \/ unread[u] > 0
      \/ Uncounted(m) \in lost
      \/ \E r \in Reqs : Counts(req[r], m) \/ Marks(req[r], u, m)

True(e) ==
  /\ e.msg \in DOMAIN msgs
  /\ e.kind = "revoke" => msgs[e.msg].revoked
  /\ e.kind = "read" => msgs[e.msg].read

IInv ==
  /\ TypeOK /\ RequestsKnow /\ EachIsCounted
  /\ ReadIsAnnounced /\ RevokedIsAnnounced /\ PublishedIsTrue
-----------------------------------------------------------------------------
\* The other user of the conversation.
LEMMA PeerIsOther ==
  ASSUME NEW u \in Users
  PROVE  Peer(u) \in Users /\ Peer(u) # u /\ \A v \in Users : v # u => v = Peer(u)
  BY ChatAssumption DEF Peer

LEMMA MessageType ==
  ASSUME TypeOK
  PROVE  /\ Len(msgs) \in Nat /\ DOMAIN msgs = 1..Len(msgs)
         /\ DOMAIN msgs \subseteq MsgIds
         /\ \A m \in DOMAIN msgs :
              /\ msgs[m] \in Message
              /\ msgs[m].from \in Users /\ msgs[m].read \in BOOLEAN
              /\ msgs[m].revoked \in BOOLEAN
  <1>1. Len(msgs) \in Nat /\ DOMAIN msgs = 1..Len(msgs)
    BY DEF TypeOK
  <1>2. \A m \in DOMAIN msgs : msgs[m] \in Message
    BY DEF TypeOK
  <1>3. DOMAIN msgs \subseteq MsgIds
    BY <1>1, ChatAssumption DEF TypeOK, MsgIds
  <1> QED BY <1>1, <1>2, <1>3 DEF Message

LEMMA RequestType ==
  ASSUME TypeOK, NEW r \in Reqs
  PROVE  LET q == req[r]
         IN /\ q.at \in PendingAt => q.user \in Users /\ q.msg \in MsgIds
                                     /\ q = [at |-> q.at, user |-> q.user, msg |-> q.msg]
            /\ q.at \in ForwardAt => q.user \in Users /\ q.left \in 0..MaxForward
                                     /\ q.ids \in SUBSET MsgIds
                                     /\ q = [at |-> q.at, user |-> q.user, left |-> q.left,
                                             ids |-> q.ids]
            /\ q.at \in ClearAt => q.user \in Users /\ q.ids \in SUBSET MsgIds
                                   /\ q = [at |-> q.at, user |-> q.user, ids |-> q.ids]
            /\ q.at \in {"revoke", "revokePreview", "revokePublish"} =>
                 q.msg \in MsgIds /\ q = [at |-> q.at, msg |-> q.msg]
  BY DEF TypeOK, Request, Idle, PendingAt, ForwardAt, ClearAt

\* Messages are never removed; their sender and kind stay, and what is read or
\* revoked remains so.
MsgsKept ==
  /\ DOMAIN msgs \subseteq DOMAIN msgs'
  /\ \A m \in DOMAIN msgs :
       /\ msgs'[m].from = msgs[m].from /\ msgs'[m].how = msgs[m].how
       /\ msgs[m].read => msgs'[m].read
       /\ msgs[m].revoked => msgs'[m].revoked

LEMMA KnowsKept == ASSUME TypeOK, MsgsKept, NEW q, Knows(q) PROVE Knows(q)'
  <1>1. \A u : To(u) \subseteq To(u)'
    BY DEF MsgsKept, To
  <1>2. q.at = "push" => \A m \in q.ids : m \in DOMAIN msgs
    BY DEF Knows, To, ClearAt
  <1>3. \A ids : ids \subseteq DOMAIN msgs => ids \subseteq DOMAIN msgs'
    BY DEF MsgsKept
  <1>4. \A m \in DOMAIN msgs : m \in DOMAIN msgs' /\ msgs'[m].from = msgs[m].from
          /\ (msgs[m].read => msgs'[m].read) /\ (msgs[m].revoked => msgs'[m].revoked)
    BY DEF MsgsKept
  <1> QED BY <1>1, <1>2, <1>3, <1>4 DEF Knows

\* A step may lose something, and what is lost is remembered.
LostGrows == lost' \subseteq Loss /\ lost \subseteq lost'

LEMMA LostSame == ASSUME TypeOK, UNCHANGED lost PROVE LostGrows
  BY DEF TypeOK, LostGrows

\* For every message that is unread, read, revoked after a step of request r,
\* which goes on as q: it is taken care of, by q if need be, or was before the
\* step and not by r.
CountsOn(r, q) ==
  \A u \in Users : \A m \in UnreadBy(u)' : msgs'[m].how = "sent" =>
    \/ unread'[u] > 0
    \/ Uncounted(m) \in lost'
    \/ Counts(q, m) \/ Marks(q, u, m)
    \/ /\ m \in UnreadBy(u) /\ unread[u] = 0
       /\ ~Counts(req[r], m) /\ ~Marks(req[r], u, m)

TellsOn(r, q) ==
  \A u \in Users : \A m \in To(u)' : msgs'[m].read =>
    \/ ReadEvent(m) \in published' \cup lost'
    \/ Tells(q, u, m)
    \/ m \in To(u) /\ msgs[m].read /\ ~Tells(req[r], u, m)

RevokesOn(r, q) ==
  \A m \in DOMAIN msgs' : msgs'[m].revoked =>
    \/ RevokeEvent(m) \in published' \cup lost'
    \/ Revokes(q, m)
    \/ m \in DOMAIN msgs /\ msgs[m].revoked /\ ~Revokes(req[r], m)

\* One step of request r, which goes on as q, keeps the invariant if it answers
\* for what r answered for until now and for what it has done to the messages.
LEMMA RequestStep ==
  ASSUME IInv, NEW r \in Reqs, NEW q \in Request,
         req' = [req EXCEPT ![r] = q], Knows(q)', MsgsKept,
         msgs' \in Seq(Message), Len(msgs') <= MaxMsgs,
         unread' \in [Users -> 0..MaxUnread], preview' \in BOOLEAN,
         published' \subseteq Event, published \subseteq published',
         \A e \in published' \ published : True(e)', LostGrows,
         CountsOn(r, q), TellsOn(r, q), RevokesOn(r, q)
  PROVE  IInv'
  <1>1. TypeOK'
    BY DEF IInv, TypeOK, LostGrows
  <1>2. req'[r] = q /\ \A s \in Reqs \ {r} : req'[s] = req[s]
    BY DEF IInv, TypeOK
  <1>3. RequestsKnow'
    BY <1>2, KnowsKept DEF IInv, RequestsKnow
  <1>4. EachIsCounted'
    <2> SUFFICES ASSUME NEW u \in Users, NEW m \in UnreadBy(u)', msgs'[m].how = "sent",
                        ~(unread'[u] > 0), Uncounted(m) \notin lost',
                        ~Counts(q, m), ~Marks(q, u, m)
                 PROVE  \E s \in Reqs : Counts(req'[s], m) \/ Marks(req'[s], u, m)
      BY <1>2 DEF EachIsCounted, Counts, Marks, Uncounted
    <2>1. m \in UnreadBy(u) /\ unread[u] = 0 /\ ~Counts(req[r], m) /\ ~Marks(req[r], u, m)
      BY DEF CountsOn
    <2>2. msgs[m].how = "sent"
      BY <2>1 DEF MsgsKept, UnreadBy, To
    <2>3. PICK s \in Reqs : Counts(req[s], m) \/ Marks(req[s], u, m)
      BY <2>1, <2>2 DEF IInv, EachIsCounted, LostGrows
    <2>4. req'[s] = req[s]
      BY <1>2, <2>1, <2>3
    <2> QED BY <2>3, <2>4
  <1>5. ReadIsAnnounced'
    <2> SUFFICES ASSUME NEW u \in Users, NEW m \in To(u)', msgs'[m].read,
                        ReadEvent(m) \notin published' \cup lost', ~Tells(q, u, m)
                 PROVE  \E s \in Reqs : Tells(req'[s], u, m)
      BY <1>2 DEF ReadIsAnnounced, Tells, ReadEvent
    <2>1. m \in To(u) /\ msgs[m].read /\ ~Tells(req[r], u, m)
      BY DEF TellsOn
    <2>2. PICK s \in Reqs : Tells(req[s], u, m)
      BY <2>1 DEF IInv, ReadIsAnnounced, Tells, ReadEvent, LostGrows
    <2> QED BY <1>2, <2>1, <2>2
  <1>6. RevokedIsAnnounced'
    <2> SUFFICES ASSUME NEW m \in DOMAIN msgs', msgs'[m].revoked,
                        RevokeEvent(m) \notin published' \cup lost', ~Revokes(q, m)
                 PROVE  \E s \in Reqs : Revokes(req'[s], m)
      BY <1>2 DEF RevokedIsAnnounced, Revokes, RevokeEvent
    <2>1. m \in DOMAIN msgs /\ msgs[m].revoked /\ ~Revokes(req[r], m)
      BY DEF RevokesOn
    <2>2. PICK s \in Reqs : Revokes(req[s], m)
      BY <2>1 DEF IInv, RevokedIsAnnounced, Revokes, RevokeEvent, LostGrows
    <2> QED BY <1>2, <2>1, <2>2
  <1>7. PublishedIsTrue'
    BY DEF IInv, PublishedIsTrue, True, MsgsKept
  <1> QED BY <1>1, <1>3, <1>4, <1>5, <1>6, <1>7 DEF IInv
-----------------------------------------------------------------------------
\* Steps that leave the messages as they are.
LEMMA MsgsSame == ASSUME UNCHANGED msgs PROVE MsgsKept /\ \A u : UnreadBy(u)' = UnreadBy(u)
                                              /\ To(u)' = To(u)
  BY DEF MsgsKept, UnreadBy, To

\* A step of r that leaves the messages, goes on as q, and takes no counter back.
LEMMA QuietStep ==
  ASSUME IInv, NEW r \in Reqs, NEW q \in Request,
         req' = [req EXCEPT ![r] = q], Knows(q), UNCHANGED msgs,
         unread' \in [Users -> 0..MaxUnread], preview' \in BOOLEAN,
         published' \subseteq Event, published \subseteq published',
         \A e \in published' \ published : True(e), LostGrows,
         \A u \in Users : \A m \in UnreadBy(u) :
           unread'[u] = 0 => unread[u] = 0 \/ Marks(q, u, m),
         \A m \in MsgIds : Counts(req[r], m) =>
           Counts(q, m) \/ unread'[Peer(req[r].user)] > 0 \/ Uncounted(m) \in lost',
         \A u \in Users : \A m \in UnreadBy(u) :
           Marks(req[r], u, m) => Marks(q, u, m) \/ Uncounted(m) \in lost',
         \A u \in Users, m \in MsgIds :
           Tells(req[r], u, m) /\ msgs[m].read =>
             Tells(q, u, m) \/ ReadEvent(m) \in published' \cup lost',
         \A m \in MsgIds : Revokes(req[r], m) =>
           Revokes(q, m) \/ RevokeEvent(m) \in published' \cup lost'
  PROVE  IInv'
  <1>1. MsgsKept /\ (\A u : UnreadBy(u)' = UnreadBy(u) /\ To(u)' = To(u)) /\ Knows(q)'
    BY MsgsSame, KnowsKept DEF IInv
  <1>2. msgs' \in Seq(Message) /\ Len(msgs') <= MaxMsgs
    BY DEF IInv, TypeOK
  <1>3. \A e \in published' \ published : True(e)'
    BY DEF True
  <1>4. CountsOn(r, q)
    <2> SUFFICES ASSUME NEW u \in Users, NEW m \in UnreadBy(u), ~(unread'[u] > 0),
                        Uncounted(m) \notin lost', ~Counts(q, m), ~Marks(q, u, m)
                 PROVE  unread[u] = 0 /\ ~Counts(req[r], m) /\ ~Marks(req[r], u, m)
      BY <1>1 DEF CountsOn
    <2>1. unread'[u] = 0
      BY DEF TypeOK
    <2>2. unread[u] = 0
      BY <2>1
    <2>3. m \in MsgIds /\ m \in DOMAIN msgs /\ msgs[m].from # u
      BY MessageType DEF IInv, UnreadBy, To
    <2>4. ~Counts(req[r], m)
      <3> SUFFICES ASSUME Counts(req[r], m) PROVE FALSE
        OBVIOUS
      <3>1. msgs[m].from = req[r].user /\ req[r].user \in Users
        BY RequestType DEF IInv, Counts, RequestsKnow, Knows
      <3>2. u = Peer(req[r].user)
        BY <2>3, <3>1, PeerIsOther
      <3> QED BY <2>1, <2>3, <3>2
    <2> QED BY <2>2, <2>4 DEF CountsOn
  <1>5. TellsOn(r, q)
    BY <1>1, MessageType DEF IInv, To, TellsOn
  <1>6. RevokesOn(r, q)
    BY MessageType DEF IInv, RevokesOn
  <1> QED BY <1>1, <1>2, <1>3, <1>4, <1>5, <1>6, RequestStep
-----------------------------------------------------------------------------
(* The steps of a request that leave the messages as they are *)

LEMMA IdleQuiet ==
  /\ Idle \in Request /\ Knows(Idle)
  /\ \A m, u : ~Counts(Idle, m) /\ ~Marks(Idle, u, m) /\ ~Tells(Idle, u, m) /\ ~Revokes(Idle, m)
  BY DEF Idle, Request, Knows, Counts, Marks, Tells, Revokes, PendingAt, ForwardAt, ClearAt

LEMMA IncrType ==
  ASSUME TypeOK, NEW u \in Users, Incr(u)
  PROVE  /\ unread' \in [Users -> 0..MaxUnread]
         /\ unread'[u] > 0
         /\ \A v \in Users : unread'[v] = 0 => unread[v] = 0
  BY ChatAssumption DEF TypeOK, Incr

\* What is published or lost has the type of an event or of a loss.
LEMMA OneOf == ASSUME NEW m, m \in DOMAIN msgs PROVE {m} \subseteq DOMAIN msgs
  OBVIOUS

LEMMA PublishTrue ==
  ASSUME TypeOK, NEW kind \in {"msg", "revoke", "read"}, NEW ids, ids \subseteq DOMAIN msgs,
         Publish(kind, ids),
         kind = "revoke" => \A m \in ids : msgs[m].revoked,
         kind = "read" => \A m \in ids : msgs[m].read
  PROVE  /\ published' \subseteq Event /\ published \subseteq published' /\ UNCHANGED lost
         /\ \A e \in published' \ published : True(e)
         /\ \A m \in ids : [kind |-> kind, msg |-> m] \in published'
  <1>1. published' = published \cup {[kind |-> kind, msg |-> m] : m \in ids} /\ UNCHANGED lost
    BY DEF Publish, Of
  <1>2. \A m \in ids : LET e == [kind |-> kind, msg |-> m] IN e \in Event /\ True(e)
    BY MessageType DEF Event, True
  <1>3. published \subseteq Event
    BY DEF TypeOK
  <1> QED BY <1>1, <1>2, <1>3

LEMMA LoseGrows ==
  ASSUME TypeOK, NEW kind \in {"count", "revoke", "read"}, NEW ids, ids \subseteq MsgIds,
         Lose(kind, ids)
  PROVE  LostGrows /\ \A m \in ids : [kind |-> kind, msg |-> m] \in lost'
  <1>1. lost' = lost \cup {[kind |-> kind, msg |-> m] : m \in ids}
    BY DEF Lose, Of
  <1>2. lost \subseteq Loss
    BY DEF TypeOK
  <1>3. \A m \in ids : [kind |-> kind, msg |-> m] \in Loss
    BY DEF Loss
  <1> QED BY <1>1, <1>2, <1>3 DEF LostGrows

LEMMA SendStep ==
  ASSUME IInv, NEW r \in Reqs, SendPreview(r) \/ SendPublish(r) \/ SendIncr(r)
  PROVE  IInv'
  <1> DEFINE p == req[r]
  <1>1. p.at \in PendingAt
    BY DEF SendPreview, SendPublish, SendIncr, PendingAt
  <1>2. /\ p.user \in Users /\ p.msg \in MsgIds /\ p.msg \in DOMAIN msgs
        /\ msgs[p.msg].from = p.user
        /\ p = [at |-> p.at, user |-> p.user, msg |-> p.msg]
    BY <1>1, RequestType DEF IInv, RequestsKnow, Knows
  <1>3. TypeOK
    BY DEF IInv
  <1>4. ASSUME NEW at \in PendingAt
        PROVE  LET q == [p EXCEPT !.at = at]
               IN /\ q \in Request /\ Knows(q)
                  /\ \A m : Counts(p, m) => Counts(q, m)
                  /\ \A u, m : ~Marks(p, u, m) /\ ~Tells(p, u, m) /\ ~Revokes(p, m)
    <2> DEFINE q == [at |-> at, user |-> p.user, msg |-> p.msg]
    <2>1. [p EXCEPT !.at = at] = q
      BY <1>2
    <2>2. q \in Request
      BY <1>2 DEF Request, PendingAt
    <2>3. Knows(q)
      BY <1>2 DEF Knows, PendingAt, ForwardAt, ClearAt
    <2> QED BY <1>1, <2>1, <2>2, <2>3 DEF Counts, Marks, Tells, Revokes, PendingAt
  <1>5. CASE SendPreview(r)
    <2>1. "publish" \in PendingAt
      BY DEF PendingAt
    <2> QED BY <1>3, <1>4, <1>5, <2>1, LostSame, QuietStep DEF SendPreview, Goto, TypeOK
  <1>6. ASSUME SendPublish(r), Publish("msg", {p.msg}), Goto(r, [p EXCEPT !.at = "incr"])
        PROVE  IInv'
    <2>1. "incr" \in PendingAt
      BY DEF PendingAt
    <2>2. /\ published' \subseteq Event /\ published \subseteq published' /\ UNCHANGED lost
          /\ \A e \in published' \ published : True(e)
      BY <1>2, <1>3, <1>6, PublishTrue, OneOf
    <2>3. UNCHANGED <<msgs, unread, preview>>
      BY <1>6 DEF SendPublish
    <2> QED BY <1>3, <1>4, <1>6, <2>1, <2>2, <2>3, LostSame, QuietStep DEF Goto, TypeOK
  <1>7. ASSUME Lose("count", {p.msg}), Finish(r), UNCHANGED <<msgs, unread, preview>>
        PROVE  IInv'
    <2>1. req' = [req EXCEPT ![r] = Idle] /\ UNCHANGED published
      BY <1>7 DEF Lose, Finish, Goto
    <2>2. \A u, m : ~Marks(p, u, m) /\ ~Tells(p, u, m) /\ ~Revokes(p, m)
      BY <1>4, <1>1
    <2>3. LostGrows /\ Uncounted(p.msg) \in lost'
      BY <1>2, <1>3, <1>7, LoseGrows DEF Uncounted
    <2>4. \A m : Counts(p, m) => Uncounted(m) \in lost'
      BY <2>3 DEF Counts
    <2> QED BY <1>3, <1>7, <2>1, <2>2, <2>3, <2>4, IdleQuiet, QuietStep DEF TypeOK
  <1>8. ASSUME SendIncr(r), Incr(Peer(p.user)), UNCHANGED <<published, lost>> PROVE IInv'
    <2>1. Peer(p.user) \in Users
      BY <1>2, PeerIsOther
    <2>2. req' = [req EXCEPT ![r] = Idle] /\ UNCHANGED <<msgs, preview, published>>
      BY <1>8 DEF SendIncr, Finish, Goto
    <2>3. \A u, m : ~Marks(p, u, m) /\ ~Tells(p, u, m) /\ ~Revokes(p, m)
      BY <1>4, <1>1
    <2> QED
      BY <1>3, <1>8, <2>1, <2>2, <2>3, IdleQuiet, IncrType, LostSame, QuietStep DEF TypeOK
  <1>9. SendPublish(r) => IInv'
    BY <1>6, <1>7 DEF SendPublish
  <1>10. SendIncr(r) => IInv'
    BY <1>7, <1>8 DEF SendIncr
  <1> QED BY <1>5, <1>9, <1>10

\* Requests that answer for no message.
LEMMA AnswersForNone ==
  ASSUME NEW q, q = Idle \/ q.at \in ForwardAt \cup {"revoke", "empty", "delete", "end"}
  PROVE  \A m, u : ~Counts(q, m) /\ ~Marks(q, u, m) /\ ~Tells(q, u, m) /\ ~Revokes(q, m)
  BY DEF Idle, Counts, Marks, Tells, Revokes, PendingAt, ForwardAt

\* A step between two such requests that does no more than count or show.
LEMMA PlainStep ==
  ASSUME IInv, NEW r \in Reqs, NEW q \in Request, Knows(q),
         req[r] = Idle \/ req[r].at \in ForwardAt \cup {"revoke", "empty", "delete", "end"},
         req' = [req EXCEPT ![r] = q], UNCHANGED msgs,
         unread' \in [Users -> 0..MaxUnread], preview' \in BOOLEAN,
         \A u \in Users : unread'[u] = 0 => unread[u] = 0,
         published' \subseteq Event, published \subseteq published',
         \A e \in published' \ published : True(e), UNCHANGED lost
  PROVE  IInv'
  <1>1. LostGrows
    BY LostSame DEF IInv
  <1> QED BY <1>1, AnswersForNone, QuietStep

LEMMA ForwardStep ==
  ASSUME IInv, NEW r \in Reqs,
         \/ \E u \in Writers, n \in 0..MaxForward : Forward(r, u, n)
         \/ ForwardIncr(r) \/ ForwardPublish(r)
  PROVE  IInv'
  <1> DEFINE p == req[r]
  <1>1. TypeOK
    BY DEF IInv
  <1>2. ASSUME NEW u \in Writers, NEW n \in 0..MaxForward, Forward(r, u, n) PROVE IInv'
    <2> DEFINE q == [at |-> "fwdIncr", user |-> u, left |-> n, ids |-> {}]
    <2>1. q \in Request /\ Knows(q)
      BY ChatAssumption DEF Request, Knows, PendingAt, ForwardAt, ClearAt
    <2> QED BY <1>1, <1>2, <2>1, PlainStep DEF Forward, Goto, TypeOK
  <1>3. CASE ForwardIncr(r)
    <2> DEFINE q == [p EXCEPT !.at = "fwdInsert"]
    <2>1. p.at \in ForwardAt
      BY <1>3 DEF ForwardIncr, ForwardAt
    <2>2. /\ p.user \in Users /\ p.left \in 0..MaxForward /\ p.ids \in SUBSET MsgIds
          /\ p.ids \subseteq DOMAIN msgs
          /\ q = [at |-> "fwdInsert", user |-> p.user, left |-> p.left, ids |-> p.ids]
      <3>1. /\ p.user \in Users /\ p.left \in 0..MaxForward /\ p.ids \in SUBSET MsgIds
            /\ p = [at |-> p.at, user |-> p.user, left |-> p.left, ids |-> p.ids]
        BY <1>1, <2>1, RequestType
      <3>2. p.ids \subseteq DOMAIN msgs
        BY <2>1 DEF IInv, RequestsKnow, Knows
      <3> QED BY <3>1, <3>2
    <2>3. q \in Request
      BY <2>2 DEF Request
    <2>4. Knows(q)
      BY <2>2 DEF Knows, PendingAt, ForwardAt, ClearAt
    <2>5. /\ unread' \in [Users -> 0..MaxUnread]
          /\ \A v \in Users : unread'[v] = 0 => unread[v] = 0
      <3>1. Incr(Peer(p.user)) \/ UNCHANGED unread
        BY <1>3 DEF ForwardIncr
      <3>2. Peer(p.user) \in Users
        BY <2>2, PeerIsOther
      <3> QED BY <1>1, <3>1, <3>2, IncrType DEF TypeOK
    <2>6. UNCHANGED <<msgs, preview, published, lost>> /\ req' = [req EXCEPT ![r] = q]
      BY <1>3 DEF ForwardIncr, Goto
    <2> QED BY <1>1, <2>1, <2>3, <2>4, <2>5, <2>6, PlainStep DEF TypeOK
  <1>4. CASE ForwardPublish(r)
    <2>1. p.at \in ForwardAt
      BY <1>4 DEF ForwardPublish, ForwardAt
    <2>2. p.ids \in SUBSET MsgIds /\ p.ids \subseteq DOMAIN msgs
      BY <1>1, <2>1, RequestType DEF IInv, RequestsKnow, Knows
    <2>3. Publish("msg", p.ids) \/ UNCHANGED <<published, lost>>
      BY <1>4 DEF ForwardPublish
    <2>4. req' = [req EXCEPT ![r] = Idle] /\ UNCHANGED <<msgs, unread, preview>>
      BY <1>4 DEF ForwardPublish, Finish, Goto
    <2>5. /\ published' \subseteq Event /\ published \subseteq published' /\ UNCHANGED lost
          /\ \A e \in published' \ published : True(e)
      BY <1>1, <2>2, <2>3, PublishTrue DEF TypeOK
    <2> QED BY <1>1, <2>1, <2>4, <2>5, IdleQuiet, PlainStep DEF TypeOK
  <1> QED BY <1>2, <1>3, <1>4

\* Revoke, the sweep's empty check and its delete, and the end of a clear.
LEMMA RevokeStep ==
  ASSUME IInv, NEW r \in Reqs, NEW m \in Revocable, Revoke(r, m) PROVE IInv'
  <1> DEFINE q == [at |-> "revoke", msg |-> m]
  <1>0. m \in MsgIds
    BY MessageType DEF Revoke, IInv
  <1>1. q \in Request /\ Knows(q)
    BY <1>0 DEF Request, Knows, PendingAt, ForwardAt, ClearAt, Revoke
  <1> QED BY <1>1, PlainStep DEF Revoke, Goto, IInv, TypeOK

LEMMA SweepStep ==
  ASSUME IInv, NEW r \in Reqs, SweepEmpty(r) \/ SweepDelete(r) \/ ClearEnd(r)
  PROVE  IInv'
  <1> DEFINE q == [at |-> "delete"]
  <1>1. q \in Request /\ Knows(q)
    BY DEF Request, Knows, PendingAt, ForwardAt, ClearAt
  <1>2. req' = [req EXCEPT ![r] = q] \/ req' = [req EXCEPT ![r] = Idle]
    BY DEF SweepEmpty, SweepDelete, ClearEnd, Goto, Finish
  <1>3. req[r].at \in {"empty", "delete", "end"}
    BY DEF SweepEmpty, SweepDelete, ClearEnd
  <1>4. UNCHANGED <<msgs, unread, published, lost>> /\ preview' \in BOOLEAN
    BY DEF SweepEmpty, SweepDelete, ClearEnd, IInv, TypeOK
  <1> QED BY <1>1, <1>2, <1>3, <1>4, IdleQuiet, PlainStep DEF IInv, TypeOK

LEMMA RevokeTold ==
  ASSUME IInv, NEW r \in Reqs, RevokePreview(r) \/ RevokePublish(r) PROVE IInv'
  <1> DEFINE p == req[r]
  <1>1. /\ p.at \in {"revokePreview", "revokePublish"} /\ p.msg \in MsgIds
        /\ p.msg \in DOMAIN msgs /\ msgs[p.msg].revoked
        /\ p = [at |-> p.at, msg |-> p.msg]
    BY RequestType DEF IInv, RequestsKnow, Knows, RevokePreview, RevokePublish
  <1>2. \A u, m : ~Counts(p, m) /\ ~Marks(p, u, m) /\ ~Tells(p, u, m)
    BY <1>1 DEF Counts, Marks, Tells, PendingAt
  <1>3. CASE RevokePreview(r)
    <2> DEFINE q == [p EXCEPT !.at = "revokePublish"]
    <2>1. q = [at |-> "revokePublish", msg |-> p.msg]
      BY <1>1
    <2>2. q \in Request
      BY <1>1, <2>1 DEF Request
    <2>3. Knows(q) /\ \A m : Revokes(p, m) => Revokes(q, m)
      BY <1>1, <2>1 DEF Knows, Revokes, PendingAt, ForwardAt, ClearAt
    <2> QED BY <1>2, <1>3, <2>2, <2>3, LostSame, QuietStep DEF RevokePreview, Goto, IInv, TypeOK
  <1>4. CASE RevokePublish(r)
    <2>1. TypeOK
      BY DEF IInv
    <2>2. UNCHANGED <<msgs, unread, preview>> /\ req' = [req EXCEPT ![r] = Idle]
      BY <1>4 DEF RevokePublish, Finish, Goto
    <2>3. /\ published' \subseteq Event /\ published \subseteq published' /\ LostGrows
          /\ \A e \in published' \ published : True(e)
          /\ RevokeEvent(p.msg) \in published' \cup lost'
      <3>1. CASE Publish("revoke", {p.msg})
        BY <1>1, <2>1, <3>1, PublishTrue, LostSame DEF RevokeEvent
      <3>2. CASE Lose("revoke", {p.msg})
        <4>1. UNCHANGED published
          BY <3>2 DEF Lose
        <4>2. {p.msg} \subseteq MsgIds
          BY <1>1
        <4>3. LostGrows /\ RevokeEvent(p.msg) \in lost'
          BY <2>1, <3>2, <4>2, LoseGrows DEF RevokeEvent
        <4> QED BY <2>1, <4>1, <4>3 DEF TypeOK
      <3> QED BY <1>4, <3>1, <3>2 DEF RevokePublish
    <2>4. \A m : Revokes(p, m) => RevokeEvent(m) \in published' \cup lost'
      BY <2>3 DEF Revokes
    <2> QED BY <1>2, <2>1, <2>2, <2>3, <2>4, IdleQuiet, QuietStep DEF TypeOK
  <1> QED BY <1>3, <1>4
-----------------------------------------------------------------------------
(* SessionClearUnreadNum *)

LEMMA ClearStep ==
  ASSUME IInv, NEW r \in Reqs, NEW u \in Readers, Clear(r, u) PROVE IInv'
  <1> DEFINE q == [at |-> "select", user |-> u, ids |-> {}]
  <1>1. q \in Request /\ Knows(q)
    BY ChatAssumption DEF Request, Knows, PendingAt, ForwardAt, ClearAt
  <1>2. unread' \in [Users -> 0..MaxUnread]
        /\ \A v \in Users : v # u => unread'[v] = unread[v]
    <2>1. unread' = [unread EXCEPT ![u] = 0] \/ UNCHANGED unread
      BY DEF Clear
    <2> QED BY <2>1, ChatAssumption DEF IInv, TypeOK
  <1>3. \A v \in Users : \A m \in UnreadBy(v) :
          unread'[v] = 0 => unread[v] = 0 \/ Marks(q, v, m)
    BY <1>2 DEF Marks
  <1>4. /\ req[r] = Idle /\ req' = [req EXCEPT ![r] = q]
        /\ UNCHANGED <<msgs, preview, published, lost>>
    BY DEF Clear, Goto
  <1>5. preview' \in BOOLEAN /\ published' \subseteq Event /\ LostGrows
    BY <1>4, LostSame DEF IInv, TypeOK
  <1> HIDE DEF q
  <1> QED BY <1>1, <1>2, <1>3, <1>4, <1>5, IdleQuiet, QuietStep

LEMMA ClearGoesOn ==
  ASSUME NEW p, p = [at |-> p.at, user |-> p.user, ids |-> p.ids], NEW at, NEW ids
  PROVE  /\ [p EXCEPT !.at = at] = [at |-> at, user |-> p.user, ids |-> p.ids]
         /\ [p EXCEPT !.at = at, !.ids = ids] = [at |-> at, user |-> p.user, ids |-> ids]
  <1>1. [p EXCEPT !.at = at] = [at |-> at, user |-> p.user, ids |-> p.ids]
    OBVIOUS
  <1>2. [p EXCEPT !.at = at, !.ids = ids] = [[p EXCEPT !.at = at] EXCEPT !.ids = ids]
    OBVIOUS
  <1>3. [[at |-> at, user |-> p.user, ids |-> p.ids] EXCEPT !.ids = ids]
          = [at |-> at, user |-> p.user, ids |-> ids]
    OBVIOUS
  <1> QED BY <1>1, <1>2, <1>3, Zenon

\* What a clear under way is.
LEMMA ClearType ==
  ASSUME IInv, NEW r \in Reqs, req[r].at \in ClearAt
  PROVE  LET p == req[r]
         IN /\ p.user \in Users /\ p.ids \in SUBSET MsgIds /\ p.ids \subseteq To(p.user)
            /\ p = [at |-> p.at, user |-> p.user, ids |-> p.ids]
            /\ p.at = "push" => \A m \in p.ids : msgs[m].read
            /\ \A m : ~Counts(p, m) /\ ~Revokes(p, m)
            /\ \A at \in ClearAt, ids \in SUBSET MsgIds :
                 [at |-> at, user |-> p.user, ids |-> ids] \in Request
  <1>1. TypeOK /\ Knows(req[r])
    BY DEF IInv, RequestsKnow
  <1>2. /\ req[r].user \in Users /\ req[r].ids \in SUBSET MsgIds
        /\ req[r] = [at |-> req[r].at, user |-> req[r].user, ids |-> req[r].ids]
    BY <1>1, RequestType
  <1>3. \A at \in ClearAt, ids \in SUBSET MsgIds :
          [at |-> at, user |-> req[r].user, ids |-> ids] \in Request
    BY <1>2 DEF ClearAt, Request
  <1>4. \A m : ~Counts(req[r], m) /\ ~Revokes(req[r], m)
    BY DEF Counts, Revokes, PendingAt, ClearAt
  <1> QED BY <1>1, <1>2, <1>3, <1>4 DEF Knows

\* A request of r's user that goes on with some of the messages of the user.
LEMMA ClearKnows ==
  ASSUME NEW at \in ClearAt \ {"push"}, NEW u \in Users, NEW ids, ids \subseteq To(u)
  PROVE  /\ Knows([at |-> at, user |-> u, ids |-> ids])
         /\ \A m : ~Counts([at |-> at, user |-> u, ids |-> ids], m)
  BY DEF Knows, Counts, PendingAt, ForwardAt, ClearAt

\* A clear that only has the badge to announce.
LEMMA EndQuiet ==
  ASSUME NEW p, p.user \in Users
  PROVE  /\ ToEnd(p) \in Request /\ Knows(ToEnd(p)) /\ Knows(ToEnd(p))'
         /\ \A m, u : /\ ~Counts(ToEnd(p), m) /\ ~Marks(ToEnd(p), u, m)
                      /\ ~Tells(ToEnd(p), u, m) /\ ~Revokes(ToEnd(p), m)
  BY DEF ToEnd, Request, Knows, Counts, Marks, Tells, Revokes, PendingAt, ForwardAt, ClearAt

LEMMA ClearSelectStep ==
  ASSUME IInv, NEW r \in Reqs, ClearSelect(r) PROVE IInv'
  <1> DEFINE p == req[r]
             ids == UnreadBy(p.user)
             go == [at |-> "mark", user |-> p.user, ids |-> ids]
             q == IF ids = {} THEN ToEnd(p) ELSE go
  <1>1. p.at = "select" /\ p.at \in ClearAt /\ "mark" \in ClearAt \ {"push"}
    BY DEF ClearSelect, ClearAt
  <1>2. ids \subseteq To(p.user) /\ ids \in SUBSET MsgIds /\ p.user \in Users
    BY <1>1, MessageType, ClearType DEF IInv, UnreadBy, To
  <1>3. [p EXCEPT !.at = "mark", !.ids = ids] = go
    <2>1. p = [at |-> p.at, user |-> p.user, ids |-> p.ids]
      BY <1>1, ClearType
    <2> QED BY <2>1, ClearGoesOn
  <1>4. q \in Request /\ Knows(q)
    <2>1. go \in Request /\ Knows(go)
      BY <1>1, <1>2, ClearType, ClearKnows
    <2> QED BY <1>2, <2>1, EndQuiet
  <1>5. req' = [req EXCEPT ![r] = q] /\ UNCHANGED <<msgs, unread, preview, published, lost>>
    BY <1>3 DEF ClearSelect, Goto
  <1>6. \A u \in Users : \A m \in UnreadBy(u) : Marks(p, u, m) => Marks(q, u, m)
    BY <1>1 DEF Marks
  <1>7. \A u, m : ~Tells(p, u, m) /\ ~Counts(p, m) /\ ~Revokes(p, m)
    BY <1>1 DEF Tells, Counts, Revokes, PendingAt
  <1>8. /\ unread' \in [Users -> 0..MaxUnread] /\ preview' \in BOOLEAN
        /\ published' \subseteq Event /\ LostGrows
    BY <1>5, LostSame DEF IInv, TypeOK
  <1> HIDE DEF q
  <1> QED BY <1>4, <1>5, <1>6, <1>7, <1>8, QuietStep

LEMMA ClearRereadStep ==
  ASSUME IInv, NEW r \in Reqs, ClearReread(r) PROVE IInv'
  <1> DEFINE p == req[r]
             ids == {m \in p.ids : msgs[m].read}
             q == [at |-> "push", user |-> p.user, ids |-> ids]
  <1>1. p.at = "reread" /\ p.at \in ClearAt /\ "push" \in ClearAt
    BY DEF ClearReread, ClearAt
  <1>2. ids \subseteq To(p.user) /\ ids \in SUBSET MsgIds
    BY <1>1, ClearType
  <1>3. [p EXCEPT !.at = "push", !.ids = {m \in @ : msgs[m].read}] = q
    <2>1. p = [at |-> p.at, user |-> p.user, ids |-> p.ids]
      BY <1>1, ClearType
    <2> QED BY <2>1, ClearGoesOn
  <1>4. q \in Request /\ Knows(q)
    BY <1>1, <1>2, ClearType DEF Knows, PendingAt, ForwardAt, ClearAt
  <1>5. req' = [req EXCEPT ![r] = q] /\ UNCHANGED <<msgs, unread, preview, published, lost>>
    BY <1>3 DEF ClearReread, Goto
  <1>6. \A u, m : Tells(p, u, m) /\ msgs[m].read => Tells(q, u, m)
    BY <1>1 DEF Tells
  <1>7. \A u, m : ~Marks(p, u, m) /\ ~Counts(p, m) /\ ~Revokes(p, m)
    BY <1>1 DEF Marks, Counts, Revokes, PendingAt
  <1>8. /\ unread' \in [Users -> 0..MaxUnread] /\ preview' \in BOOLEAN
        /\ published' \subseteq Event /\ LostGrows
    BY <1>5, LostSame DEF IInv, TypeOK
  <1> HIDE DEF q
  <1> QED BY <1>4, <1>5, <1>6, <1>7, <1>8, QuietStep

LEMMA ClearPushStep ==
  ASSUME IInv, NEW r \in Reqs, ClearPush(r) PROVE IInv'
  <1> DEFINE p == req[r]
             q == ToEnd(p)
  <1>1. p.at = "push" /\ p.at \in ClearAt /\ TypeOK
    BY DEF ClearPush, ClearAt, IInv
  <1>2. /\ p.user \in Users /\ p.ids \in SUBSET MsgIds /\ p.ids \subseteq To(p.user)
        /\ \A m \in p.ids : msgs[m].read
    BY <1>1, ClearType
  <1>3. p.ids \subseteq DOMAIN msgs
    BY <1>2 DEF To
  <1>4. q \in Request /\ Knows(q)
    BY <1>2, EndQuiet
  <1>5. req' = [req EXCEPT ![r] = q] /\ UNCHANGED <<msgs, unread, preview>>
    BY DEF ClearPush, Goto
  <1>6. /\ published' \subseteq Event /\ published \subseteq published' /\ UNCHANGED lost
        /\ \A e \in published' \ published : True(e)
        /\ \A m \in p.ids : ReadEvent(m) \in published'
    BY <1>1, <1>2, <1>3, PublishTrue DEF ClearPush, ReadEvent
  <1>7. \A u, m : Tells(p, u, m) => ReadEvent(m) \in published'
    BY <1>6 DEF Tells
  <1>8. \A u, m : ~Marks(p, u, m) /\ ~Counts(p, m) /\ ~Revokes(p, m)
    BY <1>1 DEF Marks, Counts, Revokes, PendingAt
  <1>9. unread' \in [Users -> 0..MaxUnread] /\ preview' \in BOOLEAN /\ LostGrows
    BY <1>1, <1>5, <1>6, LostSame DEF TypeOK
  <1> HIDE DEF q
  <1> QED BY <1>4, <1>5, <1>6, <1>7, <1>8, <1>9, QuietStep

\* A clear that breaks off remembers what it answered for as lost.
LEMMA ClearFailsStep ==
  ASSUME IInv, NEW r \in Reqs, ClearFails(r) PROVE IInv'
  <1> DEFINE p == req[r]
             q == ToEnd(p)
  <1>1. p.at \in {"select", "mark", "reread", "push"} /\ p.at \in ClearAt /\ TypeOK
    BY DEF ClearFails, ClearAt, IInv
  <1>2. p.user \in Users /\ p.ids \in SUBSET MsgIds /\ UnreadBy(p.user) \subseteq MsgIds
    BY <1>1, ClearType, MessageType DEF UnreadBy, To
  <1>3. q \in Request /\ Knows(q)
    BY <1>2, EndQuiet
  <1>4. req' = [req EXCEPT ![r] = q] /\ UNCHANGED <<msgs, unread, preview, published>>
    BY DEF ClearFails, Goto, Lose
  <1>5. /\ LostGrows
        /\ \A u : \A m \in UnreadBy(u) : Marks(p, u, m) => Uncounted(m) \in lost'
        /\ \A u, m : Tells(p, u, m) => ReadEvent(m) \in lost'
    <2>1. ASSUME p.at = "select", Lose("count", UnreadBy(p.user)) PROVE <1>5!:
      BY <1>1, <1>2, <2>1, LoseGrows DEF Marks, Tells, Uncounted
    <2>2. ASSUME p.at = "mark", Lose("count", p.ids) PROVE <1>5!:
      BY <1>1, <1>2, <2>2, LoseGrows DEF Marks, Tells, Uncounted
    <2>3. ASSUME p.at \in {"reread", "push"}, Lose("read", p.ids) PROVE <1>5!:
      BY <1>1, <1>2, <2>3, LoseGrows DEF Marks, Tells, ReadEvent
    <2> QED BY <2>1, <2>2, <2>3 DEF ClearFails
  <1>6. \A m : ~Counts(p, m) /\ ~Revokes(p, m)
    BY <1>1 DEF Counts, Revokes, PendingAt
  <1>7. /\ unread' \in [Users -> 0..MaxUnread] /\ preview' \in BOOLEAN
        /\ published' \subseteq Event
    BY <1>1, <1>4 DEF TypeOK
  <1> HIDE DEF q
  <1> QED BY <1>3, <1>4, <1>5, <1>6, <1>7, QuietStep
-----------------------------------------------------------------------------
(* The steps that change the messages *)

LEMMA AppendMsg ==
  ASSUME TypeOK, Len(msgs) < MaxMsgs, NEW u \in Users, NEW how \in {"sent", "forwarded"},
         msgs' = Append(msgs, NewMessage(u, how))
  PROVE  /\ msgs' \in Seq(Message) /\ Len(msgs') <= MaxMsgs /\ MsgsKept
         /\ Len(msgs) + 1 \in MsgIds
         /\ DOMAIN msgs' = DOMAIN msgs \cup {Len(msgs) + 1}
         /\ msgs'[Len(msgs) + 1] = NewMessage(u, how)
         /\ Len(msgs) + 1 \notin DOMAIN msgs
         /\ \A m \in DOMAIN msgs : msgs'[m] = msgs[m]
  <1>1. NewMessage(u, how) \in Message
    BY DEF NewMessage, Message
  <1>2. /\ msgs' \in Seq(Message) /\ Len(msgs') = Len(msgs) + 1
        /\ \A m \in DOMAIN msgs : msgs'[m] = msgs[m]
        /\ DOMAIN msgs' = 1..(Len(msgs) + 1)
        /\ msgs'[Len(msgs) + 1] = NewMessage(u, how)
    BY <1>1, MessageType DEF TypeOK
  <1> QED BY <1>2, MessageType, ChatAssumption DEF MsgsKept, MsgIds

LEMMA SendIInv ==
  ASSUME IInv, NEW r \in Reqs, NEW u \in Writers, Send(r, u) PROVE IInv'
  <1> SUFFICES ASSUME NEW n, n = Len(msgs) + 1,
                      NEW q, q = [at |-> "preview", user |-> u, msg |-> n]
               PROVE  IInv'
    OBVIOUS
  <1>1. u \in Users /\ TypeOK
    BY ChatAssumption DEF IInv
  <1>2. /\ msgs' \in Seq(Message) /\ Len(msgs') <= MaxMsgs /\ MsgsKept
        /\ n \in MsgIds /\ DOMAIN msgs' = DOMAIN msgs \cup {n} /\ n \notin DOMAIN msgs
        /\ msgs'[n] = NewMessage(u, "sent")
        /\ \A m \in DOMAIN msgs : msgs'[m] = msgs[m]
    BY <1>1, AppendMsg DEF Send
  <1>3. msgs'[n].from = u /\ ~msgs'[n].read /\ ~msgs'[n].revoked
    BY <1>2 DEF NewMessage
  <1>4. q \in Request /\ Knows(q)'
    <2>1. q \in Request
      BY <1>1, <1>2 DEF Request
    <2>2. q.msg \in DOMAIN msgs' /\ msgs'[q.msg].from = q.user
      BY <1>2, <1>3
    <2>3. q.at = "preview"
      OBVIOUS
    <2> QED BY <2>1, <2>2, <2>3 DEF Knows, PendingAt, ForwardAt, ClearAt
  <1>5. req[r] = Idle /\ req' = [req EXCEPT ![r] = q]
        /\ UNCHANGED <<unread, preview, published, lost>>
    BY DEF Send, Goto
  <1>6. Counts(q, n)
    BY DEF Counts, PendingAt
  <1>7. /\ \A v : UnreadBy(v)' \subseteq UnreadBy(v) \cup {n}
        /\ \A v : \A m \in To(v)' : msgs'[m].read => m \in To(v) /\ msgs[m].read
        /\ \A m \in DOMAIN msgs' : msgs'[m].revoked => m \in DOMAIN msgs /\ msgs[m].revoked
    BY <1>2, <1>3 DEF UnreadBy, To
  <1>8. /\ unread' \in [Users -> 0..MaxUnread] /\ preview' \in BOOLEAN
        /\ published' \subseteq Event /\ \A v \in Users : unread'[v] > 0 \/ unread[v] = 0
    BY <1>1, <1>5, ChatAssumption DEF TypeOK
  <1>9. CountsOn(r, q)
    BY <1>5, <1>6, <1>7, <1>8, IdleQuiet DEF CountsOn
  <1>10. TellsOn(r, q)
    BY <1>5, <1>7, IdleQuiet DEF TellsOn
  <1>11. RevokesOn(r, q)
    BY <1>5, <1>7, IdleQuiet DEF RevokesOn
  <1>12. /\ published \subseteq published' /\ LostGrows
         /\ \A e \in published' \ published : True(e)'
    BY <1>1, <1>5, LostSame
  <1> QED BY <1>2, <1>4, <1>5, <1>8, <1>9, <1>10, <1>11, <1>12, RequestStep

LEMMA ForwardInsertIInv ==
  ASSUME IInv, NEW r \in Reqs, ForwardInsert(r) PROVE IInv'
  <1> SUFFICES ASSUME NEW p, p = req[r], NEW n, n = Len(msgs) + 1 PROVE IInv'
    OBVIOUS
  <1>1. p.at = "fwdInsert" /\ p.left > 0 /\ p.at \in ForwardAt
        /\ UNCHANGED <<unread, preview, published, lost>>
    BY DEF ForwardInsert, ForwardAt
  <1>2. TypeOK
    BY DEF IInv
  <1>3. /\ p.user \in Users /\ p.left \in 0..MaxForward /\ p.ids \in SUBSET MsgIds
        /\ p = [at |-> p.at, user |-> p.user, left |-> p.left, ids |-> p.ids]
        /\ p.left - 1 \in 0..MaxForward
    <2>1. /\ p.user \in Users /\ p.left \in 0..MaxForward /\ p.ids \in SUBSET MsgIds
          /\ p = [at |-> p.at, user |-> p.user, left |-> p.left, ids |-> p.ids]
      BY <1>1, <1>2, RequestType
    <2> QED BY <1>1, <2>1, ChatAssumption
  <1>4. p.ids \subseteq DOMAIN msgs
    BY <1>1 DEF IInv, RequestsKnow, Knows
  <1>5. /\ unread' \in [Users -> 0..MaxUnread] /\ preview' \in BOOLEAN
        /\ published' \subseteq Event /\ \A v \in Users : unread'[v] > 0 \/ unread[v] = 0
    BY <1>1, <1>2, ChatAssumption DEF TypeOK
  <1>6. \A m, u : ~Counts(p, m) /\ ~Marks(p, u, m) /\ ~Tells(p, u, m) /\ ~Revokes(p, m)
    BY <1>1, AnswersForNone
  <1>7. CASE /\ Len(msgs) < MaxMsgs
             /\ msgs' = Append(msgs, NewMessage(p.user, "forwarded"))
             /\ Goto(r, [at |-> p.at, user |-> p.user, left |-> p.left - 1,
                         ids |-> p.ids \cup {Len(msgs) + 1}])
    <2> SUFFICES ASSUME NEW q, q = [at |-> "fwdInsert", user |-> p.user,
                                    left |-> p.left - 1, ids |-> p.ids \cup {n}]
                 PROVE  IInv'
      OBVIOUS
    <2>1. /\ msgs' \in Seq(Message) /\ Len(msgs') <= MaxMsgs /\ MsgsKept
          /\ n \in MsgIds /\ DOMAIN msgs' = DOMAIN msgs \cup {n} /\ n \notin DOMAIN msgs
          /\ msgs'[n] = NewMessage(p.user, "forwarded")
          /\ \A m \in DOMAIN msgs : msgs'[m] = msgs[m]
      BY <1>2, <1>3, <1>7, AppendMsg
    <2>2. msgs'[n].how # "sent" /\ ~msgs'[n].read /\ ~msgs'[n].revoked
      BY <2>1 DEF NewMessage
    <2>4. q \in Request
      BY <1>3, <2>1 DEF Request
    <2>5. Knows(q)'
      <3>1. q.ids \subseteq DOMAIN msgs' /\ q.at = "fwdInsert"
        BY <1>4, <2>1
      <3> QED BY <3>1 DEF Knows, PendingAt, ForwardAt, ClearAt
    <2>6. req' = [req EXCEPT ![r] = q]
      BY <1>1, <1>7 DEF Goto
    <2>7. /\ \A v : \A m \in UnreadBy(v)' : msgs'[m].how = "sent" => m \in UnreadBy(v)
          /\ \A v : \A m \in To(v)' : msgs'[m].read => m \in To(v) /\ msgs[m].read
          /\ \A m \in DOMAIN msgs' : msgs'[m].revoked => m \in DOMAIN msgs /\ msgs[m].revoked
      BY <2>1, <2>2 DEF UnreadBy, To
    <2>8. CountsOn(r, q)
      BY <1>5, <1>6, <2>7 DEF CountsOn
    <2>9. TellsOn(r, q)
      BY <1>6, <2>7 DEF TellsOn
    <2>10. RevokesOn(r, q)
      BY <1>6, <2>7 DEF RevokesOn
    <2>11. /\ published \subseteq published' /\ LostGrows
           /\ \A e \in published' \ published : True(e)'
      BY <1>1, <1>2, LostSame
    <2> QED BY <1>5, <2>1, <2>4, <2>5, <2>6, <2>8, <2>9, <2>10, <2>11, RequestStep
  <1>8. CASE Goto(r, [p EXCEPT !.left = @ - 1]) /\ UNCHANGED msgs
    <2> SUFFICES ASSUME NEW q, q = [at |-> "fwdInsert", user |-> p.user,
                                    left |-> p.left - 1, ids |-> p.ids]
                 PROVE  IInv'
      OBVIOUS
    <2>1. [p EXCEPT !.left = @ - 1] = q
      BY <1>1, <1>3
    <2>2. q \in Request
      BY <1>3 DEF Request
    <2>3. Knows(q)
      BY <1>4 DEF Knows, PendingAt, ForwardAt, ClearAt
    <2>4. req' = [req EXCEPT ![r] = q]
      BY <1>8, <2>1 DEF Goto
    <2>5. \A v \in Users : unread'[v] = 0 => unread[v] = 0
      BY <1>1
    <2> QED BY <1>1, <1>5, <1>8, <2>2, <2>3, <2>4, <2>5, PlainStep
  <1> QED BY <1>7, <1>8 DEF ForwardInsert

\* Rows are changed in place.
LEMMA RowsChanged ==
  ASSUME TypeOK, DOMAIN msgs' = DOMAIN msgs, NEW f \in [DOMAIN msgs -> Message], msgs' = f
  PROVE  msgs' \in Seq(Message) /\ Len(msgs') <= MaxMsgs
  <1>1. Len(msgs) \in Nat /\ DOMAIN msgs = 1..Len(msgs)
    BY MessageType
  <1>2. msgs' \in Seq(Message)
    BY <1>1, SeqDef
  <1>3. Len(msgs') = Len(msgs)
    BY <1>1, <1>2, LenProperties
  <1> QED BY <1>2, <1>3 DEF TypeOK

LEMMA RowsExcept ==
  ASSUME TypeOK, NEW S, NEW b \in BOOLEAN
  PROVE  \A m \in DOMAIN msgs :
           /\ [msgs[m] EXCEPT !.read = b] \in Message
           /\ [msgs[m] EXCEPT !.revoked = b] \in Message
           /\ [msgs[m] EXCEPT !.gone = b] \in Message
           /\ [msgs[m] EXCEPT !.new = b] \in Message
  <1> SUFFICES ASSUME NEW m \in DOMAIN msgs, NEW x, x = msgs[m]
               PROVE  /\ [x EXCEPT !.read = b] \in Message
                      /\ [x EXCEPT !.revoked = b] \in Message
                      /\ [x EXCEPT !.gone = b] \in Message
                      /\ [x EXCEPT !.new = b] \in Message
    OBVIOUS
  <1>1. x \in Message
    BY MessageType
  <1> QED BY <1>1 DEF Message

LEMMA ClearMarkIInv ==
  ASSUME IInv, NEW r \in Reqs, ClearMark(r) PROVE IInv'
  <1> SUFFICES ASSUME NEW p, p = req[r],
                      NEW marked, marked = {m \in p.ids : ~msgs[m].read},
                      NEW go, go = [at |-> "reread", user |-> p.user, ids |-> p.ids],
                      NEW q, q = IF marked = {} THEN ToEnd(p) ELSE go
               PROVE  IInv'
    OBVIOUS
  <1>1. p.at = "mark" /\ p.at \in ClearAt /\ "reread" \in ClearAt \ {"push"} /\ TypeOK
    BY DEF ClearMark, ClearAt, IInv
  <1>2. /\ p.user \in Users /\ p.ids \in SUBSET MsgIds /\ p.ids \subseteq To(p.user)
        /\ p = [at |-> p.at, user |-> p.user, ids |-> p.ids] /\ q \in Request
        /\ \A m : ~Counts(p, m) /\ ~Revokes(p, m)
    BY <1>1, ClearType, EndQuiet
  <1>3. [p EXCEPT !.at = "reread"] = go
    BY <1>2, ClearGoesOn
  <1>4. req' = [req EXCEPT ![r] = q] /\ UNCHANGED <<unread, preview, published, lost>>
    BY <1>3 DEF ClearMark, Goto
  <1>5. msgs' = [m \in DOMAIN msgs |->
                   IF m \in marked THEN [msgs[m] EXCEPT !.read = TRUE] ELSE msgs[m]]
    BY DEF ClearMark
  <1>6. \A m \in DOMAIN msgs : msgs[m] \in Message /\ [msgs[m] EXCEPT !.read = TRUE] \in Message
    BY <1>1, MessageType, RowsExcept
  <1>7. DOMAIN msgs' = DOMAIN msgs /\ msgs' \in [DOMAIN msgs -> Message]
    BY <1>5, <1>6
  <1>8. msgs' \in Seq(Message) /\ Len(msgs') <= MaxMsgs
    BY <1>1, <1>7, RowsChanged
  <1>9. \A m \in DOMAIN msgs :
          /\ msgs'[m].from = msgs[m].from /\ msgs'[m].how = msgs[m].how
          /\ msgs'[m].revoked = msgs[m].revoked
          /\ msgs'[m].read <=> msgs[m].read \/ m \in marked
    BY <1>5, <1>6 DEF Message
  <1>10. MsgsKept
    BY <1>7, <1>9 DEF MsgsKept
  <1>11. Knows(q)'
    <2>1. p.ids \subseteq To(p.user)'
      BY <1>2, <1>7, <1>9 DEF To
    <2>2. Knows(go)'
      BY <2>1 DEF Knows, PendingAt, ForwardAt, ClearAt
    <2> QED BY <1>2, <2>2, EndQuiet
  <1>12. /\ \A v : UnreadBy(v)' = UnreadBy(v) \ marked
         /\ \A v : To(v)' = To(v)
    BY <1>7, <1>9 DEF UnreadBy, To
  <1>13. \A m \in marked : \A v \in Users : m \in To(v) => v = p.user
    <2> SUFFICES ASSUME NEW m \in marked, NEW v \in Users, m \in To(v) PROVE v = p.user
      OBVIOUS
    <2>1. m \in DOMAIN msgs /\ msgs[m].from # v /\ msgs[m].from # p.user
      BY <1>2 DEF To
    <2>2. msgs[m].from \in Users
      BY <1>1, <2>1, MessageType
    <2>3. v = Peer(msgs[m].from) /\ p.user = Peer(msgs[m].from)
      BY <1>2, <2>1, <2>2, PeerIsOther
    <2> QED BY <2>3
  <1>14. /\ unread' \in [Users -> 0..MaxUnread] /\ preview' \in BOOLEAN
         /\ published' \subseteq Event /\ \A v \in Users : unread'[v] > 0 \/ unread[v] = 0
         /\ published \subseteq published' /\ \A e \in published' \ published : True(e)'
         /\ LostGrows
    BY <1>1, <1>4, LostSame, ChatAssumption DEF TypeOK
  <1>15. CountsOn(r, q)
    <2>1. \A v : \A m \in UnreadBy(v)' : m \in UnreadBy(v) /\ ~Marks(p, v, m)
      BY <1>1, <1>12 DEF Marks, UnreadBy
    <2> QED BY <1>2, <1>14, <2>1 DEF CountsOn
  <1>16. TellsOn(r, q)
    <2>1. \A v \in Users, m \in marked : m \in To(v) => Tells(q, v, m)
      BY <1>13 DEF Tells
    <2>2. \A v, m : ~Tells(p, v, m)
      BY <1>1 DEF Tells
    <2>3. \A v : \A m \in To(v)' : msgs'[m].read => m \in To(v) /\ (msgs[m].read \/ m \in marked)
      <3> SUFFICES ASSUME NEW v, NEW m \in To(v)', msgs'[m].read
                   PROVE  m \in To(v) /\ (msgs[m].read \/ m \in marked)
        OBVIOUS
      <3>1. m \in To(v)
        BY <1>12
      <3>2. m \in DOMAIN msgs
        BY <3>1 DEF To
      <3> QED BY <1>9, <3>1, <3>2
    <2> QED BY <2>1, <2>2, <2>3 DEF TellsOn
  <1>17. RevokesOn(r, q)
    BY <1>2, <1>7, <1>9 DEF RevokesOn
  <1> QED BY <1>2, <1>4, <1>8, <1>10, <1>11, <1>14, <1>15, <1>16, <1>17, RequestStep

LEMMA RevokeWriteIInv ==
  ASSUME IInv, NEW r \in Reqs, RevokeWrite(r) PROVE IInv'
  <1> SUFFICES ASSUME NEW p, p = req[r],
                      NEW q, q = [at |-> "revokePreview", msg |-> p.msg]
               PROVE  IInv'
    OBVIOUS
  <1>1. p.at = "revoke" /\ TypeOK
    BY DEF RevokeWrite, IInv
  <1>2. p.msg \in MsgIds /\ p = [at |-> p.at, msg |-> p.msg]
    BY <1>1, RequestType
  <1>3. p.msg \in DOMAIN msgs
    BY <1>1 DEF IInv, RequestsKnow, Knows
  <1>4. [p EXCEPT !.at = "revokePreview"] = q
    BY <1>2
  <1>5. req' = [req EXCEPT ![r] = q] /\ UNCHANGED <<unread, preview, published, lost>>
    BY <1>4 DEF RevokeWrite, Goto
  <1>6. msgs' = [msgs EXCEPT ![p.msg].revoked = TRUE]
    BY DEF RevokeWrite
  <1>7. \A m \in DOMAIN msgs : msgs[m] \in Message /\ [msgs[m] EXCEPT !.revoked = TRUE] \in Message
    BY <1>1, MessageType, RowsExcept
  <1>8. /\ DOMAIN msgs' = DOMAIN msgs /\ msgs' \in [DOMAIN msgs -> Message]
        /\ msgs'[p.msg] = [msgs[p.msg] EXCEPT !.revoked = TRUE]
        /\ \A m \in DOMAIN msgs : m # p.msg => msgs'[m] = msgs[m]
    <2>1. DOMAIN msgs' = DOMAIN msgs
      BY <1>6, <1>1 DEF TypeOK
    <2>2. msgs'[p.msg] = [msgs[p.msg] EXCEPT !.revoked = TRUE]
      BY <1>6, <1>1, <1>3 DEF TypeOK
    <2>3. \A m \in DOMAIN msgs : m # p.msg => msgs'[m] = msgs[m]
      BY <1>6, <1>1, <1>3 DEF TypeOK
    <2>4. msgs' = [m \in DOMAIN msgs |-> msgs'[m]]
      BY <1>6, <1>1, <2>1 DEF TypeOK
    <2> QED BY <1>3, <1>7, <2>1, <2>2, <2>3, <2>4
  <1>9. msgs' \in Seq(Message) /\ Len(msgs') <= MaxMsgs
    BY <1>1, <1>8, RowsChanged
  <1>10. \A m \in DOMAIN msgs :
           /\ msgs'[m].from = msgs[m].from /\ msgs'[m].how = msgs[m].how
           /\ msgs'[m].read = msgs[m].read
           /\ msgs'[m].revoked <=> msgs[m].revoked \/ m = p.msg
    BY <1>7, <1>8 DEF Message
  <1>11. MsgsKept
    BY <1>8, <1>10 DEF MsgsKept
  <1>12. q \in Request /\ Knows(q)'
    BY <1>2, <1>3, <1>8, <1>10 DEF Request, Knows, PendingAt, ForwardAt, ClearAt
  <1>13. \A v : UnreadBy(v)' = UnreadBy(v) /\ To(v)' = To(v)
    BY <1>8, <1>10 DEF UnreadBy, To
  <1>14. \A m, v : ~Counts(p, m) /\ ~Marks(p, v, m) /\ ~Tells(p, v, m) /\ ~Revokes(p, m)
    BY <1>1, AnswersForNone
  <1>15. /\ unread' \in [Users -> 0..MaxUnread] /\ preview' \in BOOLEAN
         /\ published' \subseteq Event /\ \A v \in Users : unread'[v] > 0 \/ unread[v] = 0
         /\ published \subseteq published' /\ \A e \in published' \ published : True(e)'
         /\ LostGrows
    BY <1>1, <1>5, LostSame, ChatAssumption DEF TypeOK
  <1>16. CountsOn(r, q)
    BY <1>13, <1>14, <1>15 DEF CountsOn
  <1>17. TellsOn(r, q)
    <2>1. \A v : \A m \in To(v)' : m \in To(v) /\ msgs'[m].read = msgs[m].read
      BY <1>10, <1>13 DEF To
    <2> QED BY <1>14, <2>1 DEF TellsOn
  <1>18. RevokesOn(r, q)
    BY <1>8, <1>10, <1>14 DEF Revokes, RevokesOn
  <1> QED BY <1>5, <1>9, <1>11, <1>12, <1>15, <1>16, <1>17, <1>18, RequestStep

\* Deleted, or older than three minutes: the properties do not look at either.
LEMMA AsideIInv ==
  ASSUME IInv, NEW m, DeleteRecord(m) \/ Ages(m) PROVE IInv'
  <1>1. /\ m \in DOMAIN msgs /\ TypeOK /\ UNCHANGED <<unread, preview, published, lost, req>>
        /\ \/ msgs' = [msgs EXCEPT ![m].gone = TRUE]
           \/ msgs' = [msgs EXCEPT ![m].new = FALSE]
    BY DEF DeleteRecord, Ages, IInv
  <1>2. /\ DOMAIN msgs' = DOMAIN msgs
        /\ \/ msgs'[m] = [msgs[m] EXCEPT !.gone = TRUE]
           \/ msgs'[m] = [msgs[m] EXCEPT !.new = FALSE]
        /\ \A n \in DOMAIN msgs : n # m => msgs'[n] = msgs[n]
        /\ msgs' = [n \in DOMAIN msgs |-> msgs'[n]]
    <2>1. CASE msgs' = [msgs EXCEPT ![m].gone = TRUE]
      BY <1>1, <2>1 DEF TypeOK
    <2>2. CASE msgs' = [msgs EXCEPT ![m].new = FALSE]
      BY <1>1, <2>2 DEF TypeOK
    <2> QED BY <1>1, <2>1, <2>2
  <1>3. \A n \in DOMAIN msgs : msgs[n] \in Message
    BY <1>1, MessageType
  <1>4. /\ [msgs[m] EXCEPT !.gone = TRUE] \in Message
        /\ [msgs[m] EXCEPT !.new = FALSE] \in Message
    BY <1>1, RowsExcept
  <1>5. msgs' \in [DOMAIN msgs -> Message]
    BY <1>1, <1>2, <1>3, <1>4
  <1>6. msgs' \in Seq(Message) /\ Len(msgs') <= MaxMsgs
    BY <1>1, <1>2, <1>5, RowsChanged
  <1>7. \A n \in DOMAIN msgs :
          /\ msgs'[n].from = msgs[n].from /\ msgs'[n].how = msgs[n].how
          /\ msgs'[n].read = msgs[n].read /\ msgs'[n].revoked = msgs[n].revoked
    BY <1>1, <1>2, <1>3 DEF Message
  <1>8. MsgsKept
    BY <1>2, <1>7 DEF MsgsKept
  <1>9. \A v : UnreadBy(v)' = UnreadBy(v) /\ To(v)' = To(v)
    BY <1>2, <1>7 DEF UnreadBy, To
  <1>10. TypeOK'
    BY <1>1, <1>6 DEF TypeOK
  <1>11. RequestsKnow'
    BY <1>1, <1>8, KnowsKept DEF IInv, RequestsKnow
  <1>12. EachIsCounted'
    BY <1>1, <1>7, <1>9 DEF IInv, EachIsCounted, UnreadBy, To
  <1>13. ReadIsAnnounced'
    BY <1>1, <1>7, <1>9 DEF IInv, ReadIsAnnounced, To
  <1>14. RevokedIsAnnounced'
    BY <1>1, <1>2, <1>7 DEF IInv, RevokedIsAnnounced
  <1>15. PublishedIsTrue'
    BY <1>1, <1>2, <1>7 DEF IInv, PublishedIsTrue
  <1> QED BY <1>10, <1>11, <1>12, <1>13, <1>14, <1>15 DEF IInv

LEMMA SweepMarkIInv ==
  ASSUME IInv, NEW r \in Reqs, NEW upto \in 0..MaxMsgs, SweepMark(r, upto) PROVE IInv'
  <1> SUFFICES ASSUME NEW q, q = [at |-> "empty"] PROVE IInv'
    OBVIOUS
  <1>1. /\ req[r] = Idle /\ req' = [req EXCEPT ![r] = q]
        /\ TypeOK /\ UNCHANGED <<unread, preview, published, lost>>
    BY DEF SweepMark, Goto, IInv
  <1>2. msgs' = [m \in DOMAIN msgs |->
                   IF m <= upto THEN [msgs[m] EXCEPT !.gone = TRUE] ELSE msgs[m]]
    BY DEF SweepMark
  <1>3. \A m \in DOMAIN msgs : msgs[m] \in Message /\ [msgs[m] EXCEPT !.gone = TRUE] \in Message
    BY <1>1, MessageType, RowsExcept
  <1>4. DOMAIN msgs' = DOMAIN msgs /\ msgs' \in [DOMAIN msgs -> Message]
    BY <1>2, <1>3
  <1>5. msgs' \in Seq(Message) /\ Len(msgs') <= MaxMsgs
    BY <1>1, <1>4, RowsChanged
  <1>6. \A n \in DOMAIN msgs :
          /\ msgs'[n].from = msgs[n].from /\ msgs'[n].how = msgs[n].how
          /\ msgs'[n].read = msgs[n].read /\ msgs'[n].revoked = msgs[n].revoked
    BY <1>2, <1>3 DEF Message
  <1>7. MsgsKept
    BY <1>4, <1>6 DEF MsgsKept
  <1>8. \A v : UnreadBy(v)' = UnreadBy(v) /\ To(v)' = To(v)
    BY <1>4, <1>6 DEF UnreadBy, To
  <1>9. q \in Request /\ Knows(q)'
    BY DEF Request, Knows, PendingAt, ForwardAt, ClearAt
  <1>10. /\ unread' \in [Users -> 0..MaxUnread] /\ preview' \in BOOLEAN
         /\ published' \subseteq Event /\ \A v \in Users : unread'[v] > 0 \/ unread[v] = 0
         /\ published \subseteq published' /\ \A e \in published' \ published : True(e)'
         /\ LostGrows
    BY <1>1, LostSame, ChatAssumption DEF TypeOK
  <1>11. CountsOn(r, q)
    BY <1>1, <1>8, <1>10, IdleQuiet DEF CountsOn
  <1>12. TellsOn(r, q)
    BY <1>1, <1>6, <1>8, IdleQuiet, ZenonT(40) DEF TellsOn, To
  <1>13. RevokesOn(r, q)
    BY <1>1, <1>4, <1>6, IdleQuiet DEF RevokesOn
  <1> QED BY <1>1, <1>5, <1>7, <1>9, <1>10, <1>11, <1>12, <1>13, RequestStep
-----------------------------------------------------------------------------
LEMMA InitIInv == Init => IInv
  <1> SUFFICES ASSUME Init PROVE IInv
    OBVIOUS
  <1>1. TypeOK
    <2>1. msgs \in Seq(Message) /\ Len(msgs) <= MaxMsgs
      <3>1. msgs = <<>> /\ MaxMsgs \in Nat
        BY ChatAssumption DEF Init
      <3>2. Len(msgs) = 0 /\ msgs \in Seq(Message)
        BY <3>1, EmptySeq
      <3> QED BY <3>1, <3>2
    <2>2. /\ unread \in [Users -> 0..MaxUnread] /\ preview \in BOOLEAN
          /\ published \subseteq Event /\ lost \subseteq Loss
      <3>1. 0 \in 0..MaxUnread
        BY ChatAssumption
      <3> QED BY <3>1 DEF Init
    <2>3. req \in [Reqs -> Request]
      BY IdleQuiet DEF Init
    <2> QED BY <2>1, <2>2, <2>3 DEF TypeOK
  <1>2. RequestsKnow
    BY IdleQuiet DEF Init, RequestsKnow
  <1> QED
    BY <1>1, <1>2 DEF Init, IInv, EachIsCounted, ReadIsAnnounced, RevokedIsAnnounced,
                      PublishedIsTrue, UnreadBy, To

LEMMA NextIInv == IInv /\ [Next]_chatVars => IInv'
  <1> SUFFICES ASSUME IInv, [Next]_chatVars PROVE IInv'
    OBVIOUS
  <1>1. ASSUME NEW r \in Reqs, Start(r) PROVE IInv'
    BY <1>1, ClearStep, SendIInv, ForwardStep, RevokeStep, SweepMarkIInv DEF Start
  <1>2. ASSUME NEW r \in Reqs, Step(r) PROVE IInv'
    BY <1>2, SendStep, ForwardStep, ForwardInsertIInv, ClearSelectStep, ClearMarkIInv,
       ClearRereadStep, ClearPushStep, ClearFailsStep, SweepStep, RevokeWriteIInv,
       RevokeTold DEF Step
  <1>3. CASE UNCHANGED chatVars
    BY <1>3 DEF chatVars, IInv, TypeOK, RequestsKnow, Knows, EachIsCounted, ReadIsAnnounced,
                RevokedIsAnnounced, PublishedIsTrue, UnreadBy, To
  <1> QED BY <1>1, <1>2, <1>3, AsideIInv DEF Next

\* The inductive invariant holds in every reachable state.
THEOREM ChatInvariant == Spec => []IInv
  BY InitIInv, NextIInv, PTL DEF Spec

\* The stores and the requests keep their types.
THEOREM ChatTypes == Spec => []TypeOK
  BY ChatInvariant, PTL DEF IInv

\* What is unread and nobody is clearing shows in the counter (UnreadIsCounted),
\* for any number of devices and requests.
THEOREM UnreadCounted == Spec => []UnreadIsCounted
  <1>1. IInv => UnreadIsCounted
    <2> SUFFICES ASSUME IInv, NEW u \in Users, NEW m \in UnreadBy(u),
                        msgs[m].how = "sent", ~Pending(m), ~Clearing(u),
                        Uncounted(m) \notin lost
                 PROVE  unread[u] > 0
      BY DEF UnreadIsCounted, Uncounted
    <2>1. \A r \in Reqs : ~Counts(req[r], m) /\ ~Marks(req[r], u, m)
      BY DEF Counts, Marks, Pending, Clearing, PendingAt
    <2> QED BY <2>1 DEF IInv, EachIsCounted
  <1> QED BY <1>1, ChatInvariant, PTL

\* A message read is announced to its sender by whichever clear marked it, or
\* that clear is still on its way (ReadIsAnnounced).
THEOREM ReadAnnounced == Spec => []ReadIsAnnounced
  BY ChatInvariant, PTL DEF IInv

\* A revocation that was written is announced, or its request is still on its
\* way (RevokedIsAnnounced).
THEOREM RevokedAnnounced == Spec => []RevokedIsAnnounced
  BY ChatInvariant, PTL DEF IInv

\* Nothing was published that the table does not say (PublishedIsTrue).
THEOREM PublishedTrue == Spec => []PublishedIsTrue
  BY ChatInvariant, PTL DEF IInv
=============================================================================
