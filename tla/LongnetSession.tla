---------------------------- MODULE LongnetSession ----------------------------
(***************************************************************************)
(* The long connections of one comet process: SessionManager and Session,  *)
(* composed with the timing wheel that schedules their heartbeats.         *)
(*                                                                         *)
(* A connection has two goroutines: the one that accepted it, which runs   *)
(* Session.init, and the one init starts to read. Workers of the wheel run *)
(* onHeartbeatCallback. The timeout branch of the callback compares        *)
(* seconds with nanoseconds and is never taken: a silent connection is     *)
(* closed by its read deadline. What OnOpen and OnClose record in Redis is *)
(* ClientBinding.                                                          *)
(***************************************************************************)
EXTENDS TimingWheel

CONSTANTS
  Openers,       \* Openers[id], Readers[id]: the goroutines of connection id
  Readers,
  Workers,       \* consumers of the wheel's channel
  MaxOpenConns,
  NoJob

ASSUME SessionAssumption ==
  /\ MaxOpenConns \in Nat \ {0}
  /\ Openers \in [Ids -> Goroutines] /\ Readers \in [Ids -> Goroutines]
  /\ Workers \subseteq Goroutines
  /\ \A i, j \in Ids :   \* every connection has two goroutines of its own
       /\ Openers[i] # Readers[j] /\ {Openers[i], Readers[j]} \cap Workers = {}
       /\ i # j => Openers[i] # Openers[j] /\ Readers[i] # Readers[j]
  /\ NoJob \notin Ids

VARIABLES
  stage,        \* where a goroutine of a connection is
  closed,       \* sessions whose closed flag is set
  sessions,     \* SessionManager.sessions
  userSession,  \* the connections indexed under the user
  currConnNum,
  job           \* the connection a worker has found alive

connVars == <<stage, closed, sessions, userSession, currConnNum>>
vars == <<wheelVars, connVars, job>>

Stages == {"none", "accepted", "inserting", "opened", "reading", "cancelling", "done"}

TypeOK ==
  /\ WheelTypeOK
  /\ stage \in [Range(Openers) \cup Range(Readers) -> Stages]
  /\ closed \subseteq Ids /\ sessions \subseteq Ids /\ userSession \subseteq Ids
  /\ currConnNum \in Int
  /\ job \in [Workers -> Ids \cup {NoJob}]

Init ==
  /\ WheelInit
  /\ stage = [g \in Range(Openers) \cup Range(Readers) |-> "none"]
  /\ closed = {} /\ sessions = {} /\ userSession = {}
  /\ currConnNum = 0
  /\ job = [w \in Workers |-> NoJob]

Goto(g, st) == stage' = [stage EXCEPT ![g] = st]

-----------------------------------------------------------------------------
(* Closing: by the reader, or by the opener when Bind failed *)

\* Mutant: the closed flag is not tested and set in one step.
CloseAgain(g, id) ==
  /\ closed' = closed \cup {id}
  /\ Cancel(g, id)
  /\ Goto(g, "cancelling")

Close(g, id) ==
  IF id \in closed
  THEN Goto(g, "done") /\ UNCHANGED <<closed, wheelVars>>
  ELSE /\ closed' = closed \cup {id}
       /\ Cancel(g, id)
       /\ Goto(g, "cancelling")

\* The rest of Close: the heartbeat is forgotten, then Manager.Delete.
Delete(g, id) ==
  /\ stage[g] = "cancelling"
  /\ \/ CancelForget(g)
     \/ frame[g] = Outside /\ UNCHANGED wheelVars
  /\ sessions' = sessions \ {id}
  /\ currConnNum' = currConnNum - 1
  /\ userSession' = userSession \ {id}
  /\ Goto(g, "done")
  /\ UNCHANGED <<closed, job>>

-----------------------------------------------------------------------------
(* Session.init *)

\* AllowAcceptConn is asked before the connection is upgraded and counted.
Accept(id) ==
  /\ stage[Openers[id]] = "none"
  /\ currConnNum < MaxOpenConns
  /\ Goto(Openers[id], "accepted")
  /\ UNCHANGED <<wheelVars, closed, sessions, userSession, currConnNum, job>>

Insert(id) ==
  /\ stage[Openers[id]] = "accepted"
  /\ currConnNum' = currConnNum + 1
  /\ sessions' = sessions \cup {id}
  /\ AddTask(Openers[id], id)
  /\ Goto(Openers[id], "inserting")
  /\ UNCHANGED <<closed, userSession, job>>

\* The rest of Insert, and the reader is started; only then is OnOpen called.
StartReader(id) ==
  /\ stage[Openers[id]] = "inserting"
  /\ AddTaskPush(Openers[id])
  /\ userSession' = userSession \cup {id}
  /\ stage' = [stage EXCEPT ![Openers[id]] = "opened", ![Readers[id]] = "reading"]
  /\ UNCHANGED <<closed, sessions, currConnNum, job>>

\* OnOpen may take its time; when it succeeds nothing changes here.
OnOpenFails(id) ==
  /\ stage[Openers[id]] = "opened"
  /\ Close(Openers[id], id)
  /\ UNCHANGED <<sessions, userSession, currConnNum, job>>

-----------------------------------------------------------------------------
(* The reader *)

\* The peer is gone, the deadline has passed or the socket was closed.
ReadFails(id) ==
  /\ stage[Readers[id]] = "reading"
  /\ Close(Readers[id], id)
  /\ UNCHANGED <<sessions, userSession, currConnNum, job>>

-----------------------------------------------------------------------------
(* onHeartbeatCallback *)

\* Mutant: neither the session nor its closed flag is looked at.
FiredUnchecked(w) ==
  /\ job[w] = NoJob
  /\ frame[w] = Outside
  /\ Receive
  /\ job' = [job EXCEPT ![w] = Head(consumer)]
  /\ UNCHANGED connVars

Fired(w) ==
  /\ job[w] = NoJob
  /\ frame[w] = Outside
  /\ Receive
  /\ job' = IF Head(consumer) \in sessions \ closed
            THEN [job EXCEPT ![w] = Head(consumer)] ELSE job
  /\ UNCHANGED connVars

\* The next heartbeat is scheduled; the session may have been closed since.
InsertAgain(w) ==
  /\ job[w] # NoJob
  /\ AddTask(w, job[w])
  /\ job' = [job EXCEPT ![w] = NoJob]
  /\ UNCHANGED connVars

-----------------------------------------------------------------------------
(* Specification *)

OpenerStep(id) ==
  \/ Insert(id) \/ StartReader(id)
  \/ Delete(Openers[id], id)

\* A goroutine that waited for a bucket.
WheelCallStep(g) ==
  /\ \/ CancelRemove(g)
     \/ g \in Workers /\ AddTaskPush(g)
  /\ UNCHANGED <<connVars, job>>

WheelStep ==
  /\ \/ AdvanceAndRun
     \/ \E s \in Slots : Execute(s)
  /\ UNCHANGED <<connVars, job>>

\* All but what OnOpen makes of its call to Redis.
SessionStep ==
  \/ \E id \in Ids :
       Accept(id) \/ OpenerStep(id) \/ ReadFails(id) \/ Delete(Readers[id], id)
  \/ \E w \in Workers : Fired(w) \/ InsertAgain(w)
  \/ \E g \in Goroutines : WheelCallStep(g)
  \/ WheelStep

Next == SessionStep \/ \E id \in Ids : OnOpenFails(id)

Spec == Init /\ [][Next]_vars

\* Goroutines are scheduled, time passes, and a mutex does not starve its
\* waiters; no connection has to come, to send or to go.
Fairness ==
  /\ \A id \in Ids :
       /\ SF_vars(OpenerStep(id))
       /\ WF_vars(Delete(Readers[id], id))
  /\ \A w \in Workers : WF_vars(Fired(w) \/ InsertAgain(w))
  /\ \A g \in Goroutines : SF_vars(WheelCallStep(g))
  /\ WF_vars(AdvanceAndRun /\ UNCHANGED <<connVars, job>>)
  /\ \A s \in Slots : WF_vars(Execute(s) /\ UNCHANGED <<connVars, job>>)

-----------------------------------------------------------------------------
(* Properties *)

\* The places a heartbeat of connection id can be: lists, channel, workers,
\* and goroutines about to put it into a list.
Heartbeats(id) ==
  (UNION {{<<"list", <<s, i>>>> : i \in {j \in DOMAIN bucket[s] : bucket[s][j].id = id}} : s \in Slots})
    \cup {<<"channel", i>> : i \in {j \in DOMAIN consumer : consumer[j] = id}}
    \cup {<<"worker", w>> : w \in {v \in Workers : job[v] = id}}
    \cup {<<"adding", g>> : g \in {h \in Goroutines : frame[h].pc = "addPush" /\ frame[h].id = id}}

\* A connection never has two heartbeats under way, although AddTask, Cancel
\* and the expiry of a slot each change list and map in separate steps.
OneHeartbeatPerConnection == \A id \in Ids : Cardinality(Heartbeats(id)) <= 1

\* An open connection has its next heartbeat under way: whatever is fired,
\* cancelled or added meanwhile, no connection drops out of the wheel.
HeartbeatNeverLost ==
  \A id \in sessions \ closed : Heartbeats(id) # {}

\* Connections are counted once when they come and once when they go, whoever
\* closes them.
ConnNumCountsSessions == currConnNum = Cardinality(sessions)

\* A closed connection leaves no heartbeat, no session and no index entry
\* behind, although its heartbeat may have been re-inserted after the close.
ClosedLeavesNothing ==
  \A id \in Ids :
    id \in closed ~> [](/\ Heartbeats(id) = {}
                        /\ id \notin sessions \cup userSession)
=============================================================================
