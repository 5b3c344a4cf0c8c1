--------------------------- MODULE ClientBinding ---------------------------
(***************************************************************************)
(* Who is on line: the hash im:user_clients of one user in Redis, with a   *)
(* field per connection and the time it was last renewed, composed with    *)
(* the connections themselves.                                             *)
(*                                                                         *)
(* The opener of a connection binds it in OnOpen, the reader renews it at  *)
(* every ping, whoever closes the connection unbinds it, and IsOnline, run *)
(* by requests of other processes, deletes what it has read as too old.    *)
(* The process may die at any moment; the hash stays.  That the whole hash *)
(* expires three days after its last renewal is left out.                  *)
(***************************************************************************)
EXTENDS LongnetSession

CONSTANTS Queries   \* requests that ask IsOnline

VARIABLES
  entry,   \* the field of a connection: none, renewed within a minute, or older
  bound,   \* connections whose OnOpen has returned
  unbound, \* connections whose OnClose has returned, or whose process died
  query    \* what a request inside IsOnline has read

bindVars == <<entry, bound, unbound, query>>
allVars == <<vars, bindVars>>

NoQuery == [at |-> "none"]

BindingTypeOK ==
  /\ TypeOK
  /\ entry \in [Ids -> {"none", "fresh", "stale"}]
  /\ bound \subseteq Ids /\ unbound \subseteq Ids
  /\ query \in [Queries -> {NoQuery} \cup [at: {"prune"}, old: (SUBSET Ids) \ {{}}]]

BindingInit ==
  /\ Init
  /\ entry = [id \in Ids |-> "none"]
  /\ bound = {} /\ unbound = {}
  /\ query = [q \in Queries |-> NoQuery]

-----------------------------------------------------------------------------
(* Handler *)

\* OnOpen, and nothing keeps the reader from having closed the connection.
Bind(id) ==
  /\ stage[Openers[id]] = "opened" /\ id \notin bound
  /\ entry' = [entry EXCEPT ![id] = "fresh"]
  /\ bound' = bound \cup {id}
  /\ UNCHANGED <<vars, unbound, query>>

\* An error in the pipeline, before or after the field was set.
BindFails(id) ==
  /\ id \notin bound
  /\ OnOpenFails(id)
  /\ entry' \in {entry, [entry EXCEPT ![id] = "fresh"]}
  /\ bound' = bound \cup {id}
  /\ UNCHANGED <<unbound, query>>

\* OnMessage of the reader, which may still be at it after a close.
Ping(id) ==
  /\ stage[Readers[id]] = "reading"
  /\ entry' = [entry EXCEPT ![id] = "fresh"]
  /\ UNCHANGED <<vars, bound, unbound, query>>

\* OnClose comes after Manager.Delete.
UnBind(id) ==
  /\ id \in closed \ (sessions \cup unbound)
  /\ entry' = [entry EXCEPT ![id] = "none"]
  /\ unbound' = unbound \cup {id}
  /\ UNCHANGED <<vars, bound, query>>

-----------------------------------------------------------------------------
(* UserClient.IsOnline *)

\* Mutant: the age is taken in the wrong unit.
ElapseNever(id) ==
  /\ entry[id] = "fresh"
  /\ UNCHANGED allVars

\* A minute passes without a ping.
Elapse(id) ==
  /\ entry[id] = "fresh"
  /\ entry' = [entry EXCEPT ![id] = "stale"]
  /\ UNCHANGED <<vars, bound, unbound, query>>

Old == {id \in Ids : entry[id] = "stale"}

\* Mutant: the deletion is sent even when there is nothing to delete.
IsOnlineReadAlways(q) ==
  /\ query[q] = NoQuery
  /\ query' = [query EXCEPT ![q] = [at |-> "prune", old |-> Old]]
  /\ UNCHANGED <<vars, entry, bound, unbound>>

IsOnlineRead(q) ==
  /\ query[q] = NoQuery
  /\ Old # {}
  /\ query' = [query EXCEPT ![q] = [at |-> "prune", old |-> Old]]
  /\ UNCHANGED <<vars, entry, bound, unbound>>

\* A ping may have renewed what is deleted here.
IsOnlinePrune(q) ==
  /\ query[q] # NoQuery
  /\ entry' = [id \in Ids |-> IF id \in query[q].old THEN "none" ELSE entry[id]]
  /\ query' = [query EXCEPT ![q] = NoQuery]
  /\ UNCHANGED <<vars, bound, unbound>>

-----------------------------------------------------------------------------
(* The process dies and starts anew *)

Come == {id \in Ids : stage[Openers[id]] # "none"}

Crash ==
  /\ stage' = [g \in DOMAIN stage |->
                 IF \E id \in Come : g \in {Openers[id], Readers[id]} THEN "done" ELSE stage[g]]
  /\ closed' = closed \cup Come
  /\ sessions' = {} /\ userSession' = {} /\ currConnNum' = 0
  /\ job' = [w \in Workers |-> NoJob]
  /\ currentPos' = 0
  /\ bucket' = [s \in Slots |-> <<>>]
  /\ running' = [s \in Slots |-> "no"]
  /\ globalTasks' = [id \in Ids |-> NoTask]
  /\ consumer' = <<>>
  /\ frame' = [g \in Goroutines |-> Outside]
  /\ bound' = bound \cup Come /\ unbound' = unbound \cup Come
  /\ UNCHANGED <<entry, query>>

-----------------------------------------------------------------------------
(* Specification *)

BindingNext ==
  \/ SessionStep /\ UNCHANGED bindVars
  \/ \E id \in Ids :
       Bind(id) \/ BindFails(id) \/ Ping(id) \/ UnBind(id) \/ Elapse(id)
  \/ \E q \in Queries : IsOnlineRead(q) \/ IsOnlinePrune(q)
  \/ Crash

\* Besides: a call to Redis returns, a read from a closed socket fails, and time
\* passes.  No client has to ping and nobody has to ask.
BindingFairness ==
  /\ Fairness
  /\ \A id \in Ids :
       /\ WF_allVars(Bind(id) \/ BindFails(id))
       /\ WF_allVars(UnBind(id))
       /\ WF_allVars(id \in closed /\ ReadFails(id) /\ UNCHANGED bindVars)
       /\ WF_allVars(Elapse(id))

BindingSpec == BindingInit /\ [][BindingNext]_allVars /\ BindingFairness

-----------------------------------------------------------------------------
(* Properties *)

\* A connection that is gone, in whatever order its opener bound it, its reader
\* renewed it and the closing goroutine unbound it, and even when its process
\* died, is not taken for on line for good.
GoneGoesOffline ==
  \A id \in Ids : id \in closed ~> [](entry[id] # "fresh")
=============================================================================
