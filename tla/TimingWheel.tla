----------------------------- MODULE TimingWheel -----------------------------
(***************************************************************************)
(* The timing wheel behind the heartbeat of long connections: a ticker     *)
(* goroutine, one goroutine per slot that comes due, a channel of fired    *)
(* tasks, and goroutines that call AddTask and Cancel at any moment.       *)
(*                                                                         *)
(* A critical section that cannot block is one step. Execute keeps its     *)
(* bucket locked while it sends to the channel, so it is split, and so are *)
(* AddTask and Cancel, which wait for a bucket after they read the map of  *)
(* tasks. The actions change the wheel's variables only: a module that     *)
(* uses the wheel conjoins its own. Stop is never called by the server and *)
(* is left out, as are the pooled Task objects.                            *)
(***************************************************************************)
EXTENDS Integers, Sequences, FiniteSets, SequencesExt

CONSTANTS
  Ids,         \* task ids
  Goroutines,  \* callers of AddTask and Cancel
  NumSlots,
  DelayTicks,  \* the delay of every task, in ticks
  Capacity,    \* of the channel of fired tasks
  Tokens       \* names that tell list elements of one id apart

ASSUME WheelAssumption ==
  /\ NumSlots \in Nat \ {0}
  /\ DelayTicks \in 1..(NumSlots - 1)
  /\ Capacity \in Nat \ {0}
  /\ \E a, b, c \in Tokens : a # b /\ a # c /\ b # c   \* an element is always new

VARIABLES
  currentPos,   \* modulo numSlots
  bucket,       \* bucket[s]: the list of slot s
  running,      \* running[s]: the Execute goroutine of slot s
  globalTasks,  \* where the element of an id is believed to be
  consumer,     \* the channel
  frame         \* what a goroutine inside AddTask or Cancel has still to do

wheelVars == <<currentPos, bucket, running, globalTasks, consumer, frame>>

Slots == 0..(NumSlots - 1)
Element == [id: Ids, token: Tokens]
TaskElement == [slotIdx: Slots, element: Element]
NoTask == [slotIdx |-> NumSlots]
Outside == [pc |-> "outside"]

Frame ==
  {Outside}
    \cup [pc: {"addPush"}, id: Ids, slot: Slots]
    \cup [pc: {"cancelRemove"}, id: Ids, old: TaskElement]
    \cup [pc: {"cancelForget"}, id: Ids]

WheelTypeOK ==
  /\ currentPos \in Slots
  /\ bucket \in [Slots -> Seq(Element)]
  /\ running \in [Slots -> {"no", "spawned", "sending"}]
  /\ globalTasks \in [Ids -> TaskElement \cup {NoTask}]
  /\ consumer \in Seq(Ids) /\ Len(consumer) <= Capacity
  /\ frame \in [Goroutines -> Frame]

WheelInit ==
  /\ currentPos = 0
  /\ bucket = [s \in Slots |-> <<>>]
  /\ running = [s \in Slots |-> "no"]
  /\ globalTasks = [id \in Ids |-> NoTask]
  /\ consumer = <<>>
  /\ frame = [g \in Goroutines |-> Outside]

-----------------------------------------------------------------------------
\* Execute holds the lock of a bucket until its list is empty.
Unlocked(s) == running[s] \in {"no", "spawned"}

\* Every element something still points to.
Referenced ==
  (UNION {Range(bucket[s]) : s \in Slots})
    \cup {globalTasks[id].element : id \in {i \in Ids : globalTasks[i] # NoTask}}
    \cup {frame[g].old.element : g \in {h \in Goroutines : frame[h].pc = "cancelRemove"}}

FreshElement(id) ==
  [id |-> id, token |-> CHOOSE t \in Tokens : [id |-> id, token |-> t] \notin Referenced]

\* list.Remove does nothing for an element that left the list before.
Without(s, e) ==
  IF e \notin Range(bucket[s]) THEN bucket[s]
  ELSE RemoveAt(bucket[s], CHOOSE i \in DOMAIN bucket[s] : bucket[s][i] = e)

-----------------------------------------------------------------------------
(* AddTask *)

\* The position is read without a lock and may be stale when it is used. An
\* older element of the id is removed; a heartbeat has none left when it is added.
AddTask(g, id) ==
  /\ frame[g] = Outside
  /\ frame' = [frame EXCEPT ![g] =
                 [pc |-> "addPush", id |-> id, slot |-> (currentPos + DelayTicks) % NumSlots]]
  /\ LET old == globalTasks[id]
     IN  IF old = NoTask THEN UNCHANGED bucket
         ELSE /\ Unlocked(old.slotIdx)
              /\ bucket' = [bucket EXCEPT ![old.slotIdx] = Without(old.slotIdx, old.element)]
  /\ UNCHANGED <<currentPos, running, globalTasks, consumer>>

\* The element is added to the slot's list and then, the bucket unlocked, to the
\* map. Only the slot's own expiry, half a minute away, could tell the two apart.
AddTaskPush(g) ==
  /\ frame[g].pc = "addPush"
  /\ LET s == frame[g].slot
         e == FreshElement(frame[g].id)
     IN  /\ Unlocked(s)
         /\ bucket' = [bucket EXCEPT ![s] = Append(@, e)]
         /\ globalTasks' = [globalTasks EXCEPT ![e.id] = [slotIdx |-> s, element |-> e]]
  /\ frame' = [frame EXCEPT ![g] = Outside]
  /\ UNCHANGED <<currentPos, running, consumer>>

-----------------------------------------------------------------------------
(* Cancel *)

Cancel(g, id) ==
  /\ frame[g] = Outside
  /\ frame' = IF globalTasks[id] = NoTask THEN frame
              ELSE [frame EXCEPT ![g] = [pc |-> "cancelRemove", id |-> id, old |-> globalTasks[id]]]
  /\ UNCHANGED <<currentPos, bucket, running, globalTasks, consumer>>

CancelRemove(g) ==
  /\ frame[g].pc = "cancelRemove"
  /\ LET old == frame[g].old
     IN  /\ Unlocked(old.slotIdx)
         /\ bucket' = [bucket EXCEPT ![old.slotIdx] = Without(old.slotIdx, old.element)]
  /\ frame' = [frame EXCEPT ![g] = [pc |-> "cancelForget", id |-> frame[g].id]]
  /\ UNCHANGED <<currentPos, running, globalTasks, consumer>>

CancelForget(g) ==
  /\ frame[g].pc = "cancelForget"
  /\ globalTasks' = [globalTasks EXCEPT ![frame[g].id] = NoTask]
  /\ frame' = [frame EXCEPT ![g] = Outside]
  /\ UNCHANGED <<currentPos, bucket, running, consumer>>

-----------------------------------------------------------------------------
(* The ticker and the slots that come due *)

\* A second passes. A bound: the goroutine of a slot has ended when the hand comes
\* round to the slot again.
AdvanceAndRun ==
  /\ running[currentPos] = "no"
  /\ running' = [running EXCEPT ![currentPos] = "spawned"]
  /\ currentPos' = (currentPos + 1) % NumSlots
  /\ UNCHANGED <<bucket, globalTasks, consumer, frame>>

\* The bucket is locked to its last element. Each is forgotten, then sent; that the
\* next one is forgotten by the step that sends hides nothing.
ExecuteNext(s, list) ==
  /\ bucket' = [bucket EXCEPT ![s] = list]
  /\ running' = [running EXCEPT ![s] = IF list = <<>> THEN "no" ELSE "sending"]
  /\ globalTasks' = IF list = <<>> THEN globalTasks
                    ELSE [globalTasks EXCEPT ![Head(list).id] = NoTask]

ExecuteLock(s) ==
  /\ running[s] = "spawned"
  /\ ExecuteNext(s, bucket[s])
  /\ UNCHANGED <<currentPos, consumer, frame>>

\* Mutant: a full channel loses the task.
ExecuteSendOrDrop(s) ==
  /\ running[s] = "sending"
  /\ consumer' = IF Len(consumer) < Capacity THEN Append(consumer, Head(bucket[s]).id) ELSE consumer
  /\ ExecuteNext(s, Tail(bucket[s]))
  /\ UNCHANGED <<currentPos, frame>>

\* Mutant: the element stays in its list for the next round.
ExecuteSendAndKeep(s) ==
  /\ running[s] = "sending"
  /\ Len(consumer) < Capacity
  /\ consumer' = Append(consumer, Head(bucket[s]).id)
  /\ running' = [running EXCEPT ![s] = "no"]
  /\ UNCHANGED <<currentPos, bucket, globalTasks, frame>>

\* The send blocks on a full channel, with the bucket locked.
ExecuteSend(s) ==
  /\ running[s] = "sending"
  /\ Len(consumer) < Capacity
  /\ consumer' = Append(consumer, Head(bucket[s]).id)
  /\ ExecuteNext(s, Tail(bucket[s]))
  /\ UNCHANGED <<currentPos, frame>>

Execute(s) == ExecuteLock(s) \/ ExecuteSend(s)

\* A worker receives a fired task.
Receive ==
  /\ consumer # <<>>
  /\ consumer' = Tail(consumer)
  /\ UNCHANGED <<currentPos, bucket, running, globalTasks, frame>>
=============================================================================
