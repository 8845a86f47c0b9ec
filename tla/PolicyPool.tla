----------------------------- MODULE PolicyPool ------------------------------
(***************************************************************************)
(* The pool of sandboxed Lua worker processes (policy.rs).  A caller scans  *)
(* the slots from a rotating start, tries each slot's lock, and owns the    *)
(* slot's process while it waits for one answer; the process may crash or   *)
(* hang, the caller may give up, and the pool may be shut down meanwhile.   *)
(***************************************************************************)
EXTENDS Integers, FiniteSets

CONSTANTS
  Slots,       \* number of slots
  Tasks,       \* callers
  MaxCalls,    \* bound on the calls of one caller
  MaxSpawned   \* bound on the processes started

VARIABLES
  slot,       \* slots: holder of the lock, process, cooling down
  process,    \* processes: "unborn", "live" or "dead", with their two pipes
  task,       \* callers: step, slot index, slots left, process, call, answer
  nextSlot,   \* PolicyPool.next_slot
  closed,     \* PolicyPool.closed
  stopping    \* shutdown: 0 before, slot being stopped, Slots + 1 when done

poolVars == <<slot, process, task, nextSlot, closed, stopping>>

Unheld == "free"
ASSUME PoolAssumption ==
  Slots \in Nat \ {0} /\ MaxCalls \in Nat /\ MaxSpawned \in Nat /\ Unheld \notin Tasks
NoProcess == 0
Processes == 1..MaxSpawned
NoCall == <<Unheld, 0>>
IdleTask == [at |-> "idle", slot |-> 1, left |-> 0, process |-> NoProcess, call |-> 0, answer |-> NoCall]

PoolInit ==
  /\ slot = [s \in 1..Slots |-> [holder |-> Unheld, process |-> NoProcess, cooling |-> FALSE]]
  /\ process = [p \in Processes |-> [state |-> "unborn", request |-> NoCall, response |-> NoCall]]
  /\ task = [t \in Tasks |-> IdleTask]
  /\ nextSlot = 0 /\ closed = FALSE /\ stopping = 0

CallOf(t) == <<t, task[t].call>>
SlotAfter(s) == (s % Slots) + 1
Unborn == {p \in Processes : process[p].state = "unborn"}
Lives(p) == p # NoProcess /\ process[p].state = "live"
Killed(p) == [process EXCEPT ![p] = [state |-> "dead", request |-> NoCall, response |-> NoCall]]
\* The caller ends; its call number stays.
TaskOver(t) == [task EXCEPT ![t] = [IdleTask EXCEPT !.call = task[t].call]]
Unlocked(s) == [slot EXCEPT ![s].holder = Unheld]

----------------------------------------------------------------------------
(* dispatch *)

Dispatch(t) ==
  /\ task[t].at = "idle" /\ task[t].call < MaxCalls /\ ~closed
  /\ task' = [task EXCEPT ![t] = [IdleTask EXCEPT !.at = "scan", !.slot = nextSlot + 1,
                                                  !.left = Slots, !.call = task[t].call + 1]]
  /\ nextSlot' = (nextSlot + 1) % Slots
  /\ UNCHANGED <<slot, process, closed, stopping>>

\* try_lock never waits; past the last slot the pool is saturated.
TrySlot(t) ==
  LET s == task[t].slot
  IN /\ task[t].at = "scan"
     /\ IF task[t].left = 0 THEN task' = TaskOver(t) /\ UNCHANGED slot
        ELSE IF slot[s].holder # Unheld
        THEN /\ task' = [task EXCEPT ![t].slot = SlotAfter(s), ![t].left = @ - 1]
             /\ UNCHANGED slot
        ELSE /\ slot' = [slot EXCEPT ![s].holder = t]
             /\ task' = [task EXCEPT ![t].at = "locked"]
     /\ UNCHANGED <<process, nextSlot, closed, stopping>>

ClosedNow == closed

\* With the lock: closed ends the call, a cooling slot is skipped, a process
\* that still lives is taken, and otherwise one is spawned.
EnterSlot(t) ==
  LET s == task[t].slot
      owned(p) == /\ slot' = [slot EXCEPT ![s].process = NoProcess, ![s].cooling = TRUE]
                  /\ task' = [task EXCEPT ![t].at = "write", ![t].process = p]
  IN /\ task[t].at = "locked"
     /\ \/ ClosedNow /\ slot' = Unlocked(s) /\ task' = TaskOver(t) /\ UNCHANGED process
        \/ /\ ~ClosedNow /\ slot[s].cooling
           /\ slot' = Unlocked(s)
           /\ task' = [task EXCEPT ![t].at = "scan", ![t].slot = SlotAfter(s), ![t].left = @ - 1]
           /\ UNCHANGED process
        \/ /\ ~ClosedNow /\ ~slot[s].cooling
           /\ \/ /\ Lives(slot[s].process)
                 /\ owned(slot[s].process) /\ UNCHANGED process
              \/ /\ ~Lives(slot[s].process)
                 /\ \/ \E p \in Unborn :
                         /\ \A q \in Unborn : p <= q
                         /\ owned(p) /\ process' = [process EXCEPT ![p].state = "live"]
                    \/ \* the spawn fails
                       /\ slot' = [slot EXCEPT ![s] = [holder |-> Unheld, process |-> NoProcess,
                                                       cooling |-> TRUE]]
                       /\ task' = TaskOver(t) /\ UNCHANGED process
     /\ UNCHANGED <<nextSlot, closed, stopping>>

\* The request frame is written.
WriteRequest(t) ==
  /\ task[t].at = "write" /\ process[task[t].process].state = "live"
  /\ process' = [process EXCEPT ![task[t].process].request = CallOf(t)]
  /\ task' = [task EXCEPT ![t].at = "wait"]
  /\ UNCHANGED <<slot, nextSlot, closed, stopping>>

\* A complete answer: the process goes back to its slot.
ReadResponse(t) ==
  LET p == task[t].process
  IN /\ task[t].at = "wait" /\ process[p].response # NoCall
     /\ process' = [process EXCEPT ![p].response = NoCall]
     /\ slot' = [slot EXCEPT ![task[t].slot] = [holder |-> Unheld, process |-> p, cooling |-> FALSE]]
     /\ task' = [task EXCEPT ![t].at = "answered", ![t].answer = process[p].response]
     /\ UNCHANGED <<nextSlot, closed, stopping>>

\* The call times out, a pipe breaks, or the answer is of the wrong kind.
Terminate(t) ==
  /\ task[t].at \in {"write", "wait"}
  /\ process' = Killed(task[t].process)
  /\ slot' = Unlocked(task[t].slot) /\ task' = TaskOver(t)
  /\ UNCHANGED <<nextSlot, closed, stopping>>

\* Mutant: a caller that gives up leaves its process to the slot.
CancelKeepingProcess(t) ==
  /\ task[t].at \in {"scan", "locked", "write", "wait"} /\ task' = TaskOver(t)
  /\ slot' = IF task[t].at = "scan" THEN slot
             ELSE [slot EXCEPT ![task[t].slot] =
                    [holder |-> Unheld, cooling |-> FALSE,
                     process |-> IF task[t].at = "locked" THEN @.process ELSE task[t].process]]
  /\ UNCHANGED <<process, nextSlot, closed, stopping>>

\* The client goes away: dropping the future kills the process it owns.
CancelCall(t) ==
  /\ task[t].at \in {"write", "wait"} /\ task' = TaskOver(t)
  /\ process' = Killed(task[t].process)
  /\ slot' = Unlocked(task[t].slot)
  /\ UNCHANGED <<nextSlot, closed, stopping>>

ReturnAnswer(t) ==
  /\ task[t].at = "answered" /\ task' = TaskOver(t)
  /\ UNCHANGED <<slot, process, nextSlot, closed, stopping>>

----------------------------------------------------------------------------
(* The process, time and shutdown *)

\* worker_main answers one frame at a time.
WorkerAnswers(p) ==
  /\ process[p].state = "live" /\ process[p].request # NoCall
  /\ process' = [process EXCEPT ![p].request = NoCall, ![p].response = process[p].request]
  /\ UNCHANGED <<slot, task, nextSlot, closed, stopping>>

WorkerDies(p) ==
  /\ process[p].state = "live" /\ process' = Killed(p)
  /\ UNCHANGED <<slot, task, nextSlot, closed, stopping>>

CooledDown(s) ==
  /\ slot[s].cooling /\ slot' = [slot EXCEPT ![s].cooling = FALSE]
  /\ UNCHANGED <<process, task, nextSlot, closed, stopping>>

ShutdownPool ==
  /\ ~closed /\ closed' = TRUE /\ stopping' = 1
  /\ UNCHANGED <<slot, process, task, nextSlot>>

\* Each slot in turn: wait for its lock, stop its process, gracefully or not.
StopSlot ==
  /\ stopping \in 1..Slots /\ slot[stopping].holder = Unheld
  /\ process' = IF slot[stopping].process = NoProcess THEN process ELSE Killed(slot[stopping].process)
  /\ slot' = [slot EXCEPT ![stopping].process = NoProcess]
  /\ stopping' = stopping + 1
  /\ UNCHANGED <<task, nextSlot, closed>>

PoolNext ==
  \/ \E t \in Tasks : Dispatch(t) \/ TrySlot(t) \/ EnterSlot(t) \/ WriteRequest(t) \/ ReadResponse(t)
                      \/ Terminate(t) \/ CancelCall(t) \/ ReturnAnswer(t)
  \/ \E p \in Processes : WorkerAnswers(p) \/ WorkerDies(p)
  \/ \E s \in 1..Slots : CooledDown(s)
  \/ ShutdownPool \/ StopSlot

PoolSpec == PoolInit /\ [][PoolNext]_poolVars

----------------------------------------------------------------------------
(* Properties *)

\* The decision a caller receives is the one for its own request: answers of
\* timed-out, cancelled or crashed calls never reach a later caller.
OwnAnswer == \A t \in Tasks : task[t].at = "answered" => task[t].answer = CallOf(t)

\* Once shutdown has returned no worker process lives, however calls that had
\* already passed the first closed check interleave with it.
ShutdownFinal == stopping > Slots => \A p \in Processes : process[p].state # "live"

\* Live processes never exceed the slots, and each has exactly one owner: the
\* slot it rests in or the caller that talks to it.
ProcessOwned ==
  \A p \in Processes : process[p].state = "live" =>
    Cardinality({s \in 1..Slots : slot[s].process = p})
      + Cardinality({t \in Tasks : task[t].process = p /\ task[t].at \in {"write", "wait"}}) = 1

\* No worker process is ever lost, shared or left behind.
WorkersAccounted == ProcessOwned /\ ShutdownFinal

\* Callers get their own answers from workers that are all accounted for.
PoolSound == OwnAnswer /\ WorkersAccounted
=============================================================================
